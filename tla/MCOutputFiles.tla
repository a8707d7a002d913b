---------------------------- MODULE MCOutputFiles ----------------------------
(* OutputFiles for TLC: every command asks for the output <<1>>; the torrent  *)
(* also holds <<2>>. The policies are corners of the option space.            *)
EXTENDS OutputFiles

CONSTANTS h, k, m, t

DesiredOne == [c \in {h, k, m} |-> <<1>>]
LayoutTwo == [c \in {t} |-> {<<1>>, <<2>>}]
TwoEach == [c \in Commands |-> 2]
TwoForMetalinks == [c \in Commands |-> IF c \in Metalinks THEN 2 ELSE 1]
OrderPair == <<h, k>>
OrderThree == <<h, m, t>>
FoundNothing == {{}}
FoundOne == {{<<1>>}}

Plain == [overwrite |-> FALSE, rename |-> TRUE, continue |-> FALSE, integrity |-> FALSE,
          forget |-> FALSE, fresh |-> FALSE, prealloc |-> FALSE]
Resuming == [Plain EXCEPT !.rename = FALSE, !.continue = TRUE, !.fresh = TRUE,
                          !.forget = TRUE, !.prealloc = TRUE]
Checking == [Plain EXCEPT !.overwrite = TRUE, !.continue = TRUE, !.integrity = TRUE]
OnlyPlain == {Plain}
Corners == {Resuming, Checking}
=============================================================================
