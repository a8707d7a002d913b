-------------------------- MODULE OutputFilesProofs --------------------------
(***************************************************************************)
(* Claims on output paths are exclusive and match the registry, for every  *)
(* set of commands, paths, layouts and policies.                           *)
(*                                                                         *)
(* Every action is of one of three kinds: it claims paths that are not     *)
(* registered, it releases what a command holds, or it leaves claims and   *)
(* holders alone. One lemma for each kind, one step for each action.       *)
(***************************************************************************)
EXTENDS OutputFiles, FiniteSetTheorems, TLAPS

\* The functions of the commands are functions of the commands.
Shape ==
    /\ pc \in [Commands -> Waypoints]
    /\ DOMAIN path = Commands
    /\ robbed \subseteq Commands
ClaimInv == Shape /\ Exclusive /\ ClaimsMatch

\* The aborted tasks, whose claims nobody releases.
Aborted(c) == pc[c] = "aborted"

\* c claims paths that are not registered.
Claims(c, ps) ==
    /\ c \in Commands /\ ~Owning(c) /\ ~Aborted(c) /\ ps \cap registry = {}
    /\ registry' = registry \cup ps /\ robbed' = robbed \ {c}
    /\ Held(c)' = ps /\ Owning(c)'
    /\ \A d \in Commands \ {c} : Held(d)' = Held(d) /\ (Owning(d)' <=> Owning(d)) /\ (Aborted(d)' <=> Aborted(d))
\* c gives up what it holds, whether or not it still owns it.
Releases(c) ==
    /\ c \in Commands /\ Release(c) /\ ~Owning(c)'
    /\ \A d \in Commands : Held(d)' = Held(d)
    /\ \A d \in Commands \ {c} : (Owning(d)' <=> Owning(d)) /\ (Aborted(d)' <=> Aborted(d))
\* Nobody claims or releases; an owner may be aborted.
Keeps ==
    /\ UNCHANGED <<registry, robbed>>
    /\ \A d \in Commands :
        /\ Held(d)' = Held(d) /\ (Owning(d)' => Owning(d))
        /\ (Owning(d) \/ Aborted(d)) => Owning(d)' \/ Aborted(d)'

\* A command that claims free paths keeps them to itself.
LEMMA ClaimsStep ==
    ASSUME ClaimInv, NEW c, NEW ps, Claims(c, ps) PROVE Exclusive' /\ ClaimsMatch'
<1> USE DEF ClaimInv, Claims, Aborted
<1>1. ASSUME NEW a \in Commands, NEW b \in Commands, a # b, Owning(a)', Owning(b)',
             Held(a)' \cap Held(b)' # {}
      PROVE a \in robbed' \/ b \in robbed'
  <2>1. CASE a = c
    <3>1. b \in robbed
      BY <1>1, <2>1 DEF ClaimsMatch
    <3> QED BY <3>1, <1>1, <2>1
  <2>2. CASE b = c
    <3>1. a \in robbed
      BY <1>1, <2>2 DEF ClaimsMatch
    <3> QED BY <3>1, <1>1, <2>2
  <2>3. CASE a # c /\ b # c
    BY <1>1, <2>3 DEF Exclusive
  <2> QED BY <2>1, <2>2, <2>3
<1>2. ASSUME NEW a \in Commands, Owning(a)', a \notin robbed' PROVE Held(a)' \subseteq registry'
  BY <1>2 DEF ClaimsMatch
<1>3. ASSUME NEW p \in registry'
      PROVE \E a \in Commands : p \in Held(a)' /\ (Owning(a)' \/ pc'[a] = "aborted")
  <2>1. CASE p \in ps
    BY <2>1
  <2>2. CASE p \in registry
    <3>1. PICK a \in Commands : p \in Held(a) /\ (Owning(a) \/ pc[a] = "aborted")
      BY <2>2 DEF ClaimsMatch
    <3> QED BY <3>1
  <2> QED BY <2>1, <2>2
<1>4. Exclusive'
  BY <1>1 DEF Exclusive
<1>5. ClaimsMatch'
  BY <1>2, <1>3 DEF ClaimsMatch
<1> QED BY <1>4, <1>5

\* A release gives up what nobody else holds.
LEMMA ReleasesStep ==
    ASSUME ClaimInv, NEW c, Releases(c) PROVE Exclusive' /\ ClaimsMatch'
<1> USE DEF ClaimInv, Releases, Release, Aborted
<1>1. ASSUME NEW a \in Commands, NEW b \in Commands, a # b, Owning(a)', Owning(b)',
             Held(a)' \cap Held(b)' # {}
      PROVE a \in robbed' \/ b \in robbed'
  BY <1>1 DEF Exclusive
<1>2. ASSUME NEW a \in Commands, Owning(a)', a \notin robbed' PROVE Held(a)' \subseteq registry'
  <2>1. a # c /\ Owning(a) /\ a \notin robbed /\ a \notin Others(c, Held(c))
    BY <1>2
  <2>2. Held(a) \cap Held(c) = {}
    BY <2>1 DEF Others
  <2> QED BY <2>1, <2>2 DEF ClaimsMatch
<1>3. ASSUME NEW p \in registry'
      PROVE \E a \in Commands : p \in Held(a)' /\ (Owning(a)' \/ pc'[a] = "aborted")
  <2>1. PICK a \in Commands : p \in Held(a) /\ (Owning(a) \/ pc[a] = "aborted")
    BY <1>3 DEF ClaimsMatch
  <2>2. a # c
    BY <1>3, <2>1
  <2> QED BY <2>1, <2>2
<1>4. Exclusive'
  BY <1>1 DEF Exclusive
<1>5. ClaimsMatch'
  BY <1>2, <1>3 DEF ClaimsMatch
<1> QED BY <1>4, <1>5

\* Steps that touch neither paths nor owners.
LEMMA KeepsStep ==
    ASSUME ClaimInv, Keeps PROVE Exclusive' /\ ClaimsMatch'
<1> USE DEF ClaimInv, Keeps, Aborted
<1>1. Exclusive'
  BY DEF Exclusive
<1>2. ASSUME NEW p \in registry'
      PROVE \E a \in Commands : p \in Held(a)' /\ (Owning(a)' \/ pc'[a] = "aborted")
  <2>1. PICK a \in Commands : p \in Held(a) /\ (Owning(a) \/ pc[a] = "aborted")
    BY <1>2 DEF ClaimsMatch
  <2> QED BY <2>1
<1>3. ClaimsMatch'
  BY <1>2 DEF ClaimsMatch
<1> QED BY <1>1, <1>3

-----------------------------------------------------------------------------
\* Where a command owns its paths.
Places == {"detect", "integrity", "allocate", "waiting", "transfer", "finishing"}

\* What moving a command along its program does to the three kinds of steps.
LEMMA KeepsMove ==
    ASSUME Shape, NEW c \in Commands, NEW w \in Waypoints, Goto(c, w),
           UNCHANGED <<registry, robbed, path>>, pc[c] # "aborted",
           w \in Places => Owning(c), Owning(c) => w \in Places \cup {"aborted"}
    PROVE  Keeps /\ Shape'
<1>1. pc'[c] = w /\ \A d \in Commands \ {c} : pc'[d] = pc[d]
  BY DEF Goto, Shape
<1>2. Shape'
  BY DEF Goto, Shape
<1>3. \A d \in Commands : Held(d)' = Held(d)
  BY DEF Held
<1>4. Keeps
  BY <1>1, <1>3 DEF Keeps, Owning, Aborted, Places
<1> QED BY <1>2, <1>4

\* Leaving the places that own a path, with the release, is of the releasing kind.
LEMMA ReleasesMove ==
    ASSUME Shape, NEW c \in Commands, NEW w \in Waypoints \ Places, Goto(c, w),
           Release(c), UNCHANGED path
    PROVE  Releases(c) /\ Shape'
<1>1. pc'[c] = w /\ \A d \in Commands \ {c} : pc'[d] = pc[d]
  BY DEF Goto, Shape
<1>2. Shape'
  BY DEF Goto, Shape, Release, Others
<1>3. \A d \in Commands : Held(d)' = Held(d)
  BY DEF Held
<1>4. Releases(c)
  BY <1>1, <1>3 DEF Releases, Owning, Aborted, Places
<1> QED BY <1>2, <1>4

\* Entering a place that owns a path, with the claim, is of the claiming kind.
LEMMA ClaimsMove ==
    ASSUME Shape, NEW c \in Commands \ Torrents, NEW w \in Waypoints \cap Places, Goto(c, w),
           NEW p, p \notin registry, pc[c] = "attempt",
           Claim(c, {p}), path' = [path EXCEPT ![c] = p]
    PROVE  Claims(c, {p}) /\ Shape'
<1>1. pc'[c] = w /\ \A d \in Commands \ {c} : pc'[d] = pc[d]
  BY DEF Goto, Shape
<1>2. path'[c] = p /\ \A d \in Commands \ {c} : path'[d] = path[d]
  BY DEF Shape
<1>3. Shape'
  BY DEF Goto, Shape, Claim
<1>4. Held(c)' = {p} /\ \A d \in Commands \ {c} : Held(d)' = Held(d)
  BY <1>2 DEF Held
<1>5. Claims(c, {p})
  BY <1>1, <1>4 DEF Claims, Claim, Owning, Aborted, Places
<1> QED BY <1>3, <1>5

\* Both resolutions return paths that nobody has registered.
LEMMA ResolveFree == \A q : \A p \in Resolve(q) : p \notin registry
  BY DEF Resolve, FirstFree

\* So does the resolution with the overwrite policy.
LEMMA PolicyFree ==
    \A c, q, cs, fits : \A p \in ResolveWithPolicy(c, q, cs, fits) : p \notin registry
  BY DEF ResolveWithPolicy, FirstFree

\* A command is of one protocol.
LEMMA Disjoint ==
    /\ Https \subseteq Commands \ Torrents /\ Metalinks \subseteq Commands \ Torrents
    /\ Torrents \subseteq Commands
  BY OutputAssumption DEF Commands

-----------------------------------------------------------------------------
\* The conclusion of each step: it is of one of the three kinds.
Kind ==
    /\ Shape'
    /\ Keeps \/ (\E c : Releases(c)) \/ (\E c, ps : Claims(c, ps))

\* Steps of the three kinds keep the invariant.
LEMMA KindSuffices == ClaimInv /\ Kind => ClaimInv'
  BY ClaimsStep, ReleasesStep, KeepsStep DEF Kind, ClaimInv

\* A failed attempt releases its path, whatever comes next.
LEMMA AttemptFailsKind ==
    ASSUME Shape, NEW c \in Commands, AttemptFails(c), UNCHANGED path PROVE Kind
<1>1. PICK w \in {"attempt", "failed"} : Goto(c, w)
  BY DEF AttemptFails, NextUri
<1> QED BY <1>1, ReleasesMove DEF AttemptFails, Kind, Waypoints, Ended, Places

\* Every step of an HTTP command is of a kind.
LEMMA HttpKind ==
    ASSUME Shape, NEW c \in Commands, Http(c) PROVE Kind
<1> USE Disjoint
<1>1. CASE ProbeFails(c)
  <2>1. PICK w \in {"attempt", "failed"} : Goto(c, w)
    BY <1>1 DEF ProbeFails, NextUri
  <2>2. ~Owning(c) /\ pc[c] # "aborted" /\ UNCHANGED <<registry, robbed, path>>
    BY <1>1 DEF ProbeFails, Owning
  <2> QED BY <2>1, <2>2, KeepsMove DEF Kind, Waypoints, Ended, Places
<1>2. CASE ResolveFirst(c)
  <2>1. PICK fits \in BOOLEAN :
          LET choices == ResolveWithPolicy(c, path[c], Checkpoints(c), fits) IN
          \/ \E p \in choices : Claim(c, {p}) /\ path' = [path EXCEPT ![c] = p] /\ Goto(c, "detect")
          \/ NextUri(c, uris[c] - 1) /\ UNCHANGED <<registry, path, robbed>>
    BY <1>2 DEF ResolveFirst
  <2>2. c \in Commands \ Torrents /\ pc[c] = "attempt"
    BY <1>2 DEF ResolveFirst
  <2>3. CASE NextUri(c, uris[c] - 1) /\ UNCHANGED <<registry, path, robbed>>
    <3>1. PICK w \in {"attempt", "failed"} : Goto(c, w)
      BY <2>3 DEF NextUri
    <3> QED BY <3>1, <2>2, <2>3, KeepsMove DEF Kind, Waypoints, Ended, Places, Owning
  <2>4. ASSUME NEW p \in ResolveWithPolicy(c, path[c], Checkpoints(c), fits),
               Claim(c, {p}), path' = [path EXCEPT ![c] = p], Goto(c, "detect")
        PROVE Kind
    <3>1. p \notin registry
      BY PolicyFree
    <3>2. Claims(c, {p}) /\ Shape'
      BY <2>2, <2>4, <3>1, ClaimsMove DEF Waypoints, Places
    <3> QED BY <3>2 DEF Kind
  <2> QED BY <2>1, <2>3, <2>4
<1>3. CASE ResolveAgain(c)
  <2>1. PICK p \in Resolve(path[c]) : Claim(c, {p}) /\ path' = [path EXCEPT ![c] = p]
    BY <1>3 DEF ResolveAgain
  <2>2. p \notin registry
    BY ResolveFree
  <2>3. Claims(c, {p}) /\ Shape'
    BY <1>3, <2>1, <2>2, ClaimsMove DEF ResolveAgain, Waypoints, Places
  <2> QED BY <2>3 DEF Kind
<1>4. CASE DetectFails(c)
  BY <1>4, AttemptFailsKind DEF DetectFails
<1>5. CASE DetectComplete(c)
  BY <1>5, ReleasesMove DEF DetectComplete, Kind, Waypoints, Ended, Places
<1>6. CASE DetectPartial(c)
  <2>1. CASE AttemptFails(c)
    BY <1>6, <2>1, AttemptFailsKind DEF DetectPartial
  <2>2. CASE ~AttemptFails(c)
    <3>1. PICK w \in {"integrity", "allocate"} : Goto(c, w)
      BY <1>6, <2>2 DEF DetectPartial
    <3> QED BY <1>6, <2>2, <3>1, KeepsMove DEF DetectPartial, Kind, Waypoints, Ended, Places, Owning
  <2> QED BY <2>1, <2>2
<1>7. CASE IntegrityVerified(c)
  BY <1>7, ReleasesMove DEF IntegrityVerified, Kind, Waypoints, Ended, Places
<1>8. CASE IntegrityChecked(c)
  <2>1. CASE AttemptFails(c)
    BY <1>8, <2>1, AttemptFailsKind DEF IntegrityChecked
  <2>2. CASE ~AttemptFails(c)
    BY <1>8, <2>2, KeepsMove DEF IntegrityChecked, Kind, Waypoints, Ended, Places, Owning
  <2> QED BY <2>1, <2>2
<1>9. CASE TransferOk(c)
  BY <1>9, KeepsMove DEF TransferOk, Kind, Waypoints, Ended, Places, Owning
<1>10. CASE TransferFails(c)
  BY <1>10, AttemptFailsKind DEF TransferFails
<1>11. CASE CannotResume(c)
  <2>1. PICK w \in {"fresh", "attempt", "failed"} : Goto(c, w)
    BY <1>11 DEF CannotResume, NextUri
  <2> QED BY <1>11, <2>1, ReleasesMove DEF CannotResume, Kind, Waypoints, Ended, Places
<1>12. CASE Finalize(c)
  <2>1. PICK w \in {"done", "attempt", "failed"} : Goto(c, w)
    BY <1>12 DEF Finalize, NextUri
  <2> QED BY <1>12, <2>1, ReleasesMove DEF Finalize, Kind, Waypoints, Ended, Places
<1>13. CASE FreshStart(c)
  BY <1>13, KeepsMove DEF FreshStart, Kind, Waypoints, Ended, Places, Owning
<1>14. CASE FreshStartFails(c)
  BY <1>14, KeepsMove DEF FreshStartFails, Kind, Waypoints, Ended, Places, Owning
<1> QED BY <1>1, <1>2, <1>3, <1>4, <1>5, <1>6, <1>7, <1>8, <1>9, <1>10, <1>11, <1>12, <1>13, <1>14 DEF Http

\* Every step of a Metalink command is of a kind.
LEMMA MetalinkKind ==
    ASSUME Shape, NEW c \in Commands, Metalink(c) PROVE Kind
<1> USE Disjoint
<1>1. CASE MetalinkResolve(c)
  <2>1. PICK p \in Resolve(path[c]) : Claim(c, {p}) /\ path' = [path EXCEPT ![c] = p]
    BY <1>1 DEF MetalinkResolve
  <2>2. p \notin registry
    BY ResolveFree
  <2>3. Claims(c, {p}) /\ Shape'
    BY <1>1, <2>1, <2>2, ClaimsMove DEF MetalinkResolve, Waypoints, Places
  <2> QED BY <2>3 DEF Kind
<1>2. CASE MetalinkMirrorFails(c)
  BY <1>2 DEF MetalinkMirrorFails, Kind, Keeps, Shape, Held, Owning, Aborted
<1>3. CASE MetalinkOk(c)
  BY <1>3, ReleasesMove DEF MetalinkOk, Kind, Waypoints, Ended, Places
<1>4. CASE MetalinkFails(c)
  <2>1. PICK w \in {"failed", "fallback"} : Goto(c, w)
    BY <1>4 DEF MetalinkFails
  <2> QED BY <1>4, <2>1, ReleasesMove DEF MetalinkFails, Kind, Waypoints, Ended, Places
<1>5. CASE MetalinkFallback(c)
  <2>1. PICK w \in {"done", "failed"} : Goto(c, w)
    BY <1>5 DEF MetalinkFallback
  <2> QED BY <1>5, <2>1, KeepsMove DEF MetalinkFallback, Kind, Waypoints, Ended, Places, Owning
<1> QED BY <1>1, <1>2, <1>3, <1>4, <1>5 DEF Metalink

\* Every step of a torrent is of a kind.
LEMMA TorrentKind ==
    ASSUME Shape, NEW c \in Commands, Torrent(c) PROVE Kind
<1> USE Disjoint
<1>1. CASE ReserveExactPaths(c)
  <2>1. CASE Layout[c] \cap registry = {}
    <3>1. Claim(c, Layout[c]) /\ Goto(c, "allocate") /\ UNCHANGED path
      BY <1>1, <2>1 DEF ReserveExactPaths
    <3>2. pc'[c] = "allocate" /\ \A d \in Commands \ {c} : pc'[d] = pc[d]
      BY <3>1 DEF Goto, Shape
    <3>3. Shape'
      BY <3>1 DEF Goto, Shape, Claim, Waypoints
    <3>4. Held(c)' = Layout[c] /\ \A d \in Commands \ {c} : Held(d)' = Held(d)
      BY <1>1, <3>1 DEF Held, ReserveExactPaths
    <3>5. Claims(c, Layout[c])
      BY <1>1, <2>1, <3>1, <3>2, <3>4 DEF Claims, Claim, Owning, Aborted, ReserveExactPaths
    <3> QED BY <3>3, <3>5 DEF Kind
  <2>2. CASE Layout[c] \cap registry # {}
    BY <1>1, <2>2, KeepsMove DEF ReserveExactPaths, Kind, Waypoints, Ended, Places, Owning
  <2> QED BY <2>1, <2>2
<1>2. CASE TorrentEnds(c)
  <2>1. PICK w \in {"done", "failed"} : Goto(c, w)
    BY <1>2 DEF TorrentEnds
  <2> QED BY <1>2, <2>1, ReleasesMove DEF TorrentEnds, Kind, Waypoints, Ended, Places
<1> QED BY <1>1, <1>2 DEF Torrent

\* Writing, allocating and the rounds of the halt move nobody.
LEMMA StandstillKind ==
    ASSUME Shape, UNCHANGED <<registry, pc, path, robbed>> PROVE Kind
  BY DEF Kind, Keeps, Shape, Held, Owning, Aborted

\* Every step of a command is of a kind.
LEMMA TaskKind ==
    ASSUME Shape, NEW c \in Commands, Task(c) PROVE Kind
<1>1. CASE Write(c) \/ Save(c)
  BY <1>1, StandstillKind DEF Write, Save, command
<1>2. CASE Enqueue(c)
  BY <1>2, KeepsMove DEF Enqueue, Kind, Waypoints, Ended, Places, Owning
<1>3. CASE NoAllocation(c)
  BY <1>3, KeepsMove DEF NoAllocation, Kind, Waypoints, Ended, Places, Owning
<1>4. CASE Answered(c)
  <2>1. CASE Goto(c, "transfer") /\ UNCHANGED <<registry, robbed>>
    BY <1>4, <2>1, KeepsMove DEF Answered, Kind, Waypoints, Ended, Places, Owning
  <2>2. CASE AttemptFails(c)
    BY <1>4, <2>2, AttemptFailsKind DEF Answered
  <2>3. CASE Release(c) /\ Goto(c, "failed")
    BY <1>4, <2>3, ReleasesMove DEF Answered, Kind, Waypoints, Ended, Places
  <2> QED BY <1>4, <2>1, <2>2, <2>3 DEF Answered
<1> QED BY <1>1, <1>2, <1>3, <1>4, HttpKind, MetalinkKind, TorrentKind DEF Task

\* An aborted task releases only what its drop releases.
LEMMA AbortKind ==
    ASSUME Shape, NEW c \in Commands, Abort(c) PROVE Kind
<1>1. pc[c] # "aborted" /\ UNCHANGED path
  BY DEF Abort, Running, Ended
<1>2. PICK w \in {"failed", "aborted"} : Goto(c, w) /\ (w = "failed" <=> c \in Torrents)
  BY DEF Abort
<1>3. CASE c \in Torrents /\ Owning(c)
  BY <1>1, <1>2, <1>3, ReleasesMove DEF Abort, Kind, Waypoints, Ended, Places
<1>4. CASE ~(c \in Torrents /\ Owning(c))
  BY <1>1, <1>2, <1>4, KeepsMove DEF Abort, Kind, Waypoints, Ended, Places, Owning
<1> QED BY <1>3, <1>4

\* Every step keeps the invariant.
LEMMA ClaimStep == ClaimInv /\ [Next]_vars => ClaimInv'
<1> SUFFICES ASSUME ClaimInv, [Next]_vars PROVE ClaimInv'
  OBVIOUS
<1> USE DEF ClaimInv
<1>1. CASE Worker
  BY <1>1, StandstillKind, KindSuffices
     DEF Worker, TakeNext, Sleep, AllocateFile, EntryDone, command
<1>2. CASE Engine
  BY <1>2, StandstillKind, KindSuffices
     DEF Engine, ForceHalt, NextPhase, CancelAllocations, WaitedFor, command
<1>3. ASSUME NEW c \in Commands, Task(c) PROVE ClaimInv'
  BY <1>3, TaskKind, KindSuffices
<1>4. ASSUME NEW c \in Commands, Abort(c) PROVE ClaimInv'
  BY <1>4, AbortKind, KindSuffices
<1>5. CASE UNCHANGED vars
  BY <1>5, StandstillKind, KindSuffices DEF vars, command
<1> QED BY <1>1, <1>2, <1>3, <1>4, <1>5 DEF Next

\* Nothing is registered at the start.
LEMMA ClaimInit == Init => ClaimInv
  BY DEF Init, ClaimInv, Shape, Waypoints, Exclusive, ClaimsMatch, Owning

\* Of the commands that were not robbed of their claim, no two ever own a common
\* path (active_output_registry.rs).
THEOREM PathsExclusive == Spec => []Exclusive
<1>1. ClaimInv => Exclusive
  BY DEF ClaimInv
<1> QED BY ClaimInit, ClaimStep, <1>1, PTL DEF Spec

\* The registry holds the paths of those that own them, and of aborted tasks,
\* and nothing else: every early return of a command releases its claim.
THEOREM RegistryMatches == Spec => []ClaimsMatch
<1>1. ClaimInv => ClaimsMatch
  BY DEF ClaimInv
<1> QED BY ClaimInit, ClaimStep, <1>1, PTL DEF Spec
-----------------------------------------------------------------------------
(***************************************************************************)
(* Types. An attempt that is still to start has a URI left, so the count   *)
(* of the URIs never goes below zero.                                      *)
(***************************************************************************)
Tries == \A c \in Https : pc[c] = "attempt" => uris[c] > 0
TypeInv == TypeOK /\ Tries

\* What is left of a queue are entries of it, and none of the cancelled command.
LEMMA KeepOthers ==
    ASSUME NEW S, NEW s \in Seq(S), NEW c, NEW r \in Keep(s, c)
    PROVE  /\ r \in Seq(S)
           /\ \A k \in 1..Len(r) : r[k].command # c /\ \E j \in 1..Len(s) : r[k] = s[j]
<1> DEFINE left == {k \in 1..Len(s) : s[k].command # c}
           places == 1..Cardinality(left)
<1>1. Cardinality(left) \in Nat
  <2>1. IsFiniteSet(1..Len(s))
    BY FS_Interval
  <2>2. IsFiniteSet(left)
    BY <2>1, FS_Subset
  <2> QED BY <2>2, FS_CardinalityType
<1>2. PICK at \in [places -> left] : r = [k \in places |-> s[at[k]]]
  BY DEF Keep
<1>3. Len(r) = Cardinality(left) /\ r \in Seq(S)
  <2> DEFINE n == Cardinality(left)
  <2>1. n \in Nat /\ at \in [1..n -> left] /\ r = [k \in 1..n |-> s[at[k]]]
    BY <1>1, <1>2
  <2>2. \A j \in left : s[j] \in S
    OBVIOUS
  <2>3. r \in [1..n -> S]
    <3> HIDE DEF n, left
    <3> QED BY <2>1, <2>2
  <2>4. Len(r) = n /\ r \in Seq(S)
    <3> HIDE DEF n
    <3> QED BY <2>1, <2>3
  <2> QED BY <2>4
<1>4. ASSUME NEW k \in 1..Len(r)
      PROVE  r[k].command # c /\ \E j \in 1..Len(s) : r[k] = s[j]
  <2>1. at[k] \in left /\ r[k] = s[at[k]]
    BY <1>2, <1>3, <1>4
  <2> QED BY <2>1
<1> QED BY <1>3, <1>4

\* A resolved path is a path.
LEMMA ResolvedPath ==
    ASSUME NEW q \in Path
    PROVE  /\ Resolve(q) \subseteq Path
           /\ \A c, cs, fits : ResolveWithPolicy(c, q, cs, fits) \subseteq Path
<1>1. \A n \in 1..MaxNumber : Numbered(q, n) \in Path
  BY OutputAssumption DEF Numbered, Path
<1>2. \A busy : FirstFree(q, busy) \subseteq Path
  BY <1>1 DEF FirstFree
<1> QED BY <1>2 DEF Resolve, ResolveWithPolicy

\* What a command holds are paths.
LEMMA HeldPaths == ASSUME TypeOK, NEW c \in Commands PROVE Held(c) \subseteq Path
  BY OutputAssumption DEF TypeOK, Held, Commands

\* A release keeps the types.
LEMMA ReleaseType ==
    ASSUME TypeOK, NEW c \in Commands, Release(c)
    PROVE  registry' \in SUBSET Path /\ robbed' \in SUBSET Commands
  BY DEF TypeOK, Release, Others

\* A move of a command whose URIs stay or are counted down keeps the types, and
\* leads to a new attempt only with a URI left.
Moves(c, w) ==
    /\ c \in Commands /\ w \in Waypoints /\ Goto(c, w)
    /\ uris' = uris \/ (uris[c] > 0 /\ uris' = [uris EXCEPT ![c] = @ - 1])
    /\ w = "attempt" => uris'[c] > 0
LEMMA MovesType ==
    ASSUME TypeInv, NEW c, NEW w, Moves(c, w)
    PROVE  pc' \in [Commands -> Waypoints] /\ uris' \in [Commands -> Nat] /\ Tries'
<1> USE DEF TypeInv, TypeOK, Moves
<1>1. pc' \in [Commands -> Waypoints]
  BY DEF Goto
<1>2. uris' \in [Commands -> Nat]
  OBVIOUS
<1>3. ASSUME NEW d \in Https, pc'[d] = "attempt" PROVE uris'[d] > 0
  <2>1. d \in Commands
    BY Disjoint
  <2>2. CASE d = c
    BY <1>3, <2>1, <2>2 DEF Goto
  <2>3. CASE d # c
    BY <1>3, <2>1, <2>3 DEF Goto, Tries
  <2> QED BY <2>2, <2>3
<1> QED BY <1>1, <1>2, <1>3 DEF Tries

\* A command leaves one waypoint for the next.
LEMMA NextUriMoves ==
    ASSUME NEW c \in Commands, NEW left, NextUri(c, left),
           uris' = uris \/ (uris[c] > 0 /\ uris' = [uris EXCEPT ![c] = @ - 1]),
           uris'[c] = left
    PROVE  \E w \in Waypoints : Moves(c, w)
  BY DEF NextUri, Moves, Waypoints, Ended

\* A command that moves, with claims and outputs that are paths, keeps the types.
LEMMA CommandType ==
    ASSUME TypeInv, NEW c, NEW w, Moves(c, w), registry' \in SUBSET Path, robbed' \in SUBSET Commands,
           path' \in [Commands -> Path], resolved' \in [Commands -> BOOLEAN],
           files' \in SUBSET Path, ctrl' \in SUBSET Path, UNCHANGED <<policy, allocation, engine>>
    PROVE  TypeInv'
<1>1. pc' \in [Commands -> Waypoints] /\ uris' \in [Commands -> Nat] /\ Tries'
  BY MovesType
<1> QED BY <1>1 DEF TypeInv, TypeOK, allocation, engine

\* A command that moves and leaves its claim and the disk alone.
LEMMA StayType ==
    ASSUME TypeInv, NEW c, NEW w, Moves(c, w), UNCHANGED <<registry, robbed, path, resolved>>,
           files' \in SUBSET Path, ctrl' \in SUBSET Path, UNCHANGED <<policy, allocation, engine>>
    PROVE  TypeInv'
  BY CommandType DEF TypeInv, TypeOK

\* A command that moves and releases its claim.
LEMMA LeaveType ==
    ASSUME TypeInv, NEW c, NEW w, Moves(c, w), Release(c), UNCHANGED <<path, resolved>>,
           files' \in SUBSET Path, ctrl' \in SUBSET Path, UNCHANGED <<policy, allocation, engine>>
    PROVE  TypeInv'
<1>1. registry' \in SUBSET Path /\ robbed' \in SUBSET Commands
  BY ReleaseType DEF TypeInv, Moves
<1> QED BY <1>1, CommandType DEF TypeInv, TypeOK

\* A command that moves and claims a path.
LEMMA EnterType ==
    ASSUME TypeInv, NEW c, NEW w, Moves(c, w), NEW p \in Path, Claim(c, {p}),
           path' = [path EXCEPT ![c] = p],
           resolved' = [resolved EXCEPT ![c] = TRUE] \/ UNCHANGED resolved,
           files' \in SUBSET Path, ctrl' \in SUBSET Path, UNCHANGED <<policy, allocation, engine>>
    PROVE  TypeInv'
<1>1. registry' \in SUBSET Path /\ robbed' \in SUBSET Commands
  BY DEF TypeInv, TypeOK, Claim
<1>2. path' \in [Commands -> Path] /\ resolved' \in [Commands -> BOOLEAN]
  BY DEF TypeInv, TypeOK
<1> QED BY <1>1, <1>2, CommandType

\* A failed attempt leads to the next URI or to the end.
LEMMA AttemptFailsType ==
    ASSUME TypeInv, NEW c \in Commands, AttemptFails(c), UNCHANGED <<path, resolved, uris>>,
           files' \in SUBSET Path, ctrl' \in SUBSET Path, UNCHANGED <<policy, allocation, engine>>
    PROVE  TypeInv'
<1>1. \E w \in Waypoints : Moves(c, w)
  BY NextUriMoves DEF AttemptFails
<1> QED BY <1>1, LeaveType DEF AttemptFails

\* The steps of an HTTP command keep the types.
LEMMA HttpType ==
    ASSUME TypeInv, NEW c \in Https, Http(c) PROVE TypeInv'
<1> c \in Commands
  BY Disjoint
<1> path[c] \in Path /\ uris[c] \in Nat /\ files \in SUBSET Path /\ ctrl \in SUBSET Path
  BY DEF TypeInv, TypeOK
<1> Checkpoints(c) \in SUBSET Path
  BY DEF Checkpoints
<1> pc[c] = "attempt" => uris[c] > 0
  BY DEF TypeInv, Tries
<1> DEFINE Counted == pc[c] = "attempt" /\ uris' = [uris EXCEPT ![c] = @ - 1]
<1>0. Counted => uris[c] > 0 /\ uris'[c] = uris[c] - 1
  BY DEF TypeInv, TypeOK
<1>1. CASE ProbeFails(c)
  <2>1. \E w \in Waypoints : Moves(c, w)
    BY <1>0, <1>1, NextUriMoves DEF ProbeFails
  <2> QED BY <1>1, <2>1, StayType DEF ProbeFails, disk
<1>2. CASE ResolveFirst(c)
  <2>1. PICK fits \in BOOLEAN :
          LET choices == ResolveWithPolicy(c, path[c], Checkpoints(c), fits) IN
          \/ \E p \in choices :
              /\ Claim(c, {p}) /\ path' = [path EXCEPT ![c] = p]
              /\ resolved' = [resolved EXCEPT ![c] = TRUE] /\ Goto(c, "detect")
          \/ NextUri(c, uris[c] - 1) /\ UNCHANGED <<registry, path, resolved, robbed>>
    BY <1>2 DEF ResolveFirst
  <2>2. ctrl' \in SUBSET Path /\ UNCHANGED <<files, policy, allocation, engine>> /\ Counted
    BY <1>2 DEF ResolveFirst
  <2>3. CASE NextUri(c, uris[c] - 1) /\ UNCHANGED <<registry, path, resolved, robbed>>
    <3>1. \E w \in Waypoints : Moves(c, w)
      BY <1>0, <2>2, <2>3, NextUriMoves
    <3> QED BY <2>2, <2>3, <3>1, StayType
  <2>4. ASSUME NEW p \in ResolveWithPolicy(c, path[c], Checkpoints(c), fits),
               Claim(c, {p}), path' = [path EXCEPT ![c] = p],
               resolved' = [resolved EXCEPT ![c] = TRUE], Goto(c, "detect")
        PROVE  TypeInv'
    <3>1. p \in Path
      BY ResolvedPath
    <3>2. Moves(c, "detect")
      BY <1>0, <2>2, <2>4 DEF Moves, Waypoints
    <3> QED BY <2>2, <2>4, <3>1, <3>2, EnterType
  <2> QED BY <2>1, <2>3, <2>4
<1>3. CASE ResolveAgain(c)
  <2>1. PICK p \in Resolve(path[c]) : Claim(c, {p}) /\ path' = [path EXCEPT ![c] = p]
    BY <1>3 DEF ResolveAgain
  <2>2. p \in Path
    BY ResolvedPath
  <2>3. Moves(c, "detect")
    BY <1>0, <1>3 DEF ResolveAgain, Moves, Waypoints
  <2> QED BY <1>3, <2>1, <2>2, <2>3, EnterType DEF ResolveAgain
<1>4. CASE DetectFails(c)
  BY <1>4, AttemptFailsType DEF DetectFails, disk
<1>5. CASE DetectComplete(c)
  <2>1. Moves(c, "done")
    BY <1>5 DEF DetectComplete, Moves, Waypoints, Ended
  <2> QED BY <1>5, <2>1, LeaveType DEF DetectComplete, disk
<1>6. CASE DetectPartial(c)
  <2>1. ctrl' \in SUBSET Path /\ UNCHANGED <<files, path, resolved, uris, policy, allocation, engine>>
    BY <1>6 DEF DetectPartial
  <2>2. CASE AttemptFails(c)
    BY <2>1, <2>2, AttemptFailsType
  <2>3. CASE ~AttemptFails(c)
    <3>1. PICK w \in {"integrity", "allocate"} : Goto(c, w) /\ UNCHANGED <<registry, robbed>>
      BY <1>6, <2>3 DEF DetectPartial
    <3>2. Moves(c, w)
      BY <2>1, <3>1 DEF Moves, Waypoints
    <3> QED BY <2>1, <3>1, <3>2, StayType
  <2> QED BY <2>2, <2>3
<1>7. CASE IntegrityVerified(c)
  <2>1. Moves(c, "verified")
    BY <1>7 DEF IntegrityVerified, Moves, Waypoints
  <2> QED BY <1>7, <2>1, LeaveType DEF IntegrityVerified, disk
<1>8. CASE IntegrityChecked(c)
  <2>1. CASE AttemptFails(c)
    BY <1>8, <2>1, AttemptFailsType DEF IntegrityChecked, disk
  <2>2. CASE ~AttemptFails(c)
    <3>1. Moves(c, "allocate")
      BY <1>8, <2>2 DEF IntegrityChecked, Moves, Waypoints
    <3> QED BY <1>8, <2>2, <3>1, StayType DEF IntegrityChecked, disk
  <2> QED BY <2>1, <2>2
<1>9. CASE TransferOk(c)
  <2>1. Moves(c, "finishing")
    BY <1>9 DEF TransferOk, Moves, Waypoints
  <2>2. ctrl' \in SUBSET Path
    BY <1>9 DEF TransferOk
  <2> QED BY <1>9, <2>1, <2>2, StayType DEF TransferOk
<1>10. CASE TransferFails(c)
  BY <1>10, AttemptFailsType DEF TransferFails, disk
<1>11. CASE CannotResume(c)
  <2>1. PICK w \in Waypoints : Moves(c, w)
    <3>1. CASE Goto(c, "fresh")
      BY <1>11, <3>1 DEF CannotResume, Moves, Waypoints
    <3>2. CASE NextUri(c, uris[c])
      BY <1>11, <3>2, NextUriMoves DEF CannotResume
    <3> QED BY <1>11, <3>1, <3>2 DEF CannotResume
  <2> QED BY <1>11, <2>1, LeaveType DEF CannotResume, disk
<1>12. CASE Finalize(c)
  <2>1. PICK w \in Waypoints : Moves(c, w)
    <3>1. CASE Goto(c, "done")
      BY <1>12, <3>1 DEF Finalize, Moves, Waypoints, Ended
    <3>2. CASE NextUri(c, uris[c])
      BY <1>12, <3>2, NextUriMoves DEF Finalize
    <3> QED BY <1>12, <3>1, <3>2 DEF Finalize
  <2> QED BY <1>12, <2>1, LeaveType DEF Finalize, disk
<1>13. CASE FreshStart(c)
  <2>1. pc' \in [Commands -> Waypoints] /\ uris' \in [Commands -> Nat]
    BY <1>13 DEF FreshStart, Goto, TypeInv, TypeOK, Waypoints
  <2>2. Tries'
    BY <1>13, Disjoint DEF FreshStart, Goto, TypeInv, TypeOK, Tries
  <2>3. policy' \in [Https -> Policy]
    BY <1>13 DEF FreshStart, TypeInv, TypeOK, Policy
  <2>4. ctrl' \in SUBSET Path /\ files' \in SUBSET Path
    BY <1>13 DEF FreshStart
  <2> QED BY <1>13, <2>1, <2>2, <2>3, <2>4 DEF FreshStart, TypeInv, TypeOK, allocation, engine
<1>14. CASE FreshStartFails(c)
  <2>1. Moves(c, "failed")
    BY <1>14 DEF FreshStartFails, Moves, Waypoints, Ended
  <2>2. ctrl' \in SUBSET Path
    BY <1>14 DEF FreshStartFails
  <2> QED BY <1>14, <2>1, <2>2, StayType DEF FreshStartFails
<1> QED BY <1>1, <1>2, <1>3, <1>4, <1>5, <1>6, <1>7, <1>8, <1>9, <1>10, <1>11, <1>12, <1>13, <1>14 DEF Http

\* The steps of a Metalink command keep the types.
LEMMA MetalinkType ==
    ASSUME TypeInv, NEW c \in Metalinks, Metalink(c) PROVE TypeInv'
<1> c \in Commands
  BY Disjoint
<1> path[c] \in Path /\ uris[c] \in Nat /\ files \in SUBSET Path /\ ctrl \in SUBSET Path
  BY DEF TypeInv, TypeOK
<1>1. CASE MetalinkResolve(c)
  <2>1. PICK p \in Resolve(path[c]) : Claim(c, {p}) /\ path' = [path EXCEPT ![c] = p]
    BY <1>1 DEF MetalinkResolve
  <2>2. p \in Path
    BY ResolvedPath
  <2>3. Moves(c, "transfer")
    BY <1>1 DEF MetalinkResolve, Moves, Waypoints
  <2> QED BY <1>1, <2>1, <2>2, <2>3, EnterType DEF MetalinkResolve, disk
<1>2. CASE MetalinkMirrorFails(c)
  <2>1. files' \in SUBSET Path /\ ctrl' \in SUBSET Path
    BY <1>2 DEF MetalinkMirrorFails, KeepOrDiscard, disk
  <2>2. uris' \in [Commands -> Nat]
    BY <1>2 DEF MetalinkMirrorFails, TypeInv, TypeOK
  <2>3. Tries'
    BY <1>2, OutputAssumption, Disjoint DEF MetalinkMirrorFails, TypeInv, TypeOK, Tries
  <2> QED BY <1>2, <2>1, <2>2, <2>3 DEF MetalinkMirrorFails, TypeInv, TypeOK, allocation, engine
<1>3. CASE MetalinkOk(c)
  <2>1. Moves(c, "done")
    BY <1>3 DEF MetalinkOk, Moves, Waypoints, Ended
  <2>2. ctrl' \in SUBSET Path
    BY <1>3 DEF MetalinkOk
  <2> QED BY <1>3, <2>1, <2>2, LeaveType DEF MetalinkOk
<1>4. CASE MetalinkFails(c)
  <2>1. PICK w \in {"failed", "fallback"} : Moves(c, w)
    BY <1>4 DEF MetalinkFails, Moves, Waypoints, Ended
  <2>2. files' \in SUBSET Path /\ ctrl' \in SUBSET Path
    BY <1>4 DEF MetalinkFails, KeepOrDiscard, disk
  <2> QED BY <1>4, <2>1, <2>2, LeaveType DEF MetalinkFails
<1>5. CASE MetalinkFallback(c)
  <2>1. PICK w \in {"done", "failed"} : Moves(c, w)
    BY <1>5 DEF MetalinkFallback, Moves, Waypoints, Ended
  <2>2. files' \in SUBSET Path /\ ctrl' \in SUBSET Path
    BY <1>5 DEF MetalinkFallback
  <2> QED BY <1>5, <2>1, <2>2, StayType DEF MetalinkFallback
<1> QED BY <1>1, <1>2, <1>3, <1>4, <1>5 DEF Metalink

\* The steps of a torrent keep the types.
LEMMA TorrentType ==
    ASSUME TypeInv, NEW c \in Torrents, Torrent(c) PROVE TypeInv'
<1> c \in Commands
  BY Disjoint
<1> files \in SUBSET Path /\ ctrl \in SUBSET Path /\ Layout[c] \subseteq Path
  BY OutputAssumption DEF TypeInv, TypeOK
<1>1. CASE ReserveExactPaths(c)
  <2>1. CASE Claim(c, Layout[c]) /\ Goto(c, "allocate")
    <3>1. Moves(c, "allocate")
      BY <1>1, <2>1 DEF ReserveExactPaths, Moves, Waypoints
    <3>2. registry' \in SUBSET Path /\ robbed' \in SUBSET Commands
      BY <2>1 DEF Claim, TypeInv, TypeOK
    <3>3. path' \in [Commands -> Path] /\ resolved' \in [Commands -> BOOLEAN]
      BY <1>1 DEF ReserveExactPaths, TypeInv, TypeOK
    <3> QED BY <1>1, <3>1, <3>2, <3>3, CommandType DEF ReserveExactPaths, disk
  <2>2. CASE Goto(c, "failed") /\ UNCHANGED <<registry, robbed>>
    <3>1. Moves(c, "failed")
      BY <1>1, <2>2 DEF ReserveExactPaths, Moves, Waypoints, Ended
    <3> QED BY <1>1, <2>2, <3>1, StayType DEF ReserveExactPaths, disk
  <2> QED BY <1>1, <2>1, <2>2 DEF ReserveExactPaths
<1>2. CASE TorrentEnds(c)
  <2>1. PICK w \in {"done", "failed"} : Moves(c, w)
    BY <1>2 DEF TorrentEnds, Moves, Waypoints, Ended
  <2>2. ctrl' \in SUBSET Path
    BY <1>2 DEF TorrentEnds
  <2> QED BY <1>2, <2>1, <2>2, LeaveType DEF TorrentEnds
<1> QED BY <1>1, <1>2 DEF Torrent

\* The steps of a command keep the types.
LEMMA TaskType ==
    ASSUME TypeInv, NEW c \in Commands, Task(c) PROVE TypeInv'
<1> Held(c) \subseteq Path /\ files \in SUBSET Path /\ ctrl \in SUBSET Path
  BY HeldPaths DEF TypeInv, TypeOK
<1>1. CASE Write(c)
  BY <1>1 DEF Write, TypeInv, TypeOK, Tries, command, allocation, engine
<1>2. CASE Save(c)
  BY <1>2 DEF Save, Checkpointed, TypeInv, TypeOK, Tries, command, allocation, engine
<1>3. CASE Enqueue(c)
  <2>1. pc' \in [Commands -> Waypoints] /\ Tries'
    BY <1>3, Disjoint DEF Enqueue, Goto, TypeInv, TypeOK, Tries, Waypoints
  <2>2. Entry(c) \in Entries
    BY DEF Entry, Entries
  <2>3. queue' \in Seq(Entries)
    BY <1>3, <2>2 DEF Enqueue, TypeInv, TypeOK
  <2> QED BY <1>3, <2>1, <2>3 DEF Enqueue, Wake, TypeInv, TypeOK, disk, engine
<1>4. CASE NoAllocation(c)
  <2>1. Moves(c, "transfer")
    BY <1>4 DEF NoAllocation, Moves, Waypoints
  <2> QED BY <1>4, <2>1, StayType DEF NoAllocation, disk
<1>5. CASE Answered(c)
  <2>1. PICK w \in Waypoints : Moves(c, w)
    <3>1. CASE Goto(c, "transfer") \/ Goto(c, "failed")
      BY <1>5, <3>1 DEF Answered, Moves, Waypoints, Ended
    <3>2. CASE AttemptFails(c)
      BY <1>5, <3>2, NextUriMoves DEF Answered, AttemptFails
    <3> QED BY <1>5, <3>1, <3>2 DEF Answered
  <2>2. pc' \in [Commands -> Waypoints] /\ uris' \in [Commands -> Nat] /\ Tries'
    BY <2>1, MovesType
  <2>3. registry' \in SUBSET Path /\ robbed' \in SUBSET Commands
    <3>1. CASE Release(c)
      BY <3>1, ReleaseType DEF TypeInv
    <3>2. CASE UNCHANGED <<registry, robbed>>
      BY <3>2 DEF TypeInv, TypeOK
    <3> QED BY <1>5, <3>1, <3>2 DEF Answered, AttemptFails
  <2>4. answer' \in [Commands -> {"none", "ok", "error"}]
    BY <1>5 DEF Answered, TypeInv, TypeOK
  <2> QED BY <1>5, <2>2, <2>3, <2>4 DEF Answered, TypeInv, TypeOK, disk, engine
<1>6. CASE Http(c)
  <2>1. c \in Https
    BY <1>6 DEF Http, ProbeFails, ResolveFirst, ResolveAgain, DetectFails, DetectComplete,
         DetectPartial, IntegrityVerified, IntegrityChecked, TransferOk, TransferFails,
         CannotResume, Finalize, FreshStart, FreshStartFails
  <2> QED BY <1>6, <2>1, HttpType
<1>7. CASE Metalink(c)
  <2>1. c \in Metalinks
    BY <1>7 DEF Metalink, MetalinkResolve, MetalinkMirrorFails, MetalinkOk, MetalinkFails,
         MetalinkFallback
  <2> QED BY <1>7, <2>1, MetalinkType
<1>8. CASE Torrent(c)
  <2>1. c \in Torrents
    BY <1>8 DEF Torrent, ReserveExactPaths, TorrentEnds
  <2> QED BY <1>8, <2>1, TorrentType
<1> QED BY <1>1, <1>2, <1>3, <1>4, <1>5, <1>6, <1>7, <1>8 DEF Task

\* The steps of the worker keep the types.
LEMMA WorkerType == ASSUME TypeInv, Worker PROVE TypeInv'
<1>1. CASE TakeNext
  BY <1>1 DEF TakeNext, TypeInv, TypeOK, Tries, disk, command, engine
<1>2. CASE Sleep
  BY <1>2 DEF Sleep, TypeInv, TypeOK, Tries, disk, command, engine
<1>3. CASE AllocateFile
  <2>1. picked.paths \subseteq Path
    BY <1>3 DEF AllocateFile, TypeInv, TypeOK, Entries
  <2> QED BY <1>3, <2>1 DEF AllocateFile, TypeInv, TypeOK, Tries, command, allocation, engine
<1>4. CASE EntryDone
  <2>1. answer' \in [Commands -> {"none", "ok", "error"}]
    BY <1>4 DEF EntryDone, Send, TypeInv, TypeOK
  <2> QED BY <1>4, <2>1 DEF EntryDone, TypeInv, TypeOK, Tries, disk, command, engine
<1> QED BY <1>1, <1>2, <1>3, <1>4 DEF Worker

\* The rounds of the halt keep the types.
LEMMA EngineType == ASSUME TypeInv, Engine PROVE TypeInv'
<1>1. CASE ForceHalt
  BY <1>1, OutputAssumption DEF ForceHalt, TypeInv, TypeOK, Tries, disk, command, allocation
<1>2. CASE NextPhase
  <2>1. halting' \in {"no", "first", "wait", "second", "over"} /\ turn' \in Seq(Commands)
    BY <1>2, OutputAssumption DEF NextPhase, After
  <2> QED BY <1>2, <2>1 DEF NextPhase, TypeInv, TypeOK, Tries, disk, command, allocation
<1>3. CASE CancelAllocations
  <2>1. CancelGid(Head(turn)) /\ turn' \in Seq(Commands)
    BY <1>3 DEF CancelAllocations, TypeInv, TypeOK
  <2>2. queue' \in Seq(Entries)
    BY <2>1, KeepOthers DEF CancelGid, TypeInv, TypeOK
  <2>3. answer' \in [Commands -> {"none", "ok", "error"}]
    BY <2>1 DEF CancelGid, Send, TypeInv, TypeOK
  <2>4. picked' \in Entries \cup {NoEntry}
    BY <2>1 DEF CancelGid, TypeInv, TypeOK, Entries
  <2> QED BY <1>3, <2>1, <2>2, <2>3, <2>4 DEF CancelAllocations, TypeInv, TypeOK, Tries, disk, command
<1>4. CASE WaitedFor
  BY <1>4 DEF WaitedFor, TypeInv, TypeOK, Tries, disk, command, allocation
<1> QED BY <1>1, <1>2, <1>3, <1>4 DEF Engine

\* Giving a task up keeps the types.
LEMMA AbortType == ASSUME TypeInv, NEW c \in Commands, Abort(c) PROVE TypeInv'
<1>1. PICK w \in {"failed", "aborted"} : Moves(c, w)
  BY DEF Abort, Moves, Waypoints, Ended
<1>2. pc' \in [Commands -> Waypoints] /\ uris' \in [Commands -> Nat] /\ Tries'
  BY <1>1, MovesType
<1>3. registry' \in SUBSET Path /\ robbed' \in SUBSET Commands
  <2>1. CASE Release(c)
    BY <2>1, ReleaseType DEF TypeInv
  <2>2. CASE UNCHANGED <<registry, robbed>>
    BY <2>2 DEF TypeInv, TypeOK
  <2> QED BY <2>1, <2>2 DEF Abort
<1>4. turn' \in Seq(Commands)
  BY DEF Abort, TypeInv, TypeOK
<1> QED BY <1>2, <1>3, <1>4 DEF Abort, TypeInv, TypeOK, disk, allocation

\* Every step keeps the types.
LEMMA TypeStep == TypeInv /\ [Next]_vars => TypeInv'
<1> SUFFICES ASSUME TypeInv, [Next]_vars PROVE TypeInv'
  OBVIOUS
<1>1. CASE UNCHANGED vars
  BY <1>1 DEF vars, disk, command, allocation, engine, TypeInv, TypeOK, Tries
<1> QED BY <1>1, WorkerType, EngineType, TaskType, AbortType DEF Next

\* The types hold at the start.
LEMMA TypeInit == Init => TypeInv
<1> SUFFICES ASSUME Init PROVE TypeInv
  OBVIOUS
<1>1. registry \in SUBSET Path /\ files \in SUBSET Path /\ ctrl \in SUBSET Path
  BY OutputAssumption DEF Init
<1>2. pc \in [Commands -> Waypoints] /\ uris \in [Commands -> Nat] /\ Tries
  BY OutputAssumption, Disjoint DEF Init, Waypoints, Tries
<1>3. path \in [Commands -> Path] /\ resolved \in [Commands -> BOOLEAN] /\ policy \in [Https -> Policy]
  BY OutputAssumption DEF Init, Commands, Path
<1> QED BY <1>1, <1>2, <1>3 DEF Init, TypeInv, TypeOK

\* The variables keep their types: in particular no attempt is made without a URI.
THEOREM OutputFilesTypes == Spec => []TypeOK
<1>1. TypeInv => TypeOK
  BY DEF TypeInv
<1> QED BY TypeInit, TypeStep, <1>1, PTL DEF Spec

(***************************************************************************)
(* The force halt. While the engine waits, the tasks it has still to visit *)
(* are the only ones that may run; in the second round of cancels nobody   *)
(* runs, and what is queued belongs to the tasks it has still to visit.    *)
(***************************************************************************)
Among(list, c) == \E k \in 1..Len(list) : list[k] = c
HaltInv ==
    /\ halting = "wait" => \A c \in Commands : Running(c) => Among(turn, c)
    /\ halting \in {"second", "over"} => \A c \in Commands : ~Running(c)
    /\ halting = "second" =>
        /\ \A k \in 1..Len(queue) : Among(turn, queue[k].command)
        /\ picked # NoEntry /\ ~picked.cancelled => Among(turn, picked.command)
    /\ HaltForgets

\* A task that moves was running; no step but its own starts or ends it.
LEMMA RunningStep ==
    ASSUME TypeOK, NEW c \in Commands, Task(c)
    PROVE  Running(c) /\ \A d \in Commands : Running(d)' => Running(d)
<1>1. Running(c)
  BY DEF Task, Http, ProbeFails, ResolveFirst, ResolveAgain, DetectFails, DetectComplete,
       DetectPartial, IntegrityVerified, IntegrityChecked, TransferOk, TransferFails,
       CannotResume, Finalize, FreshStart, FreshStartFails, Metalink, MetalinkResolve,
       MetalinkMirrorFails, MetalinkOk, MetalinkFails, MetalinkFallback, Torrent,
       ReserveExactPaths, TorrentEnds, Write, Save, Enqueue, NoAllocation, Answered,
       Running, Ended
<1>2. \A d \in Commands \ {c} : pc'[d] = pc[d]
  BY DEF Task, Http, ProbeFails, ResolveFirst, ResolveAgain, DetectFails, DetectComplete,
       DetectPartial, IntegrityVerified, IntegrityChecked, TransferOk, TransferFails,
       CannotResume, Finalize, FreshStart, FreshStartFails, Metalink, MetalinkResolve,
       MetalinkMirrorFails, MetalinkOk, MetalinkFails, MetalinkFallback, Torrent,
       ReserveExactPaths, TorrentEnds, Write, Save, Enqueue, NoAllocation, Answered,
       AttemptFails, NextUri, Goto, command, TypeOK
<1> QED BY <1>1, <1>2 DEF Running

\* While nobody but c may move and c does not touch the allocations and the
\* engine, the halt stays as it is.
LEMMA TaskHalt == ASSUME TypeOK, HaltInv, NEW c \in Commands, Task(c) PROVE HaltInv'
<1>1. Running(c) /\ \A d \in Commands : Running(d)' => Running(d)
  BY RunningStep
<1>2. UNCHANGED engine /\ halting \notin {"second", "over"}
  BY <1>1 DEF HaltInv, Task, Http, ProbeFails, ResolveFirst, ResolveAgain, DetectFails, DetectComplete,
       DetectPartial, IntegrityVerified, IntegrityChecked, TransferOk, TransferFails,
       CannotResume, Finalize, FreshStart, FreshStartFails, Metalink, MetalinkResolve,
       MetalinkMirrorFails, MetalinkOk, MetalinkFails, MetalinkFallback, Torrent,
       ReserveExactPaths, TorrentEnds, Write, Save, Enqueue, NoAllocation, Answered
<1> QED BY <1>1, <1>2 DEF HaltInv, HaltForgets, Among, engine

\* The turns of a list that is not empty: its head's, and those of its tail.
LEMMA TurnSplit ==
    ASSUME TypeOK, turn # <<>>, turn' = Tail(turn), NEW c, Among(turn, c), c # Head(turn)
    PROVE  Among(turn', c)
<1>1. PICK k \in 1..Len(turn) : turn[k] = c
  BY DEF Among
<1>2. k # 1 /\ k - 1 \in 1..Len(turn') /\ turn'[k - 1] = c
  BY <1>1 DEF TypeOK
<1> QED BY <1>2 DEF Among

\* The worker runs only what the halt still has to cancel.
LEMMA WorkerHalt == ASSUME TypeOK, HaltInv, Worker PROVE HaltInv'
<1>1. UNCHANGED <<pc, engine>>
  BY DEF Worker, TakeNext, Sleep, AllocateFile, EntryDone, command
<1>2. (\A d \in Commands : Running(d)' <=> Running(d)) /\ \A d : Among(turn', d) <=> Among(turn, d)
  BY <1>1 DEF Running, Among, engine
<1>3. CASE TakeNext
  <2>1. queue # <<>> /\ queue \in Seq(Entries) /\ picked' = queue[1] /\ queue' = Tail(queue)
    BY <1>3 DEF TakeNext, TypeOK
  <2>2. halting # "over"
    BY <2>1 DEF HaltInv, HaltForgets
  <2>3. 1 \in 1..Len(queue) /\ \A k \in 1..Len(queue') : k + 1 \in 1..Len(queue) /\ queue'[k] = queue[k + 1]
    BY <2>1
  <2> QED BY <1>1, <1>2, <2>1, <2>2, <2>3 DEF HaltInv, HaltForgets, engine
<1>4. CASE ~TakeNext
  <2>1. UNCHANGED queue /\ (picked' = picked \/ picked' = NoEntry)
    BY <1>4 DEF Worker, Sleep, AllocateFile, EntryDone, allocation
  <2> QED BY <1>1, <1>2, <2>1 DEF HaltInv, HaltForgets, engine
<1> QED BY <1>3, <1>4

\* Every round of the halt does what the next one counts on.
LEMMA EngineHalt == ASSUME TypeOK, HaltInv, Engine PROVE HaltInv'
<1>1. UNCHANGED pc
  BY DEF Engine, ForceHalt, NextPhase, CancelAllocations, WaitedFor, command
<1>2. \A d \in Commands : Running(d)' <=> Running(d)
  BY <1>1 DEF Running
<1>3. CASE ForceHalt
  BY <1>3 DEF ForceHalt, HaltInv, HaltForgets
<1>4. CASE NextPhase
  <2>1. turn = <<>> /\ UNCHANGED <<queue, picked>> /\ \A d : ~Among(turn, d)
    BY <1>4 DEF NextPhase, allocation, Among
  <2>2. CASE halting = "first"
    <3>1. halting' = "wait" /\ turn' = Order
      BY <1>4, <2>2 DEF NextPhase, After
    <3> QED BY <3>1, OutputAssumption DEF HaltInv, HaltForgets, Among
  <2>3. CASE halting = "wait"
    <3>1. halting' = "second" /\ turn' = Order
      BY <1>4, <2>3 DEF NextPhase, After
    <3>2. \A d \in Commands : ~Running(d) /\ Among(turn', d)
      BY <2>1, <2>3, <3>1, OutputAssumption DEF HaltInv, Among
    <3>3. \A k \in 1..Len(queue) : queue[k].command \in Commands
      <4>1. \A k \in 1..Len(queue) : queue[k] \in Entries
        BY DEF TypeOK
      <4> QED BY <4>1 DEF Entries
    <3>4. picked # NoEntry => picked.command \in Commands
      BY DEF TypeOK, Entries
    <3> QED BY <1>2, <2>1, <3>1, <3>2, <3>3, <3>4 DEF HaltInv, HaltForgets
  <2>4. CASE halting = "second"
    <3>1. halting' = "over"
      BY <1>4, <2>4 DEF NextPhase, After
    <3>2. queue = <<>>
      BY <2>1, <2>4 DEF HaltInv, TypeOK
    <3>3. picked # NoEntry => picked.cancelled
      BY <2>1, <2>4 DEF HaltInv
    <3> QED BY <1>2, <2>1, <2>4, <3>1, <3>2, <3>3 DEF HaltInv, HaltForgets
  <2> QED BY <1>4, <2>2, <2>3, <2>4 DEF NextPhase, After
<1>5. CASE CancelAllocations
  <2> DEFINE c == Head(turn)
  <2>1. turn # <<>> /\ turn' = Tail(turn) /\ CancelGid(c) /\ UNCHANGED halting /\ halting \in {"first", "second"}
    BY <1>5 DEF CancelAllocations
  <2>2. queue' \in Seq(Entries) /\ \A k \in 1..Len(queue') :
          queue'[k].command # c /\ \E j \in 1..Len(queue) : queue'[k] = queue[j]
    <3>1. queue \in Seq(Entries) /\ queue' \in Keep(queue, c)
      BY <2>1 DEF CancelGid, TypeOK
    <3> QED BY <3>1, KeepOthers
  <2>3. CASE halting = "second"
    <3>1. ASSUME NEW k \in 1..Len(queue') PROVE Among(turn', queue'[k].command)
      BY <2>1, <2>2, <2>3, <3>1, TurnSplit DEF HaltInv
    <3>2. ASSUME picked' # NoEntry, ~picked'.cancelled PROVE Among(turn', picked'.command)
      <4>1. picked # NoEntry /\ picked.command # c /\ picked' = picked
        BY <2>1, <3>2 DEF CancelGid, TypeOK, Entries
      <4> QED BY <2>1, <2>3, <3>2, <4>1, TurnSplit DEF HaltInv
    <3> QED BY <1>2, <2>1, <2>3, <3>1, <3>2 DEF HaltInv, HaltForgets
  <2> QED BY <2>1, <2>3 DEF HaltInv, HaltForgets
<1>6. CASE WaitedFor
  <2>1. halting = "wait" /\ halting' = "wait" /\ turn # <<>> /\ turn' = Tail(turn) /\ ~Running(Head(turn))
    BY <1>6 DEF WaitedFor
  <2>2. \A d \in Commands : Running(d) => Among(turn', d)
    BY <2>1, TurnSplit DEF HaltInv
  <2> QED BY <1>2, <2>1, <2>2 DEF HaltInv, HaltForgets
<1> QED BY <1>3, <1>4, <1>5, <1>6 DEF Engine

\* A task that was given up no longer runs.
LEMMA AbortHalt == ASSUME TypeOK, HaltInv, NEW c \in Commands, Abort(c) PROVE HaltInv'
<1>1. halting = "wait" /\ halting' = "wait" /\ turn # <<>> /\ turn' = Tail(turn) /\ c = Head(turn)
  BY DEF Abort
<1>2. ~Running(c)' /\ \A d \in Commands \ {c} : Running(d)' <=> Running(d)
  BY DEF Abort, Goto, Running, Ended, TypeOK
<1>3. \A d \in Commands : Running(d)' => Among(turn', d)
  BY <1>1, <1>2, TurnSplit DEF HaltInv
<1> QED BY <1>1, <1>3 DEF HaltInv, HaltForgets

\* Every step keeps what the halt counts on.
LEMMA HaltStep == TypeInv /\ HaltInv /\ [Next]_vars => HaltInv'
<1> SUFFICES ASSUME TypeOK, HaltInv, [Next]_vars PROVE HaltInv'
  BY DEF TypeInv
<1>1. CASE UNCHANGED vars
  BY <1>1 DEF vars, command, allocation, engine, HaltInv, HaltForgets, Among, Running
<1> QED BY <1>1, WorkerHalt, EngineHalt, TaskHalt, AbortHalt DEF Next

\* Nothing has been halted at the start.
LEMMA HaltInit == Init => HaltInv
  BY DEF Init, HaltInv, HaltForgets

\* When the force halt is over no allocation is left to run, whatever the tasks
\* queued while it waited for them (commands.rs:278).
THEOREM HaltIsComplete == Spec => []HaltForgets
<1>1. HaltInv => HaltForgets
  BY DEF HaltInv
<1> QED BY TypeInit, TypeStep, HaltInit, HaltStep, <1>1, PTL DEF Spec
=============================================================================
