---------------------- MODULE ConcurrentDownloadProofs ----------------------
(***************************************************************************)
(* A concurrent download, proved for every number of pieces, units,        *)
(* requests, tries, options and events.  AccountInv: the accounts of the   *)
(* segment manager, the work core, the active ranges and the source agree. *)
(* TypeInv: the types, with the facts about requests that they need.       *)
(* LinkInv: the prefix of a piece, the queue and the tasks describe one    *)
(* run of units, and detection and the gap phase know the control file.    *)
(* DiskInv: what is credited is written and what is claimed is stable.     *)
(* GrowInv: an attempt that continues knows all that the control file      *)
(* claims.                                                                 *)
(***************************************************************************)
EXTENDS ConcurrentDownload, FiniteSetTheorems, WellFoundedInduction, TLAPS

-----------------------------------------------------------------------------
(***************************************************************************)
(* Pieces, units, prefixes and blocks.                                     *)
(***************************************************************************)
\* A set of natural numbers has a least element,
LEMMA LeastOf ==
    ASSUME NEW S \in SUBSET Nat, S # {}
    PROVE  Min(S) \in S /\ \A k \in S : Min(S) <= k
<1>1. PICK R : R = OpToRel(<, Nat)
  OBVIOUS
<1>2. R = {ss \in Nat \X Nat : ss[1] < ss[2]}
  BY <1>1 DEF OpToRel
<1>3. IsWellFoundedOn(R, Nat)
  BY <1>1, NatLessThanWellFounded
<1>4. PICK x \in S : \A y \in S : ~(<<y, x>> \in R)
  BY <1>3, WFMin
<1>5. ASSUME NEW y \in S PROVE x <= y
  <2>1. <<y, x>> \notin R /\ x \in Nat /\ y \in Nat
    BY <1>4
  <2>2. y < x => <<y, x>> \in R
    BY <1>2, <2>1
  <2> QED BY <2>1, <2>2, SMT
<1> QED BY <1>5 DEF Min

\* and a bounded one a greatest.
LEMMA GreatestOf ==
    ASSUME NEW n \in Nat, NEW S \in SUBSET (0..n), S # {}
    PROVE  Max(S) \in S /\ \A k \in S : k <= Max(S)
<1> DEFINE R == {n - k : k \in S}
<1>1. R \subseteq Nat /\ R # {}
  <2>1. \A k \in S : n - k \in Nat
    OBVIOUS
  <2> QED BY <2>1
<1>2. PICK x \in R : \A y \in R : x <= y
  BY <1>1, LeastOf
<1>3. PICK k \in S : x = n - k
  BY <1>2
<1>4. \A j \in S : j <= k
  <2> SUFFICES ASSUME NEW j \in S PROVE j <= k
    OBVIOUS
  <2>1. n - j \in R /\ j \in 0..n /\ k \in 0..n
    OBVIOUS
  <2>2. x <= n - j
    BY <1>2, <2>1
  <2> QED BY <1>3, <2>1, <2>2
<1> QED BY <1>4 DEF Max

\* Pieces follow each other.
Before(p) == (p - 1) * PieceUnits

LEMMA BeforePiece ==
    ASSUME NEW p \in Pieces
    PROVE  /\ Before(p) \in Nat /\ Before(p) + PieceUnits <= Total
           /\ p * PieceUnits = Before(p) + PieceUnits
           /\ \A q \in Pieces : p < q => Before(p) + PieceUnits <= Before(q)
<1>1. p \in Nat /\ p >= 1 /\ p <= PieceCount /\ PieceUnits \in Nat /\ PieceCount \in Nat /\ PieceUnits > 0
  BY ConcurrentAssumption DEF Pieces
<1>2. \A i \in Nat, j \in Nat : i <= j => i * PieceUnits <= j * PieceUnits /\ i * PieceUnits \in Nat
  BY <1>1, SMT
<1>3. p * PieceUnits = (p - 1) * PieceUnits + PieceUnits
  BY <1>1
<1>4. p - 1 \in Nat
  BY <1>1
<1>5. Before(p) \in Nat
  BY <1>2, <1>4 DEF Before
<1>6. p * PieceUnits <= Total
  BY <1>1, <1>2 DEF Total
<1>7. ASSUME NEW q \in Pieces, p < q PROVE p * PieceUnits <= Before(q)
  <2>1. q - 1 \in Nat /\ p <= q - 1
    BY <1>1, <1>7 DEF Pieces
  <2> QED BY <1>1, <1>2, <2>1 DEF Before
<1> QED BY <1>1, <1>3, <1>5, <1>6, <1>7 DEF Before

\* First as an interval
LEMMA FirstIs ==
    ASSUME NEW p \in Pieces, NEW n \in Nat
    PROVE  First(p, n) = (Before(p) + 1)..(Before(p) + n)
<1>1. PICK b \in Nat : b = Before(p)
  BY BeforePiece
<1>2. First(p, n) = {b + k : k \in 1..n}
  BY <1>1 DEF First, Before
<1>3. {b + k : k \in 1..n} = (b + 1)..(b + n)
  <2>1. ASSUME NEW u \in (b + 1)..(b + n) PROVE u \in {b + k : k \in 1..n}
    <3>1. u - b \in 1..n /\ u = b + (u - b)
      OBVIOUS
    <3> QED BY <3>1
  <2> QED BY <2>1
<1> QED BY <1>1, <1>2, <1>3

LEMMA BlocksFacts ==
    ASSUME NEW n \in Nat
    PROVE  /\ Blocks(n) \in 0..n /\ Blocks(Blocks(n)) = Blocks(n)
           /\ n >= Block => Blocks(n) >= Block
           /\ \A m \in 0..n : Blocks(m) <= Blocks(n)
<1>1. Block \in Nat /\ Block > 0
  BY ConcurrentAssumption
<1>2. \A m \in Nat : /\ m \div Block \in Nat
                     /\ (m \div Block) * Block <= m /\ m < (m \div Block + 1) * Block
  BY <1>1, SMT
<1>3. \A i \in Nat, j \in Nat : i <= j => i * Block <= j * Block /\ i * Block \in Nat
  BY <1>1, SMT
<1>4. \A i \in Nat, j \in Nat : i * Block < j * Block => i < j
  BY <1>1, <1>3, SMT
<1>5. Blocks(n) \in 0..n
  BY <1>2, <1>3 DEF Blocks
<1>6. \A m \in 0..n : Blocks(m) <= Blocks(n)
  <2> SUFFICES ASSUME NEW m \in 0..n PROVE m \div Block <= n \div Block
    BY <1>2, <1>3 DEF Blocks
  <2>1. (m \div Block) * Block < (n \div Block + 1) * Block
    BY <1>2, <1>3
  <2>2. m \div Block < n \div Block + 1
    BY <1>2, <1>4, <2>1
  <2> QED BY <1>2, <2>2
<1>7. \A k \in Nat : Blocks(k * Block) = k * Block
  <2> SUFFICES ASSUME NEW k \in Nat PROVE (k * Block) \div Block = k
    BY DEF Blocks
  <2>1. PICK m \in Nat : m = k * Block
    BY <1>3
  <2>2. PICK d \in Nat : d = m \div Block
    BY <1>2
  <2>3. d * Block <= k * Block /\ k * Block < (d + 1) * Block
    BY <1>2, <2>1, <2>2
  <2>4. k < d + 1
    BY <1>4, <2>3
  <2>5. d < k + 1
    BY <1>1, <1>4, <2>3, <1>3
  <2> QED BY <2>1, <2>2, <2>4, <2>5
<1>8. Blocks(Blocks(n)) = Blocks(n)
  BY <1>2, <1>7 DEF Blocks
<1>9. Blocks(Block) = Block
  BY <1>1, <1>7
<1>10. n >= Block => Blocks(n) >= Block
  BY <1>1, <1>6, <1>9
<1> QED BY <1>5, <1>6, <1>8, <1>10

\* What First contains,
LEMMA InFirst ==
    ASSUME NEW p \in Pieces, NEW n \in Nat, NEW u
    PROVE  u \in First(p, n) <=> u \in Nat /\ Before(p) < u /\ u <= Before(p) + n
<1>1. PICK b \in Nat : b = Before(p)
  BY BeforePiece
<1>2. First(p, n) = (b + 1)..(b + n)
  BY <1>1, FirstIs
<1> QED BY <1>1, <1>2

LEMMA FirstUnits ==
    ASSUME NEW p \in Pieces, NEW n \in 0..PieceUnits
    PROVE  First(p, n) \subseteq Whole(p) /\ First(p, n) \subseteq Units
           /\ \A m \in 0..n : First(p, m) \subseteq First(p, n)
<1>1. PieceUnits \in Nat /\ n \in Nat /\ Before(p) \in Nat /\ Before(p) + PieceUnits <= Total
  BY BeforePiece, ConcurrentAssumption
<1>2. PieceCount \in Nat
  BY ConcurrentAssumption
<1>3. Total \in Nat
  BY <1>1, <1>2, SMT DEF Total
<1>4. First(p, n) \subseteq Whole(p)
  BY <1>1, InFirst DEF Whole
<1>5. First(p, n) \subseteq Units
  BY <1>1, <1>3, InFirst DEF Units
<1>6. \A m \in 0..n : First(p, m) \subseteq First(p, n)
  BY <1>1, InFirst
<1> QED BY <1>4, <1>5, <1>6

\* a unit is in one piece only,
LEMMA OnePiece ==
    ASSUME NEW p \in Pieces, NEW q \in Pieces, NEW u \in Whole(p), u \in Whole(q) PROVE p = q
<1>1. /\ PieceUnits \in Nat /\ u \in Nat /\ Before(p) \in Nat /\ Before(q) \in Nat
      /\ Before(p) < u /\ u <= Before(p) + PieceUnits
      /\ Before(q) < u /\ u <= Before(q) + PieceUnits
  BY InFirst, BeforePiece, ConcurrentAssumption DEF Whole
<1>2. p < q => Before(p) + PieceUnits <= Before(q)
  BY BeforePiece
<1>3. q < p => Before(q) + PieceUnits <= Before(p)
  BY BeforePiece
<1>4. p \in Nat /\ q \in Nat
  BY DEF Pieces
<1> QED BY <1>1, <1>2, <1>3, <1>4

\* and every unit is in one.
LEMMA SomePiece == ASSUME NEW u \in Units PROVE \E p \in Pieces : u \in Whole(p)
<1> DEFINE S == {p \in Nat \ {0} : u <= p * PieceUnits}
<1>1. u \in Nat /\ u >= 1 /\ u <= Total /\ PieceUnits \in Nat /\ PieceCount \in Nat \ {0}
  BY ConcurrentAssumption DEF Units
<1>2. PieceCount \in S
  BY <1>1 DEF Total
<1>3. PICK p \in S : \A q \in S : p <= q
  <2>1. S \in SUBSET Nat /\ S # {}
    BY <1>2
  <2> HIDE DEF S
  <2> QED BY <2>1, LeastOf
<1>4. p \in Pieces
  BY <1>1, <1>2, <1>3 DEF Pieces
<1>5. u > (p - 1) * PieceUnits
  <2>1. CASE p = 1
    BY <1>1, <2>1
  <2>2. CASE p # 1
    <3>1. p - 1 \in Nat \ {0} /\ p - 1 \notin S
      BY <1>3, <2>2
    <3>2. (p - 1) * PieceUnits \in Nat
      BY <1>4, BeforePiece DEF Before
    <3> QED BY <1>1, <3>1, <3>2
  <2> QED BY <2>1, <2>2
<1>6. u <= Before(p) + PieceUnits
  BY <1>3, <1>4, BeforePiece
<1> QED BY <1>1, <1>4, <1>5, <1>6, InFirst DEF Before, Whole

LEMMA UnitsOf ==
    /\ Units = UNION {Whole(p) : p \in Pieces}
    /\ \A p \in Pieces : Whole(p) \subseteq Units
<1>1. \A p \in Pieces : Whole(p) \subseteq Units
  BY FirstUnits, ConcurrentAssumption DEF Whole
<1> QED BY <1>1, SomePiece

\* Where a unit is, the write channel asks by division.
LEMMA PieceIs ==
    ASSUME NEW p \in Pieces, NEW u \in Whole(p) PROVE (u - 1) \div PieceUnits = p - 1
<1>1. PieceUnits \in Nat \ {0} /\ u \in Nat /\ p \in Nat \ {0}
      /\ Before(p) < u /\ u <= Before(p) + PieceUnits /\ Before(p) \in Nat
  BY InFirst, BeforePiece, ConcurrentAssumption DEF Whole, Pieces
<1>2. PICK v \in Nat : v = u - 1
  BY <1>1
<1>3. \A m \in Nat : /\ m \div PieceUnits \in Nat
                     /\ (m \div PieceUnits) * PieceUnits <= m
                     /\ m < (m \div PieceUnits + 1) * PieceUnits
  BY <1>1, SMT
<1>4. PICK d \in Nat : d = v \div PieceUnits
  BY <1>3
<1>5. \A i \in Nat, j \in Nat : i <= j => i * PieceUnits <= j * PieceUnits /\ i * PieceUnits \in Nat
  BY <1>1, SMT
<1>6. \A i \in Nat, j \in Nat : i * PieceUnits < j * PieceUnits => i < j
  BY <1>1, <1>5, SMT
<1>7. d * PieceUnits <= v /\ v < (d + 1) * PieceUnits
  BY <1>3, <1>4
<1>8. (p - 1) * PieceUnits <= v /\ v < p * PieceUnits
  BY <1>1, <1>2, BeforePiece DEF Before
<1>9. p - 1 \in Nat /\ d + 1 \in Nat
  BY <1>1
<1>10. d * PieceUnits < p * PieceUnits /\ (p - 1) * PieceUnits < (d + 1) * PieceUnits
  BY <1>5, <1>7, <1>8, <1>9, <1>1
<1>11. d < p /\ p - 1 < d + 1
  BY <1>6, <1>9, <1>10, <1>1
<1> QED BY <1>1, <1>2, <1>4, <1>11

\* A set of units is counted, and one with all of them is the whole file.
LEMMA UnitsCount ==
    ASSUME NEW S \in SUBSET Units
    PROVE  IsFiniteSet(S) /\ Cardinality(S) \in 0..Total /\ (Cardinality(S) = Total => S = Units)
<1>1. Total \in Nat
  BY ConcurrentAssumption, SMT DEF Total
<1>2. IsFiniteSet(Units) /\ Cardinality(Units) = Total
  BY <1>1, FS_Interval DEF Units
<1>3. IsFiniteSet(S) /\ Cardinality(S) <= Cardinality(Units)
      /\ (Cardinality(S) = Cardinality(Units) => S = Units)
  BY <1>2, FS_Subset
<1>4. Cardinality(S) \in Nat
  BY <1>3, FS_CardinalityType
<1> QED BY <1>1, <1>2, <1>3, <1>4

-----------------------------------------------------------------------------
(***************************************************************************)
(* The accounts.  Every step clears them with the attempt, leaves them     *)
(* alone, starts a range, or gives one back; one lemma for each kind.      *)
(***************************************************************************)
Handled == {"head", "admit", "wait", "cooldown"}

\* The functions of the pieces are functions of the pieces.
Shape ==
    /\ DOMAIN seg = Pieces
    /\ \A p \in Pieces :
        /\ DOMAIN seg[p] = {"status", "done", "retries"} /\ seg[p].retries \in Nat
        /\ seg[p].status \in {"Pending", "Downloading", "Done", "Failed"}
    /\ DOMAIN mirror = {"active", "failures", "disabled"} /\ mirror.active \in Int
    /\ DOMAIN phase = Pieces /\ DOMAIN charged = Pieces
    /\ \A p \in Pieces : charged[p] \in Nat
    /\ DOMAIN req = Pieces
    /\ \A p \in Pieces :
        req[p] = NoReq \/ ("outcome" \in DOMAIN req[p] /\ req[p].outcome # "none")

\* Outside a transfer nothing is accounted for.
Clean ==
    /\ \A p \in Pieces : req[p] = NoReq /\ charged[p] = 0
    /\ mirror.active = 0

\* Within one the accounts agree, and a work item has no more failures charged
\* than its piece, so the piece fails no later than the item is dropped.
Ledger ==
    /\ Having("Downloading") = Tracked
    /\ Work!InPhase("InFlight") = Tracked
    /\ mirror.active = Cardinality(Tracked)
    /\ \A p \in Having("Pending") : phase[p] \in {"Pending", "Delayed"}
    /\ \A p \in Pieces : charged[p] <= seg[p].retries

AccountInv ==
    /\ Shape
    /\ pc \notin Handled \cup {"fallback"} => Clean
    /\ pc \in Handled => Ledger

-----------------------------------------------------------------------------
LEMMA PiecesFinite == IsFiniteSet(Pieces)
  BY FS_Interval, ConcurrentAssumption DEF Pieces

\* The attempt ends, or its transfer does.
LEMMA ClearKeeps ==
    ASSUME ClearTransfer, pc' \notin Handled PROVE AccountInv'
<1>1. Shape'
  BY DEF ClearTransfer, Shape, FreshSeg, Zero
<1>2. Clean'
  BY DEF ClearTransfer, Clean, Zero
<1> QED BY <1>1, <1>2 DEF AccountInv

\* A step leaves the accounts alone and stays where they count the same.
LEMMA StillKeeps ==
    ASSUME AccountInv, UNCHANGED <<seg, mirror, phase, charged, req>>,
           pc' \in Handled => pc \in Handled,
           pc' \notin Handled \cup {"fallback"} => pc \notin Handled \cup {"fallback"}
    PROVE  AccountInv'
<1>1. Shape'
  BY DEF AccountInv, Shape
<1>2. Clean => Clean'
  BY DEF Clean
<1>3. Ledger => Ledger'
  BY DEF Ledger, Having, Tracked, Work!InPhase
<1> QED BY <1>1, <1>2, <1>3 DEF AccountInv

\* A range starts.
LEMMA StartKeeps ==
    ASSUME Shape, Ledger, NEW p \in Pieces, AdmitRange(p) PROVE Shape' /\ Ledger'
<1>1. /\ seg[p].status = "Pending" /\ seg' = [seg EXCEPT ![p].status = "Downloading"]
      /\ mirror' = [mirror EXCEPT !.active = @ + 1]
      /\ charged' = charged
  BY DEF AdmitRange, Work!Admit
<1>2. /\ phase' = [q \in Pieces |-> IF q = p THEN "InFlight" ELSE phase[q]]
      /\ req'[p].outcome = "running" /\ "outcome" \in DOMAIN req'[p] /\ DOMAIN req' = Pieces
      /\ \A q \in Pieces \ {p} : req'[q] = req[q]
  BY DEF AdmitRange, Work!Admit, Shape
<1>3. Shape'
  BY <1>1, <1>2 DEF Shape
<1>4. p \notin Tracked
  BY <1>1 DEF Ledger, Having
<1>5. Tracked' = Tracked \cup {p}
  BY <1>2 DEF Tracked, NoReq
<1>6. Having("Downloading")' = Having("Downloading") \cup {p}
  BY <1>1 DEF Having, Shape
<1>7. Work!InPhase("InFlight")' = Work!InPhase("InFlight") \cup {p}
  BY <1>2 DEF Work!InPhase
<1>8. IsFiniteSet(Tracked)
  BY PiecesFinite, FS_Subset DEF Tracked
<1>9. Cardinality(Tracked') = Cardinality(Tracked) + 1
  BY <1>4, <1>5, <1>8, FS_AddElement
<1>10. mirror'.active = mirror.active + 1
  BY <1>1 DEF Shape
<1>11. \A q \in Having("Pending")' : phase'[q] \in {"Pending", "Delayed"}
  BY <1>1, <1>2 DEF Ledger, Having, Shape
<1>12. \A q \in Pieces : charged'[q] <= seg'[q].retries
  BY <1>1 DEF Ledger, Shape
<1> QED BY <1>3, <1>5, <1>6, <1>7, <1>9, <1>10, <1>11, <1>12 DEF Ledger

\* A range is given back.
LEMMA BackKeeps ==
    ASSUME Shape, Ledger, NEW p \in Pieces, req[p] # NoReq, Forget(p), Shape',
           \A q \in Pieces \ {p} : seg'[q] = seg[q] /\ phase'[q] = phase[q] /\ charged'[q] = charged[q],
           mirror'.active = mirror.active - 1,
           seg'[p].status # "Downloading", phase'[p] # "InFlight",
           seg'[p].status = "Pending" => phase'[p] \in {"Pending", "Delayed"},
           charged'[p] <= seg'[p].retries
    PROVE  Ledger'
<1>1. Tracked' = Tracked \ {p} /\ p \in Tracked
  BY DEF Tracked, Forget, Shape
<1>2. Having("Downloading")' = Having("Downloading") \ {p}
  BY DEF Having
<1>3. Work!InPhase("InFlight")' = Work!InPhase("InFlight") \ {p}
  BY DEF Work!InPhase
<1>4. IsFiniteSet(Tracked)
  BY PiecesFinite, FS_Subset DEF Tracked
<1>5. Cardinality(Tracked') = Cardinality(Tracked) - 1
  BY <1>1, <1>4, FS_RemoveElement
<1>6. \A q \in Having("Pending")' : phase'[q] \in {"Pending", "Delayed"}
  BY DEF Ledger, Having
<1>7. \A q \in Pieces : charged'[q] <= seg'[q].retries
  BY DEF Ledger
<1> QED BY <1>1, <1>2, <1>3, <1>5, <1>6, <1>7 DEF Ledger

\* What the steps that give a range back do to piece and item: the piece is
\* requeued, uncharged,
LEMMA Requeued ==
    ASSUME AccountInv, pc \in Handled, NEW p \in Pieces, req[p] # NoReq, Forget(p),
           RequeueSegment(p), Uncharged(p), pc' \in Handled
    PROVE  AccountInv'
<1>1. /\ seg' = [seg EXCEPT ![p].status = "Pending"]
      /\ mirror' = [mirror EXCEPT !.active = @ - 1]
      /\ phase' = [phase EXCEPT ![p] = "Pending"]
      /\ charged' = [charged EXCEPT ![p] = charged[p]]
  BY DEF RequeueSegment, Uncharged, Work!Requeue
<1>2. Shape'
  BY <1>1 DEF AccountInv, Shape, Forget
<1>3. /\ \A q \in Pieces \ {p} : seg'[q] = seg[q] /\ phase'[q] = phase[q] /\ charged'[q] = charged[q]
      /\ mirror'.active = mirror.active - 1
      /\ seg'[p].status = "Pending" /\ phase'[p] = "Pending"
      /\ charged'[p] = charged[p] /\ seg'[p].retries = seg[p].retries
  BY <1>1 DEF AccountInv, Shape
<1>4. charged[p] <= seg[p].retries
  BY DEF AccountInv, Ledger
<1>5. Ledger'
  BY <1>2, <1>3, <1>4, BackKeeps DEF AccountInv
<1> QED BY <1>2, <1>5 DEF AccountInv

\* or charged with a failure, after which the piece fails no later than the item,
LEMMA Charged ==
    ASSUME AccountInv, pc \in Handled, NEW p \in Pieces, req[p] # NoReq, Forget(p),
           FailSegment(p), FailWork(p), pc' \in Handled
    PROVE  AccountInv'
<1>1. /\ seg' = [seg EXCEPT ![p].retries = @ + 1,
                   ![p].status = IF seg[p].retries + 1 >= MaxTries THEN "Failed" ELSE "Pending"]
      /\ mirror' = [active |-> mirror.active - 1, failures |-> mirror.failures + 1,
                    disabled |-> mirror.disabled \/ mirror.failures + 1 >= MaxMirrorFailures]
  BY DEF FailSegment
<1>2. /\ charged[p] \in Nat /\ seg[p].retries \in Nat /\ MaxTries \in Nat \ {0}
      /\ charged[p] <= seg[p].retries
  BY ConcurrentAssumption DEF AccountInv, Shape, Ledger
<1>3. \/ /\ charged[p] + 1 < MaxTries /\ phase' = [phase EXCEPT ![p] = "Delayed"]
         /\ charged' = [charged EXCEPT ![p] = @ + 1]
      \/ /\ charged[p] + 1 >= MaxTries
         /\ phase' = [q \in Pieces |-> IF q \in {p} THEN "Idle" ELSE phase[q]]
         /\ charged' = [q \in Pieces |-> IF q \in {p} THEN 0 ELSE charged[q]]
  <2>1. CASE charged[p] + 1 < MaxTries
    <3>1. Work!Delay(p)
      BY <2>1 DEF FailWork
    <3>2. Work!Limited(p)
      BY <1>2 DEF Work!Limited
    <3> QED BY <2>1, <3>1, <3>2 DEF Work!Delay
  <2>2. CASE ~(charged[p] + 1 < MaxTries)
    <3>1. Work!Finish({p})
      BY <2>2 DEF FailWork
    <3> QED BY <1>2, <2>2, <3>1 DEF Work!Finish
  <2> QED BY <2>1, <2>2
<1>4. /\ DOMAIN seg' = Pieces /\ DOMAIN seg'[p] = {"status", "done", "retries"}
      /\ seg'[p].retries = seg[p].retries + 1
      /\ seg'[p].status = IF seg[p].retries + 1 >= MaxTries THEN "Failed" ELSE "Pending"
      /\ \A q \in Pieces \ {p} : seg'[q] = seg[q]
  BY <1>1 DEF AccountInv, Shape
<1>5. /\ DOMAIN phase' = Pieces /\ DOMAIN charged' = Pieces
      /\ \A q \in Pieces \ {p} : phase'[q] = phase[q] /\ charged'[q] = charged[q]
      /\ \/ charged[p] + 1 < MaxTries /\ phase'[p] = "Delayed" /\ charged'[p] = charged[p] + 1
         \/ charged[p] + 1 >= MaxTries /\ phase'[p] = "Idle" /\ charged'[p] = 0
  BY <1>3 DEF AccountInv, Shape
<1>6. /\ DOMAIN req' = Pieces
      /\ \A q \in Pieces :
            req'[q] = NoReq \/ ("outcome" \in DOMAIN req'[q] /\ req'[q].outcome # "none")
  BY DEF AccountInv, Shape, Forget
<1>7. DOMAIN mirror' = {"active", "failures", "disabled"} /\ mirror'.active = mirror.active - 1
  BY <1>1
<1>8. Shape'
  BY <1>2, <1>4, <1>5, <1>6, <1>7 DEF AccountInv, Shape
<1>9. Ledger'
  BY <1>2, <1>4, <1>5, <1>7, <1>8, BackKeeps DEF AccountInv
<1> QED BY <1>8, <1>9 DEF AccountInv

\* or completed.
LEMMA Completed ==
    ASSUME AccountInv, pc \in Handled, NEW p \in Pieces, req[p] # NoReq, Forget(p), NEW s,
           CompleteRange(p, s), DOMAIN s = Pieces, DOMAIN s[p] = DOMAIN seg[p],
           \A q \in Pieces \ {p} : s[q] = seg[q], s[p].retries = seg[p].retries,
           \/ s[p].status = "Done" /\ Work!Finish({p})
           \/ s[p].status = "Pending" /\ Work!Requeue(p, 0),
           pc' \in Handled
    PROVE  AccountInv'
<1>1. seg' = s /\ mirror' = [mirror EXCEPT !.active = @ - 1, !.failures = 0]
  BY DEF CompleteRange
<1>2. /\ DOMAIN phase' = Pieces /\ DOMAIN charged' = Pieces
      /\ \A q \in Pieces \ {p} : phase'[q] = phase[q] /\ charged'[q] = charged[q]
      /\ charged'[p] = 0
      /\ phase'[p] = IF s[p].status = "Done" THEN "Idle" ELSE "Pending"
  <2>1. CASE s[p].status = "Done"
    BY <2>1 DEF Work!Finish
  <2>2. CASE s[p].status = "Pending"
    BY <2>2 DEF Work!Requeue, AccountInv, Shape
  <2> QED BY <2>1, <2>2
<1>3. /\ DOMAIN req' = Pieces
      /\ \A q \in Pieces :
            req'[q] = NoReq \/ ("outcome" \in DOMAIN req'[q] /\ req'[q].outcome # "none")
  BY DEF AccountInv, Shape, Forget
<1>4. DOMAIN mirror' = {"active", "failures", "disabled"} /\ mirror'.active = mirror.active - 1
  BY <1>1 DEF AccountInv, Shape
<1>5. Shape'
  BY <1>1, <1>2, <1>3, <1>4 DEF AccountInv, Shape
<1>6. seg[p].retries \in Nat
  BY DEF AccountInv, Shape
<1>7. Ledger'
  BY <1>1, <1>2, <1>4, <1>5, <1>6, BackKeeps DEF AccountInv
<1> QED BY <1>5, <1>7 DEF AccountInv

-----------------------------------------------------------------------------
\* An error leaves the transfer.
LEMMA LeaveKeeps ==
    ASSUME NEW w \in {"failed", "stopped", "done", "cannotResume"}, Leave(w) PROVE AccountInv'
  BY ClearKeeps DEF Leave, Handled

LEMMA FailKeeps ==
    ASSUME \/ \E f : SyncFails(f) \/ FlushFails(f)
           \/ \E w \in {"failed", "stopped", "cannotResume"} : CancelAndPersist(w)
    PROVE  AccountInv'
  BY LeaveKeeps DEF SyncFails, FlushFails, CancelAndPersist

\* The steps of the command before and after a transfer,
LEMMA OutsideStep ==
    ASSUME AccountInv,
           \/ Start \/ NextMirror \/ FreshRemove \/ DetectComplete \/ DetectPartial \/ Allocate
           \/ Prepare \/ FreshTruncate \/ GiveUp \/ Halt \/ RequestSave \/ Crash
    PROVE  AccountInv'
<1> USE DEF attempt, manager, work, net, Handled
<1>1. CASE Start \/ NextMirror \/ FreshRemove \/ FreshTruncate \/ GiveUp \/ DetectPartial
  BY <1>1, StillKeeps DEF Start, NextMirror, FreshRemove, FreshTruncate, GiveUp, DetectPartial
<1>2. CASE DetectComplete \/ Crash
  BY <1>2, LeaveKeeps DEF DetectComplete, Crash
<1>3. CASE Halt \/ RequestSave
  BY <1>3, StillKeeps DEF Halt, RequestSave
<1>4. CASE Allocate
  <2>1. CASE pc = "allocate" /\ pc' = "prepare" /\ UNCHANGED attempt
    BY <2>1, StillKeeps
  <2>2. CASE Leave("failed")
    BY <2>2, LeaveKeeps
  <2> QED BY <1>4, <2>1, <2>2 DEF Allocate
<1>5. CASE Prepare
  <2>1. CASE Leave("failed")
    BY <2>1, LeaveKeeps
  <2>2. CASE /\ pc = "prepare" /\ pc' = "head" /\ seg' = FreshSeg(Restored)
             /\ phase' = [p \in Pieces |-> IF Restored[p] = PieceUnits THEN "Idle" ELSE "Pending"]
             /\ UNCHANGED <<mirror, charged, req>>
    <3>1. Shape /\ Clean
      BY <2>2 DEF AccountInv
    <3>2. seg' = [p \in Pieces |->
                    [status |-> IF Restored[p] = PieceUnits THEN "Done" ELSE "Pending",
                     done |-> Restored[p], retries |-> 0]]
      BY <2>2 DEF FreshSeg
    <3>3. \A p \in Pieces :
            /\ DOMAIN seg'[p] = {"status", "done", "retries"} /\ seg'[p].retries = 0
            /\ seg'[p].status = IF Restored[p] = PieceUnits THEN "Done" ELSE "Pending"
      BY <3>2
    <3>4. Shape'
      BY <2>2, <3>1, <3>2, <3>3 DEF Shape
    <3>5. Tracked' = {} /\ Having("Downloading")' = {} /\ Work!InPhase("InFlight")' = {}
      BY <2>2, <3>1, <3>3 DEF Tracked, Having, Work!InPhase, Clean
    <3>6. Cardinality({}) = 0
      BY FS_EmptySet
    <3>7. \A p \in Having("Pending")' : phase'[p] \in {"Pending", "Delayed"}
      BY <2>2, <3>3 DEF Having
    <3>8. mirror'.active = 0 /\ \A p \in Pieces : charged'[p] <= seg'[p].retries
      BY <2>2, <3>1, <3>3 DEF Clean
    <3>9. Ledger'
      BY <3>5, <3>6, <3>7, <3>8 DEF Ledger
    <3> QED BY <2>2, <3>4, <3>9 DEF AccountInv
  <2> QED BY <1>5, <2>1, <2>2 DEF Prepare
<1> QED BY <1>1, <1>2, <1>3, <1>4, <1>5

\* the range tasks,
LEMMA TaskStep == ASSUME AccountInv, Tasks PROVE AccountInv'
<1>1. PICK p \in Pieces : SendChunk(p) \/ TaskOk(p) \/ TaskFails(p)
  BY DEF Tasks
<1>2. /\ UNCHANGED <<pc, seg, mirror, phase, charged>> /\ pc \in Handled \cup {"fallback"}
      /\ req[p] # NoReq
  BY <1>1 DEF SendChunk, TaskOk, TaskFails, Downloading, Handled, manager, work
<1>3. DOMAIN req' = Pieces /\ "outcome" \in DOMAIN req'[p] /\ req'[p].outcome # "none"
      /\ \A q \in Pieces \ {p} : req'[q] = req[q]
  <2>1. CASE SendChunk(p)
    BY <2>1 DEF SendChunk, AccountInv, Shape
  <2>2. CASE TaskOk(p) \/ TaskFails(p)
    <3>1. PICK o \in Failures \cup Refusals \cup {"ok"} : req' = [req EXCEPT ![p].outcome = o]
      BY <2>2 DEF TaskOk, TaskFails
    <3>2. o # "none"
      BY DEF Failures, Refusals
    <3>3. "outcome" \in DOMAIN req[p]
      BY <1>2 DEF AccountInv, Shape
    <3>4. req'[p] = [req[p] EXCEPT !.outcome = o]
      BY <3>1 DEF AccountInv, Shape
    <3> QED BY <3>1, <3>2, <3>3, <3>4 DEF AccountInv, Shape
  <2> QED BY <1>1, <2>1, <2>2
<1>4. Tracked' = Tracked
  BY <1>2, <1>3 DEF Tracked, NoReq
<1>5. Shape'
  BY <1>2, <1>3 DEF AccountInv, Shape
<1>6. Ledger => Ledger'
  BY <1>2, <1>4 DEF Ledger, Having, Work!InPhase
<1> QED BY <1>2, <1>5, <1>6 DEF AccountInv

\* the steps of the scheduler that touch no range,
LEMMA IdleStep ==
    ASSUME AccountInv,
           \/ HeadHalted \/ HeadGoes \/ WriteFails \/ CooledDown \/ CooldownHalted
           \/ EnterWait \/ Finish \/ CoolDown \/ AllRangesFailed \/ Stuck
           \/ Woken \/ \E u \in Units : WriteChunk(u)
    PROVE  AccountInv'
<1> USE DEF attempt, manager, work, net, Handled, Idle
<1>1. CASE HeadHalted \/ AllRangesFailed
  BY <1>1, FailKeeps DEF HeadHalted, AllRangesFailed
<1>2. CASE HeadGoes \/ CooledDown \/ CoolDown \/ Stuck
  BY <1>2, StillKeeps DEF HeadGoes, CooledDown, CoolDown, Stuck
<1>3. CASE WriteFails \/ CooldownHalted
  BY <1>3, LeaveKeeps DEF WriteFails, CooldownHalted
<1>4. CASE Finish
  BY <1>4, LeaveKeeps, FailKeeps DEF Finish
<1>5. CASE EnterWait
  BY <1>5, StillKeeps, FailKeeps DEF EnterWait
<1>6. CASE Woken
  BY <1>6, StillKeeps, FailKeeps DEF Woken
<1>7. CASE \E u \in Units : WriteChunk(u)
  BY <1>7, StillKeeps, FailKeeps DEF WriteChunk
<1> QED BY <1>1, <1>2, <1>3, <1>4, <1>5, <1>6, <1>7

\* the ones that start a range or drop an item whose piece is settled,
LEMMA AdmitStep ==
    ASSUME AccountInv, NEW p \in Pieces, AdmitRange(p) \/ DropSettled(p) PROVE AccountInv'
<1>1. Shape /\ Ledger
  BY DEF AccountInv, AdmitRange, DropSettled, Handled
<1>2. CASE AdmitRange(p)
  BY <1>1, <1>2, StartKeeps DEF AccountInv, AdmitRange, Handled
<1>3. CASE DropSettled(p)
  <2>1. /\ pc' = "admit" /\ UNCHANGED <<seg, mirror, req>>
        /\ phase[p] # "InFlight" /\ seg[p].status # "Pending"
    BY <1>3 DEF DropSettled, manager, net
  <2>2. /\ DOMAIN phase' = Pieces /\ DOMAIN charged' = Pieces
        /\ phase'[p] = "Idle" /\ charged'[p] = 0
        /\ \A q \in Pieces \ {p} : phase'[q] = phase[q] /\ charged'[q] = charged[q]
    BY <1>3 DEF DropSettled, Work!Finish
  <2>3. Shape'
    BY <1>1, <2>1, <2>2 DEF Shape
  <2>4. Having("Downloading")' = Having("Downloading") /\ Tracked' = Tracked
    BY <2>1 DEF Having, Tracked
  <2>5. Work!InPhase("InFlight")' = Work!InPhase("InFlight")
    BY <2>1, <2>2 DEF Work!InPhase
  <2>6. \A q \in Having("Pending")' : phase'[q] \in {"Pending", "Delayed"}
    BY <1>1, <2>1, <2>2 DEF Ledger, Having
  <2>7. \A q \in Pieces : charged'[q] <= seg'[q].retries
    BY <1>1, <2>1, <2>2 DEF Ledger, Shape
  <2> QED BY <1>1, <2>1, <2>3, <2>4, <2>5, <2>6, <2>7 DEF Ledger, AccountInv, Handled
<1> QED BY <1>2, <1>3

\* the ones that receive a result, or do not wait for it any longer,
LEMMA ResultStep ==
    ASSUME AccountInv, NEW p \in Pieces,
           \/ RangeOk(p) \/ RangeSmaller(p) \/ RangeBusy(p) \/ RangeFallsBack(p)
           \/ RangeRetries(p) \/ RangeFatal(p) \/ StaleResult(p) \/ Stalled(p) \/ SlowOutlier(p)
    PROVE  AccountInv'
<1>1. CASE RangeOk(p)
  <2> DEFINE got == req[p].to - req[p].from + 1
             s == [seg EXCEPT ![p].done = @ + got,
                     ![p].status = IF seg[p].done + got = PieceUnits THEN "Done" ELSE "Pending"]
             whole == s[p].status = "Done"
  <2>1. pc \in Handled /\ req[p] # NoReq
    BY <1>1 DEF RangeOk, Result, Handled
  <2>2. CASE /\ pc' = "head" /\ Received(p) /\ CompleteRange(p, s)
             /\ IF whole THEN Work!Finish({p}) ELSE Work!Requeue(p, 0)
    <3>1. DOMAIN seg = Pieces /\ DOMAIN seg[p] = {"status", "done", "retries"}
      BY DEF AccountInv, Shape
    <3>2. /\ DOMAIN s = Pieces /\ DOMAIN s[p] = DOMAIN seg[p]
          /\ \A q \in Pieces \ {p} : s[q] = seg[q]
          /\ s[p].retries = seg[p].retries
          /\ s[p].status \in {"Done", "Pending"}
      BY <3>1
    <3>3. Forget(p) /\ pc' \in Handled
      BY <2>2 DEF Received, Handled
    <3> HIDE DEF s
    <3> QED BY <2>1, <2>2, <3>2, <3>3, Completed
  <2>3. CASE SyncFails(Drained) \/ FlushFails(Drained)
    BY <2>3, FailKeeps
  <2> QED BY <1>1, <2>2, <2>3 DEF RangeOk
<1>2. CASE RangeSmaller(p) \/ SlowOutlier(p)
  BY <1>2, Requeued DEF RangeSmaller, SlowOutlier, Result, Received, Abort, Handled
<1>3. CASE RangeBusy(p)
  <2>1. CASE CancelAndPersist("failed")
    BY <2>1, FailKeeps
  <2>2. CASE pc' = "head" /\ Received(p) /\ RequeueSegment(p) /\ Uncharged(p)
    BY <1>3, <2>2, Requeued DEF RangeBusy, Result, Received, Handled
  <2> QED BY <1>3, <2>1, <2>2 DEF RangeBusy
<1>4. CASE RangeFallsBack(p)
  <2>1. pc' = "fallback" /\ UNCHANGED <<seg, mirror>> /\ Forget(p) /\ Work!Finish({p})
    BY <1>4 DEF RangeFallsBack, Received, manager
  <2>2. DOMAIN phase' = Pieces /\ DOMAIN charged' = Pieces
        /\ \A q \in Pieces : charged'[q] = IF q = p THEN 0 ELSE charged[q]
    BY <2>1 DEF Work!Finish
  <2>3. Shape'
    BY <2>1, <2>2 DEF AccountInv, Shape, Forget
  <2> QED BY <2>1, <2>3 DEF AccountInv, Handled
<1>5. CASE RangeRetries(p) \/ Stalled(p)
  BY <1>5, Charged DEF RangeRetries, Stalled, Result, Received, Abort, Handled
<1>6. CASE RangeFatal(p)
  BY <1>6, FailKeeps DEF RangeFatal
<1>7. CASE StaleResult(p)
  BY <1>7, StillKeeps DEF StaleResult, manager, work, Handled
<1> QED BY <1>1, <1>2, <1>3, <1>4, <1>5, <1>6, <1>7

\* and the gap phase.
LEMMA GapStep == ASSUME AccountInv, Fallback \/ Gaps PROVE AccountInv'
<1> USE DEF Handled
<1>1. CASE Fallback
  <2>1. CASE SyncFails(Drained)
    BY <2>1, FailKeeps
  <2>2. CASE pc' = "gap" /\ ClearTransfer
    BY <2>2, ClearKeeps
  <2> QED BY <1>1, <2>1, <2>2 DEF Fallback
<1>2. CASE GapRead
  BY <1>2, StillKeeps DEF GapRead, manager, work, net
<1>3. CASE GapFilled
  <2>1. CASE SyncFails(file)
    BY <2>1, FailKeeps
  <2>2. CASE UNCHANGED <<pc, manager, work, net, prefix, round, resume>>
    BY <2>2, StillKeeps DEF manager, work, net
  <2> QED BY <1>3, <2>1, <2>2 DEF GapFilled
<1>4. CASE GapHalted \/ NothingMissing
  BY <1>4, LeaveKeeps DEF GapHalted, NothingMissing
<1>5. CASE GapFails
  <2>1. CASE Leave("failed") \/ Leave("cannotResume")
    BY <2>1, LeaveKeeps
  <2>2. CASE UNCHANGED <<pc, manager, work, net, prefix, round, resume>>
    BY <2>2, StillKeeps DEF manager, work, net
  <2> QED BY <1>5, <2>1, <2>2 DEF GapFails
<1>6. CASE GapsFilled
  BY <1>6, LeaveKeeps, FailKeeps DEF GapsFilled
<1> QED BY <1>1, <1>2, <1>3, <1>4, <1>5, <1>6 DEF Gaps

-----------------------------------------------------------------------------
LEMMA AccountInit == ASSUME Init PROVE AccountInv
<1>1. Shape
  BY DEF Init, Shape, FreshSeg, Zero
<1>2. Clean /\ pc \notin Handled
  BY DEF Init, Clean, Zero, Handled
<1> QED BY <1>1, <1>2 DEF AccountInv

LEMMA AccountStep == ASSUME AccountInv, [Next]_vars PROVE AccountInv'
<1>1. CASE UNCHANGED vars
  BY <1>1, StillKeeps DEF vars, attempt, manager, work, net
<1>2. CASE Tasks
  BY <1>2, TaskStep
<1>3. CASE Admission
  BY <1>3, IdleStep, AdmitStep DEF Admission
<1>4. CASE Select
  BY <1>4, IdleStep, ResultStep DEF Select
<1>5. CASE Fallback \/ Gaps
  BY <1>5, GapStep
<1>6. CASE HeadHalted \/ HeadGoes \/ CooledDown \/ CooldownHalted
  BY <1>6, IdleStep
<1>7. CASE \/ Start \/ NextMirror \/ FreshRemove \/ DetectComplete \/ DetectPartial \/ Allocate
           \/ Prepare \/ FreshTruncate \/ GiveUp \/ Halt \/ RequestSave \/ Crash
  BY <1>7, OutsideStep
<1> QED BY <1>1, <1>2, <1>3, <1>4, <1>5, <1>6, <1>7 DEF Next, Command

\* What the segment manager takes for downloading, what the work core has in
\* flight, the list of active ranges and the load of the source are the same
\* ranges in every round, and a pending piece has a work item, whatever fails
\* and in whatever order results, stalls and stale results arrive.
THEOREM AccountsAgree == Spec => []Accounting
<1>1. AccountInv => Accounting
  BY DEF AccountInv, Ledger, Accounting, Handled
<1> QED BY <1>1, AccountInit, AccountStep, PTL DEF Spec

-----------------------------------------------------------------------------
(***************************************************************************)
(* The types.                                                              *)
(***************************************************************************)
Places == {"stopped", "detect", "allocate", "prepare", "head", "admit", "wait", "cooldown",
           "fallback", "gap", "failed", "cannotResume", "truncate", "done"}
Ready == {"allocate", "prepare"}
Outcomes == Failures \cup Refusals \cup {"running", "ok"}
FileType == [seen : SUBSET Units, stable : SUBSET Units, size : Nat]
MaybeCtrl == Ctrl \cup {NoControl}
Counts == [Pieces -> 0..PieceUnits]
Segs == [Pieces -> [status : {"Pending", "Downloading", "Done", "Failed"},
                    done : 0..PieceUnits, retries : 0..MaxTries]]
Entry == [from : 1..PieceUnits, sent : 0..PieceUnits, to : 1..PieceUnits,
          limit : 1..PieceUnits, outcome : Outcomes]

\* The types of TypeOK with what makes them inductive: a range starts where the
\* credit of its piece ends, and a piece that is still wanted has a try left.
DiskTypes == file \in FileType /\ control \in MaybeCtrl
SegTypes ==
    /\ seg \in Segs
    /\ mirror \in [active : 0..Split, failures : Nat, disabled : BOOLEAN]
    /\ phase \in [Pieces -> Phases] /\ charged \in [Pieces -> 0..(MaxTries - 1)]
    /\ \A p \in Pieces :
        /\ seg[p].status = "Done" <=> seg[p].done = PieceUnits
        /\ seg[p].status \in {"Pending", "Downloading"} => seg[p].retries < MaxTries
Ranged(p) ==
    req[p] # NoReq =>
        /\ req[p] \in Entry
        /\ req[p].from <= req[p].to
        /\ req[p].from - 1 <= req[p].sent /\ req[p].sent <= req[p].to
        /\ req[p].outcome = "ok" => req[p].sent = req[p].to
        /\ pc \in Handled => req[p].from = seg[p].done + 1
NetTypes ==
    /\ DOMAIN req = Pieces /\ \A p \in Pieces : Ranged(p)
    /\ stale \subseteq Pieces /\ queue \subseteq Units /\ prefix \in Counts
RoundTypes ==
    round \in [limit : 1..PieceUnits, row416 : Nat, all416 : Nat, cooldown : BOOLEAN,
               unsaved : 0..(PieceUnits - 1), recovered : SUBSET Pieces]
GapTypes ==
    gap \in [have : SUBSET Units, got : 0..Total, any : BOOLEAN, tries : Nat, ctrl : MaybeCtrl]
ResumeTypes == resume \in [control : MaybeCtrl, length : 0..Total]
TypeInv ==
    /\ DiskTypes /\ pc \in Places /\ SegTypes /\ NetTypes /\ RoundTypes /\ GapTypes /\ ResumeTypes

LEMMA TypeInvIsType == TypeInv => TypeOK
<1> SUFFICES ASSUME TypeInv PROVE TypeOK
  OBVIOUS
<1>1. /\ file \in [seen : SUBSET Units, stable : SUBSET Units, size : Nat]
      /\ control \in Ctrl \cup {NoControl}
  BY DEF TypeInv, DiskTypes, FileType, MaybeCtrl
<1>2. ASSUME NEW p \in Tracked
      PROVE  /\ req[p].from \in 1..req[p].to /\ req[p].to \in 1..PieceUnits
             /\ req[p].sent \in (req[p].from - 1)..req[p].to
             /\ req[p].limit \in 1..PieceUnits
             /\ req[p].outcome \in Failures \cup Refusals \cup {"running", "ok"}
  <2>1. p \in Pieces /\ req[p] # NoReq
    BY <1>2 DEF Tracked
  <2>2. req[p] \in Entry /\ req[p].from <= req[p].to
        /\ req[p].from - 1 <= req[p].sent /\ req[p].sent <= req[p].to
    BY <2>1 DEF TypeInv, NetTypes, Ranged
  <2> QED BY <2>2, ConcurrentAssumption DEF Entry, Outcomes
<1>3. round.limit \in 1..PieceUnits /\ round.unsaved \in 0..(PieceUnits - 1)
  BY DEF TypeInv, RoundTypes
<1>4. gap.have \subseteq Units /\ gap.got \in 0..Total /\ gap.ctrl \in Ctrl \cup {NoControl}
  BY DEF TypeInv, GapTypes, MaybeCtrl
<1> QED
  BY <1>1, <1>2, <1>3, <1>4
  DEF TypeInv, TypeOK, SegTypes, NetTypes, ResumeTypes, Places, Segs, Counts, MaybeCtrl

-----------------------------------------------------------------------------
\* What the operators return.
LEMMA Sizes == PieceUnits \in Nat \ {0} /\ PieceCount \in Nat \ {0} /\ Total \in Nat \ {0}
               /\ Zero \in Counts
<1>1. PieceUnits \in Nat \ {0} /\ PieceCount \in Nat \ {0}
  BY ConcurrentAssumption
<1>2. Total \in Nat \ {0}
  BY <1>1, SMT DEF Total
<1> QED BY <1>1, <1>2 DEF Zero, Counts

LEMMA ClaimedUnits == ASSUME NEW c \in Ctrl PROVE Claimed(c) \subseteq Units
<1>1. ASSUME NEW p \in Pieces PROVE c.blocks[p] \in 0..PieceUnits
  BY <1>1 DEF Ctrl
<1>2. \A p \in Pieces : Whole(p) \subseteq Units /\ First(p, c.blocks[p]) \subseteq Units
  BY <1>1, UnitsOf, FirstUnits
<1> QED BY <1>2 DEF Claimed

LEMMA CreditedUnits == ASSUME NEW s \in Segs PROVE Credited(s) \subseteq Units
<1>1. ASSUME NEW p \in Pieces PROVE s[p].done \in 0..PieceUnits
  BY <1>1 DEF Segs
<1>2. \A p \in Pieces : First(p, s[p].done) \subseteq Units
  BY <1>1, FirstUnits
<1> QED BY <1>2 DEF Credited

LEMMA SnapshotType ==
    ASSUME NEW s \in Segs, NEW x \in Counts PROVE Snapshot(s, x) \in Ctrl
<1>1. \A p \in Pieces : Blocks(x[p]) \in 0..PieceUnits
  BY BlocksFacts, Sizes DEF Counts
<1>2. Cardinality(Credited(s)) \in 0..Total
  BY CreditedUnits, UnitsCount
<1>3. 0 \in 0..PieceUnits
  BY Sizes
<1> DEFINE done == {p \in Pieces : s[p].status = "Done"}
           blocks == [p \in Pieces |-> IF p \in done THEN 0 ELSE Blocks(x[p])]
<1>4. blocks \in [Pieces -> 0..PieceUnits]
  BY <1>1, <1>3
<1>5. done \in SUBSET Pieces
  OBVIOUS
<1>6. Snapshot(s, x) = [bits |-> done, blocks |-> blocks, length |-> Cardinality(Credited(s))]
  BY DEF Snapshot
<1> HIDE DEF done, blocks
<1> QED BY <1>2, <1>4, <1>5, <1>6 DEF Ctrl

\* The prefix of a piece extends over the queue as far as it goes.
Reached(q, p) ==
    {k \in prefix[p]..PieceUnits : First(p, k) \ First(p, prefix[p]) \subseteq q}
LEMMA ExtendFacts ==
    ASSUME prefix \in Counts, NEW q
    PROVE  /\ Extend(q) \in Counts
           /\ \A p \in Pieces : /\ Extend(q)[p] \in Reached(q, p)
                                /\ \A k \in Reached(q, p) : k <= Extend(q)[p]
<1>1. ASSUME NEW p \in Pieces
      PROVE  /\ Max(Reached(q, p)) \in Reached(q, p) /\ Reached(q, p) \subseteq 0..PieceUnits
             /\ \A k \in Reached(q, p) : k <= Max(Reached(q, p))
  <2>1. prefix[p] \in 0..PieceUnits /\ PieceUnits \in Nat
    BY Sizes DEF Counts
  <2>2. Reached(q, p) \subseteq 0..PieceUnits
    BY <2>1 DEF Reached
  <2>3. prefix[p] \in Reached(q, p)
    BY <2>1 DEF Reached
  <2> QED BY <2>1, <2>2, <2>3, GreatestOf
<1>2. Extend(q) = [p \in Pieces |-> Max(Reached(q, p))]
  BY DEF Extend, Reached
<1> QED BY <1>1, <1>2 DEF Counts

LEMMA SyncedType == ASSUME NEW f \in FileType PROVE Synced(f) \in FileType
<1>1. OpenSize(f) \in Nat
  BY Sizes DEF OpenSize, FileType
<1> QED BY <1>1 DEF Synced, FileType

LEMMA HoldingFacts ==
    ASSUME NEW f \in FileType, NEW q \in SUBSET Units
    PROVE  /\ Holding(f, q) \in FileType /\ Holding(f, q).seen = f.seen \cup q
           /\ Holding(f, q).stable = f.stable
           /\ Holding(f, q).size >= f.size /\ (q # {} => Holding(f, q).size > 0)
<1>1. CASE q = {}
  BY <1>1 DEF Holding, FileType
<1>2. CASE q # {}
  <2>1. OpenSize(f) \in Nat /\ Total \in Nat /\ OpenSize(f) >= f.size /\ f.size \in Nat /\ OpenSize(f) > 0
    BY Sizes DEF OpenSize, FileType
  <2>2. PICK n \in Nat : n >= OpenSize(f) /\ n >= Total
    BY <2>1
  <2>3. q \cup {OpenSize(f)} \in SUBSET (0..n) /\ q \cup {OpenSize(f)} # {}
    <3>1. \A u \in q : u \in 0..n
      BY <2>1, <2>2 DEF Units
    <3> QED BY <2>1, <2>2, <3>1
  <2>4. /\ Max(q \cup {OpenSize(f)}) \in q \cup {OpenSize(f)}
        /\ \A k \in q \cup {OpenSize(f)} : k <= Max(q \cup {OpenSize(f)})
    BY <2>2, <2>3, GreatestOf
  <2>5. PICK m \in Nat : m = Max(q \cup {OpenSize(f)})
    BY <2>1, <2>3, <2>4
  <2>6. m >= OpenSize(f)
    BY <2>4, <2>5
  <2>7. Holding(f, q) = [f EXCEPT !.seen = @ \cup q, !.size = m]
    BY <1>2, <2>5 DEF Holding
  <2>8. /\ Holding(f, q).seen = f.seen \cup q /\ Holding(f, q).stable = f.stable
        /\ Holding(f, q).size = m
    BY <2>7 DEF FileType
  <2>9. Holding(f, q) \in FileType
    BY <2>5, <2>7 DEF FileType
  <2>10. m >= f.size /\ m > 0
    BY <2>1, <2>5, <2>6
  <2> QED BY <2>8, <2>9, <2>10
<1> QED BY <1>1, <1>2

\* The checkpoints of a round, of an error and of a gap.
LEMMA DrainedType == ASSUME TypeInv PROVE Drained \in FileType
  BY HoldingFacts DEF TypeInv, DiskTypes, NetTypes, Drained

LEMMA ClearTypes ==
    ASSUME ClearTransfer
    PROVE  SegTypes' /\ NetTypes' /\ RoundTypes'
<1>1. /\ 0 \in 0..PieceUnits /\ 0 \in 0..MaxTries /\ 0 \in 0..(MaxTries - 1) /\ 0 < MaxTries
      /\ 0 \in 0..Split /\ 0 \in 0..(PieceUnits - 1) /\ PieceUnits \in 1..PieceUnits
  BY ConcurrentAssumption
<1>2. /\ seg' \in Segs
      /\ \A p \in Pieces : /\ seg'[p].status = "Done" <=> seg'[p].done = PieceUnits
                           /\ seg'[p].retries < MaxTries
      /\ mirror' \in [active : 0..Split, failures : Nat, disabled : BOOLEAN]
  BY <1>1 DEF ClearTransfer, FreshSeg, Zero, Segs
<1>3. phase' \in [Pieces -> Phases] /\ charged' \in [Pieces -> 0..(MaxTries - 1)]
  BY <1>1 DEF ClearTransfer, Zero, Phases
<1>4. SegTypes'
  BY <1>2, <1>3 DEF SegTypes
<1>5. NetTypes'
  BY <1>1 DEF ClearTransfer, NetTypes, Ranged, Zero, Counts
<1>6. RoundTypes'
  BY <1>1 DEF ClearTransfer, RoundTypes, FreshRound
<1> QED BY <1>4, <1>5, <1>6

LEMMA LeaveTypes ==
    ASSUME NEW w \in Places, Leave(w), DiskTypes' PROVE TypeInv'
<1>1. SegTypes' /\ NetTypes' /\ RoundTypes'
  BY ClearTypes DEF Leave
<1>2. GapTypes' /\ ResumeTypes'
  BY Sizes DEF Leave, NoGap, NoResume, GapTypes, ResumeTypes, MaybeCtrl
<1>3. pc' = w
  BY DEF Leave
<1> QED BY <1>1, <1>2, <1>3 DEF TypeInv

LEMMA KeptType ==
    ASSUME NEW f \in FileType, NEW s \in SUBSET Units
    PROVE  [f EXCEPT !.seen = s] \in FileType
  BY DEF FileType

LEMMA SyncFailsTypes ==
    ASSUME NEW f \in FileType, SyncFails(f), control \in MaybeCtrl PROVE TypeInv'
<1>1. PICK kept \in SUBSET (f.seen \ f.stable) : file' = [f EXCEPT !.seen = f.stable \cup kept]
  BY DEF SyncFails
<1>2. f.stable \cup kept \in SUBSET Units
  BY DEF FileType
<1>3. DiskTypes'
  BY <1>1, <1>2, KeptType DEF SyncFails, DiskTypes
<1> QED BY <1>3, LeaveTypes DEF SyncFails, Places

LEMMA FlushFailsTypes ==
    ASSUME NEW f \in FileType, FlushFails(f), control \in MaybeCtrl PROVE TypeInv'
<1>1. CASE SyncFails(f)
  BY <1>1, SyncFailsTypes
<1>2. CASE Leave("failed") /\ file' = Synced(f) /\ UNCHANGED control
  <2>1. DiskTypes'
    BY <1>2, SyncedType DEF DiskTypes
  <2> QED BY <1>2, <2>1, LeaveTypes DEF Places
<1> QED BY <1>1, <1>2 DEF FlushFails

LEMMA SnapshotExtended ==
    ASSUME TypeInv PROVE Extend(queue) \in Counts /\ Snapshot(seg, Extend(queue)) \in Ctrl
                         /\ Snapshot(seg, prefix) \in Ctrl
<1>1. prefix \in Counts /\ seg \in Segs
  BY DEF TypeInv, NetTypes, SegTypes
<1>2. Extend(queue) \in Counts
  BY <1>1, ExtendFacts
<1> QED BY <1>1, <1>2, SnapshotType

LEMMA CancelTypes ==
    ASSUME TypeInv, NEW w \in Places, CancelAndPersist(w) PROVE TypeInv'
<1>1. Drained \in FileType /\ control \in MaybeCtrl
  BY DrainedType DEF TypeInv, DiskTypes
<1>2. CASE SyncFails(Drained)
  BY <1>1, <1>2, SyncFailsTypes
<1>3. CASE SyncAndSave(Drained, Snapshot(seg, Extend(queue))) /\ Leave(w)
  <2>1. DiskTypes'
    BY <1>1, <1>3, SyncedType, SnapshotExtended DEF SyncAndSave, DiskTypes, MaybeCtrl
  <2> QED BY <1>3, <2>1, LeaveTypes
<1> QED BY <1>2, <1>3 DEF CancelAndPersist

LEMMA FlushedTypes ==
    ASSUME NEW f \in FileType, NEW c \in Ctrl, control \in MaybeCtrl, Flushed(f, c)
    PROVE  DiskTypes'
  BY SyncedType DEF Flushed, DiskTypes, MaybeCtrl

LEMMA SomeLostTypes == ASSUME TypeInv, SomeLost PROVE file' \in FileType
<1>1. PICK kept \in SUBSET (file.seen \ file.stable) :
        file' = [file EXCEPT !.seen = file.stable \cup kept]
  BY DEF SomeLost
<1>2. file \in FileType /\ file.stable \cup kept \in SUBSET Units
  BY DEF TypeInv, DiskTypes, FileType
<1> QED BY <1>1, <1>2, KeptType

\* A step that leaves the pieces and the transfer alone.
LEMMA StillTypes ==
    ASSUME TypeInv, DiskTypes', pc' \in Places,
           UNCHANGED <<manager, work, net, prefix, round>>,
           GapTypes', ResumeTypes', pc' \in Handled => pc \in Handled
    PROVE  TypeInv'
<1>1. SegTypes'
  BY DEF TypeInv, SegTypes, manager, work
<1>2. NetTypes'
  BY DEF TypeInv, NetTypes, Ranged, net, manager
<1>3. RoundTypes'
  BY DEF TypeInv, RoundTypes
<1> QED BY <1>1, <1>2, <1>3 DEF TypeInv

-----------------------------------------------------------------------------
\* Where a resumed transfer starts.
LEMMA PrefixOfType == ASSUME NEW n \in Nat PROVE PrefixOf(n) \in Counts
<1>1. ASSUME NEW p \in Pieces, ~(n <= (p - 1) * PieceUnits)
      PROVE  Lesser(n - (p - 1) * PieceUnits, PieceUnits) \in 0..PieceUnits
  <2>1. PICK b \in Nat : b = (p - 1) * PieceUnits
    BY BeforePiece DEF Before
  <2>2. Lesser(n - b, PieceUnits) \in 0..PieceUnits
    BY <1>1, <2>1, Sizes DEF Lesser
  <2> QED BY <2>1, <2>2
<1> QED BY <1>1, Sizes DEF PrefixOf, Counts

LEMMA RestoredType ==
    ASSUME ResumeTypes PROVE Restored \in Counts /\ RestoredPrefix \in Counts
<1>1. resume.control \in MaybeCtrl /\ resume.length \in Nat
  BY Sizes DEF ResumeTypes
<1>2. CASE FromControl /\ Aggregate(resume.control)
  <2>1. resume.control \in Ctrl
    BY <1>1, <1>2 DEF FromControl, MaybeCtrl
  <2>2. resume.control.blocks \in Counts
    BY <2>1 DEF Ctrl, Counts
  <2>3. Restored = [p \in Pieces |-> IF p \in resume.control.bits THEN PieceUnits
                                    ELSE resume.control.blocks[p]]
    BY <1>2 DEF Restored
  <2> QED BY <1>2, <2>2, <2>3, Sizes DEF Counts, RestoredPrefix
<1>3. CASE ~(FromControl /\ Aggregate(resume.control))
  BY <1>1, <1>3, PrefixOfType DEF Restored, RestoredPrefix
<1> QED BY <1>2, <1>3

LEMMA FreshSegType ==
    ASSUME NEW d \in Counts
    PROVE  /\ FreshSeg(d) \in Segs
           /\ \A p \in Pieces : /\ FreshSeg(d)[p].done = d[p]
                                /\ FreshSeg(d)[p].status = "Done" <=> d[p] = PieceUnits
                                /\ FreshSeg(d)[p].retries < MaxTries
<1>1. 0 \in 0..MaxTries /\ 0 < MaxTries
  BY ConcurrentAssumption
<1> QED BY <1>1 DEF FreshSeg, Segs, Counts

\* The steps of the command before and after a transfer keep the types,
LEMMA OutsideTypes ==
    ASSUME TypeInv,
           \/ Start \/ NextMirror \/ FreshRemove \/ DetectComplete \/ DetectPartial \/ Allocate
           \/ FreshTruncate \/ GiveUp \/ Halt \/ RequestSave \/ Crash
    PROVE  TypeInv'
<1> USE DEF Handled, Places
<1>1. /\ file \in FileType /\ control \in MaybeCtrl /\ NoControl \in MaybeCtrl
      /\ GapTypes /\ ResumeTypes /\ pc \in Places
  BY DEF TypeInv, DiskTypes, MaybeCtrl
<1>2. CASE Start \/ NextMirror \/ GiveUp
  <2>1. /\ UNCHANGED <<disk, attempt>> /\ pc' \in Places \ Handled
    BY <1>2 DEF Start, NextMirror, GiveUp
  <2>2. DiskTypes' /\ GapTypes' /\ ResumeTypes'
    BY <1>1, <2>1 DEF disk, attempt, DiskTypes, GapTypes, ResumeTypes
  <2> QED BY <2>1, <2>2, StillTypes DEF attempt
<1>3. CASE FreshRemove \/ FreshTruncate
  <2>1. /\ UNCHANGED attempt /\ pc' \in Places \ Handled
    BY <1>3 DEF FreshRemove, FreshTruncate
  <2>2. DiskTypes'
    BY <1>1, <1>3 DEF FreshRemove, FreshTruncate, DiskTypes, FileType
  <2>3. GapTypes' /\ ResumeTypes'
    BY <1>1, <2>1 DEF attempt, GapTypes, ResumeTypes
  <2> QED BY <2>1, <2>2, <2>3, StillTypes DEF attempt
<1>4. CASE Halt \/ RequestSave
  <2>1. UNCHANGED <<disk, attempt, pc>>
    BY <1>4 DEF Halt, RequestSave
  <2>2. DiskTypes' /\ GapTypes' /\ ResumeTypes'
    BY <1>1, <2>1 DEF disk, attempt, DiskTypes, GapTypes, ResumeTypes
  <2> QED BY <1>1, <2>1, <2>2, StillTypes DEF attempt
<1>5. CASE DetectComplete
  <2>1. DiskTypes'
    BY <1>1, <1>5 DEF DetectComplete, disk, DiskTypes
  <2> QED BY <1>5, <2>1, LeaveTypes DEF DetectComplete
<1>6. CASE Crash
  <2>1. DiskTypes'
    BY <1>1, <1>6, SomeLostTypes DEF Crash, DiskTypes
  <2> QED BY <1>6, <2>1, LeaveTypes DEF Crash
<1>7. CASE DetectPartial
  <2>1. Known \in MaybeCtrl
    BY <1>1 DEF Known
  <2>2. DiskTypes'
    BY <1>1, <1>7, <2>1 DEF DetectPartial, DiskTypes
  <2>3. ASSUME ~options.continue PROVE ResumeTypes'
    <3>1. resume' = [control |-> NoControl, length |-> 0]
      BY <1>7, <2>3 DEF DetectPartial, NoResume
    <3>2. 0 \in 0..Total
      BY Sizes
    <3> QED BY <1>1, <3>1, <3>2 DEF ResumeTypes
  <2>4. ASSUME options.continue PROVE ResumeTypes'
    <3>1. /\ ~Complete(Known)
          /\ resume' = [control |-> Known,
                        length |-> IF Known # NoControl THEN Known.length ELSE file.size]
      BY <1>7, <2>4 DEF DetectPartial
    <3>2. CASE Known = NoControl
      <4>1. ~(file.size >= Total) /\ file.size \in Nat
        BY <1>1, <3>1, <3>2 DEF Complete, FileType
      <4>2. file.size \in 0..Total
        BY <4>1, Sizes
      <4>3. resume' = [control |-> Known, length |-> file.size]
        BY <3>1, <3>2
      <4> QED BY <2>1, <4>2, <4>3 DEF ResumeTypes
    <3>3. CASE Known # NoControl
      <4>1. Known.length \in 0..Total
        BY <2>1, <3>3 DEF MaybeCtrl, Ctrl
      <4>2. resume' = [control |-> Known, length |-> Known.length]
        BY <3>1, <3>3
      <4> QED BY <2>1, <4>1, <4>2 DEF ResumeTypes
    <3> QED BY <3>2, <3>3
  <2>5. GapTypes'
    BY <1>1, <1>7 DEF DetectPartial, GapTypes
  <2> QED BY <1>7, <2>2, <2>3, <2>4, <2>5, StillTypes DEF DetectPartial
<1>8. CASE Allocate
  <2>1. CASE Leave("failed") /\ UNCHANGED <<file, control>>
    <3>1. DiskTypes'
      BY <1>1, <2>1 DEF DiskTypes
    <3> QED BY <2>1, <3>1, LeaveTypes
  <2>2. CASE /\ pc' = "prepare" /\ UNCHANGED <<attempt, control>>
             /\ file' = IF options.prealloc THEN [file EXCEPT !.size = Total] ELSE file
    <3>1. DiskTypes'
      BY <1>1, <2>2, Sizes DEF DiskTypes, FileType
    <3>2. GapTypes' /\ ResumeTypes'
      BY <1>1, <2>2 DEF attempt, GapTypes, ResumeTypes
    <3> QED BY <2>2, <3>1, <3>2, StillTypes DEF attempt
  <2> QED BY <1>8, <2>1, <2>2 DEF Allocate
<1> QED BY <1>2, <1>3, <1>4, <1>5, <1>6, <1>7, <1>8

\* the start of a transfer,
LEMMA PrepareTypes == ASSUME TypeInv, AccountInv, Prepare PROVE TypeInv'
<1> DEFINE new == Snapshot(FreshSeg(Restored), RestoredPrefix)
<1>1. /\ file \in FileType /\ Synced(file) \in FileType /\ control \in MaybeCtrl /\ NoControl \in MaybeCtrl
  BY SyncedType DEF TypeInv, DiskTypes, MaybeCtrl
<1>2. /\ Restored \in Counts /\ RestoredPrefix \in Counts /\ FreshSeg(Restored) \in Segs
      /\ \A p \in Pieces :
            /\ FreshSeg(Restored)[p].status = "Done" <=> FreshSeg(Restored)[p].done = PieceUnits
            /\ FreshSeg(Restored)[p].retries < MaxTries
  BY RestoredType, FreshSegType DEF TypeInv
<1>3. new \in MaybeCtrl
  BY <1>2, SnapshotType DEF MaybeCtrl
<1>4. DiskTypes'
  <2>1. FirstSave => DiskTypes'
    <3> SUFFICES ASSUME FirstSave PROVE DiskTypes'
      OBVIOUS
    <3>1. file' \in {file, Synced(file)}
      BY DEF FirstSave
    <3>2. control' \in {new, control, NoControl}
      BY DEF FirstSave
    <3> QED BY <1>1, <1>3, <3>1, <3>2 DEF DiskTypes
  <2> HIDE DEF new
  <2>2. \/ FirstSave
        \/ file' = Synced(file) /\ control' = new
        \/ file' \in {file, Synced(file)} /\ control' \in {new, IF FromControl THEN control ELSE NoControl}
    BY DEF Prepare, new
  <2> QED BY <1>1, <1>3, <2>1, <2>2 DEF DiskTypes
<1>5. CASE Leave("failed")
  BY <1>4, <1>5, LeaveTypes DEF Places
<1>6. CASE /\ pc = "prepare" /\ pc' = "head" /\ seg' = FreshSeg(Restored) /\ prefix' = RestoredPrefix
           /\ phase' = [p \in Pieces |-> IF Restored[p] = PieceUnits THEN "Idle" ELSE "Pending"]
           /\ resume' = NoResume
           /\ UNCHANGED <<mirror, charged, cancelled, net, round, gap>>
  <2>1. SegTypes'
    BY <1>2, <1>6 DEF TypeInv, SegTypes, Phases
  <2>2. \A p \in Pieces : req[p] = NoReq
    BY <1>6 DEF AccountInv, Clean, Handled
  <2>3. NetTypes'
    BY <1>2, <1>6, <2>2 DEF TypeInv, NetTypes, Ranged, net
  <2>4. RoundTypes' /\ GapTypes'
    BY <1>6 DEF TypeInv, RoundTypes, GapTypes
  <2>5. ResumeTypes'
    BY <1>6, Sizes DEF ResumeTypes, NoResume, MaybeCtrl
  <2> QED BY <1>4, <1>6, <2>1, <2>3, <2>4, <2>5 DEF TypeInv, Places
<1> HIDE DEF new
<1> QED BY <1>5, <1>6 DEF Prepare

\* the range tasks,
LEMMA TaskTypes == ASSUME TypeInv, Tasks PROVE TypeInv'
<1>1. PICK p \in Pieces : SendChunk(p) \/ TaskOk(p) \/ TaskFails(p)
  BY DEF Tasks
<1>2. /\ UNCHANGED <<file, control, pc, seg, mirror, phase, charged, stale, prefix, round, gap, resume>>
      /\ req[p] # NoReq
  BY <1>1 DEF SendChunk, TaskOk, TaskFails, disk, manager, work
<1>3. req[p] \in Entry /\ Ranged(p)
  BY <1>2 DEF TypeInv, NetTypes, Ranged
<1>4. /\ DOMAIN req' = Pieces /\ \A q \in Pieces \ {p} : req'[q] = req[q]
      /\ queue' \subseteq Units
      /\ req'[p] \in Entry /\ req'[p].from = req[p].from /\ req'[p].to = req[p].to
      /\ req[p].sent <= req'[p].sent /\ req'[p].sent <= req[p].to
      /\ req'[p].outcome = "ok" => req'[p].sent = req[p].to
  <2>1. CASE SendChunk(p)
    <3>1. /\ req[p].sent < req[p].to /\ req[p].outcome = "running"
          /\ req' = [req EXCEPT ![p] = [req[p] EXCEPT !.sent = req[p].sent + 1]]
          /\ queue' = queue \cup {(p - 1) * PieceUnits + req[p].sent + 1}
      BY <2>1 DEF SendChunk
    <3>2. req[p].sent \in Nat /\ req[p].to \in 1..PieceUnits /\ req[p].sent + 1 \in 0..PieceUnits
      BY <1>3, <3>1, Sizes DEF Entry
    <3>3. (p - 1) * PieceUnits + req[p].sent + 1 \in Units
      <4>1. PICK b \in Nat : b = Before(p) /\ b + PieceUnits <= Total
        BY BeforePiece
      <4>2. b + req[p].sent + 1 \in 1..Total
        BY <3>2, <4>1, Sizes
      <4> QED BY <4>1, <4>2 DEF Before, Units
    <3>4. [req[p] EXCEPT !.sent = req[p].sent + 1] \in Entry
      BY <1>3, <3>2 DEF Entry
    <3>5. req'[p] = [req[p] EXCEPT !.sent = req[p].sent + 1] /\ DOMAIN req' = Pieces
      BY <3>1 DEF TypeInv, NetTypes
    <3>6. /\ req'[p].sent = req[p].sent + 1 /\ req'[p].from = req[p].from /\ req'[p].to = req[p].to
          /\ req'[p].outcome = req[p].outcome
      BY <1>3, <3>5 DEF Entry
    <3>7. queue' \subseteq Units
      BY <3>1, <3>3 DEF TypeInv, NetTypes
    <3> QED BY <3>1, <3>2, <3>4, <3>5, <3>6, <3>7
  <2>2. CASE TaskOk(p) \/ TaskFails(p)
    <3>1. PICK o \in Outcomes : /\ req' = [req EXCEPT ![p] = [req[p] EXCEPT !.outcome = o]]
                                /\ o = "ok" => req[p].sent = req[p].to
      BY <2>2 DEF TaskOk, TaskFails, Outcomes, Failures, Refusals
    <3>2. queue' = queue
      BY <2>2 DEF TaskOk, TaskFails
    <3> DOMAIN req = Pieces /\ queue \subseteq Units
      BY DEF TypeInv, NetTypes
    <3>3. /\ req'[p] = [req[p] EXCEPT !.outcome = o] /\ DOMAIN req' = Pieces
          /\ \A q \in Pieces \ {p} : req'[q] = req[q]
      BY <3>1
    <3>4. req'[p] \in Entry /\ req'[p].from = req[p].from /\ req'[p].to = req[p].to
          /\ req'[p].sent = req[p].sent /\ req'[p].outcome = o
      BY <1>3, <3>3 DEF Entry
    <3>5. req[p].sent <= req[p].to /\ req[p].sent \in Nat
      BY <1>2, <1>3 DEF Ranged, Entry
    <3> QED BY <3>1, <3>2, <3>3, <3>4, <3>5
  <2> QED BY <1>1, <2>1, <2>2
<1>5. Ranged(p)'
  <2>1. /\ req[p].from \in Nat /\ req[p].to \in Nat /\ req[p].sent \in Nat /\ req'[p].sent \in Nat
    BY <1>3, <1>4 DEF Entry
  <2> QED BY <1>2, <1>3, <1>4, <2>1 DEF Ranged
<1>6. NetTypes'
  BY <1>2, <1>4, <1>5 DEF TypeInv, NetTypes, Ranged
<1>7. SegTypes' /\ DiskTypes' /\ RoundTypes' /\ GapTypes' /\ ResumeTypes'
  BY <1>2 DEF TypeInv, SegTypes, DiskTypes, RoundTypes, GapTypes, ResumeTypes
<1> QED BY <1>2, <1>6, <1>7 DEF TypeInv

\* A range in flight counts as load of the source.
LEMMA SourceBusy ==
    ASSUME AccountInv, pc \in Handled, NEW p \in Pieces, req[p] # NoReq PROVE mirror.active >= 1
<1>1. IsFiniteSet(Tracked) /\ p \in Tracked /\ mirror.active = Cardinality(Tracked)
  BY PiecesFinite, FS_Subset DEF Tracked, AccountInv, Ledger
<1>2. Cardinality(Tracked) \in Nat /\ Cardinality(Tracked) # 0
  BY <1>1, FS_CardinalityType, FS_EmptySet
<1> QED BY <1>1, <1>2

\* The list of active ranges loses one.
LEMMA ForgetTypes ==
    ASSUME TypeInv, NEW p \in Pieces, Forget(p), pc' \in Handled => pc \in Handled,
           \A q \in Pieces \ {p} : seg'[q] = seg[q],
           stale' \subseteq Pieces, queue' \subseteq Units, prefix' \in Counts
    PROVE  NetTypes'
<1>1. DOMAIN req' = Pieces /\ req'[p] = NoReq /\ \A q \in Pieces \ {p} : req'[q] = req[q]
  BY DEF Forget, TypeInv, NetTypes
<1> QED BY <1>1 DEF TypeInv, NetTypes, Ranged

\* A range is given back: requeued, charged,
LEMMA RequeuedTypes ==
    ASSUME TypeInv, AccountInv, pc \in Handled, NEW p \in Pieces, req[p] # NoReq,
           RequeueSegment(p), Uncharged(p)
    PROVE  SegTypes' /\ \A q \in Pieces \ {p} : seg'[q] = seg[q]
<1>1. /\ seg' = [seg EXCEPT ![p] = [seg[p] EXCEPT !.status = "Pending"]]
      /\ mirror' = [mirror EXCEPT !.active = mirror.active - 1]
      /\ phase' = [phase EXCEPT ![p] = "Pending"]
      /\ charged' = [charged EXCEPT ![p] = charged[p]]
  BY DEF RequeueSegment, Uncharged, Work!Requeue
<1>2. seg[p].status = "Downloading"
  BY DEF AccountInv, Ledger, Having, Tracked
<1>3. mirror.active \in 1..Split
  BY SourceBusy, ConcurrentAssumption DEF TypeInv, SegTypes
<1>4. /\ seg' \in Segs /\ seg'[p].retries = seg[p].retries /\ seg'[p].done = seg[p].done
      /\ seg'[p].status = "Pending" /\ \A q \in Pieces \ {p} : seg'[q] = seg[q]
  BY <1>1 DEF TypeInv, SegTypes, Segs
<1>5. mirror.active - 1 \in 0..Split
  BY <1>3, ConcurrentAssumption
<1>6. mirror' \in [active : 0..Split, failures : Nat, disabled : BOOLEAN]
  BY <1>1, <1>5 DEF TypeInv, SegTypes
<1>7. phase' \in [Pieces -> Phases] /\ charged' \in [Pieces -> 0..(MaxTries - 1)]
  BY <1>1 DEF TypeInv, SegTypes, Phases
<1> QED BY <1>2, <1>4, <1>6, <1>7 DEF TypeInv, SegTypes

LEMMA ChargedTypes ==
    ASSUME TypeInv, AccountInv, pc \in Handled, NEW p \in Pieces, req[p] # NoReq,
           FailSegment(p), FailWork(p)
    PROVE  SegTypes' /\ \A q \in Pieces \ {p} : seg'[q] = seg[q]
<1>1. /\ seg' = [seg EXCEPT ![p] = [[seg[p] EXCEPT !.retries = seg[p].retries + 1] EXCEPT
                   !.status = IF seg[p].retries + 1 >= MaxTries THEN "Failed" ELSE "Pending"]]
      /\ mirror' = [active |-> mirror.active - 1, failures |-> mirror.failures + 1,
                    disabled |-> mirror.disabled \/ mirror.failures + 1 >= MaxMirrorFailures]
  BY DEF FailSegment, TypeInv, SegTypes, Segs
<1>2. seg[p].status = "Downloading"
  BY DEF AccountInv, Ledger, Having, Tracked
<1>3. mirror.active - 1 \in 0..Split
  BY SourceBusy, ConcurrentAssumption DEF TypeInv, SegTypes
<1>4. mirror' \in [active : 0..Split, failures : Nat, disabled : BOOLEAN]
  BY <1>1, <1>3 DEF TypeInv, SegTypes
<1>5. seg[p].retries \in Nat /\ seg[p].retries < MaxTries /\ MaxTries \in Nat /\ seg[p].retries + 1 \in 0..MaxTries
  BY <1>2, ConcurrentAssumption DEF TypeInv, SegTypes, Segs
<1>6. /\ \A q \in Pieces \ {p} : seg'[q] = seg[q]
      /\ seg' \in Segs
      /\ seg'[p].retries = seg[p].retries + 1 /\ seg'[p].done = seg[p].done
      /\ seg'[p].status = IF seg[p].retries + 1 >= MaxTries THEN "Failed" ELSE "Pending"
  BY <1>1, <1>5 DEF TypeInv, SegTypes, Segs
<1>7. phase' \in [Pieces -> Phases] /\ charged' \in [Pieces -> 0..(MaxTries - 1)]
  <2>1. CASE charged[p] + 1 < MaxTries
    <3>1. Work!Limited(p)
      BY ConcurrentAssumption DEF Work!Limited
    <3>2. phase' = [phase EXCEPT ![p] = "Delayed"] /\ charged' = [charged EXCEPT ![p] = charged[p] + 1]
      BY <2>1, <3>1 DEF FailWork, Work!Delay, TypeInv, SegTypes
    <3>3. charged[p] + 1 \in 0..(MaxTries - 1)
      BY <2>1, <1>5 DEF TypeInv, SegTypes
    <3> QED BY <3>2, <3>3 DEF TypeInv, SegTypes, Phases
  <2>2. CASE ~(charged[p] + 1 < MaxTries)
    <3>1. /\ phase' = [q \in Pieces |-> IF q \in {p} THEN "Idle" ELSE phase[q]]
          /\ charged' = [q \in Pieces |-> IF q \in {p} THEN 0 ELSE charged[q]]
      BY <2>2 DEF FailWork, Work!Finish
    <3>2. 0 \in 0..(MaxTries - 1)
      BY ConcurrentAssumption
    <3> QED BY <3>1, <3>2 DEF TypeInv, SegTypes, Phases
  <2> QED BY <2>1, <2>2
<1>8. \A q \in Pieces :
        /\ seg'[q].status = "Done" <=> seg'[q].done = PieceUnits
        /\ seg'[q].status \in {"Pending", "Downloading"} => seg'[q].retries < MaxTries
  BY <1>2, <1>5, <1>6 DEF TypeInv, SegTypes
<1> QED BY <1>4, <1>6, <1>7, <1>8 DEF SegTypes

\* or completed.
Advanced(p) ==
    LET got == req[p].to - req[p].from + 1 IN
    [seg EXCEPT ![p].done = @ + got,
       ![p].status = IF seg[p].done + got = PieceUnits THEN "Done" ELSE "Pending"]
LEMMA AdvancedFacts ==
    ASSUME TypeInv, AccountInv, pc \in Handled, NEW p \in Pieces, req[p] # NoReq
    PROVE  /\ Advanced(p) \in Segs /\ \A q \in Pieces \ {p} : Advanced(p)[q] = seg[q]
           /\ Advanced(p)[p].done = req[p].to /\ Advanced(p)[p].retries = seg[p].retries
           /\ seg[p].done < req[p].to
           /\ Advanced(p)[p].status = IF req[p].to = PieceUnits THEN "Done" ELSE "Pending"
           /\ req[p].to - req[p].from + 1 \in 1..PieceUnits
<1>1. /\ req[p] \in Entry /\ req[p].from <= req[p].to /\ req[p].from = seg[p].done + 1
  BY DEF TypeInv, NetTypes, Ranged
<1>2. req[p].from \in Nat /\ req[p].from >= 1 /\ req[p].to \in 0..PieceUnits /\ seg[p].done \in Nat
  BY <1>1, Sizes DEF Entry, TypeInv, SegTypes, Segs
<1>3. PICK got \in Nat : got = req[p].to - req[p].from + 1
  BY <1>1, <1>2
<1>4. seg[p].done + got = req[p].to /\ got >= 1 /\ got \in 1..PieceUnits /\ seg[p].done < req[p].to
  BY <1>1, <1>2, <1>3, Sizes
<1>5. Advanced(p) = [seg EXCEPT ![p] = [[seg[p] EXCEPT !.done = seg[p].done + got] EXCEPT
          !.status = IF seg[p].done + got = PieceUnits THEN "Done" ELSE "Pending"]]
  BY <1>3 DEF Advanced, TypeInv, SegTypes, Segs
<1>6. Advanced(p) = [seg EXCEPT ![p] = [[seg[p] EXCEPT !.done = req[p].to] EXCEPT
          !.status = IF req[p].to = PieceUnits THEN "Done" ELSE "Pending"]]
  BY <1>4, <1>5
<1> DEFINE s == IF req[p].to = PieceUnits THEN "Done" ELSE "Pending"
           piece == [[seg[p] EXCEPT !.done = req[p].to] EXCEPT !.status = s]
<1>8. /\ piece.done = req[p].to /\ piece.retries = seg[p].retries /\ piece.status = s
      /\ piece \in [status : {"Pending", "Downloading", "Done", "Failed"},
                    done : 0..PieceUnits, retries : 0..MaxTries]
  BY <1>2 DEF TypeInv, SegTypes, Segs
<1>9. Advanced(p) = [seg EXCEPT ![p] = piece]
  BY <1>6
<1> HIDE DEF piece
<1>7. /\ Advanced(p) \in Segs /\ \A q \in Pieces \ {p} : Advanced(p)[q] = seg[q]
      /\ Advanced(p)[p].done = req[p].to /\ Advanced(p)[p].retries = seg[p].retries
      /\ Advanced(p)[p].status = s
  BY <1>8, <1>9 DEF TypeInv, SegTypes, Segs
<1> QED BY <1>3, <1>4, <1>7

LEMMA CompletedTypes ==
    ASSUME TypeInv, AccountInv, pc \in Handled, NEW p \in Pieces, req[p] # NoReq,
           CompleteRange(p, Advanced(p)),
           Work!Finish({p}) \/ Work!Requeue(p, 0)
    PROVE  SegTypes' /\ \A q \in Pieces \ {p} : seg'[q] = seg[q]
<1>1. /\ seg' = Advanced(p)
      /\ mirror' = [[mirror EXCEPT !.active = mirror.active - 1] EXCEPT !.failures = 0]
  BY DEF CompleteRange, TypeInv, SegTypes
<1>2. seg[p].status = "Downloading"
  BY DEF AccountInv, Ledger, Having, Tracked
<1>3. mirror.active - 1 \in 0..Split
  BY SourceBusy, ConcurrentAssumption DEF TypeInv, SegTypes
<1>4. mirror' \in [active : 0..Split, failures : Nat, disabled : BOOLEAN]
  BY <1>1, <1>3 DEF TypeInv, SegTypes
<1>5. phase' \in [Pieces -> Phases] /\ charged' \in [Pieces -> 0..(MaxTries - 1)]
  <2>1. 0 \in 0..(MaxTries - 1)
    BY ConcurrentAssumption
  <2>2. CASE Work!Finish({p})
    BY <2>1, <2>2 DEF Work!Finish, TypeInv, SegTypes, Phases
  <2>3. CASE Work!Requeue(p, 0)
    BY <2>1, <2>3 DEF Work!Requeue, TypeInv, SegTypes, Phases
  <2> QED BY <2>2, <2>3
<1>6. \A q \in Pieces :
        /\ seg'[q].status = "Done" <=> seg'[q].done = PieceUnits
        /\ seg'[q].status \in {"Pending", "Downloading"} => seg'[q].retries < MaxTries
  BY <1>1, <1>2, AdvancedFacts DEF TypeInv, SegTypes
<1> QED BY <1>1, <1>4, <1>5, <1>6, AdvancedFacts DEF SegTypes

\* the steps of the scheduler that touch no range,
LEMMA IdleTypes ==
    ASSUME TypeInv,
           \/ HeadHalted \/ HeadGoes \/ WriteFails \/ CooledDown \/ CooldownHalted
           \/ EnterWait \/ Finish \/ CoolDown \/ AllRangesFailed \/ Stuck
           \/ Woken \/ \E u \in Units : WriteChunk(u)
    PROVE  TypeInv'
<1> USE DEF Handled, Places
<1>1. /\ file \in FileType /\ control \in MaybeCtrl /\ Drained \in FileType
      /\ Extend(queue) \in Counts /\ Snapshot(seg, Extend(queue)) \in Ctrl
      /\ Snapshot(seg, prefix) \in Ctrl /\ prefix \in Counts
  BY DrainedType, SnapshotExtended DEF TypeInv, DiskTypes, NetTypes
<1>2. ASSUME DiskTypes', pc \in Handled, pc' \in {"head", "wait", "cooldown"},
             UNCHANGED <<manager, work, req, stale, round, gap, resume>>,
             queue' \subseteq Units, prefix' \in Counts
      PROVE  TypeInv'
  <2>1. SegTypes'
    BY <1>2 DEF TypeInv, SegTypes, manager, work
  <2>2. NetTypes'
    BY <1>2 DEF TypeInv, NetTypes, Ranged, manager
  <2>3. RoundTypes' /\ GapTypes' /\ ResumeTypes'
    BY <1>2 DEF TypeInv, RoundTypes, GapTypes, ResumeTypes
  <2> QED BY <1>2, <2>1, <2>2, <2>3 DEF TypeInv
<1>3. CASE HeadHalted
  BY <1>3, CancelTypes DEF HeadHalted
<1>4. CASE AllRangesFailed
  BY <1>4, CancelTypes DEF AllRangesFailed
<1>5. CASE HeadGoes \/ Stuck
  <2>1. UNCHANGED <<disk, attempt>> /\ pc \in Handled /\ pc' \in {"admit", "fallback"}
    BY <1>5 DEF HeadGoes, Stuck, Idle
  <2>2. DiskTypes' /\ GapTypes' /\ ResumeTypes'
    BY <2>1 DEF disk, attempt, TypeInv, DiskTypes, GapTypes, ResumeTypes
  <2> QED BY <2>1, <2>2, StillTypes DEF attempt
<1>6. CASE WriteFails \/ CooldownHalted
  <2>1. SomeLost /\ UNCHANGED control /\ \E w \in {"failed", "stopped"} : Leave(w)
    BY <1>6 DEF WriteFails, CooldownHalted
  <2>2. DiskTypes'
    BY <1>1, <2>1, SomeLostTypes DEF DiskTypes
  <2> QED BY <2>1, <2>2, LeaveTypes
<1>7. CASE Finish
  <2>1. CASE SyncFails(Drained)
    BY <1>1, <2>1, SyncFailsTypes
  <2>2. CASE file' = Synced(Drained) /\ control' = NoControl /\ Leave("done")
    <3>1. DiskTypes'
      BY <1>1, <2>2, SyncedType DEF DiskTypes, MaybeCtrl
    <3> QED BY <2>2, <3>1, LeaveTypes
  <2> QED BY <1>7, <2>1, <2>2 DEF Finish
<1>8. CASE CooledDown
  <2>1. /\ round' = [round EXCEPT !.cooldown = FALSE] /\ pc' = "head" /\ pc \in Handled
        /\ UNCHANGED <<disk, manager, work, net, prefix, gap, resume>>
    BY <1>8 DEF CooledDown
  <2>2. RoundTypes'
    BY <2>1 DEF TypeInv, RoundTypes
  <2>3. SegTypes' /\ NetTypes'
    BY <2>1 DEF TypeInv, SegTypes, NetTypes, Ranged, manager, work, net
  <2>4. DiskTypes' /\ GapTypes' /\ ResumeTypes'
    BY <2>1 DEF TypeInv, DiskTypes, GapTypes, ResumeTypes, disk
  <2> QED BY <2>1, <2>2, <2>3, <2>4 DEF TypeInv
<1>9. CASE CoolDown
  <2>1. DiskTypes'
    BY <1>1, <1>9 DEF CoolDown, DiskTypes
  <2> QED BY <1>1, <1>2, <1>9, <2>1 DEF CoolDown, Idle
<1>10. CASE EnterWait
  <2>1. CASE FlushFails(Drained)
    BY <1>1, <2>1, FlushFailsTypes
  <2>2. CASE /\ Flushed(Drained, Snapshot(seg, Extend(queue)))
             /\ pc' = "wait" /\ queue' = {} /\ prefix' = Extend(queue)
             /\ UNCHANGED <<manager, work, req, stale, round, gap, resume, events>>
    <3>1. DiskTypes'
      BY <1>1, <2>2, FlushedTypes
    <3> QED BY <1>1, <1>2, <1>10, <2>2, <3>1 DEF EnterWait
  <2> QED BY <1>10, <2>1, <2>2 DEF EnterWait
<1>11. CASE Woken
  <2>1. CASE FlushFails(file)
    BY <1>1, <2>1, FlushFailsTypes
  <2>2. CASE pc' = "head" /\ UNCHANGED attempt /\ DiskTypes'
    <3>1. queue' \subseteq Units /\ prefix' \in Counts
      BY <2>2 DEF attempt, net, TypeInv, NetTypes
    <3> QED BY <1>2, <1>11, <2>2, <3>1 DEF Woken, attempt, net
  <2>3. ASSUME Flushed(file, Snapshot(seg, prefix)) PROVE DiskTypes'
    BY <1>1, <2>3, FlushedTypes
  <2>4. ASSUME UNCHANGED disk PROVE DiskTypes'
    BY <1>1, <2>4 DEF disk, DiskTypes
  <2> QED BY <1>11, <2>1, <2>2, <2>3, <2>4 DEF Woken
<1>12. CASE \E u \in Units : WriteChunk(u)
  <2>1. PICK u \in Units : WriteChunk(u)
    BY <1>12
  <2> DEFINE written == Holding(file, {u})
  <2>2. written \in FileType
    BY <1>1, HoldingFacts
  <2>3. Extend({u}) \in Counts
    BY <1>1, ExtendFacts
  <2>4. Snapshot(seg, Extend({u})) \in Ctrl
    BY <2>3, SnapshotType DEF TypeInv, SegTypes
  <2> HIDE DEF written
  <2>5. CASE FlushFails(written)
    BY <1>1, <2>2, <2>5, FlushFailsTypes
  <2>6. CASE /\ Flushed(written, Snapshot(seg, Extend({u})))
             /\ pc' = "head" /\ queue' = queue \ {u} /\ prefix' = Extend({u})
             /\ UNCHANGED <<manager, work, req, stale, round, gap, resume, events>>
    <3>1. DiskTypes'
      BY <1>1, <2>2, <2>4, <2>6, FlushedTypes
    <3>2. queue' \subseteq Units
      BY <2>6 DEF TypeInv, NetTypes
    <3> QED BY <1>2, <2>1, <2>3, <2>6, <3>1, <3>2 DEF WriteChunk
  <2> QED BY <2>1, <2>5, <2>6 DEF WriteChunk, written
<1> QED BY <1>3, <1>4, <1>5, <1>6, <1>7, <1>8, <1>9, <1>10, <1>11, <1>12

\* the ones that start a range or drop an item,
LEMMA AdmitTypes ==
    ASSUME TypeInv, AccountInv, NEW p \in Pieces, AdmitRange(p) \/ DropSettled(p) PROVE TypeInv'
<1> USE DEF Handled, Places
<1>1. CASE DropSettled(p)
  <2>1. /\ pc' = "admit" /\ pc = "admit"
        /\ UNCHANGED <<disk, manager, net, prefix, round, gap, resume>>
        /\ phase' = [q \in Pieces |-> IF q \in {p} THEN "Idle" ELSE phase[q]]
        /\ charged' = [q \in Pieces |-> IF q \in {p} THEN 0 ELSE charged[q]]
    BY <1>1 DEF DropSettled, Work!Finish
  <2>2. 0 \in 0..(MaxTries - 1)
    BY ConcurrentAssumption
  <2>3. SegTypes'
    BY <2>1, <2>2 DEF TypeInv, SegTypes, manager, Phases
  <2>4. NetTypes'
    BY <2>1 DEF TypeInv, NetTypes, Ranged, net, manager
  <2>5. DiskTypes' /\ RoundTypes' /\ GapTypes' /\ ResumeTypes'
    BY <2>1 DEF TypeInv, DiskTypes, RoundTypes, GapTypes, ResumeTypes, disk
  <2> QED BY <2>1, <2>3, <2>4, <2>5 DEF TypeInv
<1>2. CASE AdmitRange(p)
  <2> DEFINE entry == [from |-> seg[p].done + 1, sent |-> seg[p].done,
                       to |-> Lesser(PieceUnits, seg[p].done + round.limit),
                       limit |-> round.limit, outcome |-> "running"]
  <2>1. /\ pc = "admit" /\ pc' = "admit" /\ seg[p].status = "Pending" /\ mirror.active < Split
        /\ seg' = [seg EXCEPT ![p] = [seg[p] EXCEPT !.status = "Downloading"]]
        /\ mirror' = [mirror EXCEPT !.active = mirror.active + 1]
        /\ req' = [req EXCEPT ![p] = entry]
        /\ phase' = [q \in Pieces |-> IF q \in {p} THEN "InFlight"
                       ELSE IF q \in {p} \cap Work!InPhase("Delayed") THEN "Pending" ELSE phase[q]]
        /\ charged' = charged
        /\ UNCHANGED <<disk, stale, queue, prefix, round, gap, resume>>
    BY <1>2 DEF AdmitRange, Accepts, Work!Admit
  <2>2. seg[p].done < PieceUnits
    <3>1. seg[p].done # PieceUnits /\ seg[p].done \in 0..PieceUnits
      BY <2>1 DEF TypeInv, SegTypes, Segs
    <3> QED BY <3>1, Sizes
  <2>3. seg[p].done \in Nat /\ round.limit \in 1..PieceUnits
    BY DEF TypeInv, SegTypes, Segs, RoundTypes
  <2>4. entry \in Entry /\ entry.from <= entry.to /\ entry.sent <= entry.to
        /\ entry.from = seg[p].done + 1 /\ entry.sent = seg[p].done /\ entry.outcome = "running"
    BY <2>2, <2>3, Sizes DEF Entry, Lesser, Outcomes
  <2> HIDE DEF entry
  <2>5. /\ seg' \in Segs /\ seg'[p].done = seg[p].done /\ seg'[p].retries = seg[p].retries
        /\ seg'[p].status = "Downloading"
        /\ \A q \in Pieces \ {p} : seg'[q] = seg[q]
    BY <2>1 DEF TypeInv, SegTypes, Segs
  <2>6. mirror.active + 1 \in 0..Split
    BY <2>1, ConcurrentAssumption DEF TypeInv, SegTypes
  <2>7. mirror' \in [active : 0..Split, failures : Nat, disabled : BOOLEAN]
    BY <2>1, <2>6 DEF TypeInv, SegTypes
  <2>8. phase' \in [Pieces -> Phases]
    BY <2>1 DEF TypeInv, SegTypes, Phases
  <2>9. SegTypes'
    BY <2>1, <2>5, <2>7, <2>8 DEF TypeInv, SegTypes
  <2>10. NetTypes'
    <3>1. DOMAIN req' = Pieces /\ req'[p] = entry /\ \A q \in Pieces \ {p} : req'[q] = req[q]
      BY <2>1 DEF TypeInv, NetTypes
    <3>2. Ranged(p)'
      BY <2>3, <2>4, <2>5, <3>1 DEF Ranged
    <3> QED BY <2>1, <2>5, <3>1, <3>2 DEF TypeInv, NetTypes, Ranged
  <2>11. DiskTypes' /\ RoundTypes' /\ GapTypes' /\ ResumeTypes'
    BY <2>1 DEF TypeInv, DiskTypes, RoundTypes, GapTypes, ResumeTypes, disk
  <2> QED BY <2>1, <2>9, <2>10, <2>11 DEF TypeInv
<1> QED BY <1>1, <1>2

\* the ones that receive a result or do not wait for it any longer,
LEMMA LoweredType ==
    ASSUME RoundTypes
    PROVE  /\ Lowered \in 1..PieceUnits
           /\ Counted \in [limit : 1..PieceUnits, row416 : Nat, all416 : Nat, cooldown : BOOLEAN,
                           unsaved : 0..(PieceUnits - 1), recovered : SUBSET Pieces]
<1>1. PICK n \in 1..PieceUnits : n = round.limit
  BY DEF RoundTypes
<1>2. n \div 2 \in 0..n /\ RangeFloor \in Nat \ {0}
  BY <1>1, ConcurrentAssumption
<1>3. Lowered = Greater(n \div 2, Lesser(RangeFloor, n))
  BY <1>1 DEF Lowered
<1>4. Lowered \in 1..PieceUnits
  BY <1>1, <1>2, <1>3, Sizes DEF Greater, Lesser
<1>5. Counted \in [limit : 1..PieceUnits, row416 : Nat, all416 : Nat, cooldown : BOOLEAN,
                   unsaved : 0..(PieceUnits - 1), recovered : SUBSET Pieces]
  <2>1. round.row416 + 1 \in Nat /\ round.all416 + 1 \in Nat
    BY DEF RoundTypes
  <2>2. Counted = [[round EXCEPT !.row416 = round.row416 + 1] EXCEPT !.all416 = round.all416 + 1]
    BY DEF Counted, RoundTypes
  <2> QED BY <2>1, <2>2 DEF RoundTypes
<1> QED BY <1>4, <1>5

LEMMA ResultTypes ==
    ASSUME TypeInv, AccountInv, NEW p \in Pieces,
           \/ RangeOk(p) \/ RangeSmaller(p) \/ RangeBusy(p) \/ RangeFallsBack(p)
           \/ RangeRetries(p) \/ RangeFatal(p) \/ StaleResult(p) \/ Stalled(p) \/ SlowOutlier(p)
    PROVE  TypeInv'
<1> USE DEF Handled, Places
<1>1. /\ file \in FileType /\ control \in MaybeCtrl /\ Drained \in FileType
      /\ Extend(queue) \in Counts /\ Snapshot(seg, Extend(queue)) \in Ctrl
      /\ prefix \in Counts /\ queue \subseteq Units /\ stale \subseteq Pieces
  BY DrainedType, SnapshotExtended DEF TypeInv, DiskTypes, NetTypes
\* What the steps that give a range back have in common.
<1>2. ASSUME SegTypes', \A q \in Pieces \ {p} : seg'[q] = seg[q], Forget(p), DiskTypes', RoundTypes',
             stale' \subseteq Pieces, queue' \subseteq Units, prefix' \in Counts,
             pc = "wait", pc' = "head", UNCHANGED <<gap, resume>>
      PROVE  TypeInv'
  <2>1. NetTypes'
    BY <1>2, ForgetTypes
  <2>2. GapTypes' /\ ResumeTypes'
    BY <1>2 DEF TypeInv, GapTypes, ResumeTypes
  <2> QED BY <1>2, <2>1, <2>2 DEF TypeInv
<1>3. ASSUME Received(p) PROVE Forget(p) /\ queue' \subseteq Units /\ prefix' \in Counts
  BY <1>1, <1>3 DEF Received
<1>4. ASSUME file' = Drained, UNCHANGED control PROVE DiskTypes'
  BY <1>1, <1>4 DEF DiskTypes
<1>5. CASE RangeFatal(p)
  BY <1>5, CancelTypes DEF RangeFatal
<1>6. CASE RangeSmaller(p)
  <2>1. /\ pc = "wait" /\ pc' = "head" /\ req[p] # NoReq /\ Received(p)
        /\ RequeueSegment(p) /\ Uncharged(p) /\ file' = Drained
        /\ round' = [round EXCEPT !.row416 = 0,
                       !.limit = IF req[p].limit = round.limit THEN Lowered ELSE round.limit]
        /\ UNCHANGED <<control, stale, gap, resume>>
    BY <1>6 DEF RangeSmaller, Result, TypeInv, RoundTypes
  <2>2. RoundTypes'
    BY <2>1, LoweredType DEF TypeInv, RoundTypes
  <2> QED BY <1>1, <1>2, <1>3, <1>4, <2>1, <2>2, RequeuedTypes
<1>7. CASE RangeBusy(p)
  <2>1. CASE CancelAndPersist("failed")
    BY <2>1, CancelTypes
  <2>2. CASE /\ pc' = "head" /\ Received(p) /\ RequeueSegment(p) /\ Uncharged(p)
             /\ file' = Drained
             /\ round' = [round EXCEPT !.row416 = 0, !.cooldown = TRUE]
             /\ UNCHANGED <<control, stale, gap, resume, events>>
    <3>1. pc = "wait" /\ req[p] # NoReq
      BY <1>7 DEF RangeBusy, Result
    <3>2. RoundTypes'
      BY <2>2 DEF TypeInv, RoundTypes
    <3> QED BY <1>1, <1>2, <1>3, <1>4, <2>2, <3>1, <3>2, RequeuedTypes
  <2> QED BY <1>7, <2>1, <2>2 DEF RangeBusy
<1>8. CASE RangeRetries(p)
  <2>1. /\ pc = "wait" /\ pc' = "head" /\ req[p] # NoReq /\ Received(p)
        /\ FailSegment(p) /\ FailWork(p) /\ file' = Drained
        /\ round' = IF Is416(p) THEN Counted ELSE [round EXCEPT !.row416 = 0]
        /\ UNCHANGED <<control, stale, gap, resume>>
    BY <1>8 DEF RangeRetries, Result
  <2>2. RoundTypes'
    BY <2>1, LoweredType DEF TypeInv, RoundTypes
  <2> QED BY <1>1, <1>2, <1>3, <1>4, <2>1, <2>2, ChargedTypes
<1>9. CASE Stalled(p) \/ SlowOutlier(p)
  <2>1. /\ pc = "wait" /\ pc' = "head" /\ req[p] # NoReq /\ Forget(p)
        /\ stale' \subseteq Pieces
        /\ UNCHANGED <<disk, queue, prefix, gap, resume>>
    BY <1>1, <1>9 DEF Stalled, SlowOutlier, Abort
  <2>2. SegTypes' /\ \A q \in Pieces \ {p} : seg'[q] = seg[q]
    BY <1>9, <2>1, RequeuedTypes, ChargedTypes DEF Stalled, SlowOutlier
  <2>3. RoundTypes'
    BY <1>9 DEF Stalled, SlowOutlier, TypeInv, RoundTypes
  <2>4. DiskTypes'
    BY <1>1, <2>1 DEF disk, DiskTypes
  <2> QED BY <1>1, <1>2, <2>1, <2>2, <2>3, <2>4
<1>10. CASE StaleResult(p)
  <2>1. /\ pc = "wait" /\ pc' = "head" /\ stale' = stale \ {p}
        /\ UNCHANGED <<disk, manager, work, req, queue, prefix, round, gap, resume>>
    BY <1>10 DEF StaleResult
  <2>2. SegTypes' /\ NetTypes'
    BY <2>1 DEF TypeInv, SegTypes, NetTypes, Ranged, manager, work
  <2>3. DiskTypes' /\ RoundTypes' /\ GapTypes' /\ ResumeTypes'
    BY <2>1 DEF TypeInv, DiskTypes, RoundTypes, GapTypes, ResumeTypes, disk
  <2> QED BY <2>1, <2>2, <2>3 DEF TypeInv
<1>11. CASE RangeFallsBack(p)
  <2>1. /\ pc = "wait" /\ pc' = "fallback" /\ Received(p) /\ file' = Drained
        /\ Work!Finish({p}) /\ round' = Counted
        /\ UNCHANGED <<control, manager, stale, gap, resume>>
    BY <1>11 DEF RangeFallsBack, Result
  <2>2. SegTypes'
    <3>1. /\ phase' = [q \in Pieces |-> IF q \in {p} THEN "Idle" ELSE phase[q]]
          /\ charged' = [q \in Pieces |-> IF q \in {p} THEN 0 ELSE charged[q]]
      BY <2>1 DEF Work!Finish
    <3>2. 0 \in 0..(MaxTries - 1)
      BY ConcurrentAssumption
    <3> QED BY <2>1, <3>1, <3>2 DEF TypeInv, SegTypes, manager, Phases
  <2>3. NetTypes'
    BY <1>1, <1>3, <2>1, ForgetTypes DEF manager
  <2>4. RoundTypes'
    BY <2>1, LoweredType DEF TypeInv, RoundTypes
  <2>5. GapTypes' /\ ResumeTypes'
    BY <2>1 DEF TypeInv, GapTypes, ResumeTypes
  <2> QED BY <1>4, <2>1, <2>2, <2>3, <2>4, <2>5 DEF TypeInv
<1>12. CASE RangeOk(p)
  <2> DEFINE got == req[p].to - req[p].from + 1
             s == Advanced(p)
             new == Snapshot(s, Extend(queue))
             due == round.unsaved + got >= PieceUnits
             whole == s[p].status = "Done"
  <2>1. pc = "wait" /\ req[p] # NoReq
    BY <1>12 DEF RangeOk, Result
  <2>2. s \in Segs /\ got \in 1..PieceUnits
    BY <2>1, AdvancedFacts
  <2>3. new \in Ctrl
    BY <1>1, <2>2, SnapshotType
  <2>4. CASE (whole \/ due) /\ SyncFails(Drained)
    BY <1>1, <2>4, SyncFailsTypes
  <2>5. CASE FlushFails(Drained)
    BY <1>1, <2>5, FlushFailsTypes
  <2>6. CASE /\ pc' = "head" /\ Received(p) /\ CompleteRange(p, s)
             /\ IF due /\ ~saveReq THEN SyncAndSave(Drained, new) /\ UNCHANGED saveReq
                ELSE Flushed(IF whole THEN Synced(Drained) ELSE Drained, new)
             /\ round' = [round EXCEPT !.unsaved = IF due THEN 0 ELSE round.unsaved + got]
             /\ IF whole THEN Work!Finish({p}) ELSE Work!Requeue(p, 0)
             /\ UNCHANGED <<stale, gap, resume>>
    <3>1. SegTypes' /\ \A q \in Pieces \ {p} : seg'[q] = seg[q]
      BY <2>1, <2>6, CompletedTypes
    <3>2. DiskTypes'
      <4>1. Synced(Drained) \in FileType
        BY <1>1, SyncedType
      <4> HIDE DEF new, whole, due
      <4>2. CASE SyncAndSave(Drained, new)
        BY <1>1, <2>3, <4>1, <4>2 DEF SyncAndSave, DiskTypes, MaybeCtrl
      <4>3. CASE Flushed(IF whole THEN Synced(Drained) ELSE Drained, new)
        BY <1>1, <2>3, <4>1, <4>3, FlushedTypes
      <4> QED BY <2>6, <4>2, <4>3
    <3>3. RoundTypes'
      <4>1. ASSUME ~due PROVE round.unsaved + got \in 0..(PieceUnits - 1)
        BY <2>2, <4>1, Sizes DEF TypeInv, RoundTypes
      <4>2. 0 \in 0..(PieceUnits - 1)
        BY Sizes
      <4>3. (IF due THEN 0 ELSE round.unsaved + got) \in 0..(PieceUnits - 1)
        BY <4>1, <4>2
      <4> HIDE DEF due, got
      <4> QED BY <2>6, <4>3 DEF TypeInv, RoundTypes
    <3> QED BY <1>1, <1>2, <1>3, <2>1, <2>6, <3>1, <3>2, <3>3
  <2>7. /\ [seg EXCEPT ![p].done = @ + got,
              ![p].status = IF seg[p].done + got = PieceUnits THEN "Done" ELSE "Pending"] = s
    BY DEF Advanced
  <2> HIDE DEF s
  <2> QED BY <1>12, <2>4, <2>5, <2>6, <2>7 DEF RangeOk
<1> QED BY <1>5, <1>6, <1>7, <1>8, <1>9, <1>10, <1>11, <1>12

\* and the gap phase.
LEMMA GapFacts ==
    ASSUME TypeInv, Missing # {}
    PROVE  /\ Min(Missing) \in Missing /\ Min(Missing) \in Gap /\ Gap \subseteq Units
           /\ Min(Gap) = Min(Missing) /\ \A u \in Gap : Min(Gap) <= u
           /\ IsFiniteSet(Gap) /\ Cardinality(Gap) \in 0..Total
           /\ Gap = Min(Gap)..(Min(Gap) + Cardinality(Gap) - 1)
           /\ Gap \cap gap.have = {}
<1> DEFINE a == Min(Missing)
<1>1. Missing \subseteq Units /\ Units \subseteq Nat
  BY DEF Missing, Units
<1>2. a \in Missing /\ \A k \in Missing : a <= k
  BY <1>1, LeastOf
<1>3. Gap = {u \in Missing : \A v \in a..u : v \in Missing}
  BY DEF Gap
<1>4. a \in Nat
  BY <1>1, <1>2
<1> HIDE DEF a
<1>5. a \in Gap
  <2>1. \A v \in a..a : v = a
    BY <1>4
  <2> QED BY <1>2, <1>3, <2>1
<1>6. Gap \subseteq Missing /\ Gap \subseteq Units /\ Gap \subseteq Nat
  BY <1>1, <1>3
<1>7. Min(Gap) \in Gap /\ \A k \in Gap : Min(Gap) <= k
  BY <1>5, <1>6, LeastOf
<1>8. Min(Gap) = a
  <2>1. Min(Gap) \in Nat /\ Min(Gap) <= a /\ a <= Min(Gap)
    BY <1>1, <1>2, <1>5, <1>6, <1>7
  <2> QED BY <1>4, <2>1
<1>9. Gap \in SUBSET (0..Total)
  BY <1>6 DEF Units
<1>10. Max(Gap) \in Gap /\ \A k \in Gap : k <= Max(Gap)
  BY <1>5, <1>9, GreatestOf, Sizes
<1>11. PICK b \in Nat : b = Max(Gap)
  BY <1>6, <1>10
<1>12. Gap = a..b
  <2>1. \A u \in Gap : u \in a..b
    BY <1>2, <1>3, <1>4, <1>6, <1>10, <1>11
  <2>2. ASSUME NEW u \in a..b PROVE u \in Gap
    <3>1. u \in Missing
      BY <1>3, <1>10, <1>11
    <3>2. \A v \in a..u : v \in a..b
      BY <1>4, <1>11
    <3>3. \A v \in a..b : v \in Missing
      BY <1>3, <1>10, <1>11
    <3> QED BY <1>3, <3>1, <3>2, <3>3
  <2> QED BY <2>1, <2>2
<1>13. Cardinality(Gap) = b - a + 1 /\ a <= b
  <2>1. a <= b
    BY <1>5, <1>10, <1>11
  <2> QED BY <1>4, <1>11, <1>12, <2>1, FS_Interval
<1>14. PICK n \in Nat : n = Cardinality(Gap)
  BY <1>4, <1>11, <1>13
<1>15. a + n - 1 = b
  BY <1>4, <1>11, <1>13, <1>14
<1>16. IsFiniteSet(Gap) /\ Cardinality(Gap) \in 0..Total
  BY <1>6, UnitsCount
<1>17. Gap \cap gap.have = {}
  BY <1>6 DEF Missing
<1> QED BY <1>2, <1>5, <1>6, <1>7, <1>8, <1>12, <1>14, <1>15, <1>16, <1>17 DEF a

LEMMA RecordType ==
    ASSUME NEW c \in Ctrl, NEW from \in Nat, NEW to \in Nat PROVE RecordRange(c, from, to) \in Ctrl
<1> DEFINE hit == {p \in Pieces \ c.bits : Whole(p) \cap (from..to) # {} /\ Reaches(c, p, from)}
           full == {p \in hit : p * PieceUnits <= to}
           blocks == [p \in Pieces |->
                        IF p \in full THEN 0
                        ELSE IF p \in hit
                             THEN Greater(c.blocks[p], Blocks(to - (p - 1) * PieceUnits))
                             ELSE c.blocks[p]]
           now == [bits |-> c.bits \cup full, blocks |-> blocks, length |-> 0]
<1>1. \A p \in Pieces : c.blocks[p] \in 0..PieceUnits
  BY DEF Ctrl
<1>2. ASSUME NEW p \in hit, p \notin full
      PROVE  Greater(c.blocks[p], Blocks(to - (p - 1) * PieceUnits)) \in 0..PieceUnits
  <2>1. PICK b \in Nat : b = Before(p) /\ p * PieceUnits = b + PieceUnits
    BY BeforePiece
  <2>2. to < b + PieceUnits
    BY <1>2, <2>1, Sizes
  <2>3. PICK u \in Whole(p) : u <= to
    OBVIOUS
  <2>4. b < u /\ u \in Nat
    BY <2>1, InFirst, Sizes DEF Whole
  <2>5. to - b \in 0..PieceUnits
    BY <2>1, <2>2, <2>3, <2>4, Sizes
  <2>6. Blocks(to - b) \in 0..PieceUnits
    BY <2>5, BlocksFacts, Sizes
  <2>7. Greater(c.blocks[p], Blocks(to - b)) \in 0..PieceUnits
    BY <1>1, <2>6 DEF Greater
  <2> QED BY <2>1, <2>7 DEF Before
<1>3. 0 \in 0..PieceUnits
  BY Sizes
<1>4. blocks \in [Pieces -> 0..PieceUnits]
  <2> SUFFICES ASSUME NEW p \in Pieces PROVE blocks[p] \in 0..PieceUnits
    OBVIOUS
  <2> HIDE DEF hit, full
  <2> QED BY <1>1, <1>2, <1>3
<1>5. full \subseteq Pieces /\ c.bits \subseteq Pieces
  BY DEF Ctrl
<1> HIDE DEF hit, full, blocks
<1>6. 0 \in 0..Total
  BY Sizes
<1>7. now \in Ctrl
  BY <1>4, <1>5, <1>6 DEF Ctrl
<1>8. Cardinality(Claimed(now)) \in 0..Total
  BY <1>7, ClaimedUnits, UnitsCount
<1>9. RecordRange(c, from, to) = [now EXCEPT !.length = Cardinality(Claimed(now))]
  BY DEF RecordRange, hit, full, blocks
<1> HIDE DEF now
<1> QED BY <1>7, <1>8, <1>9 DEF Ctrl

\* Where the run that ends at the gap starts.
LEMMA RunFacts ==
    ASSUME TypeInv, Missing # {}
    PROVE  RunStart \in 1..Min(Gap) /\ RunStart..(Min(Gap) - 1) \subseteq gap.have /\ Min(Gap) \in Nat \ {0}
<1> DEFINE R == {a \in 1..Min(Gap) : a..(Min(Gap) - 1) \subseteq gap.have}
<1>1. Min(Gap) \in Nat \ {0}
  BY GapFacts DEF Missing, Units
<1>2. Min(Gap) \in R
  <2>1. Min(Gap)..(Min(Gap) - 1) = {}
    BY <1>1
  <2> QED BY <1>1, <2>1
<1>3. Min(R) \in R
  BY <1>1, <1>2, LeastOf
<1>4. RunStart = Min(R)
  BY DEF RunStart
<1> QED BY <1>1, <1>3, <1>4

LEMMA RecordedType == ASSUME TypeInv, Missing # {} PROVE GapRecorded \in MaybeCtrl
<1>1. CASE gap.ctrl = NoControl
  BY <1>1 DEF GapRecorded, MaybeCtrl
<1>2. CASE gap.ctrl # NoControl
  <2>1. gap.ctrl \in Ctrl /\ gap.got \in Nat
    BY <1>2, Sizes DEF TypeInv, GapTypes, MaybeCtrl
  <2>2. RunStart \in Nat /\ GapEnd \in Nat
    BY <2>1, RunFacts DEF GapEnd
  <2> QED BY <1>2, <2>1, <2>2, RecordType DEF GapRecorded, MaybeCtrl
<1> QED BY <1>1, <1>2

LEMMA CleanupTypes == ASSUME TypeInv, Missing # {}, Cleanup PROVE DiskTypes'
<1>1. file \in FileType /\ control \in MaybeCtrl /\ Synced(file) \in FileType /\ GapRecorded \in MaybeCtrl
  BY SyncedType, RecordedType DEF TypeInv, DiskTypes
<1>2. CASE UNCHANGED disk
  BY <1>1, <1>2 DEF disk, DiskTypes
<1>3. CASE file' = Synced(file) /\ control' \in {control, GapRecorded}
  BY <1>1, <1>3 DEF DiskTypes
<1>4. CASE SomeLost /\ UNCHANGED control
  BY <1>1, <1>4, SomeLostTypes DEF DiskTypes
<1>5. CASE /\ file' = [file EXCEPT !.seen = @ \ (Min(Gap)..GapEnd), !.stable = @ \ (Min(Gap)..GapEnd)]
           /\ UNCHANGED control
  BY <1>1, <1>5 DEF DiskTypes, FileType
<1> QED BY <1>2, <1>3, <1>4, <1>5 DEF Cleanup

LEMMA GapStepTypes == ASSUME TypeInv, Fallback \/ Gaps PROVE TypeInv'
<1> USE DEF Handled, Places
<1>1. /\ file \in FileType /\ control \in MaybeCtrl /\ Drained \in FileType
      /\ Extend(queue) \in Counts /\ Snapshot(seg, Extend(queue)) \in Ctrl
      /\ Synced(file) \in FileType /\ ResumeTypes
  BY DrainedType, SnapshotExtended, SyncedType DEF TypeInv, DiskTypes
<1>2. CASE Fallback
  <2>1. CASE SyncFails(Drained)
    BY <1>1, <2>1, SyncFailsTypes
  <2>2. CASE /\ SyncAndSave(Drained, Snapshot(seg, Extend(queue)))
             /\ pc' = "gap" /\ ClearTransfer
             /\ gap' = [have |-> Have, got |-> 0, any |-> FALSE, tries |-> 1, ctrl |-> control']
             /\ UNCHANGED resume
    <3>1. DiskTypes'
      BY <1>1, <2>2, SyncedType DEF SyncAndSave, DiskTypes, MaybeCtrl
    <3>2. Have \subseteq Units
      <4>1. ASSUME NEW p \in Pieces
            PROVE  Whole(p) \subseteq Units /\ First(p, Extend(queue)[p]) \subseteq Units
        BY <1>1, UnitsOf, FirstUnits DEF Counts
      <4> QED BY <4>1 DEF Have
    <3>3. GapTypes'
      BY <2>2, <3>1, <3>2, Sizes DEF GapTypes, DiskTypes
    <3>4. ResumeTypes'
      BY <1>1, <2>2 DEF ResumeTypes
    <3> QED BY <2>2, <3>1, <3>3, <3>4, ClearTypes DEF TypeInv
  <2> QED BY <1>2, <2>1, <2>2 DEF Fallback
<1>3. CASE NothingMissing
  <2>1. DiskTypes'
    BY <1>1, <1>3 DEF NothingMissing, disk, DiskTypes
  <2> QED BY <1>3, <2>1, LeaveTypes DEF NothingMissing
<1>4. CASE GapRead
  <2>1. /\ gap.got < Cardinality(Gap) /\ Missing # {} /\ pc' = "gap"
        /\ file' = Holding(file, {Min(Gap) + gap.got})
        /\ gap' = [gap EXCEPT !.got = gap.got + 1]
        /\ UNCHANGED <<control, manager, work, net, prefix, round, resume>>
    BY <1>4 DEF GapRead, TypeInv, GapTypes
  <2>2. gap.got \in Nat /\ Cardinality(Gap) \in 0..Total
    BY <2>1, GapFacts, Sizes DEF TypeInv, GapTypes
  <2>3. gap.got + 1 \in 0..Total
    BY <2>1, <2>2, Sizes
  <2>4. GapTypes'
    BY <2>1, <2>3 DEF TypeInv, GapTypes
  <2>5. Min(Gap) + gap.got \in Units
    <3>1. Gap = Min(Gap)..(Min(Gap) + Cardinality(Gap) - 1) /\ Gap \subseteq Units /\ Min(Gap) \in Nat
      BY <2>1, GapFacts, RunFacts
    <3> QED BY <2>1, <2>2, <3>1
  <2>6. DiskTypes'
    BY <1>1, <2>1, <2>5, HoldingFacts DEF DiskTypes
  <2>7. ResumeTypes'
    BY <1>1, <2>1 DEF ResumeTypes
  <2> QED BY <2>1, <2>4, <2>6, <2>7, StillTypes
<1>5. CASE GapFilled
  <2>1. CASE SyncFails(file)
    BY <1>1, <2>1, SyncFailsTypes
  <2>2. CASE /\ file' = (IF gap.ctrl = NoControl THEN file ELSE Synced(file))
             /\ gap' = [gap EXCEPT !.have = @ \cup Gap, !.got = 0, !.any = TRUE, !.ctrl = GapRecorded]
             /\ control' \in {control, GapRecorded}
             /\ UNCHANGED <<pc, manager, work, net, prefix, round, resume>>
    <3>1. Missing # {} /\ pc = "gap"
      BY <1>5 DEF GapFilled
    <3>2. GapRecorded \in MaybeCtrl /\ Gap \subseteq Units
      BY <3>1, RecordedType, GapFacts
    <3>3. DiskTypes'
      BY <1>1, <2>2, <3>2 DEF DiskTypes
    <3>4. gap' = [have |-> gap.have \cup Gap, got |-> 0, any |-> TRUE, tries |-> gap.tries,
                  ctrl |-> GapRecorded]
      BY <2>2 DEF TypeInv, GapTypes
    <3>5. GapTypes'
      <4>1. gap.have \cup Gap \in SUBSET Units /\ 0 \in 0..Total /\ gap.tries \in Nat
        BY <3>2, Sizes DEF TypeInv, GapTypes
      <4> QED BY <3>2, <3>4, <4>1 DEF GapTypes
    <3>6. ResumeTypes'
      BY <1>1, <2>2 DEF ResumeTypes
    <3> QED BY <2>2, <3>1, <3>3, <3>5, <3>6, StillTypes
  <2> QED BY <1>5, <2>1, <2>2 DEF GapFilled
<1>6. CASE GapHalted
  <2>1. DiskTypes'
    BY <1>6, CleanupTypes DEF GapHalted
  <2> QED BY <1>6, <2>1, LeaveTypes DEF GapHalted
<1>7. CASE GapFails
  <2>1. DiskTypes' /\ pc = "gap"
    BY <1>7, CleanupTypes DEF GapFails
  <2>2. CASE Leave("failed") \/ Leave("cannotResume")
    BY <2>1, <2>2, LeaveTypes
  <2>3. CASE /\ gap' = [gap EXCEPT !.got = 0, !.any = FALSE, !.tries = @ + 1, !.ctrl = control']
             /\ UNCHANGED <<pc, manager, work, net, prefix, round, resume>>
    <3>1. gap.tries + 1 \in Nat
      BY DEF TypeInv, GapTypes
    <3>2. gap' = [have |-> gap.have, got |-> 0, any |-> FALSE, tries |-> gap.tries + 1,
                  ctrl |-> control']
      BY <2>3 DEF TypeInv, GapTypes
    <3>3. GapTypes'
      <4>1. gap.have \in SUBSET Units /\ 0 \in 0..Total /\ control' \in MaybeCtrl
        BY <2>1, Sizes DEF TypeInv, GapTypes, DiskTypes
      <4> QED BY <3>1, <3>2, <4>1 DEF GapTypes
    <3>4. ResumeTypes'
      BY <1>1, <2>3 DEF ResumeTypes
    <3> QED BY <2>1, <2>3, <3>3, <3>4, StillTypes
  <2> QED BY <1>7, <2>2, <2>3 DEF GapFails
<1>8. CASE GapsFilled
  <2>1. CASE SyncFails(file)
    BY <1>1, <2>1, SyncFailsTypes
  <2>2. CASE UNCHANGED file /\ control' = NoControl /\ Leave("done")
    <3>1. DiskTypes'
      BY <1>1, <2>2 DEF DiskTypes, MaybeCtrl
    <3> QED BY <2>2, <3>1, LeaveTypes
  <2> QED BY <1>8, <2>1, <2>2 DEF GapsFilled
<1> QED BY <1>2, <1>3, <1>4, <1>5, <1>6, <1>7, <1>8 DEF Gaps

-----------------------------------------------------------------------------
LEMMA TypeInit == ASSUME Init PROVE TypeInv
<1>1. file \in FileType
  <2>1. options.found \in Nat
    BY ConcurrentAssumption DEF Init
  <2>2. 1..Lesser(options.found, Total) \in SUBSET Units
    BY <2>1, Sizes DEF Lesser, Units
  <2> QED BY <2>1, <2>2 DEF Init, FileType
<1>2. /\ 0 \in 0..PieceUnits /\ 0 \in 0..MaxTries /\ 0 \in 0..(MaxTries - 1) /\ 0 < MaxTries
      /\ 0 \in 0..Split /\ 0 \in 0..(PieceUnits - 1) /\ PieceUnits \in 1..PieceUnits
      /\ 0 # PieceUnits
  BY ConcurrentAssumption
<1>3. SegTypes
  BY <1>2 DEF Init, FreshSeg, Zero, SegTypes, Segs, Phases
<1>4. NetTypes
  BY <1>2 DEF Init, NetTypes, Ranged, Zero, Counts
<1>5. RoundTypes
  BY <1>2 DEF Init, RoundTypes, FreshRound
<1>6. GapTypes /\ ResumeTypes
  BY Sizes DEF Init, NoGap, NoResume, GapTypes, ResumeTypes, MaybeCtrl
<1> QED BY <1>1, <1>3, <1>4, <1>5, <1>6 DEF Init, TypeInv, DiskTypes, MaybeCtrl, Places

LEMMA TypeStep == ASSUME TypeInv, AccountInv, [Next]_vars PROVE TypeInv'
<1>1. CASE UNCHANGED vars
  <2>1. UNCHANGED <<disk, attempt, pc>>
    BY <1>1 DEF vars
  <2>2. DiskTypes' /\ GapTypes' /\ ResumeTypes' /\ pc' \in Places
    BY <2>1 DEF disk, attempt, TypeInv, DiskTypes, GapTypes, ResumeTypes
  <2> QED BY <2>1, <2>2, StillTypes DEF attempt
<1>2. CASE Tasks
  BY <1>2, TaskTypes
<1>3. CASE Admission
  BY <1>3, IdleTypes, AdmitTypes DEF Admission
<1>4. CASE Select
  BY <1>4, IdleTypes, ResultTypes DEF Select
<1>5. CASE Fallback \/ Gaps
  BY <1>5, GapStepTypes
<1>6. CASE HeadHalted \/ HeadGoes \/ CooledDown \/ CooldownHalted
  BY <1>6, IdleTypes
<1>7. CASE Prepare
  BY <1>7, PrepareTypes
<1>8. CASE \/ Start \/ NextMirror \/ FreshRemove \/ DetectComplete \/ DetectPartial \/ Allocate
           \/ FreshTruncate \/ GiveUp \/ Halt \/ RequestSave \/ Crash
  BY <1>8, OutsideTypes
<1> QED BY <1>1, <1>2, <1>3, <1>4, <1>5, <1>6, <1>7, <1>8 DEF Next, Command

\* Every variable keeps its shape, for every number of pieces and units: no
\* piece is credited with more than it has, no source is loaded beyond the
\* limit, and no piece is tried more often than it may.
THEOREM DownloadTypes == Spec => []TypeOK
<1>1. TypeInv /\ AccountInv => TypeOK
  BY TypeInvIsType
<1> QED BY <1>1, AccountInit, AccountStep, TypeInit, TypeStep, PTL DEF Spec

-----------------------------------------------------------------------------
(***************************************************************************)
(* The prefix of a piece, the queue and the tasks.                         *)
(***************************************************************************)
\* What is written of a piece or waits in the queue for it.
Held(p) == First(p, prefix[p]) \cup (queue \cap Whole(p))

\* It has no holes, it reaches as far as the task has sent, and the prefix as
\* far as the credit of a piece that is not complete.
Linked ==
    \A p \in Pieces :
        /\ \A u \in Held(p), v \in Whole(p) : v <= u => v \in Held(p)
        /\ seg[p].status # "Done" => seg[p].done <= prefix[p]
        /\ req[p] # NoReq => First(p, req[p].sent) \subseteq Held(p)

\* What is empty outside of the phase that uses it, and what detection and the
\* gap phase know of the control file.
Blank ==
    /\ pc \notin Handled \cup {"fallback"} => seg = FreshSeg(Zero) /\ prefix = Zero /\ queue = {}
    /\ pc # "gap" => gap = NoGap
    /\ pc \notin Ready => resume = NoResume
    /\ pc = "gap" => (gap.ctrl = NoControl <=> control = NoControl)
    /\ pc = "truncate" => control = NoControl
    /\ resume.control # NoControl => resume.control = control /\ resume.length = control.length
    /\ gap.got > 0 => Missing # {} /\ gap.got <= Cardinality(Gap)
\* A control file records whole blocks.
Aligned(c) == c # NoControl => \A p \in Pieces : Blocks(c.blocks[p]) = c.blocks[p]
LinkInv == Linked /\ Blank /\ Aligned(control) /\ Aligned(gap.ctrl)

-----------------------------------------------------------------------------
LEMMA HeldUnits == ASSUME TypeInv, NEW p \in Pieces PROVE Held(p) \subseteq Whole(p)
  BY FirstUnits DEF Held, TypeInv, NetTypes, Counts

\* When the queue is written, the prefix becomes what was held.
LEMMA ExtendHolds ==
    ASSUME TypeInv, Linked, NEW p \in Pieces
    PROVE  First(p, Extend(queue)[p]) = Held(p) /\ prefix[p] <= Extend(queue)[p]
           /\ Extend(queue)[p] \in 0..PieceUnits
<1>1. PICK b \in Nat : b = Before(p)
  BY BeforePiece
<1>2. PICK E : E = Extend(queue)[p]
  OBVIOUS
<1>3. /\ E \in Reached(queue, p) /\ \A k \in Reached(queue, p) : k <= E
      /\ prefix[p] \in 0..PieceUnits /\ E \in 0..PieceUnits
  BY <1>2, ExtendFacts DEF TypeInv, NetTypes, Counts
<1>4. /\ E \in prefix[p]..PieceUnits /\ First(p, E) \ First(p, prefix[p]) \subseteq queue
  BY <1>3 DEF Reached
<1>5. First(p, E) \subseteq Whole(p)
  BY <1>3, FirstUnits
<1>6. First(p, E) \subseteq Held(p)
  BY <1>4, <1>5 DEF Held
<1>7. ASSUME NEW u \in Held(p) PROVE u \in First(p, E)
  <2>1. u \in Whole(p)
    BY HeldUnits
  <2>2. u \in Nat /\ b < u /\ u <= b + PieceUnits
    BY <1>1, <2>1, InFirst, Sizes DEF Whole
  <2>3. PICK k \in 1..PieceUnits : k = u - b
    BY <1>1, <2>2, Sizes
  <2>4. CASE k <= prefix[p]
    BY <1>1, <1>3, <1>4, <2>2, <2>3, <2>4, InFirst, Sizes
  <2>5. CASE k > prefix[p]
    <3>1. First(p, k) \subseteq Held(p)
      <4> SUFFICES ASSUME NEW v \in First(p, k) PROVE v \in Held(p)
        OBVIOUS
      <4>1. v \in Whole(p)
        BY <2>3, FirstUnits, Sizes
      <4>2. v <= u
        BY <1>1, <2>2, <2>3, InFirst, Sizes
      <4> QED BY <4>1, <4>2 DEF Linked
    <3>2. First(p, k) \ First(p, prefix[p]) \subseteq queue
      BY <3>1 DEF Held
    <3>3. k \in Reached(queue, p)
      BY <1>3, <2>3, <2>5, <3>2, Sizes DEF Reached
    <3>4. k <= E
      BY <1>3, <3>3
    <3> QED BY <1>1, <1>3, <2>2, <2>3, <3>4, InFirst, Sizes
  <2> QED BY <1>3, <2>3, <2>4, <2>5
<1> QED BY <1>2, <1>3, <1>4, <1>6, <1>7, Sizes

\* The same for one chunk, the first one of its piece in the queue.
LEMMA ExtendOne ==
    ASSUME TypeInv, Linked, NEW u \in queue,
           \A v \in queue : v < u => (v - 1) \div PieceUnits # (u - 1) \div PieceUnits,
           NEW p \in Pieces
    PROVE  /\ First(p, Extend({u})[p]) \cup ((queue \ {u}) \cap Whole(p)) = Held(p)
           /\ prefix[p] <= Extend({u})[p] /\ Extend({u})[p] \in 0..PieceUnits
           /\ First(p, Extend({u})[p]) \subseteq First(p, prefix[p]) \cup {u}
<1>1. PICK b \in Nat : b = Before(p)
  BY BeforePiece
<1>2. PICK E : E = Extend({u})[p]
  OBVIOUS
<1>3. /\ E \in Reached({u}, p) /\ \A k \in Reached({u}, p) : k <= E
      /\ prefix[p] \in 0..PieceUnits /\ E \in 0..PieceUnits
  BY <1>2, ExtendFacts DEF TypeInv, NetTypes, Counts
<1>4. E \in prefix[p]..PieceUnits /\ First(p, E) \ First(p, prefix[p]) \subseteq {u}
  BY <1>3 DEF Reached
<1>5. First(p, E) \subseteq Whole(p) /\ First(p, prefix[p]) \subseteq First(p, E)
  BY <1>3, <1>4, FirstUnits, Sizes
<1>6. ASSUME u \in Whole(p) PROVE u \in First(p, E)
  <2>1. u \in Nat /\ b < u /\ u <= b + PieceUnits /\ u \in Held(p)
    BY <1>1, <1>6, InFirst, Sizes DEF Whole, Held
  <2>2. PICK k \in 1..PieceUnits : k = u - b
    BY <1>1, <2>1, Sizes
  <2>3. k <= prefix[p] + 1
    <3> SUFFICES ASSUME k > prefix[p] + 1 PROVE FALSE
      BY <1>3, <2>2
    <3>1. PICK v \in Nat : v = b + prefix[p] + 1
      BY <1>3
    <3>2. v < u /\ v \in Whole(p) /\ v \notin First(p, prefix[p])
      BY <1>1, <1>3, <2>1, <2>2, <3>1, InFirst, Sizes DEF Whole
    <3>3. v \in Held(p)
      BY <2>1, <3>2 DEF Linked
    <3>4. v \in queue
      BY <3>2, <3>3 DEF Held
    <3>5. (v - 1) \div PieceUnits = (u - 1) \div PieceUnits
      BY <1>6, <3>2, PieceIs
    <3> QED BY <3>2, <3>4, <3>5
  <2>4. CASE k <= prefix[p]
    BY <1>1, <1>3, <1>4, <2>1, <2>2, <2>4, InFirst, Sizes
  <2>5. CASE k = prefix[p] + 1
    <3>1. First(p, k) \ First(p, prefix[p]) \subseteq {u}
      BY <1>1, <1>3, <2>1, <2>2, <2>5, InFirst, Sizes
    <3>2. k \in Reached({u}, p)
      BY <1>3, <2>2, <2>5, <3>1, Sizes DEF Reached
    <3>3. k <= E
      BY <1>3, <3>2
    <3> QED BY <1>1, <1>3, <2>1, <2>2, <3>3, InFirst, Sizes
  <2> QED BY <1>3, <2>2, <2>3, <2>4, <2>5
<1>7. First(p, E) \subseteq First(p, prefix[p]) \cup {u}
  BY <1>4
<1>8. First(p, E) \cup ((queue \ {u}) \cap Whole(p)) = Held(p)
  BY <1>5, <1>6, <1>7 DEF Held
<1>9. prefix[p] <= E
  BY <1>3, <1>4, Sizes
<1> QED BY <1>2, <1>3, <1>7, <1>8, <1>9

\* What is held stays so,
LEMMA LinkedKept ==
    ASSUME Linked, \A p \in Pieces : Held(p)' = Held(p),
           \A p \in Pieces :
              /\ seg'[p].status # "Done" => seg'[p].done <= prefix'[p]
              /\ req'[p] # NoReq => First(p, req'[p].sent) \subseteq Held(p)
    PROVE  Linked'
  BY DEF Linked

\* and nothing is held when nothing is downloaded.
LEMMA NothingHeld ==
    ASSUME prefix' = Zero, queue' = {}, seg' = FreshSeg(Zero), \A p \in Pieces : req'[p] = NoReq
    PROVE  Linked'
<1>1. ASSUME NEW p \in Pieces PROVE Held(p)' = {}
  <2>1. 1..0 = {}
    OBVIOUS
  <2>2. First(p, 0) = {}
    BY <2>1 DEF First
  <2> QED BY <2>2 DEF Held, Zero
<1>2. \A p \in Pieces : seg'[p].done <= prefix'[p]
  BY DEF FreshSeg, Zero
<1> QED BY <1>1, <1>2 DEF Linked

Ends == {"failed", "stopped", "done", "cannotResume"}
LEMMA LeaveLink ==
    ASSUME NEW w \in Ends, Leave(w), Aligned(control)' PROVE LinkInv'
<1>1. Linked'
  BY NothingHeld DEF Leave, ClearTransfer
<1>2. pc' = w /\ gap' = NoGap /\ resume' = NoResume
  BY DEF Leave
<1>3. /\ gap'.ctrl = NoControl /\ resume'.control = NoControl /\ ~(gap'.got > 0)
  BY <1>2 DEF NoGap, NoResume
<1>4. Blank'
  BY <1>2, <1>3 DEF Leave, ClearTransfer, Blank, Ends, Handled
<1> QED BY <1>1, <1>3, <1>4 DEF LinkInv, Aligned

LEMMA SnapshotAligned ==
    ASSUME NEW s, NEW x \in Counts PROVE Aligned(Snapshot(s, x))
<1>1. ASSUME NEW p \in Pieces PROVE Blocks(Blocks(x[p])) = Blocks(x[p])
  BY BlocksFacts, Sizes DEF Counts
<1>2. Blocks(0) = 0
  BY BlocksFacts
<1> QED BY <1>1, <1>2 DEF Snapshot, Aligned

\* An error, with and without a checkpoint.
LEMMA ErrorLink ==
    ASSUME TypeInv, LinkInv,
           \/ \E f : SyncFails(f) \/ FlushFails(f)
           \/ \E w \in Ends : CancelAndPersist(w)
    PROVE  LinkInv'
<1>1. Aligned(control) /\ Aligned(Snapshot(seg, Extend(queue)))
  BY SnapshotExtended, SnapshotAligned DEF LinkInv
<1>2. ASSUME NEW f, SyncFails(f) PROVE LinkInv'
  <2>1. Aligned(control)' /\ Leave("failed")
    BY <1>1, <1>2 DEF SyncFails, Aligned
  <2> QED BY <2>1, LeaveLink DEF Ends
<1>3. ASSUME NEW f, FlushFails(f) PROVE LinkInv'
  <2>1. CASE SyncFails(f)
    BY <1>2, <2>1
  <2>2. CASE Leave("failed") /\ UNCHANGED control
    <3>1. Aligned(control)'
      BY <1>1, <2>2 DEF Aligned
    <3> QED BY <2>2, <3>1, LeaveLink DEF Ends
  <2> QED BY <1>3, <2>1, <2>2 DEF FlushFails
<1>4. ASSUME NEW w \in Ends, CancelAndPersist(w) PROVE LinkInv'
  <2>1. CASE SyncFails(Drained)
    BY <1>2, <2>1
  <2>2. CASE SyncAndSave(Drained, Snapshot(seg, Extend(queue))) /\ Leave(w)
    <3>1. Aligned(control)'
      BY <1>1, <2>2 DEF SyncAndSave, Aligned
    <3> QED BY <2>2, <3>1, LeaveLink
  <2> QED BY <1>4, <2>1, <2>2 DEF CancelAndPersist
<1> QED BY <1>2, <1>3, <1>4

\* A step that keeps the transfer and the phase of the gaps.
LEMMA StillLink ==
    ASSUME LinkInv, UNCHANGED <<manager, req, queue, prefix, gap, resume, control>>,
           pc \in Handled \cup {"fallback"} \/ pc' \notin Handled \cup {"fallback"},
           pc' \in Handled \cup {"fallback"} \/ pc \notin Handled \cup {"fallback"},
           pc' = "gap" <=> pc = "gap", pc \in Ready => pc' \in Ready, pc' # "truncate" \/ pc = "truncate"
    PROVE  LinkInv'
<1>1. Linked'
  BY DEF LinkInv, Linked, Held, manager
<1>2. Blank'
  BY DEF LinkInv, Blank, manager, Missing, Gap, Handled, Ready
<1>3. Aligned(control)' /\ Aligned(gap.ctrl)'
  BY DEF LinkInv, Aligned
<1> QED BY <1>1, <1>2, <1>3 DEF LinkInv

\* A step of the transfer.
LEMMA TransferLink ==
    ASSUME LinkInv, Linked', Aligned(control)', UNCHANGED <<gap, resume>>,
           pc \in Handled \cup {"fallback"}, pc' \in Handled \cup {"fallback"}
    PROVE  LinkInv'
<1>1. gap = NoGap /\ resume = NoResume
  BY DEF LinkInv, Blank, Handled, Ready
<1>2. gap'.ctrl = NoControl /\ resume'.control = NoControl /\ ~(gap'.got > 0)
  BY <1>1 DEF NoGap, NoResume
<1>3. Blank'
  BY <1>1, <1>2 DEF Blank, Handled
<1> QED BY <1>2, <1>3 DEF LinkInv, Aligned

LEMMA OutsideLink ==
    ASSUME TypeInv, LinkInv,
           \/ Start \/ NextMirror \/ FreshRemove \/ DetectComplete \/ DetectPartial \/ Allocate
           \/ FreshTruncate \/ GiveUp \/ Halt \/ RequestSave \/ Crash
    PROVE  LinkInv'
<1> USE DEF Handled, Ready
<1>1. CASE Start \/ NextMirror \/ GiveUp \/ Halt \/ RequestSave
  BY <1>1, StillLink DEF Start, NextMirror, GiveUp, Halt, RequestSave, attempt, net, disk
<1>2. CASE DetectComplete \/ Crash
  <2>1. UNCHANGED control /\ \E w \in Ends : Leave(w)
    BY <1>2 DEF DetectComplete, Crash, disk, Ends
  <2>2. Aligned(control)'
    BY <2>1 DEF LinkInv, Aligned
  <2> QED BY <2>1, <2>2, LeaveLink
<1>3. CASE Allocate
  <2>1. CASE Leave("failed")
    <3>1. Aligned(control)'
      BY <1>3 DEF Allocate, LinkInv, Aligned
    <3> QED BY <2>1, <3>1, LeaveLink DEF Ends
  <2>2. CASE pc' = "prepare" /\ UNCHANGED attempt
    BY <1>3, <2>2, StillLink DEF Allocate, attempt, net
  <2> QED BY <1>3, <2>1, <2>2 DEF Allocate
<1>4. CASE FreshTruncate
  BY <1>4, StillLink DEF FreshTruncate, attempt, net
<1>5. CASE FreshRemove
  <2>1. /\ pc = "cannotResume" /\ pc' = "truncate" /\ control' = NoControl /\ UNCHANGED attempt
    BY <1>5 DEF FreshRemove
  <2>2. gap = NoGap /\ resume = NoResume /\ seg = FreshSeg(Zero) /\ prefix = Zero /\ queue = {}
    BY <2>1 DEF LinkInv, Blank
  <2>3. gap'.ctrl = NoControl /\ resume'.control = NoControl /\ ~(gap'.got > 0)
    BY <2>1, <2>2 DEF attempt, NoGap, NoResume
  <2>4. Blank'
    BY <2>1, <2>2, <2>3 DEF Blank, attempt, manager, net
  <2>5. Linked'
    BY <2>1 DEF LinkInv, Linked, Held, attempt, manager, net
  <2> QED BY <2>1, <2>3, <2>4, <2>5 DEF LinkInv, Aligned
<1>6. CASE DetectPartial
  <2>1. /\ pc = "detect" /\ pc' = "allocate" /\ control' = Known
        /\ UNCHANGED <<manager, work, net, prefix, round, gap>>
        /\ resume' = IF ~options.continue THEN NoResume
                     ELSE [control |-> Known,
                           length |-> IF Known # NoControl THEN Known.length ELSE file.size]
    BY <1>6 DEF DetectPartial
  <2>2. gap = NoGap /\ seg = FreshSeg(Zero) /\ prefix = Zero /\ queue = {}
    BY <2>1 DEF LinkInv, Blank
  <2>3. /\ gap'.ctrl = NoControl /\ ~(gap'.got > 0)
    BY <2>1, <2>2 DEF NoGap
  <2>4. resume'.control # NoControl => resume'.control = control' /\ resume'.length = control'.length
    BY <2>1 DEF NoResume
  <2>5. Blank'
    BY <2>1, <2>2, <2>3, <2>4 DEF Blank, manager, net
  <2>6. Linked'
    BY <2>1 DEF LinkInv, Linked, Held, manager, net
  <2>7. Aligned(control)'
    BY <2>1 DEF Known, LinkInv, Aligned
  <2> QED BY <2>3, <2>5, <2>6, <2>7 DEF LinkInv, Aligned
<1> QED BY <1>1, <1>2, <1>3, <1>4, <1>5, <1>6

\* Where a transfer starts: nothing of a piece is credited beyond its prefix.
LEMMA RestoredFacts ==
    ASSUME ResumeTypes, NEW p \in Pieces
    PROVE  /\ Restored[p] \in 0..PieceUnits /\ RestoredPrefix[p] \in 0..PieceUnits
           /\ RestoredPrefix[p] <= Restored[p]
           /\ Restored[p] # PieceUnits => Restored[p] = RestoredPrefix[p]
<1>1. Restored[p] \in 0..PieceUnits /\ RestoredPrefix[p] \in 0..PieceUnits
  BY RestoredType DEF Counts
<1>2. CASE FromControl /\ Aggregate(resume.control)
  <2>1. /\ Restored[p] = IF p \in resume.control.bits THEN PieceUnits ELSE resume.control.blocks[p]
        /\ RestoredPrefix[p] = resume.control.blocks[p]
    BY <1>2 DEF Restored, RestoredPrefix
  <2> QED BY <1>1, <2>1, Sizes
<1>3. CASE ~(FromControl /\ Aggregate(resume.control))
  <2>1. RestoredPrefix = Restored
    BY <1>3 DEF RestoredPrefix
  <2> QED BY <1>1, <2>1
<1> QED BY <1>1, <1>2, <1>3

LEMMA PrepareLink == ASSUME TypeInv, AccountInv, LinkInv, Prepare PROVE LinkInv'
<1> DEFINE new == Snapshot(FreshSeg(Restored), RestoredPrefix)
<1>1. Restored \in Counts /\ RestoredPrefix \in Counts
  BY RestoredType DEF TypeInv
<1>2. Aligned(new) /\ Aligned(control) /\ Aligned(NoControl)
  BY <1>1, SnapshotAligned DEF LinkInv, Aligned
<1> HIDE DEF new
<1>3. control' \in {new, control, NoControl}
  BY DEF Prepare, FirstSave, new
<1>4. Aligned(control)'
  BY <1>2, <1>3 DEF Aligned
<1>5. CASE Leave("failed")
  BY <1>4, <1>5, LeaveLink DEF Ends
<1>6. CASE /\ pc = "prepare" /\ pc' = "head" /\ seg' = FreshSeg(Restored) /\ prefix' = RestoredPrefix
           /\ resume' = NoResume
           /\ UNCHANGED <<mirror, charged, cancelled, net, round, gap>>
  <2>1. queue = {} /\ gap = NoGap /\ \A p \in Pieces : req[p] = NoReq
    BY <1>6 DEF LinkInv, Blank, AccountInv, Clean, Handled
  <2>2. gap'.ctrl = NoControl /\ ~(gap'.got > 0) /\ resume'.control = NoControl
    BY <1>6, <2>1 DEF NoGap, NoResume
  <2>3. Linked'
    <3> SUFFICES ASSUME NEW p \in Pieces
                 PROVE  /\ \A u \in Held(p)', v \in Whole(p) : v <= u => v \in Held(p)'
                        /\ seg'[p].status # "Done" => seg'[p].done <= prefix'[p]
                        /\ req'[p] # NoReq => First(p, req'[p].sent) \subseteq Held(p)'
      BY DEF Linked
    <3>1. Held(p)' = First(p, RestoredPrefix[p])
      BY <1>6, <2>1 DEF Held, net
    <3>2. PICK n \in 0..PieceUnits : n = RestoredPrefix[p]
      BY RestoredFacts DEF TypeInv
    <3>3. PICK b \in Nat : b = Before(p)
      BY BeforePiece
    <3>4. \A u \in First(p, n), v \in Whole(p) : v <= u => v \in First(p, n)
      BY <3>3, InFirst, Sizes DEF Whole
    <3>5. seg'[p].status # "Done" => seg'[p].done <= prefix'[p]
      BY <1>1, <1>6, FreshSegType, RestoredFacts DEF TypeInv
    <3>6. req'[p] = NoReq
      BY <1>6, <2>1 DEF net
    <3> QED BY <3>1, <3>2, <3>4, <3>5, <3>6
  <2>4. Blank'
    BY <1>6, <2>1, <2>2 DEF Blank, Handled, Ready
  <2> QED BY <1>4, <2>2, <2>3, <2>4 DEF LinkInv, Aligned
<1> QED BY <1>5, <1>6 DEF Prepare

LEMMA TaskLink == ASSUME TypeInv, AccountInv, LinkInv, Tasks PROVE LinkInv'
<1>1. PICK p \in Pieces : SendChunk(p) \/ TaskOk(p) \/ TaskFails(p)
  BY DEF Tasks
<1>2. /\ UNCHANGED <<control, pc, seg, prefix, gap, resume>> /\ req[p] # NoReq
      /\ pc \in Handled \cup {"fallback"}
  BY <1>1 DEF SendChunk, TaskOk, TaskFails, disk, manager, Downloading, Handled
<1>3. Aligned(control)'
  BY <1>2 DEF LinkInv, Aligned
<1>4. CASE SendChunk(p)
  <2>1. /\ req' = [req EXCEPT ![p].sent = req[p].sent + 1]
        /\ req[p].sent < req[p].to
        /\ queue' = queue \cup {(p - 1) * PieceUnits + req[p].sent + 1}
    BY <1>4 DEF SendChunk
  <2>2. PICK b \in Nat : b = Before(p)
    BY BeforePiece
  <2>3. req[p] \in Entry /\ DOMAIN req = Pieces
    BY <1>2 DEF TypeInv, NetTypes, Ranged
  <2>4. PICK n \in 0..PieceUnits : n = req[p].sent /\ n + 1 \in 0..PieceUnits
    BY <2>1, <2>3, Sizes DEF Entry
  <2>5. PICK w \in Nat : w = b + n + 1
    BY <2>4
  <2>6. w \in Whole(p) /\ queue' = queue \cup {w}
    BY <2>1, <2>2, <2>4, <2>5, InFirst, Sizes DEF Whole, Before
  <2>7. \A q \in Pieces : w \in Whole(q) => q = p
    BY <2>6, OnePiece
  <2>8. Held(p)' = Held(p) \cup {w} /\ \A q \in Pieces \ {p} : Held(q)' = Held(q)
    BY <1>2, <2>6, <2>7 DEF Held
  <2>9. First(p, n + 1) \subseteq First(p, n) \cup {w} /\ First(p, n) \subseteq Held(p)
    <3>1. ASSUME NEW v \in First(p, n + 1) PROVE v \in First(p, n) \cup {w}
      <4>1. n \in Nat /\ n + 1 \in Nat
        BY <2>4, Sizes
      <4>2. v \in Nat /\ b < v /\ v <= b + (n + 1)
        BY <2>2, <3>1, <4>1, InFirst
      <4>3. v <= b + n \/ v = w
        BY <2>5, <4>1, <4>2
      <4> QED BY <2>2, <4>1, <4>2, <4>3, InFirst
    <3>2. First(p, n) \subseteq Held(p)
      BY <1>2, <2>4 DEF LinkInv, Linked
    <3> QED BY <3>1, <3>2
  <2>10. ASSUME NEW v \in Whole(p), v <= w PROVE v \in First(p, n) \cup {w}
    <3>1. v \in Nat /\ b < v /\ v <= b + n + 1
      BY <2>2, <2>5, <2>10, InFirst, Sizes DEF Whole
    <3>2. v <= b + n \/ v = w
      BY <2>4, <2>5, <3>1
    <3> QED BY <2>2, <2>4, <3>1, <3>2, InFirst
  <2>11. /\ req'[p] = [req[p] EXCEPT !.sent = req[p].sent + 1]
         /\ \A q \in Pieces \ {p} : req'[q] = req[q]
    BY <2>1, <2>3
  <2>12. req'[p].sent = n + 1
    BY <2>3, <2>4, <2>11 DEF Entry
  <2>13. Linked'
    <3>1. ASSUME NEW q \in Pieces, q # p
          PROVE  /\ \A u \in Held(q)', v \in Whole(q) : v <= u => v \in Held(q)'
                 /\ req'[q] # NoReq => First(q, req'[q].sent) \subseteq Held(q)'
      BY <2>8, <2>11, <3>1 DEF LinkInv, Linked
    <3>2. ASSUME NEW u \in Held(p)', NEW v \in Whole(p), v <= u PROVE v \in Held(p)'
      BY <2>8, <2>9, <2>10, <3>2 DEF LinkInv, Linked
    <3>3. First(p, req'[p].sent) \subseteq Held(p)'
      BY <2>8, <2>9, <2>12
    <3>4. \A q \in Pieces : seg'[q].status # "Done" => seg'[q].done <= prefix'[q]
      BY <1>2 DEF LinkInv, Linked
    <3> QED BY <3>1, <3>2, <3>3, <3>4 DEF Linked
  <2> QED BY <1>2, <1>3, <2>13, TransferLink
<1>5. CASE TaskOk(p) \/ TaskFails(p)
  <2>1. PICK o \in Outcomes : req' = [req EXCEPT ![p] = [req[p] EXCEPT !.outcome = o]]
    BY <1>5 DEF TaskOk, TaskFails, Outcomes
  <2>2. queue' = queue
    BY <1>5 DEF TaskOk, TaskFails
  <2>3. req[p] \in Entry /\ DOMAIN req = Pieces
    BY <1>2 DEF TypeInv, NetTypes, Ranged
  <2>4. req'[p].sent = req[p].sent /\ \A q \in Pieces \ {p} : req'[q] = req[q]
    BY <2>1, <2>3 DEF Entry
  <2>5. Linked'
    BY <1>2, <2>2, <2>4 DEF LinkInv, Linked, Held
  <2> QED BY <1>2, <1>3, <2>5, TransferLink
<1> QED BY <1>1, <1>4, <1>5

\* The queue is written.
LEMMA DrainLink ==
    ASSUME TypeInv, LinkInv, pc \in Handled, pc' \in Handled \cup {"fallback"},
           queue' = {}, prefix' = Extend(queue), Aligned(control)', UNCHANGED <<gap, resume>>,
           \A q \in Pieces :
              /\ req'[q] \in {NoReq, req[q]}
              /\ \/ seg'[q].status = "Done"
                 \/ seg[q].status # "Done" /\ seg'[q].done = seg[q].done
                 \/ req[q] # NoReq /\ seg'[q].done = req[q].sent
    PROVE  LinkInv'
<1>1. ASSUME NEW q \in Pieces
      PROVE  /\ Held(q)' = Held(q) /\ prefix[q] <= prefix'[q]
             /\ prefix'[q] \in 0..PieceUnits /\ prefix[q] \in 0..PieceUnits
             /\ First(q, prefix'[q]) = Held(q)
  BY ExtendHolds DEF LinkInv, Held, TypeInv, NetTypes, Counts
<1>2. ASSUME NEW q \in Pieces, req[q] # NoReq PROVE req[q].sent <= prefix'[q]
  <2>1. PICK n \in 0..PieceUnits : n = req[q].sent
    BY <1>2 DEF TypeInv, NetTypes, Ranged, Entry
  <2>2. PICK b \in Nat : b = Before(q)
    BY BeforePiece
  <2>3. First(q, n) \subseteq First(q, prefix'[q])
    BY <1>1, <1>2, <2>1 DEF LinkInv, Linked
  <2>4. PICK m \in 0..PieceUnits : m = prefix'[q]
    BY <1>1
  <2>5. n > 0 => b + n \in First(q, n)
    BY <2>1, <2>2, InFirst, Sizes
  <2>6. b + n \in First(q, m) => n <= m
    BY <2>1, <2>2, <2>4, InFirst, Sizes
  <2> QED BY <2>1, <2>3, <2>4, <2>5, <2>6, Sizes
<1>3. ASSUME NEW q \in Pieces, seg'[q].status # "Done" PROVE seg'[q].done <= prefix'[q]
  <2>1. CASE seg[q].status # "Done" /\ seg'[q].done = seg[q].done
    <3>1. seg[q].done <= prefix[q] /\ seg[q].done \in 0..PieceUnits
      BY <2>1 DEF LinkInv, Linked, TypeInv, SegTypes, Segs
    <3> QED BY <1>1, <2>1, <3>1, Sizes
  <2>2. CASE req[q] # NoReq /\ seg'[q].done = req[q].sent
    BY <1>2, <2>2
  <2> QED BY <1>3, <2>1, <2>2
<1>4. Linked'
  <2>1. ASSUME NEW q \in Pieces, req'[q] # NoReq PROVE First(q, req'[q].sent) \subseteq Held(q)
    BY <2>1 DEF LinkInv, Linked
  <2> QED BY <1>1, <1>3, <2>1, LinkedKept DEF LinkInv
<1> QED BY <1>4, TransferLink

LEMMA FlushedAligned ==
    ASSUME NEW f, NEW s, NEW x \in Counts, LinkInv,
           \/ Flushed(f, Snapshot(s, x)) \/ SyncAndSave(f, Snapshot(s, x))
           \/ UNCHANGED control
    PROVE  Aligned(control)'
<1>1. Aligned(control) /\ Aligned(Snapshot(s, x))
  BY SnapshotAligned DEF LinkInv
<1>2. control' \in {control, Snapshot(s, x)}
  BY DEF Flushed, SyncAndSave
<1> QED BY <1>1, <1>2 DEF Aligned

LEMMA IdleLink ==
    ASSUME TypeInv, LinkInv,
           \/ HeadHalted \/ HeadGoes \/ WriteFails \/ CooledDown \/ CooldownHalted
           \/ EnterWait \/ Finish \/ CoolDown \/ AllRangesFailed \/ Stuck
           \/ Woken \/ \E u \in Units : WriteChunk(u)
    PROVE  LinkInv'
<1> USE DEF Handled
<1>1. CASE HeadHalted \/ AllRangesFailed
  <2>1. \E w \in Ends : CancelAndPersist(w)
    BY <1>1 DEF HeadHalted, AllRangesFailed, Ends
  <2> QED BY <2>1, ErrorLink
<1>2. CASE HeadGoes \/ Stuck \/ CooledDown
  BY <1>2, StillLink DEF HeadGoes, Stuck, Idle, CooledDown, attempt, net, disk, Ready
<1>3. CASE WriteFails \/ CooldownHalted
  <2>1. UNCHANGED control /\ \E w \in Ends : Leave(w)
    BY <1>3 DEF WriteFails, CooldownHalted, Ends
  <2>2. Aligned(control)'
    BY <2>1 DEF LinkInv, Aligned
  <2> QED BY <2>1, <2>2, LeaveLink
<1>4. CASE Finish
  <2>1. CASE SyncFails(Drained)
    BY <2>1, ErrorLink
  <2>2. CASE control' = NoControl /\ Leave("done")
    <3>1. Aligned(control)'
      BY <2>2 DEF Aligned
    <3> QED BY <2>2, <3>1, LeaveLink DEF Ends
  <2> QED BY <1>4, <2>1, <2>2 DEF Finish
<1>5. CASE CoolDown
  <2>1. /\ pc \in Handled /\ pc' \in Handled /\ queue' = {} /\ prefix' = Extend(queue)
        /\ UNCHANGED <<control, seg, req, gap, resume>>
    BY <1>5 DEF CoolDown, Idle, manager
  <2>2. Aligned(control)'
    BY <2>1 DEF LinkInv, Aligned
  <2> QED BY <2>1, <2>2, DrainLink
<1>6. CASE EnterWait
  <2>1. CASE FlushFails(Drained)
    BY <2>1, ErrorLink
  <2>2. CASE /\ Flushed(Drained, Snapshot(seg, Extend(queue)))
             /\ pc' = "wait" /\ queue' = {} /\ prefix' = Extend(queue)
             /\ UNCHANGED <<manager, work, req, stale, round, gap, resume, events>>
    <3>1. pc \in Handled /\ UNCHANGED <<seg, req, gap, resume>>
      BY <1>6, <2>2 DEF EnterWait, manager
    <3>2. Aligned(control)'
      BY <2>2, SnapshotExtended, FlushedAligned
    <3> QED BY <2>2, <3>1, <3>2, DrainLink
  <2> QED BY <1>6, <2>1, <2>2 DEF EnterWait
<1>7. CASE Woken
  <2>1. CASE FlushFails(file)
    BY <2>1, ErrorLink
  <2>2. CASE pc' = "head" /\ UNCHANGED attempt /\ Aligned(control)'
    <3>1. Linked'
      BY <2>2 DEF LinkInv, Linked, Held, attempt, manager, net
    <3>2. pc \in Handled /\ UNCHANGED <<gap, resume>>
      BY <1>7, <2>2 DEF Woken, attempt
    <3> QED BY <2>2, <3>1, <3>2, TransferLink
  <2>3. prefix \in Counts
    BY DEF TypeInv, NetTypes
  <2>4. Flushed(file, Snapshot(seg, prefix)) \/ UNCHANGED control => Aligned(control)'
    BY <2>3, FlushedAligned
  <2> QED BY <1>7, <2>1, <2>2, <2>4 DEF Woken, disk
<1>8. CASE \E u \in Units : WriteChunk(u)
  <2>1. PICK u \in Units : WriteChunk(u)
    BY <1>8
  <2>2. CASE FlushFails(Holding(file, {u}))
    BY <2>2, ErrorLink
  <2>3. CASE /\ Flushed(Holding(file, {u}), Snapshot(seg, Extend({u})))
             /\ pc' = "head" /\ queue' = queue \ {u} /\ prefix' = Extend({u})
             /\ UNCHANGED <<manager, work, req, stale, round, gap, resume, events>>
    <3>1. /\ pc = "wait" /\ u \in queue
          /\ \A v \in queue : v < u => (v - 1) \div PieceUnits # (u - 1) \div PieceUnits
      BY <2>1 DEF WriteChunk
    <3>2. prefix \in Counts /\ seg \in Segs
      BY DEF TypeInv, NetTypes, SegTypes
    <3>3. Extend({u}) \in Counts
      BY <3>2, ExtendFacts
    <3>4. Aligned(control)'
      BY <2>3, <3>3, FlushedAligned
    <3>5. ASSUME NEW p \in Pieces
          PROVE  Held(p)' = Held(p) /\ prefix[p] <= prefix'[p] /\ prefix'[p] \in 0..PieceUnits
      BY <2>3, <3>1, ExtendOne DEF LinkInv, Held
    <3>6. ASSUME NEW p \in Pieces, seg'[p].status # "Done" PROVE seg'[p].done <= prefix'[p]
      <4>1. seg' = seg
        BY <2>3 DEF manager
      <4>2. seg[p].done <= prefix[p] /\ seg[p].done \in 0..PieceUnits /\ prefix[p] \in 0..PieceUnits
        BY <3>2, <3>6, <4>1 DEF LinkInv, Linked, Segs, Counts
      <4> QED BY <3>5, <4>1, <4>2, Sizes
    <3>7. \A p \in Pieces : req'[p] # NoReq => First(p, req'[p].sent) \subseteq Held(p)
      BY <2>3 DEF LinkInv, Linked
    <3>8. Linked'
      BY <3>5, <3>6, <3>7, LinkedKept DEF LinkInv
    <3> QED BY <2>3, <3>1, <3>4, <3>8, TransferLink
  <2> QED BY <2>1, <2>2, <2>3 DEF WriteChunk
<1> QED BY <1>1, <1>2, <1>3, <1>4, <1>5, <1>6, <1>7, <1>8

LEMMA AdmitLink ==
    ASSUME TypeInv, AccountInv, LinkInv, NEW p \in Pieces, AdmitRange(p) \/ DropSettled(p)
    PROVE  LinkInv'
<1> USE DEF Handled
<1>1. CASE DropSettled(p)
  BY <1>1, StillLink DEF DropSettled, net, disk, Ready
<1>2. CASE AdmitRange(p)
  <2>1. /\ pc = "admit" /\ pc' = "admit" /\ seg[p].status = "Pending"
        /\ seg' = [seg EXCEPT ![p] = [seg[p] EXCEPT !.status = "Downloading"]]
        /\ req' = [req EXCEPT ![p] =
              [from |-> seg[p].done + 1, sent |-> seg[p].done,
               to |-> Lesser(PieceUnits, seg[p].done + round.limit),
               limit |-> round.limit, outcome |-> "running"]]
        /\ UNCHANGED <<control, queue, prefix, gap, resume>>
    BY <1>2 DEF AdmitRange, disk
  <2>2. /\ seg'[p].done = seg[p].done /\ seg'[p].status = "Downloading"
        /\ \A q \in Pieces \ {p} : seg'[q] = seg[q]
    BY <2>1 DEF TypeInv, SegTypes, Segs
  <2>3. req'[p].sent = seg[p].done /\ \A q \in Pieces \ {p} : req'[q] = req[q]
    BY <2>1 DEF TypeInv, NetTypes
  <2>4. First(p, seg[p].done) \subseteq Held(p)
    <3>1. seg[p].done <= prefix[p] /\ seg[p].done \in 0..PieceUnits /\ prefix[p] \in 0..PieceUnits
      BY <2>1 DEF LinkInv, Linked, TypeInv, SegTypes, Segs, NetTypes, Counts
    <3>2. seg[p].done \in 0..prefix[p]
      BY <3>1, Sizes
    <3> QED BY <3>1, <3>2, FirstUnits DEF Held
  <2>5. \A q \in Pieces : Held(q)' = Held(q)
    BY <2>1 DEF Held
  <2>6. \A q \in Pieces : /\ seg'[q].status # "Done" => seg'[q].done <= prefix'[q]
                          /\ req'[q] # NoReq => First(q, req'[q].sent) \subseteq Held(q)
    BY <2>1, <2>2, <2>3, <2>4 DEF LinkInv, Linked
  <2>7. Linked'
    BY <2>5, <2>6, LinkedKept DEF LinkInv
  <2>8. Aligned(control)'
    BY <2>1 DEF LinkInv, Aligned
  <2> QED BY <2>1, <2>7, <2>8, TransferLink
<1> QED BY <1>1, <1>2

\* What a failure does to the pieces.
LEMMA PieceBack ==
    ASSUME TypeInv, AccountInv, pc \in Handled, NEW p \in Pieces, req[p] # NoReq,
           RequeueSegment(p) \/ FailSegment(p)
    PROVE  /\ \A q \in Pieces : seg'[q].done = seg[q].done
           /\ \A q \in Pieces \ {p} : seg'[q] = seg[q]
           /\ seg[p].status = "Downloading" /\ seg'[p].status # "Done"
<1>1. seg[p].status = "Downloading"
  BY DEF AccountInv, Ledger, Having, Tracked
<1>2. CASE RequeueSegment(p)
  BY <1>1, <1>2 DEF RequeueSegment, TypeInv, SegTypes, Segs
<1>3. CASE FailSegment(p)
  <2>1. seg' = [seg EXCEPT ![p] = [[seg[p] EXCEPT !.retries = seg[p].retries + 1] EXCEPT
                   !.status = IF seg[p].retries + 1 >= MaxTries THEN "Failed" ELSE "Pending"]]
    BY <1>3 DEF FailSegment, TypeInv, SegTypes, Segs
  <2> QED BY <1>1, <2>1 DEF TypeInv, SegTypes, Segs
<1> QED BY <1>1, <1>2, <1>3

LEMMA ResultLink ==
    ASSUME TypeInv, AccountInv, LinkInv, NEW p \in Pieces,
           \/ RangeOk(p) \/ RangeSmaller(p) \/ RangeBusy(p) \/ RangeFallsBack(p)
           \/ RangeRetries(p) \/ RangeFatal(p) \/ StaleResult(p) \/ Stalled(p) \/ SlowOutlier(p)
    PROVE  LinkInv'
<1> USE DEF Handled
<1>1. ASSUME Forget(p)
      PROVE  \A q \in Pieces : req'[q] \in {NoReq, req[q]}
  BY <1>1 DEF Forget, TypeInv, NetTypes
<1>2. ASSUME UNCHANGED control PROVE Aligned(control)'
  BY <1>2 DEF LinkInv, Aligned
<1>3. CASE RangeFatal(p)
  <2>1. \E w \in Ends : CancelAndPersist(w)
    BY <1>3 DEF RangeFatal, Ends
  <2> QED BY <2>1, ErrorLink
<1>4. CASE RangeBusy(p) /\ CancelAndPersist("failed")
  BY <1>4, ErrorLink DEF Ends
<1>5. ASSUME pc = "wait", pc' = "head", req[p] # NoReq, Received(p), RequeueSegment(p) \/ FailSegment(p),
             UNCHANGED <<control, gap, resume>>
      PROVE  LinkInv'
  BY <1>1, <1>2, <1>5, PieceBack, DrainLink DEF Received
<1>6. CASE RangeSmaller(p) \/ RangeRetries(p)
  BY <1>5, <1>6 DEF RangeSmaller, RangeRetries, Result
<1>7. CASE RangeBusy(p) /\ ~CancelAndPersist("failed")
  BY <1>5, <1>7 DEF RangeBusy, Result
<1>8. CASE RangeFallsBack(p)
  <2>1. /\ pc = "wait" /\ pc' = "fallback" /\ Received(p) /\ UNCHANGED <<control, seg, gap, resume>>
    BY <1>8 DEF RangeFallsBack, Result, manager
  <2> QED BY <1>1, <1>2, <2>1, DrainLink DEF Received
<1>9. CASE StaleResult(p)
  BY <1>9, StillLink DEF StaleResult, disk, Ready
<1>10. CASE Stalled(p) \/ SlowOutlier(p)
  <2>1. /\ pc = "wait" /\ pc' = "head" /\ req[p] # NoReq /\ Forget(p)
        /\ RequeueSegment(p) \/ FailSegment(p)
        /\ UNCHANGED <<control, queue, prefix, gap, resume>>
    BY <1>10 DEF Stalled, SlowOutlier, Abort, disk
  <2>2. \A q \in Pieces : Held(q)' = Held(q)
    BY <2>1 DEF Held
  <2>3. \A q \in Pieces : /\ seg'[q].status # "Done" => seg'[q].done <= prefix'[q]
                          /\ req'[q] # NoReq => First(q, req'[q].sent) \subseteq Held(q)
    BY <1>1, <2>1, PieceBack DEF LinkInv, Linked
  <2>4. Linked'
    BY <2>2, <2>3, LinkedKept DEF LinkInv
  <2> QED BY <1>2, <2>1, <2>4, TransferLink
<1>11. CASE RangeOk(p)
  <2>1. CASE SyncFails(Drained) \/ FlushFails(Drained)
    BY <2>1, ErrorLink
  <2>2. CASE ~(SyncFails(Drained) \/ FlushFails(Drained))
    <3>1. /\ pc = "wait" /\ req[p] # NoReq /\ pc' = "head" /\ Received(p) /\ CompleteRange(p, Advanced(p))
          /\ \/ SyncAndSave(Drained, Snapshot(Advanced(p), Extend(queue)))
             \/ \E f : Flushed(f, Snapshot(Advanced(p), Extend(queue)))
          /\ UNCHANGED <<gap, resume>>
      BY <1>11, <2>2 DEF RangeOk, Result, Advanced
    <3>2. Extend(queue) \in Counts
      BY SnapshotExtended
    <3>3. Aligned(control)'
      BY <3>1, <3>2, FlushedAligned
    <3>4. seg' = Advanced(p) /\ Forget(p) /\ queue' = {} /\ prefix' = Extend(queue)
      BY <3>1 DEF CompleteRange, Received
    <3>5. req[p].sent = req[p].to
      <4>1. req[p].outcome = "ok"
        BY <1>11 DEF RangeOk
      <4> QED BY <3>1, <4>1 DEF TypeInv, NetTypes, Ranged
    <3>6. /\ seg'[p].done = req[p].to /\ \A q \in Pieces \ {p} : seg'[q] = seg[q]
      BY <3>1, <3>4, AdvancedFacts
    <3>7. \A q \in Pieces :
              \/ seg'[q].status = "Done"
              \/ seg[q].status # "Done" /\ seg'[q].done = seg[q].done
              \/ req[q] # NoReq /\ seg'[q].done = req[q].sent
      BY <3>1, <3>5, <3>6
    <3> QED BY <1>1, <3>1, <3>3, <3>4, <3>7, DrainLink
  <2> QED BY <2>1, <2>2
<1> QED BY <1>3, <1>4, <1>6, <1>7, <1>8, <1>9, <1>10, <1>11

\* What a control file claims of one piece.
Part(c, p) == IF p \in c.bits THEN Whole(p) ELSE First(p, c.blocks[p])
LEMMA ClaimedParts == ASSUME NEW c PROVE Claimed(c) = UNION {Part(c, p) : p \in Pieces}
  BY DEF Claimed, Part

\* Recording a range adds nothing but units of the range.
LEMMA RecordFacts ==
    ASSUME NEW c \in Ctrl, NEW from \in Nat, NEW to \in Nat
    PROVE  /\ Claimed(c) \subseteq Claimed(RecordRange(c, from, to))
           /\ Claimed(RecordRange(c, from, to)) \subseteq Claimed(c) \cup (from..to)
           /\ RecordRange(c, from, to).length = Cardinality(Claimed(RecordRange(c, from, to)))
           /\ Aligned(c) => Aligned(RecordRange(c, from, to))
<1> DEFINE hit == {p \in Pieces \ c.bits : Whole(p) \cap (from..to) # {} /\ Reaches(c, p, from)}
           full == {p \in hit : p * PieceUnits <= to}
           blocks == [p \in Pieces |->
                        IF p \in full THEN 0
                        ELSE IF p \in hit
                             THEN Greater(c.blocks[p], Blocks(to - (p - 1) * PieceUnits))
                             ELSE c.blocks[p]]
           now == [bits |-> c.bits \cup full, blocks |-> blocks, length |-> 0]
           r == RecordRange(c, from, to)
<1>1. \A p \in Pieces : c.blocks[p] \in 0..PieceUnits
  BY DEF Ctrl
<1>2. ASSUME NEW p \in hit, NEW n \in Nat, Before(p) + n <= to
      PROVE  First(p, n) \subseteq First(p, c.blocks[p]) \cup (from..to)
  <2> SUFFICES ASSUME NEW u \in First(p, n), u \notin from..to PROVE u \in First(p, c.blocks[p])
    OBVIOUS
  <2>1. PICK b \in Nat : b = Before(p)
    BY BeforePiece
  <2>2. u \in Nat /\ b < u /\ u <= b + n /\ u < from
    BY <1>2, <2>1, InFirst
  <2>3. b + 1 < from => c.blocks[p] >= from - (b + 1)
    BY <2>1 DEF Reaches, Before
  <2>4. c.blocks[p] \in Nat
    BY <1>1, Sizes
  <2>5. u <= b + c.blocks[p]
    BY <2>2, <2>3, <2>4
  <2> QED BY <2>1, <2>2, <2>4, <2>5, InFirst
<1>3. ASSUME NEW p \in hit, p \notin full
      PROVE  to - (p - 1) * PieceUnits \in Nat
  <2>1. PICK b \in Nat : b = Before(p)
    BY BeforePiece
  <2>2. PICK u \in Whole(p) : u <= to
    OBVIOUS
  <2>3. b < u /\ u \in Nat
    BY <2>1, <2>2, InFirst, Sizes DEF Whole
  <2>4. to - b \in Nat
    BY <2>1, <2>2, <2>3
  <2> QED BY <2>1, <2>4 DEF Before
<1>4. /\ r.bits = c.bits \cup full /\ r.blocks = blocks /\ r.length = Cardinality(Claimed(now))
      /\ now.bits = c.bits \cup full /\ now.blocks = blocks
  BY DEF RecordRange
<1>5. Claimed(now) = Claimed(r)
  <2> HIDE DEF hit, full, blocks, now, r
  <2>1. \A p \in Pieces : Part(now, p) = Part(r, p)
    BY <1>4 DEF Part
  <2> QED BY <2>1, ClaimedParts
<1>6. ASSUME NEW p \in Pieces
      PROVE  Part(c, p) \subseteq Part(r, p) /\ Part(r, p) \subseteq Part(c, p) \cup (from..to)
  <2>1. CASE p \in c.bits
    BY <1>4, <2>1 DEF Part
  <2>2. CASE p \in full
    <3>1. p \in hit /\ p \in Pieces /\ p \notin c.bits /\ p * PieceUnits <= to
      BY <2>2
    <3>2. Before(p) + PieceUnits <= to
      BY <3>1, BeforePiece
    <3>3. Part(r, p) = Whole(p) /\ Part(c, p) = First(p, c.blocks[p])
      BY <1>4, <2>2, <3>1 DEF Part
    <3>4. Whole(p) \subseteq First(p, c.blocks[p]) \cup (from..to)
      BY <1>2, <3>1, <3>2, Sizes DEF Whole
    <3> QED BY <1>1, <3>3, <3>4, FirstUnits
  <2>3. CASE p \in hit /\ p \notin full
    <3>1. PICK b \in Nat : b = Before(p)
      BY BeforePiece
    <3>2. PICK n \in Nat : n = to - b
      BY <1>3, <2>3, <3>1 DEF Before
    <3>3. PICK m \in 0..n : m = Blocks(n)
      BY <3>2, BlocksFacts
    <3>4. p \notin r.bits /\ p \notin c.bits /\ blocks[p] = Greater(c.blocks[p], Blocks(n))
      BY <1>4, <2>3, <3>1, <3>2 DEF Before
    <3>5. blocks[p] \in {c.blocks[p], m} /\ c.blocks[p] <= blocks[p] /\ c.blocks[p] \in Nat
      BY <1>1, <3>3, <3>4, Sizes DEF Greater
    <3>6. b + m <= to
      BY <3>2, <3>3
    <3>7. First(p, m) \subseteq First(p, c.blocks[p]) \cup (from..to)
      BY <1>2, <2>3, <3>1, <3>3, <3>6
    <3>8. First(p, c.blocks[p]) \subseteq First(p, blocks[p])
      <4> SUFFICES ASSUME NEW u \in First(p, c.blocks[p]) PROVE u \in First(p, blocks[p])
        OBVIOUS
      <4>1. PICK k \in Nat, l \in Nat : k = c.blocks[p] /\ l = blocks[p] /\ k <= l
        BY <3>3, <3>5
      <4>2. u \in Nat /\ b < u /\ u <= b + k
        BY <3>1, <4>1, InFirst
      <4>3. u <= b + l
        BY <4>1, <4>2
      <4> QED BY <3>1, <4>1, <4>2, <4>3, InFirst
    <3>9. Part(r, p) = First(p, blocks[p]) /\ Part(c, p) = First(p, c.blocks[p])
      BY <1>4, <3>4 DEF Part
    <3> QED BY <3>5, <3>7, <3>8, <3>9
  <2>4. CASE p \notin c.bits /\ p \notin hit
    <3>1. p \notin full /\ blocks[p] = c.blocks[p]
      BY <2>4
    <3> QED BY <1>4, <2>4, <3>1 DEF Part
  <2> QED BY <2>1, <2>2, <2>3, <2>4
<1>7. ASSUME Aligned(c), r # NoControl PROVE Aligned(r)
  <2> SUFFICES ASSUME NEW p \in Pieces PROVE Blocks(blocks[p]) = blocks[p]
    BY <1>4 DEF Aligned
  <2>1. Blocks(c.blocks[p]) = c.blocks[p] /\ Blocks(0) = 0
    BY <1>7, NoControlAssumption, BlocksFacts DEF Aligned
  <2>2. CASE p \in hit /\ p \notin full
    <3>1. PICK n \in Nat : n = to - (p - 1) * PieceUnits
      BY <1>3, <2>2
    <3>2. Blocks(Blocks(n)) = Blocks(n)
      BY <3>1, BlocksFacts
    <3>3. blocks[p] = Greater(c.blocks[p], Blocks(n))
      BY <2>2, <3>1
    <3> QED BY <2>1, <3>2, <3>3 DEF Greater
  <2>3. CASE ~(p \in hit /\ p \notin full)
    <3>1. blocks[p] \in {0, c.blocks[p]}
      BY <2>3
    <3> QED BY <2>1, <3>1
  <2> QED BY <2>2, <2>3
<1> HIDE DEF hit, full, blocks, now
<1>8. Claimed(c) \subseteq Claimed(r) /\ Claimed(r) \subseteq Claimed(c) \cup (from..to)
  BY <1>6, ClaimedParts
<1> QED BY <1>4, <1>5, <1>7, <1>8 DEF Aligned

\* The gap phase: what stays, what is recorded.
LEMMA GapStays ==
    ASSUME LinkInv, pc = "gap", pc' = "gap", UNCHANGED <<manager, net, prefix, resume>>,
           gap'.ctrl = NoControl <=> control' = NoControl,
           gap'.got > 0 => Missing' # {} /\ gap'.got <= Cardinality(Gap'),
           Aligned(control)', Aligned(gap.ctrl)'
    PROVE  LinkInv'
<1>1. Linked'
  BY DEF LinkInv, Linked, Held, manager, net
<1>2. resume' = NoResume /\ resume'.control = NoControl
  BY DEF LinkInv, Blank, Ready, NoResume
<1>3. Blank'
  BY <1>2 DEF LinkInv, Blank, manager, net, Handled, Ready
<1> QED BY <1>1, <1>3 DEF LinkInv

LEMMA RecordedLink ==
    ASSUME TypeInv, LinkInv, Missing # {}, gap.ctrl # NoControl
    PROVE  GapRecorded # NoControl /\ Aligned(GapRecorded)
<1>1. gap.ctrl \in Ctrl /\ gap.got \in Nat
  BY Sizes DEF TypeInv, GapTypes, MaybeCtrl
<1>2. RunStart \in Nat /\ GapEnd \in Nat
  BY <1>1, RunFacts DEF GapEnd
<1>3. GapRecorded = RecordRange(gap.ctrl, RunStart, GapEnd)
  BY DEF GapRecorded
<1>4. GapRecorded \in Ctrl
  BY <1>1, <1>2, <1>3, RecordType
<1>5. Aligned(RecordRange(gap.ctrl, RunStart, GapEnd))
  BY <1>1, <1>2, RecordFacts DEF LinkInv
<1> QED BY <1>3, <1>4, <1>5, NoControlAssumption DEF Aligned

LEMMA CleanupLink ==
    ASSUME TypeInv, LinkInv, pc = "gap", Missing # {}, Cleanup
    PROVE  Aligned(control)' /\ control' \in {control, GapRecorded}
<1>1. CASE UNCHANGED control
  BY <1>1 DEF LinkInv, Aligned
<1>2. CASE gap.ctrl # NoControl /\ control' \in {control, GapRecorded}
  BY <1>2, RecordedLink DEF LinkInv, Aligned
<1> QED BY <1>1, <1>2 DEF Cleanup, disk

LEMMA GapLink == ASSUME TypeInv, LinkInv, Fallback \/ Gaps PROVE LinkInv'
<1> USE DEF Ends
<1>1. CASE (\E f : SyncFails(f)) \/ \E w \in Ends : Leave(w) /\ Aligned(control)'
  BY <1>1, ErrorLink, LeaveLink
<1>2. CASE Fallback
  <2>1. CASE SyncFails(Drained)
    BY <1>1, <2>1
  <2>2. CASE /\ SyncAndSave(Drained, Snapshot(seg, Extend(queue)))
             /\ pc' = "gap" /\ ClearTransfer
             /\ gap' = [have |-> Have, got |-> 0, any |-> FALSE, tries |-> 1, ctrl |-> control']
             /\ UNCHANGED resume
    <3>1. Extend(queue) \in Counts
      BY SnapshotExtended
    <3>2. Aligned(control)' /\ Linked'
      BY <2>2, <3>1, FlushedAligned, NothingHeld DEF ClearTransfer
    <3>3. resume = NoResume
      BY <1>2 DEF Fallback, LinkInv, Blank, Ready
    <3>4. gap'.got = 0 /\ gap'.ctrl = control' /\ resume'.control = NoControl
      BY <2>2, <3>3 DEF NoResume
    <3>5. Blank'
      BY <2>2, <3>3, <3>4 DEF Blank, ClearTransfer, Handled, Ready
    <3> QED BY <3>2, <3>4, <3>5 DEF LinkInv, Aligned
  <2> QED BY <1>2, <2>1, <2>2 DEF Fallback
<1> SUFFICES ASSUME Gaps PROVE LinkInv'
  BY <1>2
<1>3. /\ pc = "gap" /\ Aligned(control) /\ Aligned(gap.ctrl)
      /\ (gap.ctrl = NoControl <=> control = NoControl)
      /\ gap.got \in 0..Total
  BY DEF Gaps, GapRead, GapFilled, GapHalted, GapFails, GapsFilled, NothingMissing,
         LinkInv, Blank, TypeInv, GapTypes
<1>4. CASE GapRead
  <2>1. /\ UNCHANGED <<control, pc, manager, net, prefix, resume>> /\ Missing # {}
        /\ gap.got < Cardinality(Gap) /\ gap' = [gap EXCEPT !.got = gap.got + 1]
    BY <1>4 DEF GapRead
  <2>2. gap'.have = gap.have /\ gap'.ctrl = gap.ctrl /\ gap'.got = gap.got + 1
    BY <2>1 DEF TypeInv, GapTypes
  <2>3. Missing' = Missing /\ Gap' = Gap
    BY <2>2 DEF Missing, Gap
  <2>4. Cardinality(Gap) \in Nat /\ gap.got \in Nat
    BY <1>3, <2>1, GapFacts, Sizes
  <2>5. gap'.got <= Cardinality(Gap)
    BY <2>1, <2>2, <2>4
  <2> QED BY <1>3, <2>1, <2>2, <2>3, <2>5, GapStays DEF Aligned
<1>5. CASE GapFilled
  <2>1. CASE SyncFails(file)
    BY <1>1, <2>1
  <2>2. CASE ~SyncFails(file)
    <3>1. /\ gap' = [gap EXCEPT !.have = gap.have \cup Gap, !.got = 0, !.any = TRUE, !.ctrl = GapRecorded]
          /\ \/ control' = IF gap.ctrl = NoControl THEN control ELSE GapRecorded
             \/ gap.ctrl # NoControl /\ UNCHANGED control
          /\ UNCHANGED <<pc, manager, net, prefix, resume>> /\ Missing # {}
      BY <1>5, <2>2 DEF GapFilled
    <3>2. gap'.ctrl = GapRecorded /\ gap'.got = 0
      BY <3>1 DEF TypeInv, GapTypes
    <3>3. CASE gap.ctrl = NoControl
      <4>1. GapRecorded = NoControl /\ control = NoControl /\ control' = NoControl
        BY <1>3, <3>1, <3>3 DEF GapRecorded
      <4> QED BY <1>3, <3>1, <3>2, <4>1, GapStays DEF Aligned
    <3>4. CASE gap.ctrl # NoControl
      <4>1. GapRecorded # NoControl /\ Aligned(GapRecorded) /\ control # NoControl
        BY <1>3, <3>1, <3>4, RecordedLink
      <4>2. control' \in {control, GapRecorded}
        BY <3>1
      <4> QED BY <1>3, <3>1, <3>2, <4>1, <4>2, GapStays DEF Aligned
    <3> QED BY <3>3, <3>4
  <2> QED BY <2>1, <2>2
<1>6. CASE GapHalted
  BY <1>1, <1>6, CleanupLink DEF GapHalted
<1>7. CASE GapFails
  <2>1. Aligned(control)' /\ control' \in {control, GapRecorded} /\ Missing # {}
    BY <1>7, CleanupLink DEF GapFails
  <2>2. CASE \E w \in Ends : Leave(w)
    BY <1>1, <2>1, <2>2
  <2>3. CASE ~\E w \in Ends : Leave(w)
    <3>1. /\ gap' = [gap EXCEPT !.got = 0, !.any = FALSE, !.tries = gap.tries + 1, !.ctrl = control']
          /\ UNCHANGED <<pc, manager, net, prefix, resume>>
      BY <1>7, <2>3 DEF GapFails
    <3>2. gap'.ctrl = control' /\ gap'.got = 0
      BY <3>1 DEF TypeInv, GapTypes
    <3> QED BY <1>3, <2>1, <3>1, <3>2, GapStays DEF Aligned
  <2> QED BY <2>2, <2>3
<1>8. CASE GapsFilled
  <2>1. CASE SyncFails(file)
    BY <1>1, <2>1
  <2>2. CASE control' = NoControl /\ Leave("done")
    BY <1>1, <2>2 DEF Aligned
  <2> QED BY <1>8, <2>1, <2>2 DEF GapsFilled
<1>9. CASE NothingMissing
  <2>1. UNCHANGED control /\ Leave("done")
    BY <1>9 DEF NothingMissing, disk
  <2> QED BY <1>1, <1>3, <2>1 DEF Aligned
<1> QED BY <1>4, <1>5, <1>6, <1>7, <1>8, <1>9 DEF Gaps

LEMMA LinkInit == Init => LinkInv
<1> SUFFICES ASSUME Init PROVE LinkInv
  OBVIOUS
<1>1. 1..0 = {}
  OBVIOUS
<1>2. \A p \in Pieces : First(p, 0) = {}
  BY <1>1 DEF First
<1>3. Linked
  BY <1>2, Sizes DEF Init, Linked, Held, FreshSeg, Zero
<1>4. Blank
  BY DEF Init, Blank, Handled, Ready, NoGap, NoResume
<1> QED BY <1>3, <1>4 DEF LinkInv, Aligned, Init, NoGap

LEMMA LinkStep == ASSUME TypeInv, AccountInv, LinkInv, [Next]_vars PROVE LinkInv'
<1>1. CASE UNCHANGED vars
  BY <1>1 DEF LinkInv, Linked, Held, Blank, Aligned, Missing, Gap, vars, disk, attempt, manager, net
<1>2. CASE Command
  <2>1. CASE DetectComplete \/ DetectPartial \/ Allocate \/ FreshTruncate \/ GiveUp
    BY <2>1, OutsideLink
  <2>2. CASE Prepare
    BY <2>2, PrepareLink
  <2>3. CASE HeadHalted \/ HeadGoes \/ CooledDown \/ CooldownHalted
    BY <2>3, IdleLink
  <2>4. CASE Admission
    BY <2>4, IdleLink, AdmitLink DEF Admission
  <2>5. CASE Select
    BY <2>5, IdleLink, ResultLink DEF Select
  <2>6. CASE Fallback \/ Gaps
    BY <2>6, GapLink
  <2> QED BY <1>2, <2>1, <2>2, <2>3, <2>4, <2>5, <2>6 DEF Command
<1>3. CASE Tasks
  BY <1>3, TaskLink
<1>4. CASE Start \/ NextMirror \/ FreshRemove \/ Halt \/ RequestSave \/ Crash
  BY <1>4, OutsideLink
<1> QED BY <1>1, <1>2, <1>3, <1>4 DEF Next

-----------------------------------------------------------------------------
(***************************************************************************)
(* What is written and what is stable.                                     *)
(***************************************************************************)
\* What a control file claims, in any of the three ways it can be read, is in s.
Safe(c, s) ==
    c # NoControl =>
        /\ Claimed(c) \subseteq s
        /\ c.length = Total => Units \subseteq s
        /\ ~Aggregate(c) => 1..c.length \subseteq s
Written(s) ==
    \A p \in Pieces : /\ First(p, prefix[p]) \subseteq s
                      /\ seg[p].status = "Done" => Whole(p) \subseteq s
\* A length alone is never misread: a whole block is credited, which a control
\* file then records, or the credit is a prefix of the file.
Deep(s) ==
    \/ \E p \in Pieces : s[p].status = "Done" \/ s[p].done >= Block
    \/ Credited(s) = 1..Cardinality(Credited(s))
Limits == round.limit >= Block /\ \A p \in Pieces : req[p] # NoReq => req[p].to >= Block
Content ==
    /\ Written(file.seen) /\ Safe(control, file.stable)
    /\ pc = "done" => Units \subseteq file.seen
    /\ gap.have \subseteq file.seen
    /\ gap.got > 0 => Min(Gap)..GapEnd \subseteq file.seen
    /\ Safe(gap.ctrl, file.stable) /\ (gap.ctrl # NoControl => gap.have \subseteq file.stable)
DiskInv == file.stable \subseteq file.seen /\ Limits /\ Deep(seg) /\ (~guessed => Content)

-----------------------------------------------------------------------------
LEMMA SafeGrows ==
    ASSUME NEW c, NEW s, NEW t, s \subseteq t, Safe(c, s) PROVE Safe(c, t)
  BY DEF Safe

\* What is credited is written: the prefix reaches as far.
LEMMA CreditIn ==
    ASSUME NEW s \in Segs, NEW x \in Counts, NEW S,
           \A p \in Pieces : /\ First(p, x[p]) \subseteq S
                             /\ s[p].status = "Done" => Whole(p) \subseteq S
                             /\ s[p].status # "Done" => s[p].done <= x[p]
    PROVE  Credited(s) \subseteq S
<1>1. ASSUME NEW p \in Pieces PROVE First(p, s[p].done) \subseteq S
  <2>1. s[p].done \in 0..PieceUnits /\ x[p] \in 0..PieceUnits
    BY DEF Segs, Counts
  <2>2. First(p, s[p].done) \subseteq Whole(p)
    BY <2>1, FirstUnits
  <2>3. CASE s[p].status # "Done"
    <3>1. s[p].done \in 0..x[p]
      BY <2>1, <2>3, Sizes
    <3> QED BY <2>1, <3>1, FirstUnits
  <2> QED BY <2>2, <2>3
<1> QED BY <1>1 DEF Credited

LEMMA SnapshotSafe ==
    ASSUME NEW s \in Segs, NEW x \in Counts, NEW S, Deep(s),
           \A p \in Pieces : /\ First(p, x[p]) \subseteq S
                             /\ s[p].status = "Done" => Whole(p) \subseteq S
                             /\ s[p].status # "Done" => s[p].done <= x[p]
    PROVE  Safe(Snapshot(s, x), S)
<1>1. PICK c : c = Snapshot(s, x)
  OBVIOUS
<1>2. /\ c.bits = {p \in Pieces : s[p].status = "Done"} /\ c.length = Cardinality(Credited(s))
      /\ \A p \in Pieces : p \notin c.bits => c.blocks[p] = Blocks(x[p])
  BY <1>1 DEF Snapshot
<1>3. Credited(s) \subseteq S
  BY CreditIn
<1>4. ASSUME NEW p \in Pieces PROVE Part(c, p) \subseteq S
  <2>1. CASE p \in c.bits
    BY <1>2, <2>1 DEF Part
  <2>2. CASE p \notin c.bits
    <3>1. x[p] \in 0..PieceUnits
      BY DEF Counts
    <3>2. Blocks(x[p]) \in 0..x[p]
      BY <3>1, BlocksFacts, Sizes
    <3> QED BY <1>2, <2>2, <3>1, <3>2, FirstUnits DEF Part
  <2> QED BY <2>1, <2>2
<1>5. c.length = Total => Units \subseteq S
  BY <1>2, <1>3, CreditedUnits, UnitsCount
<1>6. ASSUME ~Aggregate(c) PROVE 1..c.length \subseteq S
  <2>1. ASSUME NEW p \in Pieces, s[p].status = "Done" \/ s[p].done >= Block PROVE FALSE
    <3>1. s[p].status # "Done" /\ c.blocks[p] = Blocks(x[p]) /\ ~(c.blocks[p] > 0)
      BY <1>2, <1>6, <2>1 DEF Aggregate
    <3>2. s[p].done <= x[p] /\ s[p].done >= Block /\ x[p] \in Nat /\ s[p].done \in Nat /\ Block \in Nat
      BY <2>1, <3>1, ConcurrentAssumption, Sizes DEF Segs, Counts
    <3>3. x[p] >= Block /\ Block > 0
      BY <3>2, ConcurrentAssumption
    <3>4. Blocks(x[p]) >= Block /\ Blocks(x[p]) \in Nat
      BY <3>2, <3>3, BlocksFacts
    <3> QED BY <3>1, <3>2, <3>3, <3>4
  <2>2. Credited(s) = 1..c.length
    BY <1>2, <2>1 DEF Deep
  <2> QED BY <1>3, <2>2
<1>7. Claimed(c) \subseteq S
  BY <1>4, ClaimedParts
<1> QED BY <1>1, <1>5, <1>6, <1>7 DEF Safe

\* What the queue holds is written before a checkpoint.
LEMMA DrainedFacts ==
    ASSUME TypeInv
    PROVE  Drained.seen = file.seen \cup queue /\ Drained.stable = file.stable /\ Drained \in FileType
  BY HoldingFacts DEF Drained, TypeInv, DiskTypes, NetTypes

LEMMA DrainedSafe ==
    ASSUME TypeInv, LinkInv, Deep(seg), Written(file.seen)
    PROVE  /\ \A p \in Pieces : First(p, Extend(queue)[p]) \subseteq Drained.seen
           /\ Safe(Snapshot(seg, Extend(queue)), Drained.seen)
<1>1. Extend(queue) \in Counts /\ seg \in Segs /\ prefix \in Counts
  BY SnapshotExtended DEF TypeInv, SegTypes, NetTypes
<1>2. ASSUME NEW p \in Pieces
      PROVE  /\ First(p, Extend(queue)[p]) \subseteq Drained.seen
             /\ seg[p].status = "Done" => Whole(p) \subseteq Drained.seen
             /\ seg[p].status # "Done" => seg[p].done <= Extend(queue)[p]
  <2>1. First(p, Extend(queue)[p]) \subseteq Drained.seen
    BY ExtendHolds, DrainedFacts DEF LinkInv, Held, Written
  <2>2. seg[p].status = "Done" => Whole(p) \subseteq Drained.seen
    BY DrainedFacts DEF Written
  <2>3. seg[p].status # "Done" => seg[p].done <= prefix[p]
    BY DEF LinkInv, Linked
  <2>4. prefix[p] <= Extend(queue)[p] /\ prefix[p] \in Nat /\ Extend(queue)[p] \in Nat /\ seg[p].done \in Nat
    BY <1>1, ExtendHolds, Sizes DEF LinkInv, Counts, Segs
  <2> QED BY <2>1, <2>2, <2>3, <2>4
<1> QED BY <1>1, <1>2, SnapshotSafe

\* Nothing is credited to fresh pieces.
LEMMA NothingCredited == Deep(FreshSeg(Zero)) /\ FreshRound.limit >= Block
<1>1. 1..0 = {}
  OBVIOUS
<1>2. \A p \in Pieces : First(p, FreshSeg(Zero)[p].done) = {}
  BY <1>1 DEF FreshSeg, Zero, First
<1>3. Credited(FreshSeg(Zero)) = {}
  BY <1>2 DEF Credited
<1>4. Cardinality({}) = 0
  BY FS_EmptySet
<1> QED BY <1>1, <1>3, <1>4, ConcurrentAssumption DEF Deep, FreshRound

LEMMA NothingWritten ==
    ASSUME NEW s, seg = FreshSeg(Zero), prefix = Zero PROVE Written(s)
<1>1. 1..0 = {}
  OBVIOUS
<1>2. \A p \in Pieces : First(p, prefix[p]) = {}
  BY <1>1 DEF Zero, First
<1>3. \A p \in Pieces : seg[p].status # "Done"
  BY Sizes DEF FreshSeg, Zero
<1> QED BY <1>2, <1>3 DEF Written

\* The attempt is over.
LEMMA LeaveDisk ==
    ASSUME NEW w \in Ends, Leave(w), file'.stable \subseteq file'.seen,
           ~guessed' => Safe(control', file'.stable) /\ (w = "done" => Units \subseteq file'.seen)
    PROVE  DiskInv'
<1>1. /\ seg' = FreshSeg(Zero) /\ prefix' = Zero /\ round' = FreshRound /\ gap' = NoGap
      /\ pc' = w /\ \A p \in Pieces : req'[p] = NoReq
  BY DEF Leave, ClearTransfer
<1>2. Limits' /\ Deep(seg)'
  BY <1>1, NothingCredited DEF Limits
<1>3. Written(file.seen)'
  <2>1. 1..0 = {} /\ \A p \in Pieces : seg'[p].status # "Done"
    BY <1>1, Sizes DEF FreshSeg, Zero
  <2>2. \A p \in Pieces : First(p, prefix'[p]) = {}
    BY <1>1, <2>1 DEF Zero, First
  <2> QED BY <2>1, <2>2 DEF Written
<1>4. gap'.have = {} /\ ~(gap'.got > 0) /\ gap'.ctrl = NoControl
  BY <1>1 DEF NoGap
<1>5. ~guessed' => Content'
  BY <1>1, <1>3, <1>4 DEF Content, Safe
<1> QED BY <1>2, <1>5 DEF DiskInv

\* Losing what was not synced.
LEMMA LossDisk ==
    ASSUME NEW w \in Ends, w # "done", Leave(w), DiskInv, NEW f, f.stable = file.stable,
           \E kept \in SUBSET (f.seen \ f.stable) : file' = [f EXCEPT !.seen = f.stable \cup kept],
           f \in FileType, UNCHANGED <<control, guessed>>
    PROVE  DiskInv'
<1>1. file'.stable = file.stable /\ file'.stable \subseteq file'.seen
  BY DEF FileType
<1>2. ~guessed => Safe(control, file.stable)
  BY DEF DiskInv, Content
<1> QED BY <1>1, <1>2, LeaveDisk

LEMMA ErrorDisk ==
    ASSUME TypeInv, LinkInv, DiskInv, UNCHANGED guessed,
           \/ \E f \in FileType : f.stable = file.stable /\ file.seen \subseteq f.seen
                                  /\ (SyncFails(f) \/ FlushFails(f))
           \/ \E w \in Ends : w # "done" /\ CancelAndPersist(w)
    PROVE  DiskInv'
<1>1. ~guessed => Safe(control, file.stable) /\ Written(file.seen)
  BY DEF DiskInv, Content
<1>2. ASSUME NEW f \in FileType, f.stable = file.stable, SyncFails(f) PROVE DiskInv'
  BY <1>2, LossDisk DEF SyncFails, Ends
<1>3. ASSUME NEW f \in FileType, f.stable = file.stable, file.seen \subseteq f.seen, FlushFails(f)
      PROVE  DiskInv'
  <2>1. CASE SyncFails(f)
    BY <1>2, <1>3, <2>1
  <2>2. CASE Leave("failed") /\ file' = Synced(f) /\ UNCHANGED control
    <3>1. file'.stable = f.seen /\ file'.seen = f.seen /\ file.stable \subseteq file'.stable
      BY <1>3, <2>2 DEF Synced, FileType, DiskInv
    <3>2. ~guessed' => Safe(control', file'.stable)
      BY <1>1, <2>2, <3>1, SafeGrows
    <3> QED BY <2>2, <3>1, <3>2, LeaveDisk DEF Ends
  <2> QED BY <1>3, <2>1, <2>2 DEF FlushFails
<1>4. ASSUME NEW w \in Ends, w # "done", CancelAndPersist(w) PROVE DiskInv'
  <2>1. CASE SyncFails(Drained)
    BY <1>2, <2>1, DrainedFacts
  <2>2. CASE SyncAndSave(Drained, Snapshot(seg, Extend(queue))) /\ Leave(w)
    <3>1. /\ file'.stable = Drained.seen /\ file'.seen = Drained.seen
          /\ file.stable \subseteq file'.stable
      BY <2>2, DrainedFacts DEF SyncAndSave, Synced, FileType, DiskInv
    <3>2. control' \in {control, Snapshot(seg, Extend(queue))}
      BY <2>2 DEF SyncAndSave
    <3>3. ~guessed' => Safe(control', file'.stable)
      BY <1>1, <3>1, <3>2, SafeGrows, DrainedSafe DEF DiskInv
    <3> QED BY <1>4, <2>2, <3>1, <3>3, LeaveDisk
  <2> QED BY <1>4, <2>1, <2>2 DEF CancelAndPersist
<1> QED BY <1>2, <1>3, <1>4

\* A step of the transfer.
LEMMA TransferDisk ==
    ASSUME LinkInv', pc' \in Handled \cup {"fallback"}, Limits', Deep(seg'),
           file'.stable \subseteq file'.seen,
           ~guessed' => Written(file.seen)' /\ Safe(control', file'.stable)
    PROVE  DiskInv'
<1>1. gap' = NoGap
  BY DEF LinkInv, Blank, Handled
<1>2. gap'.have = {} /\ ~(gap'.got > 0) /\ gap'.ctrl = NoControl
  BY <1>1 DEF NoGap
<1>3. ~guessed' => Content'
  BY <1>2 DEF Content, Safe, Handled
<1> QED BY <1>3 DEF DiskInv
\* One that leaves the disk alone.
LEMMA StillDisk ==
    ASSUME DiskInv, LinkInv', pc' \in Handled \cup {"fallback"}, Limits', UNCHANGED <<disk, prefix, guessed>>,
           \A p \in Pieces : /\ seg'[p].done = seg[p].done
                             /\ seg'[p].status = "Done" <=> seg[p].status = "Done"
    PROVE  DiskInv'
<1>1. Credited(seg') = Credited(seg)
  BY DEF Credited
<1>2. Deep(seg')
  BY <1>1 DEF DiskInv, Deep
<1>3. ~guessed' => Written(file.seen)' /\ Safe(control', file'.stable)
  BY DEF DiskInv, Content, Written, disk
<1>4. file'.stable \subseteq file'.seen
  BY DEF DiskInv, disk
<1> QED BY <1>2, <1>3, <1>4, TransferDisk

\* Outside of the transfer the content stays, and a claim may be dropped.
LEMMA PlainDisk ==
    ASSUME DiskInv, UNCHANGED <<seg, req, prefix, round, gap, guessed>>,
           file'.seen = file.seen, file'.stable = file.stable,
           control' \in {control, NoControl}, pc' = "done" => pc = "done"
    PROVE  DiskInv'
<1>1. Limits' /\ Deep(seg)'
  BY DEF DiskInv, Limits
<1>2. Content => Content'
  BY DEF Content, Written, Safe, Gap, Missing, GapEnd
<1> QED BY <1>1, <1>2 DEF DiskInv

LEMMA OutsideDisk ==
    ASSUME TypeInv, LinkInv, DiskInv,
           \/ Start \/ NextMirror \/ FreshRemove \/ DetectComplete \/ DetectPartial \/ Allocate
           \/ FreshTruncate \/ GiveUp \/ Halt \/ RequestSave \/ Crash
    PROVE  DiskInv'
<1>1. file \in FileType
  BY DEF TypeInv, DiskTypes
<1>2. CASE Start \/ NextMirror \/ GiveUp \/ Halt \/ RequestSave
  BY <1>2, PlainDisk DEF Start, NextMirror, GiveUp, Halt, RequestSave, attempt, manager, net, disk, world
<1>3. CASE FreshRemove
  BY <1>3, PlainDisk DEF FreshRemove, attempt, manager, net
<1>4. CASE DetectPartial
  BY <1>4, PlainDisk DEF DetectPartial, Known, manager, net, world
<1>5. CASE DetectComplete
  <2>1. Leave("done") /\ UNCHANGED <<file, control>> /\ Complete(Known)
        /\ (~guessed' => ~guessed /\ ~(Known = NoControl /\ ~(Units \subseteq file.seen)))
    BY <1>5 DEF DetectComplete, disk
  <2>2. ASSUME ~guessed' PROVE Safe(control, file.stable) /\ Units \subseteq file.seen
    <3>1. Safe(control, file.stable) /\ file.stable \subseteq file.seen
      BY <2>1, <2>2 DEF DiskInv, Content
    <3>2. CASE Known # NoControl
      <4>1. Known = control /\ control \in Ctrl /\ control.length >= Total
        BY <2>1, <3>2 DEF Known, Complete, TypeInv, DiskTypes, MaybeCtrl
      <4>2. control.length \in 0..Total
        BY <4>1 DEF Ctrl
      <4>3. control.length = Total
        BY <4>1, <4>2, Sizes
      <4> QED BY <3>1, <3>2, <4>1, <4>3 DEF Safe
    <3> QED BY <2>1, <2>2, <3>1, <3>2
  <2>3. file.stable \subseteq file.seen
    BY DEF DiskInv
  <2> QED BY <2>1, <2>2, <2>3, LeaveDisk DEF Ends
<1>6. CASE Allocate
  <2>1. CASE Leave("failed")
    <3>1. UNCHANGED <<file, control, guessed>> /\ file.stable \subseteq file.seen
      BY <1>6, <2>1 DEF Allocate, Leave, world, DiskInv
    <3>2. ~guessed' => Safe(control', file'.stable)
      BY <3>1 DEF DiskInv, Content
    <3> QED BY <2>1, <3>1, <3>2, LeaveDisk DEF Ends
  <2>2. CASE ~Leave("failed")
    <3>1. /\ pc = "allocate" /\ pc' = "prepare" /\ UNCHANGED <<attempt, control, guessed>>
          /\ file' \in {file, [file EXCEPT !.size = Total]}
      BY <1>6, <2>2 DEF Allocate, world
    <3>2. file'.seen = file.seen /\ file'.stable = file.stable
      BY <1>1, <3>1 DEF FileType
    <3> QED BY <3>1, <3>2, PlainDisk DEF attempt, manager, net
  <2> QED BY <2>1, <2>2
<1>7. CASE FreshTruncate
  <2>1. /\ pc' = "detect" /\ file'.seen = {} /\ file'.stable = {} /\ control' = NoControl
        /\ gap' = NoGap /\ UNCHANGED <<seg, req, prefix, round>>
        /\ seg = FreshSeg(Zero) /\ prefix = Zero
    BY <1>7 DEF FreshTruncate, LinkInv, Blank, Handled, attempt, manager, net
  <2>2. Limits' /\ Deep(seg)'
    BY <2>1 DEF DiskInv, Limits
  <2>3. Written(file.seen)'
    <3>1. 1..0 = {} /\ \A p \in Pieces : seg'[p].status # "Done"
      BY <2>1, Sizes DEF FreshSeg, Zero
    <3>2. \A p \in Pieces : First(p, prefix'[p]) = {}
      BY <2>1, <3>1 DEF Zero, First
    <3> QED BY <3>1, <3>2 DEF Written
  <2>4. gap'.have = {} /\ ~(gap'.got > 0) /\ gap'.ctrl = NoControl
    BY <2>1 DEF NoGap
  <2>5. Content'
    BY <2>1, <2>3, <2>4 DEF Content, Safe
  <2> QED BY <2>1, <2>2, <2>5 DEF DiskInv
<1>8. CASE Crash
  BY <1>1, <1>8, LossDisk DEF Crash, SomeLost, world, Ends
<1> QED BY <1>2, <1>3, <1>4, <1>5, <1>6, <1>7, <1>8

\* The pieces that cover the first n units.
LEMMA PrefixFacts ==
    ASSUME NEW n \in 0..Total
    PROVE  /\ \A p \in Pieces : First(p, PrefixOf(n)[p]) \subseteq 1..n
           /\ UNION {First(p, PrefixOf(n)[p]) : p \in Pieces} = 1..n
<1> DEFINE x == PrefixOf(n)
<1>1. ASSUME NEW p \in Pieces, NEW u \in Whole(p)
      PROVE  u \in First(p, x[p]) <=> u <= n
  <2>1. PICK b \in Nat : b = Before(p)
    BY BeforePiece
  <2>2. x[p] = IF n <= b THEN 0 ELSE Lesser(n - b, PieceUnits)
    BY <2>1 DEF PrefixOf, Before
  <2>3. u \in Nat /\ b < u /\ u <= b + PieceUnits /\ n \in Nat
    BY <2>1, InFirst, Sizes DEF Whole
  <2>4. PICK k \in Nat : k = x[p]
    BY <2>2, <2>3, Sizes DEF Lesser
  <2>5. u \in First(p, k) <=> u <= b + k
    BY <2>1, <2>3, <2>4, InFirst
  <2>6. u <= b + k <=> u <= n
    BY <2>2, <2>3, <2>4, Sizes DEF Lesser
  <2> QED BY <2>4, <2>5, <2>6
<1>2. ASSUME NEW p \in Pieces PROVE First(p, x[p]) \subseteq Whole(p)
  <2>1. x[p] \in 0..PieceUnits
    <3>1. PICK b \in Nat : b = Before(p)
      BY BeforePiece
    <3>2. x[p] = IF n <= b THEN 0 ELSE Lesser(n - b, PieceUnits)
      BY <3>1 DEF PrefixOf, Before
    <3> QED BY <3>1, <3>2, Sizes DEF Lesser
  <2> QED BY <2>1, FirstUnits
<1>3. \A p \in Pieces : \A u \in Whole(p) : u \in Nat /\ u >= 1
  BY UnitsOf, Sizes DEF Units, Pieces
<1>4. ASSUME NEW p \in Pieces PROVE First(p, x[p]) \subseteq 1..n
  <2> SUFFICES ASSUME NEW u \in First(p, x[p]) PROVE u \in 1..n
    OBVIOUS
  <2>1. u \in Whole(p)
    BY <1>2
  <2> QED BY <1>1, <1>3, <2>1
<1>5. ASSUME NEW u \in 1..n PROVE \E p \in Pieces : u \in First(p, x[p])
  <2>1. u \in Units /\ u <= n
    BY Sizes DEF Units
  <2>2. PICK p \in Pieces : u \in Whole(p)
    BY <2>1, SomePiece
  <2> QED BY <1>1, <2>1, <2>2
<1> HIDE DEF x
<1> QED BY <1>4, <1>5 DEF x

LEMMA SmallBlocks == ASSUME NEW n \in Nat, n < Block PROVE Blocks(n) = 0
<1>1. Block \in Nat /\ Block > 0
  BY ConcurrentAssumption
<1>2. \A m \in Nat : /\ m \div Block \in Nat
                     /\ (m \div Block) * Block <= m /\ m < (m \div Block + 1) * Block
  BY <1>1, SMT
<1>3. \A i \in Nat : i >= 1 => i * Block >= Block
  BY <1>1, SMT
<1>4. 0 * Block = 0
  BY <1>1, SMT
<1>5. n \div Block = 0
  BY <1>1, <1>2, <1>3
<1> QED BY <1>4, <1>5 DEF Blocks

\* What the scheduler starts from is on stable storage, unless it was guessed,
LEMMA RestoredWritten ==
    ASSUME TypeInv, LinkInv, DiskInv, ~guessed, FromControl \/ 1..resume.length \subseteq file.stable,
           NEW p \in Pieces
    PROVE  /\ First(p, RestoredPrefix[p]) \subseteq file.stable
           /\ Restored[p] = PieceUnits => Whole(p) \subseteq file.stable
<1> DEFINE c == resume.control
<1>1. FromControl => c # NoControl /\ c = control /\ resume.length = control.length /\ c \in Ctrl
  BY DEF FromControl, LinkInv, Blank, TypeInv, ResumeTypes, MaybeCtrl
<1>2. Safe(control, file.stable)
  BY DEF DiskInv, Content
<1>3. Restored[p] \in 0..PieceUnits /\ RestoredPrefix[p] \in 0..PieceUnits
  BY RestoredFacts DEF TypeInv
<1>4. CASE FromControl /\ Aggregate(c)
  <2>1. /\ Restored[p] = IF p \in c.bits THEN PieceUnits ELSE c.blocks[p]
        /\ RestoredPrefix[p] = c.blocks[p]
    BY <1>4 DEF Restored, RestoredPrefix
  <2>2. Part(c, p) \subseteq file.stable
    BY <1>1, <1>2, <1>4, ClaimedParts DEF Safe
  <2>3. First(p, c.blocks[p]) \subseteq Whole(p)
    BY <1>3, <2>1, FirstUnits
  <2> QED BY <2>1, <2>2, <2>3 DEF Part, Whole
<1>5. CASE ~(FromControl /\ Aggregate(c))
  <2>1. Restored[p] = PrefixOf(resume.length)[p] /\ RestoredPrefix[p] = Restored[p]
    BY <1>5 DEF Restored, RestoredPrefix
  <2>2. 1..resume.length \subseteq file.stable
    BY <1>1, <1>2, <1>5 DEF Safe
  <2>3. First(p, Restored[p]) \subseteq 1..resume.length
    BY <2>1, PrefixFacts DEF TypeInv, ResumeTypes
  <2> QED BY <2>1, <2>2, <2>3 DEF Whole
<1> QED BY <1>4, <1>5

\* and its length is not misread.
LEMMA RestoredDeep == ASSUME TypeInv, LinkInv PROVE Deep(FreshSeg(Restored))
<1> DEFINE c == resume.control
           s == FreshSeg(Restored)
<1>1. \A p \in Pieces : s[p].done = Restored[p]
  BY DEF FreshSeg
<1>2. CASE FromControl /\ Aggregate(c)
  <2>1. c \in Ctrl /\ Aligned(c)
    BY <1>2 DEF FromControl, LinkInv, Blank, TypeInv, ResumeTypes, MaybeCtrl
  <2>2. PICK p \in Pieces : p \in c.bits \/ c.blocks[p] > 0
    BY <1>2, <2>1 DEF Aggregate, Ctrl
  <2>3. Restored[p] = IF p \in c.bits THEN PieceUnits ELSE c.blocks[p]
    BY <1>2 DEF Restored
  <2>4. CASE p \in c.bits
    <3>1. s[p].status = "Done"
      BY <2>3, <2>4 DEF FreshSeg
    <3> QED BY <3>1 DEF Deep
  <2>5. CASE p \notin c.bits
    <3>1. PICK n \in Nat : n = c.blocks[p]
      BY <2>1, Sizes DEF Ctrl
    <3>2. Blocks(n) = n /\ n > 0
      BY <2>1, <2>2, <2>5, <3>1, <1>2 DEF Aligned, FromControl
    <3>3. n >= Block
      BY <3>1, <3>2, SmallBlocks, ConcurrentAssumption
    <3>4. s[p].done >= Block
      BY <1>1, <2>3, <2>5, <3>1, <3>3
    <3> QED BY <3>4 DEF Deep
  <2> QED BY <2>4, <2>5
<1>3. CASE ~(FromControl /\ Aggregate(c))
  <2>1. Restored = PrefixOf(resume.length) /\ resume.length \in 0..Total
    BY <1>3 DEF Restored, TypeInv, ResumeTypes
  <2>2. Credited(s) = 1..resume.length
    BY <1>1, <2>1, PrefixFacts DEF Credited
  <2>3. Cardinality(1..resume.length) = resume.length
    BY <2>1, Sizes, FS_Interval
  <2> QED BY <2>2, <2>3 DEF Deep
<1> QED BY <1>2, <1>3

LEMMA PrepareDisk == ASSUME TypeInv, AccountInv, LinkInv, DiskInv, LinkInv', Prepare PROVE DiskInv'
<1> DEFINE new == Snapshot(FreshSeg(Restored), RestoredPrefix)
           s == FreshSeg(Restored)
<1>1. /\ Restored \in Counts /\ RestoredPrefix \in Counts /\ FreshSeg(Restored) \in Segs
      /\ file \in FileType /\ file.stable \subseteq file.seen
  BY RestoredType, FreshSegType DEF TypeInv, DiskTypes, DiskInv
<1>2. file' \in {file, Synced(file)} /\ control' \in {new, control, NoControl}
  BY DEF Prepare, FirstSave
<1>3. file'.seen = file.seen /\ file.stable \subseteq file'.stable /\ file'.stable \subseteq file'.seen
  BY <1>1, <1>2 DEF Synced, FileType
<1>4. ASSUME ~guessed'
      PROVE  Safe(control', file'.stable)
             /\ \A p \in Pieces : /\ First(p, RestoredPrefix[p]) \subseteq file.stable
                                  /\ s[p].status = "Done" => Whole(p) \subseteq file.stable
  <2>1. ~guessed /\ (FromControl \/ 1..resume.length \subseteq file.stable)
    BY <1>4 DEF Prepare
  <2>2. ASSUME NEW p \in Pieces
        PROVE  /\ First(p, RestoredPrefix[p]) \subseteq file.stable
               /\ s[p].status = "Done" => Whole(p) \subseteq file.stable
               /\ s[p].status # "Done" => s[p].done <= RestoredPrefix[p]
    <3>1. s[p].done = Restored[p] /\ (s[p].status = "Done" <=> Restored[p] = PieceUnits)
      BY DEF FreshSeg
    <3>2. Restored[p] # PieceUnits => Restored[p] <= RestoredPrefix[p]
      BY <1>1, RestoredFacts, Sizes DEF TypeInv, Counts
    <3> QED BY <2>1, <3>1, <3>2, RestoredWritten
  <2>3. Safe(new, file.stable)
    <3> HIDE DEF s
    <3>1. s \in Segs /\ Deep(s) /\ new = Snapshot(s, RestoredPrefix)
      BY <1>1, RestoredDeep DEF s
    <3> HIDE DEF new
    <3> QED BY <1>1, <2>2, <3>1, SnapshotSafe
  <2>4. Safe(control, file.stable) /\ Safe(NoControl, file.stable)
    BY <2>1 DEF DiskInv, Content, Safe
  <2> HIDE DEF new, s
  <2> QED BY <1>2, <1>3, <2>2, <2>3, <2>4, SafeGrows
<1> HIDE DEF new
<1>5. CASE Leave("failed")
  BY <1>3, <1>4, <1>5, LeaveDisk DEF Ends
<1>6. CASE /\ pc = "prepare" /\ pc' = "head" /\ seg' = FreshSeg(Restored) /\ prefix' = RestoredPrefix
           /\ UNCHANGED <<net, round, gap>>
  <2>1. Limits'
    BY <1>6 DEF DiskInv, Limits, net
  <2>2. Deep(seg')
    BY <1>6, RestoredDeep
  <2>3. ASSUME ~guessed' PROVE Written(file.seen)'
    BY <1>1, <1>3, <1>4, <1>6, <2>3 DEF Written
  <2> QED BY <1>3, <1>4, <1>6, <2>1, <2>2, <2>3, TransferDisk DEF Handled
<1> QED BY <1>5, <1>6 DEF Prepare, new

LEMMA DeepKept ==
    ASSUME Deep(seg),
           \A p \in Pieces : /\ seg'[p].done = seg[p].done
                             /\ seg'[p].status = "Done" <=> seg[p].status = "Done"
    PROVE  Deep(seg')
<1>1. Credited(seg') = Credited(seg)
  BY DEF Credited
<1> QED BY <1>1 DEF Deep

\* A step that writes f, and perhaps syncs and saves.
LEMMA WriteDisk ==
    ASSUME TypeInv, DiskInv, LinkInv', seg' \in Segs, prefix' \in Counts,
           pc' \in Handled \cup {"fallback"}, Limits', Deep(seg'), UNCHANGED guessed,
           NEW f \in FileType, file.stable \subseteq f.stable, f.stable \subseteq f.seen,
           \/ file' \in {f, Synced(f)} /\ UNCHANGED control
           \/ file' = Synced(f) /\ control' = Snapshot(seg', prefix'),
           ~guessed => \A p \in Pieces : /\ First(p, prefix'[p]) \subseteq f.seen
                                         /\ seg'[p].status = "Done" => Whole(p) \subseteq f.seen
    PROVE  DiskInv'
<1>1. /\ file'.seen = f.seen /\ file'.stable \subseteq file'.seen /\ file.stable \subseteq file'.stable
      /\ file' = Synced(f) => file'.stable = f.seen
  BY DEF Synced, FileType
<1>2. ASSUME ~guessed' PROVE Written(file.seen)'
  BY <1>1, <1>2 DEF Written
<1>3. ASSUME ~guessed' PROVE Safe(control', file'.stable)
  <2>1. Safe(control, file.stable)
    BY <1>3 DEF DiskInv, Content
  <2>2. CASE UNCHANGED control
    BY <1>1, <2>1, <2>2, SafeGrows
  <2>3. CASE file' = Synced(f) /\ control' = Snapshot(seg', prefix')
    <3>1. \A p \in Pieces : seg'[p].status # "Done" => seg'[p].done <= prefix'[p]
      BY DEF LinkInv, Linked
    <3>2. Safe(Snapshot(seg', prefix'), f.seen)
      BY <1>3, <3>1, SnapshotSafe
    <3> QED BY <1>1, <2>3, <3>2
  <2> QED BY <2>2, <2>3
<1> QED BY <1>1, <1>2, <1>3, TransferDisk

LEMMA HeldWritten ==
    ASSUME TypeInv, DiskInv, ~guessed, NEW p \in Pieces PROVE Held(p) \subseteq Drained.seen
  BY DrainedFacts DEF DiskInv, Content, Written, Held

LEMMA TaskDisk == ASSUME TypeInv, LinkInv', DiskInv, Tasks PROVE DiskInv'
<1>1. PICK p \in Pieces : SendChunk(p) \/ TaskOk(p) \/ TaskFails(p)
  BY DEF Tasks
<1>2. /\ UNCHANGED <<disk, pc, seg, prefix, round, guessed>> /\ pc' \in Handled \cup {"fallback"}
      /\ req[p] # NoReq
  BY <1>1 DEF SendChunk, TaskOk, TaskFails, manager, world, Downloading, Handled
<1>3. DOMAIN req = Pieces /\ req[p] \in Entry
  BY <1>2 DEF TypeInv, NetTypes, Ranged
<1>4. \A q \in Pieces : req'[q] # NoReq => req[q] # NoReq /\ req'[q].to = req[q].to
  <2>1. /\ \A q \in Pieces \ {p} : req'[q] = req[q]
        /\ req'[p].to = req[p].to
    <3>1. CASE SendChunk(p)
      <4>1. req' = [req EXCEPT ![p] = [req[p] EXCEPT !.sent = req[p].sent + 1]]
        BY <3>1 DEF SendChunk
      <4> QED BY <1>3, <4>1 DEF Entry
    <3>2. CASE TaskOk(p) \/ TaskFails(p)
      <4>1. PICK o : req' = [req EXCEPT ![p] = [req[p] EXCEPT !.outcome = o]]
        BY <3>2 DEF TaskOk, TaskFails
      <4> QED BY <1>3, <4>1 DEF Entry
    <3> QED BY <1>1, <3>1, <3>2
  <2> QED BY <1>2, <2>1
<1>5. Limits'
  BY <1>2, <1>4 DEF DiskInv, Limits
<1> QED BY <1>2, <1>5, StillDisk

LEMMA IdleDisk ==
    ASSUME TypeInv, LinkInv, DiskInv, LinkInv', TypeInv',
           \/ HeadHalted \/ HeadGoes \/ WriteFails \/ CooledDown \/ CooldownHalted
           \/ EnterWait \/ Finish \/ CoolDown \/ AllRangesFailed \/ Stuck
           \/ Woken \/ \E u \in Units : WriteChunk(u)
    PROVE  DiskInv'
<1> USE DEF Handled, Ends
<1>1. /\ UNCHANGED guessed /\ file \in FileType /\ file.stable \subseteq file.seen
      /\ Drained \in FileType /\ Drained.stable = file.stable /\ Drained.seen = file.seen \cup queue
      /\ seg \in Segs /\ Deep(seg) /\ seg' \in Segs /\ prefix' \in Counts
  BY DrainedFacts DEF HeadHalted, HeadGoes, WriteFails, CooledDown, CooldownHalted, EnterWait,
     Finish, CoolDown, AllRangesFailed, Stuck, Woken, WriteChunk, world,
     TypeInv, DiskTypes, SegTypes, NetTypes, DiskInv
<1>2. CASE HeadHalted \/ AllRangesFailed
  BY <1>1, <1>2, ErrorDisk DEF HeadHalted, AllRangesFailed
<1>3. CASE HeadGoes \/ Stuck \/ CooledDown
  <2>1. /\ UNCHANGED <<disk, seg, req, prefix>> /\ pc' \in Handled \cup {"fallback"}
        /\ \/ round' = round
           \/ round' = [round EXCEPT !.cooldown = FALSE]
    BY <1>3 DEF HeadGoes, Stuck, CooledDown, attempt, manager, net
  <2>2. round'.limit = round.limit
    BY <2>1 DEF TypeInv, RoundTypes
  <2>3. Limits'
    BY <2>1, <2>2 DEF DiskInv, Limits
  <2> QED BY <1>1, <2>1, <2>3, StillDisk
<1>4. CASE WriteFails \/ CooldownHalted
  <2>1. SomeLost /\ UNCHANGED control /\ \E w \in Ends : w # "done" /\ Leave(w)
    BY <1>4 DEF WriteFails, CooldownHalted
  <2> QED BY <1>1, <2>1, LossDisk DEF SomeLost
<1>5. CASE Finish
  <2>1. CASE SyncFails(Drained)
    BY <1>1, <2>1, ErrorDisk
  <2>2. CASE file' = Synced(Drained) /\ control' = NoControl /\ Leave("done")
    <3>1. file'.seen = Drained.seen /\ file'.stable = Drained.seen
      BY <1>1, <2>2 DEF Synced, FileType
    <3>2. ASSUME ~guessed PROVE Units \subseteq file.seen
      <4>1. \A p \in Pieces : seg[p].status = "Done"
        BY <1>5 DEF Finish, AllDone, Having
      <4>2. \A p \in Pieces : Whole(p) \subseteq file.seen
        BY <3>2, <4>1 DEF DiskInv, Content, Written
      <4> QED BY <4>2, UnitsOf
    <3>3. Safe(control', file'.stable)
      BY <2>2 DEF Safe
    <3> QED BY <1>1, <2>2, <3>1, <3>2, <3>3, LeaveDisk
  <2> QED BY <1>5, <2>1, <2>2 DEF Finish
<1>6. ASSUME UNCHANGED <<seg, req, round>> PROVE Limits' /\ Deep(seg')
  BY <1>6 DEF DiskInv, Limits
<1>7. ASSUME UNCHANGED seg, prefix' = Extend(queue), ~guessed, NEW p \in Pieces
      PROVE  /\ First(p, prefix'[p]) \subseteq Drained.seen
             /\ seg'[p].status = "Done" => Whole(p) \subseteq Drained.seen
  BY <1>1, <1>7, DrainedSafe DEF DiskInv, Content, Written
<1>8. CASE CoolDown
  <2>1. /\ file' = Drained /\ prefix' = Extend(queue) /\ pc' = "cooldown"
        /\ UNCHANGED <<control, seg, req, round>>
    BY <1>8 DEF CoolDown, manager
  <2> QED BY <1>1, <1>6, <1>7, <2>1, WriteDisk
<1>9. CASE EnterWait
  <2>1. CASE FlushFails(Drained)
    BY <1>1, <2>1, ErrorDisk
  <2>2. CASE /\ Flushed(Drained, Snapshot(seg, Extend(queue)))
             /\ pc' = "wait" /\ prefix' = Extend(queue) /\ UNCHANGED <<manager, req, round>>
    <3>1. /\ UNCHANGED <<seg, req, round>>
          /\ \/ file' \in {Drained, Synced(Drained)} /\ UNCHANGED control
             \/ file' = Synced(Drained) /\ control' = Snapshot(seg', prefix')
      BY <2>2 DEF Flushed, manager
    <3> QED BY <1>1, <1>6, <1>7, <2>2, <3>1, WriteDisk
  <2> QED BY <1>9, <2>1, <2>2 DEF EnterWait
<1>10. CASE Woken
  <2>1. CASE FlushFails(file)
    BY <1>1, <2>1, ErrorDisk
  <2>2. CASE ~FlushFails(file)
    <3>1. /\ pc' = "head" /\ UNCHANGED <<seg, req, round, prefix>>
          /\ \/ file' \in {file, Synced(file)} /\ UNCHANGED control
             \/ file' = Synced(file) /\ control' = Snapshot(seg', prefix')
      BY <1>10, <2>2 DEF Woken, Flushed, attempt, manager, net, disk
    <3>2. ~guessed => \A p \in Pieces :
            /\ First(p, prefix'[p]) \subseteq file.seen
            /\ seg'[p].status = "Done" => Whole(p) \subseteq file.seen
      BY <3>1 DEF DiskInv, Content, Written
    <3> QED BY <1>1, <1>6, <3>1, <3>2, WriteDisk
  <2> QED BY <2>1, <2>2
<1>11. CASE \E u \in Units : WriteChunk(u)
  <2>1. PICK u \in Units : WriteChunk(u)
    BY <1>11
  <2>2. /\ Holding(file, {u}) \in FileType /\ Holding(file, {u}).stable = file.stable
        /\ Holding(file, {u}).seen = file.seen \cup {u}
    BY <1>1, HoldingFacts
  <2>3. CASE FlushFails(Holding(file, {u}))
    BY <1>1, <2>2, <2>3, ErrorDisk
  <2>4. CASE ~FlushFails(Holding(file, {u}))
    <3>1. PICK f \in FileType : f = Holding(file, {u})
      BY <2>2
    <3>2. /\ pc' = "head" /\ UNCHANGED <<seg, req, round>> /\ prefix' = Extend({u})
          /\ \/ file' \in {f, Synced(f)} /\ UNCHANGED control
             \/ file' = Synced(f) /\ control' = Snapshot(seg', prefix')
      BY <2>1, <2>4, <3>1 DEF WriteChunk, Flushed, manager
    <3>3. /\ u \in queue
          /\ \A v \in queue : v < u => (v - 1) \div PieceUnits # (u - 1) \div PieceUnits
      BY <2>1 DEF WriteChunk
    <3>4. ASSUME ~guessed, NEW p \in Pieces
          PROVE  /\ First(p, prefix'[p]) \subseteq f.seen
                 /\ seg'[p].status = "Done" => Whole(p) \subseteq f.seen
      <4>1. First(p, prefix'[p]) \subseteq First(p, prefix[p]) \cup {u}
        BY <3>2, <3>3, ExtendOne DEF LinkInv
      <4>2. /\ First(p, prefix[p]) \subseteq file.seen
            /\ seg[p].status = "Done" => Whole(p) \subseteq file.seen
        BY <3>4 DEF DiskInv, Content, Written
      <4> QED BY <2>2, <3>1, <3>2, <4>1, <4>2
    <3> QED BY <1>1, <1>6, <2>2, <3>1, <3>2, <3>4, WriteDisk
  <2> QED BY <2>3, <2>4
<1> QED BY <1>2, <1>3, <1>4, <1>5, <1>8, <1>9, <1>10, <1>11

LEMMA AdmitDisk ==
    ASSUME TypeInv, LinkInv', DiskInv, NEW p \in Pieces, AdmitRange(p) \/ DropSettled(p)
    PROVE  DiskInv'
<1> USE DEF Handled
<1>1. CASE DropSettled(p)
  <2>1. UNCHANGED <<disk, seg, req, prefix, round, guessed>> /\ pc' = "admit"
    BY <1>1 DEF DropSettled, manager, net, world
  <2>2. Limits'
    BY <2>1 DEF DiskInv, Limits
  <2> QED BY <2>1, <2>2, StillDisk
<1>2. CASE AdmitRange(p)
  <2>1. /\ pc' = "admit" /\ seg[p].status = "Pending"
        /\ seg' = [seg EXCEPT ![p] = [seg[p] EXCEPT !.status = "Downloading"]]
        /\ req' = [req EXCEPT ![p] =
              [from |-> seg[p].done + 1, sent |-> seg[p].done,
               to |-> Lesser(PieceUnits, seg[p].done + round.limit),
               limit |-> round.limit, outcome |-> "running"]]
        /\ UNCHANGED <<disk, prefix, round, guessed>>
    BY <1>2 DEF AdmitRange, world
  <2>2. /\ seg'[p].done = seg[p].done /\ seg'[p].status = "Downloading"
        /\ \A q \in Pieces \ {p} : seg'[q] = seg[q]
    BY <2>1 DEF TypeInv, SegTypes, Segs
  <2>3. /\ req'[p].to = Lesser(PieceUnits, seg[p].done + round.limit)
        /\ \A q \in Pieces \ {p} : req'[q] = req[q]
    BY <2>1 DEF TypeInv, NetTypes
  <2>4. /\ seg[p].done \in Nat /\ round.limit \in Nat /\ round.limit >= Block
        /\ Block \in Nat /\ PieceUnits >= Block /\ PieceUnits \in Nat
    BY ConcurrentAssumption, Sizes DEF TypeInv, SegTypes, Segs, RoundTypes, DiskInv, Limits
  <2>5. req'[p].to >= Block
    BY <2>3, <2>4 DEF Lesser
  <2>6. Limits'
    BY <2>1, <2>3, <2>5 DEF DiskInv, Limits
  <2>7. \A q \in Pieces : /\ seg'[q].done = seg[q].done
                          /\ seg'[q].status = "Done" <=> seg[q].status = "Done"
    BY <2>1, <2>2
  <2> QED BY <2>1, <2>6, <2>7, StillDisk
<1> QED BY <1>1, <1>2

LEMMA LimitKept ==
    ASSUME DiskInv, TypeInv, Block <= RangeFloor, NEW r,
           r \in {Lowered, round.limit} PROVE r >= Block
<1>1. /\ Block \in Nat /\ RangeFloor \in Nat /\ round.limit \in Nat /\ round.limit >= Block
      /\ round.limit \div 2 \in Nat
  BY ConcurrentAssumption, Sizes DEF DiskInv, Limits, TypeInv, RoundTypes
<1> QED BY <1>1 DEF Lowered, Greater, Lesser

LEMMA ResultDisk ==
    ASSUME TypeInv, AccountInv, LinkInv, DiskInv, LinkInv', TypeInv', Block <= RangeFloor,
           NEW p \in Pieces,
           \/ RangeOk(p) \/ RangeSmaller(p) \/ RangeBusy(p) \/ RangeFallsBack(p)
           \/ RangeRetries(p) \/ RangeFatal(p) \/ StaleResult(p) \/ Stalled(p) \/ SlowOutlier(p)
    PROVE  DiskInv'
<1> USE DEF Handled, Ends
<1>1. /\ UNCHANGED guessed /\ file \in FileType /\ file.stable \subseteq file.seen
      /\ Drained \in FileType /\ Drained.stable = file.stable /\ Drained.seen = file.seen \cup queue
      /\ seg \in Segs /\ Deep(seg) /\ seg' \in Segs /\ prefix' \in Counts /\ pc = "wait"
  BY DrainedFacts DEF RangeOk, RangeSmaller, RangeBusy, RangeFallsBack, RangeRetries, RangeFatal,
     StaleResult, Stalled, SlowOutlier, Abort, Result, world,
     TypeInv, DiskTypes, SegTypes, NetTypes, DiskInv
<1>2. ASSUME Forget(p), round'.limit >= Block PROVE Limits'
  <2>1. \A q \in Pieces : req'[q] \in {NoReq, req[q]}
    BY <1>2 DEF Forget, TypeInv, NetTypes
  <2> QED BY <1>2, <2>1 DEF DiskInv, Limits
<1>3. CASE RangeFatal(p)
  <2>1. \E w \in Ends : w # "done" /\ CancelAndPersist(w)
    BY <1>3 DEF RangeFatal
  <2> QED BY <1>1, <2>1, ErrorDisk
<1>4. CASE RangeBusy(p) /\ CancelAndPersist("failed")
  BY <1>1, <1>4, ErrorDisk
<1>5. ASSUME Received(p), file' = Drained, UNCHANGED control, pc' \in Handled \cup {"fallback"},
             round'.limit >= Block,
             \A q \in Pieces : /\ seg'[q].done = seg[q].done
                               /\ seg'[q].status = "Done" <=> seg[q].status = "Done"
      PROVE  DiskInv'
  <2>1. prefix' = Extend(queue) /\ Limits'
    BY <1>2, <1>5 DEF Received
  <2>2. Deep(seg')
    BY <1>1, <1>5, DeepKept
  <2>3. ~guessed => \A q \in Pieces : /\ First(q, prefix'[q]) \subseteq Drained.seen
                                      /\ seg'[q].status = "Done" => Whole(q) \subseteq Drained.seen
    BY <1>1, <1>5, <2>1, DrainedSafe DEF DiskInv, Content, Written
  <2> QED BY <1>1, <1>5, <2>1, <2>2, <2>3, WriteDisk
<1>6. ASSUME req[p] # NoReq, RequeueSegment(p) \/ FailSegment(p)
      PROVE  \A q \in Pieces : /\ seg'[q].done = seg[q].done
                               /\ seg'[q].status = "Done" <=> seg[q].status = "Done"
  BY <1>1, <1>6, PieceBack
<1>7. round \in [limit : 1..PieceUnits, row416 : Nat, all416 : Nat, cooldown : BOOLEAN,
                 unsaved : 0..(PieceUnits - 1), recovered : SUBSET Pieces]
      /\ round.limit >= Block
  BY DEF TypeInv, RoundTypes, DiskInv, Limits
<1>8. CASE RangeSmaller(p)
  <2>1. round'.limit \in {Lowered, round.limit}
    BY <1>7, <1>8 DEF RangeSmaller
  <2>2. round'.limit >= Block
    BY <2>1, LimitKept
  <2>3. /\ Received(p) /\ file' = Drained /\ UNCHANGED control /\ pc' = "head"
        /\ req[p] # NoReq /\ RequeueSegment(p)
    BY <1>8 DEF RangeSmaller, Result
  <2> QED BY <1>5, <1>6, <2>2, <2>3
<1>9. CASE RangeBusy(p) /\ ~CancelAndPersist("failed")
  <2>1. round'.limit = round.limit
    BY <1>7, <1>9 DEF RangeBusy
  <2>2. /\ Received(p) /\ file' = Drained /\ UNCHANGED control /\ pc' = "head"
        /\ req[p] # NoReq /\ RequeueSegment(p)
    BY <1>9 DEF RangeBusy, Result
  <2> QED BY <1>5, <1>6, <1>7, <2>1, <2>2
<1>10. CASE RangeRetries(p)
  <2>1. round'.limit = round.limit
    BY <1>7, <1>10 DEF RangeRetries, Counted
  <2>2. /\ Received(p) /\ file' = Drained /\ UNCHANGED control /\ pc' = "head"
        /\ req[p] # NoReq /\ FailSegment(p)
    BY <1>10 DEF RangeRetries, Result
  <2> QED BY <1>5, <1>6, <1>7, <2>1, <2>2
<1>11. CASE RangeFallsBack(p)
  <2>1. round'.limit = round.limit
    BY <1>7, <1>11 DEF RangeFallsBack, Counted
  <2>2. /\ Received(p) /\ file' = Drained /\ UNCHANGED <<control, seg>> /\ pc' = "fallback"
    BY <1>11 DEF RangeFallsBack, manager
  <2> QED BY <1>5, <1>7, <2>1, <2>2
<1>12. CASE StaleResult(p)
  <2>1. UNCHANGED <<disk, seg, req, prefix, round>> /\ pc' = "head"
    BY <1>12 DEF StaleResult, manager
  <2>2. Limits'
    BY <2>1 DEF DiskInv, Limits
  <2> QED BY <1>1, <2>1, <2>2, StillDisk
<1>13. CASE Stalled(p) \/ SlowOutlier(p)
  <2>1. /\ pc' = "head" /\ req[p] # NoReq /\ Forget(p)
        /\ RequeueSegment(p) \/ FailSegment(p)
        /\ UNCHANGED <<disk, prefix>>
        /\ \/ round' = round
           \/ round' = [round EXCEPT !.recovered = round.recovered \cup {p}]
    BY <1>13 DEF Stalled, SlowOutlier, Abort
  <2>2. round'.limit = round.limit
    BY <1>7, <2>1
  <2> QED BY <1>1, <1>2, <1>6, <1>7, <2>1, <2>2, StillDisk
<1>14. CASE RangeOk(p)
  <2>1. CASE SyncFails(Drained) \/ FlushFails(Drained)
    BY <1>1, <2>1, ErrorDisk
  <2>2. CASE ~(SyncFails(Drained) \/ FlushFails(Drained))
    <3>1. /\ req[p] # NoReq /\ req[p].outcome = "ok" /\ pc' = "head" /\ Received(p)
          /\ seg' = Advanced(p)
          /\ \/ SyncAndSave(Drained, Snapshot(seg', Extend(queue)))
             \/ \E f \in {Drained, Synced(Drained)} : Flushed(f, Snapshot(seg', Extend(queue)))
          /\ \E n : round' = [round EXCEPT !.unsaved = n]
      BY <1>14, <2>2 DEF RangeOk, Result, Advanced, CompleteRange
    <3>2. round'.limit = round.limit /\ prefix' = Extend(queue)
      BY <1>7, <3>1 DEF Received
    <3>3. Limits'
      BY <1>2, <1>7, <3>1, <3>2 DEF Received
    <3>4. /\ \A q \in Pieces \ {p} : seg'[q] = seg[q]
          /\ seg'[p].done = req[p].to
          /\ seg'[p].status = IF req[p].to = PieceUnits THEN "Done" ELSE "Pending"
      BY <1>1, <3>1, AdvancedFacts
    <3>5. req[p].sent = req[p].to /\ req[p].to >= Block
      BY <3>1 DEF TypeInv, NetTypes, Ranged, DiskInv, Limits
    <3>6. Deep(seg')
      BY <3>4, <3>5 DEF Deep
    <3>7. ASSUME ~guessed, NEW q \in Pieces
          PROVE  /\ First(q, prefix'[q]) \subseteq Drained.seen
                 /\ seg'[q].status = "Done" => Whole(q) \subseteq Drained.seen
      <4>1. First(q, prefix'[q]) \subseteq Drained.seen
        BY <1>1, <3>2, <3>7, DrainedSafe DEF DiskInv, Content
      <4>2. CASE q # p
        <5>1. seg[q].status = "Done" => Whole(q) \subseteq file.seen
          BY <3>7 DEF DiskInv, Content, Written
        <5> QED BY <1>1, <3>4, <4>1, <4>2, <5>1
      <4>3. CASE q = p
        <5>1. First(p, req[p].sent) \subseteq Drained.seen
          BY <3>1, <3>7, HeldWritten DEF LinkInv, Linked
        <5> QED BY <3>4, <3>5, <4>1, <4>3, <5>1 DEF Whole
      <4> QED BY <4>2, <4>3
    <3>8. PICK f \in FileType : /\ f \in {Drained, Synced(Drained)}
                                /\ \/ file' \in {f, Synced(f)} /\ UNCHANGED control
                                   \/ file' = Synced(f) /\ control' = Snapshot(seg', prefix')
      BY <1>1, <3>1, <3>2, SyncedType DEF SyncAndSave, Flushed
    <3>9. file.stable \subseteq f.stable /\ f.stable \subseteq f.seen /\ f.seen = Drained.seen
      BY <1>1, <3>8 DEF Synced, FileType
    <3> QED BY <1>1, <3>1, <3>3, <3>6, <3>7, <3>8, <3>9, WriteDisk
  <2> QED BY <2>1, <2>2
<1> QED BY <1>3, <1>4, <1>8, <1>9, <1>10, <1>11, <1>12, <1>13, <1>14

\* Recording a filled gap claims what is written.
LEMMA RecordedSafe ==
    ASSUME TypeInv, Missing # {}, gap.ctrl # NoControl, NEW S, Safe(gap.ctrl, S), gap.have \subseteq S,
           gap.got > 0 => Min(Gap)..GapEnd \subseteq S
    PROVE  Safe(GapRecorded, S)
<1>1. gap.ctrl \in Ctrl /\ gap.got \in Nat
  BY Sizes DEF TypeInv, GapTypes, MaybeCtrl
<1>2. /\ RunStart \in Nat /\ Min(Gap) \in Nat /\ GapEnd \in Nat /\ GapEnd = Min(Gap) + gap.got - 1
      /\ RunStart..(Min(Gap) - 1) \subseteq gap.have
  BY <1>1, RunFacts DEF GapEnd
<1>3. RunStart..GapEnd \subseteq S
  <2> SUFFICES ASSUME NEW u \in RunStart..GapEnd PROVE u \in S
    OBVIOUS
  <2>1. CASE u < Min(Gap)
    BY <1>2, <2>1
  <2>2. CASE ~(u < Min(Gap))
    <3>1. u \in Min(Gap)..GapEnd /\ gap.got > 0
      BY <1>1, <1>2, <2>2
    <3> QED BY <3>1
  <2> QED BY <2>1, <2>2
<1>4. PICK c \in Ctrl : c = GapRecorded /\ c = RecordRange(gap.ctrl, RunStart, GapEnd)
  BY <1>1, <1>2, RecordType DEF GapRecorded
<1>5. Claimed(c) \subseteq S /\ c.length = Cardinality(Claimed(c)) /\ Claimed(c) \subseteq Units
  BY <1>1, <1>2, <1>3, <1>4, RecordFacts, ClaimedUnits DEF Safe
<1>6. c.length = Total => Units \subseteq S
  BY <1>5, UnitsCount
<1>7. ASSUME ~Aggregate(c) PROVE 1..c.length \subseteq S
  <2>1. 1..0 = {}
    OBVIOUS
  <2>2. ASSUME NEW p \in Pieces PROVE Part(c, p) = {}
    <3>1. p \notin c.bits /\ ~(c.blocks[p] > 0) /\ c.blocks[p] \in Nat
      BY <1>7, <2>2, Sizes DEF Aggregate, Ctrl
    <3>2. c.blocks[p] = 0
      BY <3>1
    <3> QED BY <2>1, <3>1, <3>2 DEF Part, First
  <2>3. Claimed(c) = {}
    BY <2>2, ClaimedParts
  <2>4. c.length = 0
    BY <1>5, <2>3, FS_EmptySet
  <2> QED BY <2>1, <2>4
<1> QED BY <1>4, <1>5, <1>6, <1>7 DEF Safe

\* The gap phase goes on,
LEMMA GapKeeps ==
    ASSUME LinkInv, DiskInv, pc = "gap", pc' = "gap", UNCHANGED <<seg, req, prefix, round, guessed>>,
           file'.stable \subseteq file'.seen,
           ~guessed => /\ Safe(control', file'.stable) /\ Safe(gap'.ctrl, file'.stable)
                       /\ gap'.have \subseteq file'.seen
                       /\ gap'.got > 0 => (Min(Gap)..GapEnd)' \subseteq file'.seen
                       /\ gap'.ctrl # NoControl => gap'.have \subseteq file'.stable
    PROVE  DiskInv'
<1>1. Limits' /\ Deep(seg)'
  BY DEF DiskInv, Limits
<1>2. seg' = FreshSeg(Zero) /\ prefix' = Zero
  BY DEF LinkInv, Blank, Handled
<1>3. Written(file.seen)'
  <2>1. 1..0 = {} /\ \A p \in Pieces : seg'[p].status # "Done"
    BY <1>2, Sizes DEF FreshSeg, Zero
  <2>2. \A p \in Pieces : First(p, prefix'[p]) = {}
    BY <1>2, <2>1 DEF Zero, First
  <2> QED BY <2>1, <2>2 DEF Written
<1>4. ~guessed' => Content'
  BY <1>3 DEF Content
<1> QED BY <1>1, <1>4 DEF DiskInv

\* and what a partial gap leaves behind.
LEMMA CleanupDisk ==
    ASSUME TypeInv, LinkInv, DiskInv, pc = "gap", Missing # {}, Cleanup
    PROVE  /\ file'.stable \subseteq file'.seen
           /\ ~guessed => /\ Safe(control', file'.stable) /\ gap.have \subseteq file'.seen
                          /\ control' # NoControl => gap.have \subseteq file'.stable
<1>1. file \in FileType /\ file.stable \subseteq file.seen
  BY DEF TypeInv, DiskTypes, DiskInv
<1>2. (gap.ctrl = NoControl <=> control = NoControl)
  BY DEF LinkInv, Blank
<1>3. ASSUME ~guessed
      PROVE  /\ Safe(control, file.stable) /\ Safe(gap.ctrl, file.stable) /\ gap.have \subseteq file.seen
             /\ gap.got > 0 => Min(Gap)..GapEnd \subseteq file.seen
             /\ gap.ctrl # NoControl => gap.have \subseteq file.stable
  BY <1>3 DEF DiskInv, Content
<1>4. CASE UNCHANGED disk
  BY <1>1, <1>2, <1>3, <1>4 DEF disk
<1>5. CASE gap.ctrl # NoControl /\ file' = Synced(file) /\ control' \in {control, GapRecorded}
  <2>1. file'.stable = file.seen /\ file'.seen = file.seen
    BY <1>1, <1>5 DEF Synced, FileType
  <2>2. ASSUME ~guessed PROVE Safe(control', file'.stable)
    <3>1. Safe(control, file.seen) /\ Safe(gap.ctrl, file.seen)
      BY <1>1, <1>3, <2>2, SafeGrows
    <3>2. Safe(GapRecorded, file.seen)
      BY <1>3, <1>5, <2>2, <3>1, RecordedSafe
    <3> QED BY <1>5, <2>1, <3>1, <3>2
  <2> QED BY <1>3, <2>1, <2>2
<1>6. CASE gap.ctrl # NoControl /\ SomeLost /\ UNCHANGED control
  <2>1. file'.stable = file.stable /\ file'.stable \subseteq file'.seen
    BY <1>1, <1>6 DEF SomeLost, FileType
  <2> QED BY <1>3, <1>6, <2>1
<1>7. CASE /\ gap.got > 0 /\ gap.ctrl = NoControl /\ UNCHANGED control
           /\ file' = [file EXCEPT !.seen = @ \ (Min(Gap)..GapEnd), !.stable = @ \ (Min(Gap)..GapEnd)]
  <2>1. /\ file'.seen = file.seen \ (Min(Gap)..GapEnd)
        /\ file'.stable = file.stable \ (Min(Gap)..GapEnd)
    BY <1>1, <1>7 DEF FileType
  <2>2. Min(Gap)..GapEnd \subseteq Gap
    <3>1. gap.got <= Cardinality(Gap) /\ gap.got \in Nat
      BY <1>7, Sizes DEF LinkInv, Blank, TypeInv, GapTypes
    <3>2. /\ Gap = Min(Gap)..(Min(Gap) + Cardinality(Gap) - 1) /\ Cardinality(Gap) \in Nat
          /\ Min(Gap) \in Nat
      BY GapFacts, RunFacts, Sizes
    <3>3. PICK a \in Nat, n \in Nat : a = Min(Gap) /\ n = Cardinality(Gap)
      BY <3>2
    <3>4. a..(a + gap.got - 1) \subseteq a..(a + n - 1)
      BY <3>1, <3>3
    <3> QED BY <3>2, <3>3, <3>4 DEF GapEnd
  <2>3. gap.have \cap (Min(Gap)..GapEnd) = {}
    BY <2>2, GapFacts
  <2>4. Safe(control', file'.stable) /\ control' = NoControl
    BY <1>2, <1>7 DEF Safe
  <2> QED BY <1>1, <1>3, <2>1, <2>3, <2>4
<1> QED BY <1>4, <1>5, <1>6, <1>7 DEF Cleanup

LEMMA GapDisk == ASSUME TypeInv, LinkInv, DiskInv, LinkInv', Fallback \/ Gaps PROVE DiskInv'
<1> USE DEF Ends
<1>1. /\ UNCHANGED guessed /\ file \in FileType /\ file.stable \subseteq file.seen
  BY DEF Fallback, Gaps, GapRead, GapFilled, GapHalted, GapFails, GapsFilled, NothingMissing, world,
         TypeInv, DiskTypes, DiskInv
<1>2. ASSUME ~guessed
      PROVE  /\ Written(file.seen) /\ Safe(control, file.stable) /\ Safe(gap.ctrl, file.stable)
             /\ gap.have \subseteq file.seen
             /\ gap.got > 0 => Min(Gap)..GapEnd \subseteq file.seen
             /\ gap.ctrl # NoControl => gap.have \subseteq file.stable
  BY <1>2 DEF DiskInv, Content
<1>3. CASE Fallback
  <2>1. CASE SyncFails(Drained)
    BY <1>1, <2>1, ErrorDisk, DrainedFacts
  <2>2. CASE /\ SyncAndSave(Drained, Snapshot(seg, Extend(queue)))
             /\ pc' = "gap" /\ ClearTransfer
             /\ gap' = [have |-> Have, got |-> 0, any |-> FALSE, tries |-> 1, ctrl |-> control']
    <3>1. file'.seen = Drained.seen /\ file'.stable = Drained.seen /\ file.stable \subseteq file'.stable
      BY <1>1, <2>2, DrainedFacts DEF SyncAndSave, Synced, FileType
    <3>2. ASSUME ~guessed PROVE Safe(control', file'.stable) /\ Have \subseteq file'.seen
      <4>1. \A p \in Pieces : First(p, Extend(queue)[p]) \subseteq Drained.seen
        BY <1>2, <3>2, DrainedSafe DEF DiskInv
      <4>2. \A p \in Pieces : seg[p].status = "Done" => Whole(p) \subseteq Drained.seen
        BY <1>2, <3>2, DrainedFacts DEF Written
      <4>3. Have \subseteq Drained.seen
        BY <4>1, <4>2 DEF Have
      <4>4. Safe(Snapshot(seg, Extend(queue)), Drained.seen)
        BY <1>2, <3>2, DrainedSafe DEF DiskInv
      <4>5. Safe(control, file'.stable)
        BY <1>2, <3>1, <3>2, SafeGrows
      <4>6. control' \in {control, Snapshot(seg, Extend(queue))}
        BY <2>2 DEF SyncAndSave
      <4> QED BY <3>1, <4>3, <4>4, <4>5, <4>6
    <3>3. gap'.have = Have /\ gap'.got = 0 /\ gap'.ctrl = control'
      BY <2>2
    <3>4. /\ seg' = FreshSeg(Zero) /\ prefix' = Zero /\ round' = FreshRound
          /\ \A p \in Pieces : req'[p] = NoReq
      BY <2>2 DEF ClearTransfer
    <3>5. Limits' /\ Deep(seg)'
      BY <3>4, NothingCredited DEF Limits
    <3>6. Written(file.seen)'
      <4>1. 1..0 = {} /\ \A p \in Pieces : seg'[p].status # "Done"
        BY <3>4, Sizes DEF FreshSeg, Zero
      <4>2. \A p \in Pieces : First(p, prefix'[p]) = {}
        BY <3>4, <4>1 DEF Zero, First
      <4> QED BY <4>1, <4>2 DEF Written
    <3>7. ~guessed' => Content'
      BY <1>1, <2>2, <3>1, <3>2, <3>3, <3>6 DEF Content
    <3> QED BY <3>1, <3>5, <3>7 DEF DiskInv
  <2> QED BY <1>3, <2>1, <2>2 DEF Fallback
<1> SUFFICES ASSUME Gaps PROVE DiskInv'
  BY <1>3
<1>4. /\ pc = "gap" /\ gap.got \in Nat
      /\ gap \in [have : SUBSET Units, got : 0..Total, any : BOOLEAN, tries : Nat, ctrl : MaybeCtrl]
      /\ (gap.ctrl = NoControl <=> control = NoControl)
  BY Sizes DEF Gaps, GapRead, GapFilled, GapHalted, GapFails, GapsFilled, NothingMissing,
         LinkInv, Blank, TypeInv, GapTypes
<1>5. CASE GapRead
  <2>1. /\ UNCHANGED <<control, pc, seg, req, prefix, round>> /\ Missing # {}
        /\ gap.got < Cardinality(Gap) /\ gap' = [gap EXCEPT !.got = gap.got + 1]
        /\ file' = Holding(file, {Min(Gap) + gap.got})
    BY <1>5 DEF GapRead, manager, net
  <2>2. gap'.have = gap.have /\ gap'.ctrl = gap.ctrl /\ gap'.got = gap.got + 1
    BY <1>4, <2>1
  <2>3. Missing' = Missing /\ Gap' = Gap
    BY <2>2 DEF Missing, Gap
  <2>4. PICK a \in Nat, n \in Nat : a = Min(Gap) /\ n = Cardinality(Gap) /\ Gap = a..(a + n - 1)
    BY <2>1, GapFacts, RunFacts, Sizes
  <2>5. Gap \subseteq Units
    BY <2>1, GapFacts
  <2>6. PICK k \in Nat : k = gap.got
    BY <1>4
  <2>7. k < n
    BY <2>1, <2>4, <2>6
  <2>8. a + k \in a..(a + n - 1)
    BY <2>7
  <2>9. file'.seen = file.seen \cup {a + k} /\ file'.stable = file.stable
    <3>1. a + k \in Units
      BY <2>4, <2>5, <2>8
    <3> QED BY <1>1, <2>1, <2>4, <2>6, <3>1, HoldingFacts
  <2>10. Min(Gap)..GapEnd = a..(a + k - 1) /\ (Min(Gap)..GapEnd)' = a..(a + k)
    <3>1. GapEnd = a + k - 1
      BY <2>4, <2>6 DEF GapEnd
    <3>2. Min(Gap)' = a /\ GapEnd' = a + (k + 1) - 1
      BY <2>2, <2>3, <2>4, <2>6 DEF GapEnd
    <3>3. a + (k + 1) - 1 = a + k
      OBVIOUS
    <3> QED BY <2>4, <3>1, <3>2, <3>3
  <2>11. ~guessed => (Min(Gap)..GapEnd)' \subseteq file'.seen
    <3>1. a..(a + k) \subseteq a..(a + k - 1) \cup {a + k} /\ (k = 0 => a..(a + k - 1) = {})
      OBVIOUS
    <3>2. ~guessed => a..(a + k - 1) \subseteq file.seen
      <4>1. CASE k = 0
        BY <3>1, <4>1
      <4>2. CASE k > 0
        BY <1>2, <2>6, <2>10, <4>2
      <4> QED BY <4>1, <4>2
    <3> QED BY <2>9, <2>10, <3>1, <3>2
  <2> QED BY <1>1, <1>2, <1>4, <2>1, <2>2, <2>9, <2>11, GapKeeps
<1>6. CASE GapFilled
  <2>1. CASE SyncFails(file)
    BY <1>1, <2>1, ErrorDisk
  <2>2. CASE ~SyncFails(file)
    <3>1. /\ gap' = [gap EXCEPT !.have = gap.have \cup Gap, !.got = 0, !.any = TRUE, !.ctrl = GapRecorded]
          /\ file' = IF gap.ctrl = NoControl THEN file ELSE Synced(file)
          /\ \/ control' = IF gap.ctrl = NoControl THEN control ELSE GapRecorded
             \/ gap.ctrl # NoControl /\ UNCHANGED control
          /\ UNCHANGED <<pc, seg, req, prefix, round>> /\ Missing # {} /\ gap.got = Cardinality(Gap)
      BY <1>6, <2>2 DEF GapFilled, manager, net
    <3>2. gap'.ctrl = GapRecorded /\ gap'.got = 0 /\ gap'.have = gap.have \cup Gap
      BY <1>4, <3>1
    <3>3. Gap = Min(Gap)..GapEnd /\ gap.got > 0
      <4>1. PICK a \in Nat, n \in Nat : a = Min(Gap) /\ n = Cardinality(Gap) /\ Gap = a..(a + n - 1)
                                        /\ a \in Gap
        BY <3>1, GapFacts, RunFacts, Sizes
      <4>2. a = Min(Gap) /\ gap.got = n /\ GapEnd = a + n - 1
        BY <3>1, <4>1 DEF GapEnd
      <4>3. a \in a..(a + n - 1)
        BY <4>1
      <4>4. n > 0
        BY <4>3
      <4> QED BY <4>1, <4>2, <4>4
    <3>4. ~guessed => gap.have \cup Gap \subseteq file.seen
      BY <1>2, <3>3
    <3>5. CASE gap.ctrl = NoControl
      <4>1. GapRecorded = NoControl /\ control' = control /\ file' = file
        BY <3>1, <3>5 DEF GapRecorded
      <4>2. Safe(NoControl, file'.stable)
        BY DEF Safe
      <4> QED BY <1>1, <1>2, <1>4, <3>1, <3>2, <3>4, <3>5, <4>1, <4>2, GapKeeps
    <3>6. CASE gap.ctrl # NoControl
      <4>1. file'.seen = file.seen /\ file'.stable = file.seen /\ control' \in {control, GapRecorded}
        BY <1>1, <3>1, <3>6 DEF Synced, FileType
      <4>2. ASSUME ~guessed PROVE Safe(control', file'.stable) /\ Safe(GapRecorded, file'.stable)
        <5>1. Safe(control, file.seen) /\ Safe(gap.ctrl, file.seen)
          BY <1>1, <1>2, <4>2, SafeGrows
        <5>2. Safe(GapRecorded, file.seen)
          BY <1>2, <3>1, <3>6, <4>2, <5>1, RecordedSafe
        <5> QED BY <4>1, <5>1, <5>2
      <4> QED BY <1>1, <1>4, <3>1, <3>2, <3>4, <4>1, <4>2, GapKeeps
    <3> QED BY <3>5, <3>6
  <2> QED BY <2>1, <2>2
<1>7. CASE GapHalted
  <2>1. Missing # {} /\ Cleanup /\ Leave("stopped")
    BY <1>7 DEF GapHalted
  <2> QED BY <1>1, <1>4, <2>1, CleanupDisk, LeaveDisk
<1>8. CASE GapFails
  <2>1. Missing # {} /\ Cleanup
    BY <1>8 DEF GapFails
  <2>2. CASE \E w \in {"failed", "cannotResume"} : Leave(w)
    BY <1>1, <1>4, <2>1, <2>2, CleanupDisk, LeaveDisk
  <2>3. CASE ~\E w \in {"failed", "cannotResume"} : Leave(w)
    <3>1. /\ gap' = [gap EXCEPT !.got = 0, !.any = FALSE, !.tries = gap.tries + 1, !.ctrl = control']
          /\ UNCHANGED <<pc, seg, req, prefix, round>>
      BY <1>8, <2>3 DEF GapFails, manager, net
    <3>2. gap'.ctrl = control' /\ gap'.got = 0 /\ gap'.have = gap.have
      BY <1>4, <3>1
    <3> QED BY <1>1, <1>4, <2>1, <3>1, <3>2, CleanupDisk, GapKeeps
  <2> QED BY <2>2, <2>3
<1>9. CASE GapsFilled \/ NothingMissing
  <2>1. CASE SyncFails(file)
    BY <1>1, <2>1, ErrorDisk
  <2>2. CASE Missing = {} /\ UNCHANGED file /\ control' \in {control, NoControl} /\ Leave("done")
    <3>1. Units \subseteq gap.have
      BY <2>2 DEF Missing
    <3>2. ~guessed => Units \subseteq file.seen /\ Safe(control', file.stable)
      BY <1>2, <2>2, <3>1 DEF Safe
    <3> QED BY <1>1, <2>2, <3>2, LeaveDisk
  <2> QED BY <1>9, <2>1, <2>2 DEF GapsFilled, NothingMissing, disk
<1> QED BY <1>5, <1>6, <1>7, <1>8, <1>9 DEF Gaps

LEMMA DiskInit == Init => DiskInv
<1> SUFFICES ASSUME Init PROVE DiskInv
  OBVIOUS
<1>1. /\ seg = FreshSeg(Zero) /\ prefix = Zero /\ round = FreshRound /\ gap = NoGap /\ pc = "stopped"
      /\ control = NoControl /\ \A p \in Pieces : req[p] = NoReq
  BY DEF Init
<1>2. file.stable \subseteq file.seen
  BY DEF Init
<1>3. Limits /\ Deep(seg)
  BY <1>1, NothingCredited DEF Limits
<1>4. gap.have = {} /\ ~(gap.got > 0) /\ gap.ctrl = NoControl
  BY <1>1 DEF NoGap
<1>5. Content
  BY <1>1, <1>4, NothingWritten DEF Content, Safe
<1> QED BY <1>2, <1>3, <1>5 DEF DiskInv

LEMMA DiskStep ==
    ASSUME Block <= RangeFloor, TypeInv, AccountInv, LinkInv, DiskInv, TypeInv', LinkInv', [Next]_vars
    PROVE  DiskInv'
<1>1. CASE UNCHANGED vars
  <2>1. UNCHANGED <<file, control, seg, req, prefix, round, gap, guessed, pc>>
    BY <1>1 DEF vars, disk, attempt, manager, net, world
  <2> QED BY <2>1, PlainDisk
<1>2. CASE Command
  <2>1. CASE DetectComplete \/ DetectPartial \/ Allocate \/ FreshTruncate \/ GiveUp
    BY <2>1, OutsideDisk
  <2>2. CASE Prepare
    BY <2>2, PrepareDisk
  <2>3. CASE HeadHalted \/ HeadGoes \/ CooledDown \/ CooldownHalted
    BY <2>3, IdleDisk
  <2>4. CASE Admission
    BY <2>4, IdleDisk, AdmitDisk DEF Admission
  <2>5. CASE Select
    BY <2>5, IdleDisk, ResultDisk DEF Select
  <2>6. CASE Fallback \/ Gaps
    BY <2>6, GapDisk
  <2> QED BY <1>2, <2>1, <2>2, <2>3, <2>4, <2>5, <2>6 DEF Command
<1>3. CASE Tasks
  BY <1>3, TaskDisk
<1>4. CASE Start \/ NextMirror \/ FreshRemove \/ Halt \/ RequestSave \/ Crash
  BY <1>4, OutsideDisk
<1> QED BY <1>1, <1>2, <1>3, <1>4 DEF Next

LEMMA DiskGives ==
    ASSUME TypeInv, LinkInv, DiskInv PROVE ClaimsAreStable /\ CreditIsWritten
<1>1. ClaimsAreStable
  BY DEF ClaimsAreStable, DiskInv, Content, Safe
<1>2. ASSUME ~guessed
      PROVE  /\ Credited(seg) \cup gap.have \subseteq file.seen \cup queue
             /\ \A p \in Having("Done") : Whole(p) \subseteq file.seen
             /\ pc = "done" => Units \subseteq file.seen
  <2>1. /\ Written(file.seen) /\ gap.have \subseteq file.seen /\ (pc = "done" => Units \subseteq file.seen)
    BY <1>2 DEF DiskInv, Content
  <2>2. Credited(seg) \subseteq file.seen
    BY <2>1, CreditIn DEF TypeInv, SegTypes, NetTypes, Written, LinkInv, Linked
  <2> QED BY <2>1, <2>2 DEF Having, Written
<1> QED BY <1>1, <1>2 DEF CreditIsWritten

-----------------------------------------------------------------------------
(***************************************************************************)
(* What is not forgotten.                                                  *)
(***************************************************************************)
\* What a control file claims of a piece is still in the prefix, or all of it is.
Covers(c, s, x) ==
    \A p \in Pieces : s[p].status = "Done" \/ (p \notin c.bits /\ c.blocks[p] <= x[p])
\* An output without a length has no content that a control file could claim,
Unsized ==
    file.size = 0 => /\ control # NoControl => Claimed(control) = {}
                     /\ pc \in Ready => control = NoControl /\ resume.length = 0
\* and an attempt that continues knows all that the control file claims.
Remembered ==
    options.continue /\ control # NoControl =>
        /\ pc \in Handled \cup {"fallback"} => Covers(control, seg, prefix)
        /\ pc \in Ready => resume.control = control
        /\ pc = "gap" => Claimed(control) \subseteq Claimed(gap.ctrl)
GrowInv == Unsized /\ Remembered /\ events \in Nat

Kept ==
    (control # NoControl /\ pc # "cannotResume" /\ pc' # "done" /\ options.continue)
    => \/ Claimed(control) = {}
       \/ control' # NoControl /\ Claimed(control) \subseteq Claimed(control')

-----------------------------------------------------------------------------
\* A checkpoint claims what it covers, and covers itself.
LEMMA CoversClaimed ==
    ASSUME NEW c \in Ctrl, Aligned(c), NEW s \in Segs, NEW x \in Counts, Covers(c, s, x)
    PROVE  Claimed(c) \subseteq Claimed(Snapshot(s, x))
<1>1. PICK d : d = Snapshot(s, x)
  OBVIOUS
<1>2. /\ d.bits = {p \in Pieces : s[p].status = "Done"}
      /\ \A p \in Pieces : p \notin d.bits => d.blocks[p] = Blocks(x[p])
  BY <1>1 DEF Snapshot
<1>3. ASSUME NEW p \in Pieces PROVE Part(c, p) \subseteq Part(d, p)
  <2>1. c.blocks[p] \in 0..PieceUnits /\ x[p] \in 0..PieceUnits
    BY DEF Ctrl, Counts
  <2>2. CASE p \in d.bits
    BY <2>1, <2>2, FirstUnits DEF Part
  <2>3. CASE p \notin d.bits
    <3>1. p \notin c.bits /\ c.blocks[p] <= x[p] /\ d.blocks[p] = Blocks(x[p])
      BY <1>2, <2>3 DEF Covers
    <3>2. Blocks(c.blocks[p]) = c.blocks[p]
      BY NoControlAssumption DEF Aligned
    <3>3. c.blocks[p] \in 0..x[p] /\ x[p] \in Nat
      BY <2>1, <3>1, Sizes
    <3>4. c.blocks[p] <= Blocks(x[p]) /\ Blocks(x[p]) \in 0..x[p]
      BY <3>2, <3>3, BlocksFacts
    <3>5. c.blocks[p] \in 0..Blocks(x[p]) /\ Blocks(x[p]) \in 0..PieceUnits
      BY <2>1, <3>3, <3>4, Sizes
    <3> QED BY <2>3, <3>1, <3>5, FirstUnits DEF Part
  <2> QED BY <2>2, <2>3
<1> QED BY <1>1, <1>3, ClaimedParts
LEMMA CoversItself ==
    ASSUME NEW s \in Segs, NEW x \in Counts PROVE Covers(Snapshot(s, x), s, x)
<1>1. \A p \in Pieces : Blocks(x[p]) <= x[p]
  BY BlocksFacts, Sizes DEF Counts
<1> QED BY <1>1 DEF Covers, Snapshot

\* An output that is opened gets a length.
LEMMA SizeFacts ==
    ASSUME NEW f \in FileType
    PROVE  f.size \in Nat /\ Synced(f).size \in Nat /\ Synced(f).size >= f.size /\ Synced(f).size > 0
  BY Sizes DEF Synced, OpenSize, FileType
LEMMA DrainedSize == ASSUME TypeInv PROVE Drained \in FileType /\ Drained.size >= file.size
  BY HoldingFacts DEF Drained, TypeInv, DiskTypes, NetTypes

LEMMA UnsizedKept ==
    ASSUME TypeInv, GrowInv, pc' \notin Ready, file'.size \in Nat,
           \/ file'.size >= file.size /\ control' \in {control, NoControl}
           \/ file'.size > 0
    PROVE  Unsized'
<1>1. file.size \in Nat
  BY DEF TypeInv, DiskTypes, FileType
<1> QED BY <1>1 DEF GrowInv, Unsized

\* The attempt is over.
LEMMA LeaveGrow ==
    ASSUME TypeInv, GrowInv, NEW w \in Ends, Leave(w), events' \in Nat, file'.size \in Nat,
           \/ file'.size >= file.size /\ control' = control
           \/ control' = NoControl /\ w = "done" /\ file'.size >= file.size
           \/ file'.size > 0 /\ Kept
    PROVE  GrowInv' /\ Kept
<1>1. pc' = w /\ w \notin Handled \cup {"fallback"} \cup Ready \cup {"gap"}
  BY DEF Leave, Ends, Handled, Ready
<1>2. Unsized'
  BY <1>1, UnsizedKept
<1>3. Remembered'
  BY <1>1 DEF Remembered
<1> QED BY <1>1, <1>2, <1>3 DEF GrowInv, Kept

LEMMA SnapshotKept ==
    ASSUME TypeInv, LinkInv, GrowInv, pc \in Handled \cup {"fallback"},
           NEW s \in Segs, NEW x \in Counts, control' = Snapshot(s, x),
           \A p \in Pieces : (seg[p].status = "Done" => s[p].status = "Done") /\ prefix[p] <= x[p]
    PROVE  Kept /\ control' \in Ctrl /\ Covers(control', s, x)
<1>1. control' \in Ctrl /\ control' # NoControl
  BY SnapshotType, NoControlAssumption
<1>2. ASSUME control # NoControl, options.continue PROVE Claimed(control) \subseteq Claimed(control')
  <2>1. control \in Ctrl /\ Aligned(control) /\ Covers(control, seg, prefix)
    BY <1>2 DEF TypeInv, DiskTypes, MaybeCtrl, LinkInv, GrowInv, Remembered
  <2>2. ASSUME NEW p \in Pieces, s[p].status # "Done"
        PROVE  p \notin control.bits /\ control.blocks[p] <= x[p]
    <3>1. p \notin control.bits /\ control.blocks[p] <= prefix[p] /\ prefix[p] <= x[p]
      BY <2>1, <2>2 DEF Covers
    <3>2. control.blocks[p] \in Nat /\ prefix[p] \in Nat /\ x[p] \in Nat
      BY <2>1, Sizes DEF Ctrl, Counts, TypeInv, NetTypes
    <3> QED BY <3>1, <3>2
  <2>3. Covers(control, s, x)
    BY <2>2 DEF Covers
  <2> QED BY <2>1, <2>3, CoversClaimed
<1> QED BY <1>1, <1>2, CoversItself DEF Kept

\* Errors,
LEMMA ErrorGrow ==
    ASSUME TypeInv, LinkInv, GrowInv, events' \in Nat,
           \/ \E f \in FileType : f.size >= file.size /\ (SyncFails(f) \/ FlushFails(f))
           \/ pc \in Handled \cup {"fallback"} /\ \E w \in Ends : CancelAndPersist(w)
    PROVE  GrowInv' /\ Kept
<1>0. file.size \in Nat
  BY DEF TypeInv, DiskTypes, FileType
<1>1. ASSUME NEW f \in FileType, f.size >= file.size, SyncFails(f) PROVE GrowInv' /\ Kept
  <2>1. file'.size = f.size /\ control' = control /\ Leave("failed")
    BY <1>1 DEF SyncFails, FileType
  <2> QED BY <1>1, <2>1, SizeFacts, LeaveGrow DEF Ends
<1>2. ASSUME NEW f \in FileType, f.size >= file.size, FlushFails(f) PROVE GrowInv' /\ Kept
  <2>1. CASE file' = Synced(f) /\ control' = control /\ Leave("failed")
    <3>1. file'.size \in Nat /\ file'.size >= file.size
      BY <1>0, <1>2, <2>1, SizeFacts
    <3> QED BY <2>1, <3>1, LeaveGrow DEF Ends
  <2> QED BY <1>1, <1>2, <2>1 DEF FlushFails
<1>3. ASSUME pc \in Handled \cup {"fallback"}, NEW w \in Ends, CancelAndPersist(w) PROVE GrowInv' /\ Kept
  <2>1. CASE SyncFails(Drained)
    BY <1>1, <2>1, DrainedSize
  <2>2. CASE SyncAndSave(Drained, Snapshot(seg, Extend(queue))) /\ Leave(w)
    <3>1. file'.size \in Nat /\ file'.size >= file.size /\ file'.size > 0
      BY <1>0, <2>2, DrainedSize, SizeFacts DEF SyncAndSave
    <3>2. CASE control' = control
      BY <2>2, <3>1, <3>2, LeaveGrow
    <3>3. CASE control' = Snapshot(seg, Extend(queue))
      <4>1. /\ Extend(queue) \in Counts /\ seg \in Segs
            /\ \A p \in Pieces : prefix[p] <= Extend(queue)[p]
        BY SnapshotExtended, ExtendHolds DEF TypeInv, SegTypes, LinkInv
      <4>2. Kept
        BY <1>3, <3>3, <4>1, SnapshotKept
      <4> QED BY <2>2, <3>1, <4>2, LeaveGrow
    <3> QED BY <2>2, <3>2, <3>3 DEF SyncAndSave
  <2> QED BY <1>3, <2>1, <2>2 DEF CancelAndPersist
<1> QED BY <1>1, <1>2, <1>3

\* and the steps of the transfer.
LEMMA TransferGrow ==
    ASSUME TypeInv, LinkInv, GrowInv, events' \in Nat, seg' \in Segs, prefix' \in Counts,
           UNCHANGED options, pc \in Handled \cup {"fallback"}, pc' \in Handled \cup {"fallback"},
           file'.size \in Nat, file'.size >= file.size,
           \A p \in Pieces : (seg[p].status = "Done" => seg'[p].status = "Done") /\ prefix[p] <= prefix'[p],
           \/ UNCHANGED control
           \/ control' = Snapshot(seg', prefix') /\ file'.size > 0
    PROVE  GrowInv' /\ Kept
<1>1. pc' \notin Ready /\ pc' # "gap"
  BY DEF Handled, Ready
<1>2. CASE UNCHANGED control
  <2>1. ASSUME control # NoControl, options.continue PROVE Covers(control, seg', prefix')
    <3>1. control \in Ctrl /\ Covers(control, seg, prefix)
      BY <2>1 DEF TypeInv, DiskTypes, MaybeCtrl, GrowInv, Remembered
    <3>2. ASSUME NEW p \in Pieces, seg'[p].status # "Done"
          PROVE  p \notin control.bits /\ control.blocks[p] <= prefix'[p]
      <4>1. p \notin control.bits /\ control.blocks[p] <= prefix[p] /\ prefix[p] <= prefix'[p]
        BY <3>1, <3>2 DEF Covers
      <4>2. control.blocks[p] \in Nat /\ prefix[p] \in Nat /\ prefix'[p] \in Nat
        BY <3>1, Sizes DEF Ctrl, Counts, TypeInv, NetTypes
      <4> QED BY <4>1, <4>2
    <3> QED BY <3>2 DEF Covers
  <2>2. Remembered'
    BY <1>1, <1>2, <2>1 DEF Remembered
  <2> QED BY <1>1, <1>2, <2>2, UnsizedKept DEF GrowInv, Kept
<1>3. CASE control' = Snapshot(seg', prefix') /\ file'.size > 0
  <2>1. Kept /\ Covers(control', seg', prefix')
    BY <1>3, SnapshotKept
  <2>2. Remembered'
    BY <1>1, <2>1 DEF Remembered
  <2> QED BY <1>1, <1>3, <2>1, <2>2, UnsizedKept DEF GrowInv
<1> QED BY <1>2, <1>3

LEMMA EventsCount == ASSUME events \in Nat, [Next]_vars PROVE events' \in Nat
<1>1. CASE UNCHANGED vars
  BY <1>1 DEF vars
<1>2. CASE Command
  <2>1. CASE DetectComplete \/ DetectPartial \/ Allocate \/ Prepare \/ FreshTruncate \/ GiveUp
             \/ HeadHalted \/ HeadGoes \/ CooledDown \/ CooldownHalted
    BY <2>1 DEF DetectComplete, DetectPartial, Allocate, Prepare, FirstSave, FreshTruncate, GiveUp, HeadHalted,
         HeadGoes, CooledDown, CooldownHalted, CancelAndPersist, SyncAndSave, SyncFails, Event
  <2>2. CASE Admission
    <3>1. ASSUME NEW p \in Pieces, AdmitRange(p) \/ DropSettled(p) PROVE events' = events
      BY <3>1 DEF AdmitRange, DropSettled
    <3>2. CASE EnterWait \/ Finish \/ CoolDown \/ AllRangesFailed \/ Stuck
      BY <3>2 DEF EnterWait, Finish, CoolDown, AllRangesFailed, Stuck,
           CancelAndPersist, SyncAndSave, SyncFails, FlushFails, Event
    <3> QED BY <2>2, <3>1, <3>2 DEF Admission
  <2>3. CASE Woken \/ WriteFails \/ \E u \in Units : WriteChunk(u)
    <3>1. ASSUME NEW f, FlushFails(f) PROVE events' \in Nat
      BY <3>1 DEF FlushFails, SyncFails, Event
    <3>2. CASE Woken \/ WriteFails
      BY <3>1, <3>2 DEF Woken, WriteFails, Event
    <3>3. ASSUME NEW u \in Units, WriteChunk(u) PROVE events' \in Nat
      BY <3>1, <3>3 DEF WriteChunk
    <3> QED BY <2>3, <3>2, <3>3
  <2>4. ASSUME NEW p \in Pieces,
               \/ RangeOk(p) \/ RangeSmaller(p) \/ RangeBusy(p) \/ RangeFallsBack(p)
               \/ RangeRetries(p) \/ RangeFatal(p) \/ StaleResult(p) \/ Stalled(p) \/ SlowOutlier(p)
        PROVE  events' \in Nat
    BY <2>4 DEF RangeOk, RangeSmaller, RangeBusy, RangeFallsBack, RangeRetries, RangeFatal, StaleResult,
         Stalled, SlowOutlier, CancelAndPersist, SyncAndSave, SyncFails, FlushFails, Event
  <2>5. CASE Fallback \/ Gaps
    BY <2>5 DEF Fallback, Gaps, GapRead, GapFilled, GapHalted, GapFails, GapsFilled, NothingMissing,
         SyncAndSave, SyncFails, Event
  <2> QED BY <1>2, <2>1, <2>2, <2>3, <2>4, <2>5 DEF Command, Select
<1>3. CASE Tasks
  BY <1>3 DEF Tasks, SendChunk, TaskOk, TaskFails, Event
<1>4. CASE Start \/ NextMirror \/ FreshRemove \/ Halt \/ RequestSave \/ Crash
  BY <1>4 DEF Start, NextMirror, FreshRemove, Halt, RequestSave, Crash, Event
<1> QED BY <1>1, <1>2, <1>3, <1>4 DEF Next

LEMMA PlainGrow ==
    ASSUME TypeInv, GrowInv, events' \in Nat, UNCHANGED <<control, seg, prefix, gap, resume, options>>,
           file'.size \in Nat, file'.size >= file.size,
           \/ pc' = pc
           \/ pc \in Ready /\ pc' \in Ready
           \/ pc' \notin Handled \cup {"fallback"} \cup Ready \cup {"gap"}
    PROVE  GrowInv' /\ Kept
<1>1. file.size \in Nat
  BY DEF TypeInv, DiskTypes, FileType
<1>2. Unsized'
  BY <1>1 DEF GrowInv, Unsized
<1>3. Remembered'
  BY DEF GrowInv, Remembered, Handled, Ready
<1> QED BY <1>2, <1>3 DEF GrowInv, Kept

LEMMA OutsideGrow ==
    ASSUME TypeInv, LinkInv, GrowInv, events' \in Nat,
           \/ Start \/ NextMirror \/ FreshRemove \/ DetectComplete \/ DetectPartial \/ Allocate
           \/ FreshTruncate \/ GiveUp \/ Halt \/ RequestSave \/ Crash
    PROVE  GrowInv' /\ Kept
<1> USE DEF Handled, Ready, Ends
<1>1. file \in FileType /\ file.size \in Nat /\ file.size >= file.size
  BY DEF TypeInv, DiskTypes, FileType
<1>2. CASE Start \/ NextMirror \/ GiveUp \/ Halt \/ RequestSave
  <2>1. /\ UNCHANGED <<file, control, seg, prefix, gap, resume, options>>
        /\ pc' \in {pc, "detect", "stopped"}
    BY <1>2 DEF Start, NextMirror, GiveUp, Halt, RequestSave, attempt, manager, net, disk, world
  <2> QED BY <1>1, <2>1, PlainGrow
<1>3. CASE FreshRemove \/ FreshTruncate
  <2>1. pc' \in {"truncate", "detect"} /\ control' = NoControl /\ UNCHANGED options
    BY <1>3 DEF FreshRemove, FreshTruncate, LinkInv, Blank
  <2>2. Unsized' /\ Remembered'
    BY <2>1 DEF Unsized, Remembered
  <2>3. control = NoControl \/ pc = "cannotResume"
    BY <1>3 DEF FreshRemove, FreshTruncate, LinkInv, Blank
  <2> QED BY <2>2, <2>3 DEF GrowInv, Kept
<1>4. CASE DetectComplete \/ Crash
  <2>1. /\ UNCHANGED control /\ \E w \in Ends : Leave(w)
        /\ file' = file \/ SomeLost
    BY <1>4 DEF DetectComplete, Crash, disk
  <2>2. file'.size = file.size
    BY <1>1, <2>1 DEF SomeLost, FileType
  <2> QED BY <1>1, <2>1, <2>2, LeaveGrow
<1>5. CASE DetectPartial
  <2>1. /\ pc = "detect" /\ pc' = "allocate" /\ control' = Known /\ UNCHANGED <<file, options>>
        /\ resume' = IF ~options.continue THEN NoResume
                     ELSE [control |-> Known,
                           length |-> IF Known # NoControl THEN Known.length ELSE file.size]
    BY <1>5 DEF DetectPartial, world
  <2>2. CASE file.size = 0
    <3>1. control' = NoControl /\ resume'.length = 0 /\ file'.size = 0
      BY <2>1, <2>2 DEF Known, NoResume
    <3>2. control # NoControl => Claimed(control) = {}
      BY <2>2 DEF GrowInv, Unsized
    <3>3. Unsized' /\ Remembered'
      BY <3>1 DEF Unsized, Remembered
    <3> QED BY <3>2, <3>3 DEF GrowInv, Kept
  <2>3. CASE file.size # 0
    <3>1. control' = control /\ file'.size # 0 /\ (options.continue => resume'.control = control')
      BY <2>1, <2>3 DEF Known
    <3>2. Unsized' /\ Remembered'
      BY <2>1, <3>1 DEF Unsized, Remembered
    <3> QED BY <3>1, <3>2 DEF GrowInv, Kept
  <2> QED BY <2>2, <2>3
<1>6. CASE Allocate
  <2>1. CASE Leave("failed")
    <3>1. UNCHANGED <<file, control>>
      BY <1>6, <2>1 DEF Allocate, Leave
    <3> QED BY <1>1, <2>1, <3>1, LeaveGrow
  <2>2. CASE ~Leave("failed")
    <3>1. /\ pc = "allocate" /\ pc' = "prepare"
          /\ UNCHANGED <<control, seg, prefix, gap, resume, options>>
          /\ file' \in {file, [file EXCEPT !.size = Total]}
      BY <1>6, <2>2 DEF Allocate, world, attempt, manager, net
    <3>2. file'.size \in {file.size, Total} /\ Total > 0 /\ Total \in Nat
      BY <1>1, <3>1, Sizes DEF FileType
    <3>3. Unsized'
      BY <3>1, <3>2 DEF GrowInv, Unsized
    <3>4. Remembered'
      BY <3>1 DEF GrowInv, Remembered
    <3> QED BY <3>1, <3>3, <3>4 DEF GrowInv, Kept
  <2> QED BY <2>1, <2>2
<1> QED BY <1>2, <1>3, <1>4, <1>5, <1>6

\* What the scheduler starts from covers what was found.
LEMMA RestoredCovers ==
    ASSUME TypeInv, LinkInv, FromControl
    PROVE  /\ control \in Ctrl /\ Aligned(control)
           /\ Covers(control, FreshSeg(Restored), RestoredPrefix)
<1> DEFINE c == resume.control
<1>1. c = control /\ c \in Ctrl /\ Aligned(c)
  BY DEF FromControl, LinkInv, Blank, TypeInv, ResumeTypes, MaybeCtrl
<1>2. ASSUME NEW p \in Pieces, FreshSeg(Restored)[p].status # "Done"
      PROVE  p \notin c.bits /\ c.blocks[p] <= RestoredPrefix[p]
  <2>1. Restored[p] # PieceUnits /\ c.blocks[p] \in Nat
    BY <1>1, <1>2, Sizes DEF FreshSeg, Ctrl
  <2>2. CASE Aggregate(c)
    <3>1. /\ Restored[p] = IF p \in c.bits THEN PieceUnits ELSE c.blocks[p]
          /\ RestoredPrefix[p] = c.blocks[p]
      BY <2>2 DEF Restored, RestoredPrefix
    <3> QED BY <2>1, <3>1
  <2>3. CASE ~Aggregate(c)
    <3>1. p \notin c.bits /\ ~(c.blocks[p] > 0)
      BY <2>3 DEF Aggregate
    <3>2. RestoredPrefix[p] \in Nat
      BY RestoredFacts, Sizes DEF TypeInv
    <3> QED BY <2>1, <3>1, <3>2
  <2> QED BY <2>2, <2>3
<1> QED BY <1>1, <1>2 DEF Covers

LEMMA PrepareGrow ==
    ASSUME TypeInv, AccountInv, LinkInv, GrowInv, events' \in Nat, Prepare PROVE GrowInv' /\ Kept
<1> DEFINE s == FreshSeg(Restored)
           new == Snapshot(s, RestoredPrefix)
<1>1. /\ Restored \in Counts /\ RestoredPrefix \in Counts /\ s \in Segs /\ file \in FileType
      /\ pc = "prepare" /\ UNCHANGED options
  BY RestoredType, FreshSegType DEF TypeInv, DiskTypes, Prepare
<1>2. control' \in {new, IF FromControl THEN control ELSE NoControl}
  BY DEF Prepare, FirstSave
<1>3. file' \in {file, Synced(file)}
  BY DEF Prepare, FirstSave
<1>4. file'.size \in Nat /\ file'.size >= file.size /\ file.size \in Nat
  BY <1>1, <1>3, SizeFacts
<1>5. FromControl => control # NoControl
  BY DEF FromControl, LinkInv, Blank
<1>6. FromControl => control \in Ctrl /\ Aligned(control) /\ Covers(control, s, RestoredPrefix)
  BY RestoredCovers
<1>7. Covers(new, s, RestoredPrefix) /\ new # NoControl
  <2> HIDE DEF s
  <2> QED BY <1>1, CoversItself, SnapshotType, NoControlAssumption
<1>8. FromControl => Claimed(control) \subseteq Claimed(new)
  <2> HIDE DEF s
  <2> QED BY <1>1, <1>6, CoversClaimed
<1>9. options.continue /\ control # NoControl => FromControl
  BY <1>1 DEF GrowInv, Remembered, Ready, FromControl
<1> HIDE DEF new
<1>10. Kept
  BY <1>2, <1>5, <1>7, <1>8, <1>9 DEF Kept
<1>11. ASSUME file'.size = 0 PROVE control' # NoControl => Claimed(control') = {}
  <2>1. file.size = 0 /\ control = NoControl /\ resume.length = 0
    BY <1>1, <1>4, <1>11 DEF GrowInv, Unsized, Ready
  <2>2. ~FromControl
    BY <1>5, <2>1
  <2>3. Restored = PrefixOf(0) /\ RestoredPrefix = PrefixOf(0) /\ 0 \in 0..Total
    BY <2>1, <2>2, Sizes DEF Restored, RestoredPrefix
  <2>4. ASSUME NEW p \in Pieces PROVE Restored[p] = 0 /\ RestoredPrefix[p] = 0
    <3>1. PICK b \in Nat : b = Before(p)
      BY BeforePiece
    <3> QED BY <2>3, <3>1 DEF PrefixOf, Before
  <2>5. 1..0 = {} /\ Blocks(0) = 0
    BY BlocksFacts
  <2>6. ASSUME NEW p \in Pieces PROVE Part(new, p) = {}
    <3>1. s[p].status # "Done"
      BY <2>4, Sizes DEF FreshSeg
    <3>2. p \notin new.bits /\ new.blocks[p] = Blocks(0)
      BY <2>4, <3>1 DEF new, Snapshot
    <3> QED BY <2>5, <3>2 DEF Part, First
  <2>7. Claimed(new) = {}
    BY <2>6, ClaimedParts
  <2> QED BY <1>2, <2>2, <2>7
<1>12. CASE pc' = "head" /\ seg' = s /\ prefix' = RestoredPrefix
  <2>1. Unsized' /\ Remembered'
    BY <1>2, <1>6, <1>7, <1>11, <1>12 DEF Unsized, Remembered, Handled, Ready
  <2> QED BY <1>10, <2>1 DEF GrowInv
<1>13. CASE Leave("failed")
  <2>1. pc' = "failed"
    BY <1>13 DEF Leave
  <2>2. Unsized' /\ Remembered'
    BY <1>11, <2>1 DEF Unsized, Remembered, Handled, Ready
  <2> QED BY <1>10, <2>2 DEF GrowInv
<1> QED BY <1>12, <1>13 DEF Prepare, new

\* A step of the transfer that leaves the disk and the prefixes alone.
LEMMA StillGrow ==
    ASSUME TypeInv, LinkInv, GrowInv, TypeInv', events' \in Nat, UNCHANGED <<disk, prefix, options>>,
           pc \in Handled \cup {"fallback"}, pc' \in Handled \cup {"fallback"},
           \A p \in Pieces : seg[p].status = "Done" => seg'[p].status = "Done"
    PROVE  GrowInv' /\ Kept
<1>1. /\ UNCHANGED control /\ file'.size = file.size /\ file.size \in Nat
      /\ seg' \in Segs /\ prefix' \in Counts
  BY DEF disk, TypeInv, DiskTypes, FileType, SegTypes, NetTypes
<1>2. \A p \in Pieces : prefix[p] <= prefix'[p]
  BY Sizes DEF TypeInv, NetTypes, Counts
<1> QED BY <1>1, <1>2, TransferGrow

LEMMA TaskGrow == ASSUME TypeInv, LinkInv, GrowInv, TypeInv', events' \in Nat, Tasks PROVE GrowInv' /\ Kept
<1>1. UNCHANGED <<disk, pc, seg, prefix, options>> /\ pc \in Handled \cup {"fallback"}
  BY DEF Tasks, SendChunk, TaskOk, TaskFails, manager, world, Downloading, Handled
<1> QED BY <1>1, StillGrow

LEMMA IdleGrow ==
    ASSUME TypeInv, LinkInv, GrowInv, TypeInv', events' \in Nat,
           \/ HeadHalted \/ HeadGoes \/ WriteFails \/ CooledDown \/ CooldownHalted
           \/ EnterWait \/ Finish \/ CoolDown \/ AllRangesFailed \/ Stuck
           \/ Woken \/ \E u \in Units : WriteChunk(u)
    PROVE  GrowInv' /\ Kept
<1> USE DEF Handled, Ends
<1>1. /\ UNCHANGED options /\ file \in FileType /\ file.size \in Nat /\ file.size >= file.size
      /\ Drained \in FileType /\ Drained.size >= file.size /\ Drained.size \in Nat
      /\ seg \in Segs /\ seg' \in Segs /\ prefix \in Counts /\ prefix' \in Counts
      /\ pc \in Handled
  <2>1. UNCHANGED options /\ pc \in Handled
    BY DEF HeadHalted, HeadGoes, WriteFails, CooledDown, CooldownHalted, EnterWait,
       Finish, CoolDown, AllRangesFailed, Stuck, Woken, WriteChunk, world, Idle
  <2>2. file.size \in Nat
    BY DEF TypeInv, DiskTypes, FileType
  <2> QED BY <2>1, <2>2, DrainedSize, SizeFacts DEF TypeInv, DiskTypes, SegTypes, NetTypes
<1>2. CASE HeadHalted \/ AllRangesFailed
  BY <1>1, <1>2, ErrorGrow DEF HeadHalted, AllRangesFailed
<1>3. CASE HeadGoes \/ Stuck \/ CooledDown
  <2>1. UNCHANGED <<disk, seg, prefix>> /\ pc' \in Handled \cup {"fallback"}
    BY <1>3 DEF HeadGoes, Stuck, CooledDown, attempt, manager, net
  <2> QED BY <1>1, <2>1, StillGrow
<1>4. CASE WriteFails \/ CooldownHalted
  <2>1. SomeLost /\ UNCHANGED control /\ \E w \in Ends : Leave(w)
    BY <1>4 DEF WriteFails, CooldownHalted
  <2>2. file'.size = file.size
    BY <1>1, <2>1 DEF SomeLost, FileType
  <2> QED BY <1>1, <2>1, <2>2, LeaveGrow
<1>5. CASE Finish
  <2>1. CASE SyncFails(Drained)
    BY <1>1, <2>1, ErrorGrow
  <2>2. CASE file' = Synced(Drained) /\ control' = NoControl /\ Leave("done")
    <3>1. file'.size \in Nat /\ file'.size >= file.size
      BY <1>1, <2>2, SizeFacts
    <3> QED BY <2>2, <3>1, LeaveGrow
  <2> QED BY <1>5, <2>1, <2>2 DEF Finish
<1>6. \A p \in Pieces : prefix[p] <= Extend(queue)[p]
  BY ExtendHolds DEF LinkInv
<1>7. CASE CoolDown
  <2>1. /\ file' = Drained /\ prefix' = Extend(queue) /\ pc' = "cooldown" /\ UNCHANGED <<control, seg>>
    BY <1>7 DEF CoolDown, manager
  <2> QED BY <1>1, <1>6, <2>1, TransferGrow
<1>8. ASSUME NEW f \in FileType, f.size >= file.size, f.size \in Nat, Flushed(f, Snapshot(seg', prefix'))
      PROVE  /\ file'.size \in Nat /\ file'.size >= file.size
             /\ UNCHANGED control \/ (control' = Snapshot(seg', prefix') /\ file'.size > 0)
  BY <1>1, <1>8, SizeFacts DEF Flushed
<1>9. CASE EnterWait
  <2>1. CASE FlushFails(Drained)
    BY <1>1, <2>1, ErrorGrow
  <2>2. CASE /\ Flushed(Drained, Snapshot(seg, Extend(queue)))
             /\ pc' = "wait" /\ prefix' = Extend(queue) /\ UNCHANGED manager
    <3>1. seg' = seg /\ Flushed(Drained, Snapshot(seg', prefix'))
      BY <2>2 DEF manager
    <3> QED BY <1>1, <1>6, <1>8, <2>2, <3>1, TransferGrow
  <2> QED BY <1>9, <2>1, <2>2 DEF EnterWait
<1>10. CASE Woken
  <2>1. CASE FlushFails(file)
    BY <1>1, <2>1, ErrorGrow
  <2>2. CASE ~FlushFails(file)
    <3>1. /\ pc' = "head" /\ UNCHANGED <<seg, prefix>>
          /\ Flushed(file, Snapshot(seg, prefix)) \/ UNCHANGED disk
      BY <1>10, <2>2 DEF Woken, attempt, manager
    <3>2. \A p \in Pieces : prefix[p] <= prefix'[p]
      BY <1>1, <3>1, Sizes DEF Counts
    <3>3. CASE UNCHANGED disk
      BY <1>1, <3>1, <3>3, StillGrow
    <3>4. CASE Flushed(file, Snapshot(seg', prefix'))
      BY <1>1, <1>8, <3>1, <3>2, <3>4, TransferGrow
    <3> QED BY <3>1, <3>3, <3>4
  <2> QED BY <2>1, <2>2
<1>11. CASE \E u \in Units : WriteChunk(u)
  <2>1. PICK u \in Units : WriteChunk(u)
    BY <1>11
  <2>2. PICK f \in FileType : f = Holding(file, {u}) /\ f.size >= file.size /\ f.size \in Nat
    BY <1>1, HoldingFacts, SizeFacts
  <2>3. CASE FlushFails(f)
    BY <1>1, <2>2, <2>3, ErrorGrow
  <2>4. CASE ~FlushFails(f)
    <3>1. /\ pc' = "head" /\ UNCHANGED seg /\ prefix' = Extend({u})
          /\ Flushed(f, Snapshot(seg', prefix')) /\ u \in queue
          /\ \A v \in queue : v < u => (v - 1) \div PieceUnits # (u - 1) \div PieceUnits
      BY <2>1, <2>2, <2>4 DEF WriteChunk, manager
    <3>2. \A p \in Pieces : prefix[p] <= prefix'[p]
      BY <3>1, ExtendOne DEF LinkInv
    <3> QED BY <1>1, <1>8, <2>2, <3>1, <3>2, TransferGrow
  <2> QED BY <2>3, <2>4
<1> QED BY <1>2, <1>3, <1>4, <1>5, <1>7, <1>9, <1>10, <1>11

LEMMA AdmitGrow ==
    ASSUME TypeInv, LinkInv, GrowInv, TypeInv', events' \in Nat, NEW p \in Pieces, AdmitRange(p) \/ DropSettled(p)
    PROVE  GrowInv' /\ Kept
<1>1. /\ UNCHANGED <<disk, prefix, options>> /\ pc = "admit" /\ pc' = "admit"
      /\ \/ seg' = seg
         \/ seg[p].status = "Pending" /\ seg' = [seg EXCEPT ![p] = [seg[p] EXCEPT !.status = "Downloading"]]
  BY DEF AdmitRange, DropSettled, manager, net, world
<1>2. \A q \in Pieces : seg[q].status = "Done" => seg'[q].status = "Done"
  BY <1>1 DEF TypeInv, SegTypes, Segs
<1> QED BY <1>1, <1>2, StillGrow DEF Handled

LEMMA ResultGrow ==
    ASSUME TypeInv, AccountInv, LinkInv, GrowInv, TypeInv', events' \in Nat, NEW p \in Pieces,
           \/ RangeOk(p) \/ RangeSmaller(p) \/ RangeBusy(p) \/ RangeFallsBack(p)
           \/ RangeRetries(p) \/ RangeFatal(p) \/ StaleResult(p) \/ Stalled(p) \/ SlowOutlier(p)
    PROVE  GrowInv' /\ Kept
<1> USE DEF Handled, Ends
<1>1. /\ UNCHANGED options /\ file \in FileType /\ file.size \in Nat
      /\ Drained \in FileType /\ Drained.size >= file.size /\ Drained.size \in Nat
      /\ seg' \in Segs /\ prefix' \in Counts /\ pc = "wait"
  <2>1. UNCHANGED options /\ pc = "wait"
    BY DEF RangeOk, RangeSmaller, RangeBusy, RangeFallsBack, RangeRetries, RangeFatal,
       StaleResult, Stalled, SlowOutlier, Abort, Result, world
  <2>2. file.size \in Nat
    BY DEF TypeInv, DiskTypes, FileType
  <2> QED BY <2>1, <2>2, DrainedSize, SizeFacts DEF TypeInv, DiskTypes, SegTypes, NetTypes
<1>2. \A q \in Pieces : prefix[q] <= Extend(queue)[q]
  BY ExtendHolds DEF LinkInv
<1>3. CASE RangeFatal(p) \/ (RangeBusy(p) /\ CancelAndPersist("failed"))
  <2>1. \E w \in Ends : CancelAndPersist(w)
    BY <1>3 DEF RangeFatal
  <2> QED BY <1>1, <2>1, ErrorGrow
<1>4. ASSUME req[p] # NoReq, RequeueSegment(p) \/ FailSegment(p)
      PROVE  \A q \in Pieces : seg[q].status = "Done" => seg'[q].status = "Done"
  BY <1>1, <1>4, PieceBack
<1>5. CASE RangeSmaller(p) \/ RangeRetries(p) \/ RangeFallsBack(p)
           \/ (RangeBusy(p) /\ ~CancelAndPersist("failed"))
  <2>1. /\ Received(p) /\ file' = Drained /\ UNCHANGED control /\ pc' \in {"head", "fallback"}
        /\ req[p] # NoReq /\ (RequeueSegment(p) \/ FailSegment(p) \/ UNCHANGED seg)
    BY <1>5 DEF RangeSmaller, RangeRetries, RangeFallsBack, RangeBusy, Result, manager
  <2>2. prefix' = Extend(queue)
    BY <2>1 DEF Received
  <2> QED BY <1>1, <1>2, <1>4, <2>1, <2>2, TransferGrow
<1>6. CASE StaleResult(p) \/ Stalled(p) \/ SlowOutlier(p)
  <2>1. /\ UNCHANGED <<disk, prefix>> /\ pc' = "head"
        /\ \/ UNCHANGED seg
           \/ req[p] # NoReq /\ (RequeueSegment(p) \/ FailSegment(p))
    BY <1>6 DEF StaleResult, Stalled, SlowOutlier, Abort, manager
  <2> QED BY <1>1, <1>4, <2>1, StillGrow
<1>7. CASE RangeOk(p)
  <2>1. CASE SyncFails(Drained) \/ FlushFails(Drained)
    BY <1>1, <2>1, ErrorGrow
  <2>2. CASE ~(SyncFails(Drained) \/ FlushFails(Drained))
    <3>1. /\ req[p] # NoReq /\ pc' = "head" /\ Received(p) /\ seg' = Advanced(p)
          /\ \/ SyncAndSave(Drained, Snapshot(seg', Extend(queue)))
             \/ \E f \in {Drained, Synced(Drained)} : Flushed(f, Snapshot(seg', Extend(queue)))
      BY <1>7, <2>2 DEF RangeOk, Result, Advanced, CompleteRange
    <3>2. prefix' = Extend(queue)
      BY <3>1 DEF Received
    <3>3. \A q \in Pieces : seg[q].status = "Done" => seg'[q].status = "Done"
      <4>1. seg[p].status = "Downloading"
        BY <1>1, <3>1 DEF AccountInv, Ledger, Having, Tracked
      <4> QED BY <1>1, <3>1, <4>1, AdvancedFacts
    <3>4. /\ file' \in {Drained, Synced(Drained), Synced(Synced(Drained))}
          /\ \/ UNCHANGED control
             \/ control' = Snapshot(seg', prefix') /\ file' # Drained
             \/ control' = Snapshot(seg', prefix') /\ file' \in {Synced(Drained), Synced(Synced(Drained))}
      BY <3>1, <3>2 DEF SyncAndSave, Flushed
    <3>5. /\ file'.size \in Nat /\ file'.size >= file.size
          /\ file' \in {Synced(Drained), Synced(Synced(Drained))} => file'.size > 0
      <4>1. /\ Synced(Drained) \in FileType
            /\ Synced(Drained).size \in Nat /\ Synced(Drained).size >= Drained.size
            /\ Synced(Drained).size > 0
        BY <1>1, SyncedType, SizeFacts
      <4>2. /\ Synced(Synced(Drained)).size \in Nat
            /\ Synced(Synced(Drained)).size >= Synced(Drained).size
            /\ Synced(Synced(Drained)).size > 0
        BY <4>1, SizeFacts
      <4> QED BY <1>1, <3>4, <4>1, <4>2
    <3> QED BY <1>1, <1>2, <3>1, <3>2, <3>3, <3>4, <3>5, TransferGrow
  <2> QED BY <2>1, <2>2
<1> QED BY <1>3, <1>5, <1>6, <1>7

\* Recording a gap forgets nothing that is on the disk,
LEMMA RecordedKept ==
    ASSUME TypeInv, LinkInv, GrowInv, pc = "gap", Missing # {}, gap.ctrl # NoControl,
           control' \in {control, GapRecorded}, options.continue, control # NoControl
    PROVE  /\ control' # NoControl /\ Claimed(control) \subseteq Claimed(control')
           /\ Claimed(control') \subseteq Claimed(GapRecorded)
<1>1. gap.ctrl \in Ctrl /\ gap.got \in Nat
  BY Sizes DEF TypeInv, GapTypes, MaybeCtrl
<1>2. RunStart \in Nat /\ GapEnd \in Nat
  BY <1>1, RunFacts DEF GapEnd
<1>3. GapRecorded = RecordRange(gap.ctrl, RunStart, GapEnd)
  BY DEF GapRecorded
<1>4. Claimed(gap.ctrl) \subseteq Claimed(GapRecorded)
  BY <1>1, <1>2, <1>3, RecordFacts
<1>5. Claimed(control) \subseteq Claimed(gap.ctrl)
  BY DEF GrowInv, Remembered
<1>6. GapRecorded # NoControl
  BY RecordedLink
<1> QED BY <1>4, <1>5, <1>6

\* nor does what a partial gap leaves behind.
LEMMA CleanupKept ==
    ASSUME TypeInv, LinkInv, GrowInv, pc = "gap", Missing # {}, Cleanup
    PROVE  /\ file'.size \in Nat /\ Kept
           /\ (file'.size >= file.size /\ control' = control) \/ file'.size > 0
<1>1. file \in FileType /\ file.size \in Nat /\ file.size >= file.size
  BY DEF TypeInv, DiskTypes, FileType
<1>2. CASE UNCHANGED disk
  BY <1>1, <1>2 DEF disk, Kept
<1>3. CASE gap.ctrl # NoControl /\ file' = Synced(file) /\ control' \in {control, GapRecorded}
  <2>1. file'.size \in Nat /\ file'.size > 0
    BY <1>1, <1>3, SizeFacts
  <2>2. Kept
    BY <1>3, RecordedKept DEF Kept
  <2> QED BY <2>1, <2>2
<1>4. CASE SomeLost /\ UNCHANGED control
  <2>1. file'.size = file.size
    BY <1>1, <1>4 DEF SomeLost, FileType
  <2> QED BY <1>1, <1>4, <2>1 DEF Kept
<1>5. CASE /\ UNCHANGED control
           /\ file' = [file EXCEPT !.seen = @ \ (Min(Gap)..GapEnd), !.stable = @ \ (Min(Gap)..GapEnd)]
  <2>1. file'.size = file.size
    BY <1>1, <1>5 DEF FileType
  <2> QED BY <1>1, <1>5, <2>1 DEF Kept
<1> QED BY <1>2, <1>3, <1>4, <1>5 DEF Cleanup

LEMMA GapOnGrow ==
    ASSUME TypeInv, GrowInv, events' \in Nat, UNCHANGED options, pc' = "gap", Kept, file'.size \in Nat,
           \/ file'.size >= file.size /\ control' = control
           \/ file'.size > 0,
           options.continue /\ control' # NoControl => Claimed(control') \subseteq Claimed(gap'.ctrl)
    PROVE  GrowInv' /\ Kept
<1>1. Unsized'
  BY UnsizedKept DEF Ready
<1>2. Remembered'
  BY DEF Remembered, Handled, Ready
<1> QED BY <1>1, <1>2 DEF GrowInv

LEMMA GapGrow ==
    ASSUME TypeInv, LinkInv, GrowInv, events' \in Nat, Fallback \/ Gaps PROVE GrowInv' /\ Kept
<1> USE DEF Ends
<1>1. file \in FileType /\ file.size \in Nat /\ file.size >= file.size /\ UNCHANGED options
  BY DEF TypeInv, DiskTypes, FileType, Fallback, Gaps, GapRead, GapFilled, GapHalted, GapFails,
         GapsFilled, NothingMissing, world
<1>2. CASE Fallback
  <2>1. CASE SyncFails(Drained)
    BY <1>1, <2>1, ErrorGrow, DrainedSize
  <2>2. CASE /\ SyncAndSave(Drained, Snapshot(seg, Extend(queue)))
             /\ pc' = "gap"
             /\ gap' = [have |-> Have, got |-> 0, any |-> FALSE, tries |-> 1, ctrl |-> control']
    <3>1. file'.size \in Nat /\ file'.size > 0
      BY <2>2, DrainedSize, SizeFacts DEF SyncAndSave
    <3>2. gap'.ctrl = control'
      BY <2>2
    <3>3. CASE control' = control
      BY <1>1, <2>2, <3>1, <3>2, <3>3, GapOnGrow DEF Kept
    <3>4. CASE control' = Snapshot(seg, Extend(queue))
      <4>1. /\ Extend(queue) \in Counts /\ seg \in Segs
            /\ \A p \in Pieces : prefix[p] <= Extend(queue)[p]
        BY SnapshotExtended, ExtendHolds DEF TypeInv, SegTypes, LinkInv
      <4>2. Kept
        BY <1>2, <3>4, <4>1, SnapshotKept DEF Fallback
      <4> QED BY <1>1, <2>2, <3>1, <3>2, <4>2, GapOnGrow
    <3> QED BY <2>2, <3>3, <3>4 DEF SyncAndSave
  <2> QED BY <1>2, <2>1, <2>2 DEF Fallback
<1> SUFFICES ASSUME Gaps PROVE GrowInv' /\ Kept
  BY <1>2
<1>3. /\ pc = "gap" /\ gap.got \in Nat
      /\ gap \in [have : SUBSET Units, got : 0..Total, any : BOOLEAN, tries : Nat, ctrl : MaybeCtrl]
      /\ (gap.ctrl = NoControl <=> control = NoControl)
      /\ options.continue /\ control # NoControl => Claimed(control) \subseteq Claimed(gap.ctrl)
  BY Sizes DEF Gaps, GapRead, GapFilled, GapHalted, GapFails, GapsFilled, NothingMissing,
         LinkInv, Blank, TypeInv, GapTypes, GrowInv, Remembered
<1>4. CASE GapRead
  <2>1. /\ UNCHANGED <<control, pc>> /\ Missing # {}
        /\ gap.got < Cardinality(Gap) /\ gap' = [gap EXCEPT !.got = gap.got + 1]
        /\ file' = Holding(file, {Min(Gap) + gap.got})
    BY <1>4 DEF GapRead
  <2>2. gap'.ctrl = gap.ctrl
    BY <1>3, <2>1
  <2>3. PICK a \in Nat, n \in Nat : a = Min(Gap) /\ n = Cardinality(Gap) /\ Gap = a..(a + n - 1)
    BY <2>1, GapFacts, RunFacts, Sizes
  <2>4. PICK k \in Nat : k = gap.got
    BY <1>3
  <2>5. a + k \in a..(a + n - 1)
    BY <2>1, <2>3, <2>4
  <2>6. a + k \in Units
    BY <2>1, <2>3, <2>5, GapFacts
  <2>7. file' \in FileType /\ file'.size >= file.size
    BY <1>1, <2>1, <2>3, <2>4, <2>6, HoldingFacts
  <2>8. file'.size \in Nat
    BY <2>7 DEF FileType
  <2> QED BY <1>1, <1>3, <2>1, <2>2, <2>7, <2>8, GapOnGrow DEF Kept
<1>5. CASE GapFilled
  <2>1. CASE SyncFails(file)
    BY <1>1, <2>1, ErrorGrow
  <2>2. CASE ~SyncFails(file)
    <3>1. /\ gap' = [gap EXCEPT !.have = gap.have \cup Gap, !.got = 0, !.any = TRUE, !.ctrl = GapRecorded]
          /\ file' = IF gap.ctrl = NoControl THEN file ELSE Synced(file)
          /\ \/ control' = IF gap.ctrl = NoControl THEN control ELSE GapRecorded
             \/ gap.ctrl # NoControl /\ UNCHANGED control
          /\ pc' = "gap" /\ Missing # {}
      BY <1>3, <1>5, <2>2 DEF GapFilled
    <3>2. gap'.ctrl = GapRecorded
      BY <1>3, <3>1
    <3>3. CASE gap.ctrl = NoControl
      <4>1. control' = NoControl /\ control = NoControl /\ file' = file
        BY <1>3, <3>1, <3>3
      <4> QED BY <1>1, <3>1, <4>1, GapOnGrow DEF Kept
    <3>4. CASE gap.ctrl # NoControl
      <4>1. file'.size \in Nat /\ file'.size > 0 /\ control' \in {control, GapRecorded}
        BY <1>1, <3>1, <3>4, SizeFacts
      <4>2. options.continue /\ control # NoControl =>
              /\ control' # NoControl /\ Claimed(control) \subseteq Claimed(control')
              /\ Claimed(control') \subseteq Claimed(GapRecorded)
        BY <1>3, <3>1, <3>4, <4>1, RecordedKept
      <4>3. Kept
        BY <4>2 DEF Kept
      <4> QED BY <1>1, <1>3, <3>1, <3>2, <3>4, <4>1, <4>2, <4>3, GapOnGrow
    <3> QED BY <3>3, <3>4
  <2> QED BY <2>1, <2>2
<1>6. CASE GapHalted
  <2>1. Missing # {} /\ Cleanup /\ Leave("stopped")
    BY <1>6 DEF GapHalted
  <2> QED BY <1>3, <2>1, CleanupKept, LeaveGrow
<1>7. CASE GapFails
  <2>1. Missing # {} /\ Cleanup
    BY <1>7 DEF GapFails
  <2>2. CASE \E w \in {"failed", "cannotResume"} : Leave(w)
    BY <1>3, <2>1, <2>2, CleanupKept, LeaveGrow
  <2>3. CASE ~\E w \in {"failed", "cannotResume"} : Leave(w)
    <3>1. /\ gap' = [gap EXCEPT !.got = 0, !.any = FALSE, !.tries = gap.tries + 1, !.ctrl = control']
          /\ pc' = "gap"
      BY <1>3, <1>7, <2>3 DEF GapFails
    <3>2. gap'.ctrl = control'
      BY <1>3, <3>1
    <3> QED BY <1>1, <1>3, <2>1, <3>1, <3>2, CleanupKept, GapOnGrow
  <2> QED BY <2>2, <2>3
<1>8. CASE GapsFilled \/ NothingMissing
  <2>1. CASE SyncFails(file)
    BY <1>1, <2>1, ErrorGrow
  <2>2. CASE UNCHANGED file /\ control' \in {control, NoControl} /\ Leave("done")
    <3>1. file'.size = file.size
      BY <2>2
    <3> QED BY <1>1, <2>2, <3>1, LeaveGrow
  <2> QED BY <1>8, <2>1, <2>2 DEF GapsFilled, NothingMissing, disk
<1> QED BY <1>4, <1>5, <1>6, <1>7, <1>8 DEF Gaps

LEMMA GrowInit == Init => GrowInv
  BY DEF Init, GrowInv, Unsized, Remembered, Ready

LEMMA GrowStep ==
    ASSUME TypeInv, AccountInv, LinkInv, GrowInv, TypeInv', [Next]_vars PROVE GrowInv' /\ Kept
<1>1. events' \in Nat
  BY EventsCount DEF GrowInv
<1>2. CASE UNCHANGED vars
  <2>1. UNCHANGED <<file, control, seg, prefix, gap, resume, options, pc>>
    BY <1>2 DEF vars, disk, attempt, manager, net, world
  <2>2. file.size \in Nat /\ file.size >= file.size
    BY DEF TypeInv, DiskTypes, FileType
  <2> QED BY <1>1, <2>1, <2>2, PlainGrow
<1>3. CASE Command
  <2>1. CASE DetectComplete \/ DetectPartial \/ Allocate \/ FreshTruncate \/ GiveUp
    BY <1>1, <2>1, OutsideGrow
  <2>2. CASE Prepare
    BY <1>1, <2>2, PrepareGrow
  <2>3. CASE HeadHalted \/ HeadGoes \/ CooledDown \/ CooldownHalted
    BY <1>1, <2>3, IdleGrow
  <2>4. CASE Admission
    BY <1>1, <2>4, IdleGrow, AdmitGrow DEF Admission
  <2>5. CASE Select
    BY <1>1, <2>5, IdleGrow, ResultGrow DEF Select
  <2>6. CASE Fallback \/ Gaps
    BY <1>1, <2>6, GapGrow
  <2> QED BY <1>3, <2>1, <2>2, <2>3, <2>4, <2>5, <2>6 DEF Command
<1>4. CASE Tasks
  BY <1>1, <1>4, TaskGrow
<1>5. CASE Start \/ NextMirror \/ FreshRemove \/ Halt \/ RequestSave \/ Crash
  BY <1>1, <1>5, OutsideGrow
<1> QED BY <1>2, <1>3, <1>4, <1>5 DEF Next

HaltedHere == halt /\ pc \in {"head", "admit", "wait"} /\ pc' = "stopped" /\ events' = events

\* Only the check of a round for a halt stops a transfer,
LEMMA OnlyHeadHalts ==
    ASSUME events \in Nat, [Next]_vars, HaltedHere
    PROVE  pc = "head" /\ control' = Snapshot(seg, Extend(queue))
<1> USE DEF HaltedHere
<1>1. ASSUME NEW kind, Event(kind) PROVE FALSE
  BY <1>1 DEF Event
<1>2. ASSUME NEW f, SyncFails(f) \/ FlushFails(f) PROVE FALSE
  BY <1>1, <1>2 DEF SyncFails, FlushFails
<1>3. ASSUME NEW w \in {"failed", "cannotResume"}, CancelAndPersist(w) PROVE FALSE
  BY <1>2, <1>3 DEF CancelAndPersist, Leave
<1>4. CASE UNCHANGED vars
  BY <1>4 DEF vars
<1>5. CASE Command
  <2>1. CASE \/ DetectComplete \/ DetectPartial \/ Allocate \/ Prepare \/ FreshTruncate \/ GiveUp
             \/ HeadGoes \/ CooledDown \/ CooldownHalted \/ Fallback \/ Gaps
    BY <2>1 DEF DetectComplete, DetectPartial, Allocate, Prepare, FreshTruncate, GiveUp, HeadGoes,
         CooledDown, CooldownHalted, Fallback, Gaps, GapRead, GapFilled, GapHalted, GapFails,
         GapsFilled, NothingMissing
  <2>2. CASE HeadHalted
    BY <1>1, <1>2, <2>2 DEF HeadHalted, CancelAndPersist, SyncAndSave
  <2>3. CASE Admission
    <3>1. ASSUME NEW p \in Pieces, AdmitRange(p) \/ DropSettled(p) PROVE pc' = pc
      BY <3>1 DEF AdmitRange, DropSettled
    <3>2. CASE EnterWait \/ Finish \/ CoolDown \/ AllRangesFailed \/ Stuck
      BY <1>2, <1>3, <3>2 DEF EnterWait, Finish, CoolDown, AllRangesFailed, Stuck, Leave
    <3> QED BY <2>3, <3>1, <3>2 DEF Admission
  <2>4. CASE Woken \/ WriteFails \/ \E u \in Units : WriteChunk(u)
    BY <1>2, <2>4 DEF Woken, WriteFails, WriteChunk, Leave
  <2>5. ASSUME NEW p \in Pieces,
               \/ RangeOk(p) \/ RangeSmaller(p) \/ RangeBusy(p) \/ RangeFallsBack(p)
               \/ RangeRetries(p) \/ RangeFatal(p) \/ StaleResult(p) \/ Stalled(p) \/ SlowOutlier(p)
        PROVE  FALSE
    BY <1>2, <1>3, <2>5 DEF RangeOk, RangeSmaller, RangeBusy, RangeFallsBack, RangeRetries, RangeFatal,
         StaleResult, Stalled, SlowOutlier, Abort
  <2> QED BY <1>5, <2>1, <2>2, <2>3, <2>4, <2>5 DEF Command, Select
<1>6. CASE Tasks
  BY <1>6 DEF Tasks, SendChunk, TaskOk, TaskFails
<1>7. CASE Start \/ NextMirror \/ FreshRemove \/ Halt \/ RequestSave \/ Crash
  BY <1>1, <1>7 DEF Start, NextMirror, FreshRemove, Halt, RequestSave, Crash
<1> QED BY <1>4, <1>5, <1>6, <1>7 DEF Next

\* and what it writes claims every credited block.
LEMMA HaltKept ==
    ASSUME TypeInv, LinkInv, events \in Nat, [Next]_vars, HaltedHere
    PROVE  /\ control' # NoControl
           /\ \A p \in Pieces : First(p, Blocks(seg[p].done)) \subseteq Claimed(control')
<1>1. PICK x \in Counts : x = Extend(queue)
  BY SnapshotExtended
<1>2. PICK c \in Ctrl : c = control' /\ c = Snapshot(seg, x)
  BY <1>1, OnlyHeadHalts, SnapshotExtended
<1>3. ASSUME NEW p \in Pieces PROVE First(p, Blocks(seg[p].done)) \subseteq Part(c, p)
  <2>1. seg[p].done \in 0..PieceUnits /\ prefix[p] \in 0..PieceUnits /\ x[p] \in 0..PieceUnits
    BY DEF TypeInv, SegTypes, NetTypes, Segs, Counts
  <2>2. Blocks(seg[p].done) \in 0..seg[p].done
    BY <2>1, BlocksFacts, Sizes
  <2>3. CASE seg[p].status = "Done"
    <3>1. Part(c, p) = Whole(p)
      BY <1>2, <2>3 DEF Part, Snapshot
    <3>2. Blocks(seg[p].done) \in 0..PieceUnits
      BY <2>1, <2>2, Sizes
    <3> QED BY <3>1, <3>2, FirstUnits
  <2>4. CASE seg[p].status # "Done"
    <3>1. Part(c, p) = First(p, Blocks(x[p]))
      BY <1>2, <2>4 DEF Part, Snapshot
    <3>2. seg[p].done <= prefix[p] /\ prefix[p] <= x[p]
      BY <1>1, <2>4, ExtendHolds DEF LinkInv, Linked
    <3>3. seg[p].done \in 0..x[p] /\ x[p] \in Nat
      BY <2>1, <3>2, Sizes
    <3>4. Blocks(seg[p].done) <= Blocks(x[p]) /\ Blocks(x[p]) \in 0..x[p]
      BY <3>3, BlocksFacts
    <3>5. Blocks(seg[p].done) \in 0..Blocks(x[p]) /\ Blocks(x[p]) \in 0..PieceUnits
      BY <2>1, <2>2, <3>4, Sizes
    <3> QED BY <3>1, <3>5, FirstUnits
  <2> QED BY <2>3, <2>4
<1> QED BY <1>2, <1>3, ClaimedParts, NoControlAssumption

-----------------------------------------------------------------------------
\* The control file claims only what is on stable storage, whatever is lost in
\* a crash and for every number of pieces, units and requests, provided that
\* a range is never made smaller than a block: with the smallest range that
\* the option allows and larger blocks, a resumed length may claim more.
THEOREM ControlFileIsTrue ==
    ASSUME Block <= RangeFloor PROVE Spec => []ClaimsAreStable
<1>1. TypeInv /\ LinkInv /\ DiskInv => ClaimsAreStable
  BY DiskGives
<1> QED BY <1>1, AccountInit, AccountStep, TypeInit, TypeStep, LinkInit, LinkStep, DiskInit, DiskStep, PTL
        DEF Spec

\* What a piece is credited with and what a gap no longer misses is written,
\* in whatever order results arrive, and a finished download is complete;
\* under the same condition.
THEOREM CreditIsEarned ==
    ASSUME Block <= RangeFloor PROVE Spec => []CreditIsWritten
<1>1. TypeInv /\ LinkInv /\ DiskInv => CreditIsWritten
  BY DiskGives
<1> QED BY <1>1, AccountInit, AccountStep, TypeInit, TypeStep, LinkInit, LinkStep, DiskInit, DiskStep, PTL
        DEF Spec

\* No step forgets progress: a halt claims every credited block, and what a
\* control file claims stays claimed, for every option and event; with no
\* condition on the smallest range.
THEOREM ProgressIsKept == Spec => ProgressKept
<1>1. TypeInv /\ AccountInv /\ LinkInv /\ GrowInv /\ [Next]_vars /\ TypeInv' =>
        [(halt /\ pc \in {"head", "admit", "wait"} /\ pc' = "stopped" /\ events' = events)
         => /\ control' # NoControl
            /\ \A p \in Pieces : First(p, Blocks(seg[p].done)) \subseteq Claimed(control')]_vars
  BY HaltKept DEF HaltedHere, GrowInv
<1>2. TypeInv /\ AccountInv /\ LinkInv /\ GrowInv /\ [Next]_vars /\ TypeInv' =>
        [(control # NoControl /\ pc # "cannotResume" /\ pc' # "done" /\ options.continue)
         => \/ Claimed(control) = {}
            \/ control' # NoControl /\ Claimed(control) \subseteq Claimed(control')]_vars
  BY GrowStep DEF Kept
<1>3. Spec => HaltKeepsProgress
  BY <1>1, AccountInit, AccountStep, TypeInit, TypeStep, LinkInit, LinkStep, GrowInit, GrowStep, PTL
     DEF Spec, HaltKeepsProgress
<1>4. Spec => ClaimsOnlyGrow
  BY <1>2, AccountInit, AccountStep, TypeInit, TypeStep, LinkInit, LinkStep, GrowInit, GrowStep, PTL
     DEF Spec, ClaimsOnlyGrow
<1> QED BY <1>3, <1>4 DEF ProgressKept

=============================================================================
