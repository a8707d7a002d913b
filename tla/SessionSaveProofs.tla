-------------------------- MODULE SessionSaveProofs --------------------------
(***************************************************************************)
(* What holds of the stores, the saves and the session file for any        *)
(* downloads, clients and engine: the types, what a save collects, and     *)
(* that the session file is whole.                                         *)
(***************************************************************************)
EXTENDS SessionSave, RequestGroupManProofs

-----------------------------------------------------------------------------
\* The operation under the lock: what it has taken out of the stores and, for
\* those of the pass, where the engine is.
InTransit ==
    (IF moving.gid = NoGid \/ moving.op = "record" THEN {} ELSE {moving.gid})
    \cup (IF moving.op \in {"fill", "put_back"} THEN ToSet(moving.rest) ELSE {})
Moves ==
    /\ moving.op = "none" => moving = Unlocked
    /\ moving.op \in {"add", "unregister", "record"} => moving.gid # NoGid /\ moving.rest = <<>>
    /\ moving.op \in {"unregister", "record"} => moving.result # NoResult
    /\ moving.op = "requeue" =>
        /\ moving.by = "pass" /\ phase \in {"find", "last_find"}
        /\ ToSet(moving.rest) \subseteq active
        /\ moving.gid = NoGid => moving.rest # <<>>
    /\ moving.op = "fill" => moving.by = "pass" /\ phase = "fill"
    /\ moving.op = "put_back" =>
        /\ moving.by = "pass" /\ phase = "spawn"
        /\ moving.gid = NoGid /\ moving.rest # <<>>

\* A live download is in one place: a store, or the hands of the operation.
Home ==
    /\ groups = active \cup ReservedIds \cup InTransit
    /\ active \cap ReservedIds = {}
    /\ InTransit \cap (active \cup ReservedIds) = {}
    /\ OnceIn(reserved) /\ OnceIn(moving.rest)
    /\ moving.gid \notin ToSet(moving.rest)
    /\ moving.op = "record" => moving.gid \notin groups
    /\ \A g \in groups : stopped[g] = NoResult

\* A download with a command is active until the end of the command has been
\* accounted for; one that leaves the active map has none.
Account ==
    /\ \A g \in Gids : group[g].commands = IF g \in Running THEN 1 ELSE 0
    /\ Running \subseteq active
    /\ \A c \in completions : c.gid \notin tasks
    /\ \A c, e \in completions : c.gid = e.gid => c = e
    /\ ToSet(promoted) \subseteq active \ Running
    /\ promoted # <<>> => phase \in {"fill", "spawn"}
    /\ found # {} => phase \in {"demote", "last_demote"}
    /\ \A e \in found : e.gid \in active \ Running
    /\ \A c, e \in found : c.gid = e.gid => c = e
    /\ moving.op = "requeue" => ToSet(moving.rest) \cap Running = {}
OwnerSaves == saver["owner"].step # "idle" => phase \in {"saving", "final_save", "shutdown_save"}
SaveInv == TypeOK /\ Moves /\ Home /\ Account /\ OwnerSaves

-----------------------------------------------------------------------------
\* The files, while no two savers have had the temporary file at once: a saver
\* that has opened it finds there what it has written, and it is not the session.
FileInv ==
    /\ tmp # session
    /\ ~shared =>
        /\ SessionFileWhole
        /\ \E s \in Savers : saver[s].file = NoFile
        /\ \A s \in Savers :
             /\ saver[s].file # NoFile <=> saver[s].step \in {"write", "rename"}
             /\ saver[s].file # NoFile => saver[s].file = tmp
             /\ saver[s].step = "write" => content[saver[s].file] = Empty
             /\ saver[s].step = "rename" => content[saver[s].file].state = "whole"

-----------------------------------------------------------------------------
\* What a save has read so far, of the downloads that were owed all the time
\* and have not changed stores.
Missed(s, g) == BetweenStores(g) /\ moved[s] # {}
Collected(s) ==
    LET v == saver[s]
        still == kept[s] \ moved[s]
    IN  /\ kept[s] \subseteq Owed
        /\ v.step \in {"count", "compare", "fast"} =>
             \A g \in Gids \ moved[s] : g \in v.reserved <=> g \in ReservedIds
        /\ v.step = "compare" =>
             \E G \in SUBSET Gids :
               /\ v.count = Cardinality(G)
               /\ moved[s] = {} => active \cup ReservedIds \cup (still \cap groups) \subseteq G
        /\ v.step = "fast" /\ moved[s] = {} => \A g \in still : ~BetweenStores(g)
        /\ v.step = "reserved_again" => still \cap active \subseteq v.groups
        /\ v.step = "index" => still \cap (active \cup ReservedIds) \subseteq v.groups
        /\ v.step \in {"results", "serialize"} =>
             \A g \in still \cap groups : g \in v.groups \/ Missed(s, g)
        /\ v.step = "serialize" => kept[s] \ groups \subseteq v.results
        /\ v.step \in {"open", "write", "rename"} =>
             \A g \in still : g \in v.data \/ Missed(s, g)
CollectInv == \A s \in Savers : Collected(s)

-----------------------------------------------------------------------------
\* Putting a gid in front of a queue.
LEMMA GidPush ==
    ASSUME NEW q \in Seq(Gids), NEW g \in Gids
    PROVE  /\ <<g>> \o q \in Seq(Gids)
           /\ ToSet(<<g>> \o q) = ToSet(q) \cup {g}
           /\ OnceIn(q) /\ g \notin ToSet(q) => OnceIn(<<g>> \o q)
<1>1. IsFiniteSet({g}) /\ Cardinality({g}) = 1 /\ {g} \in SUBSET Gids
  BY FS_Singleton
<1>2. <<g>> \in [1..1 -> {g}] /\ \A i, j \in 1..1 : i = j
  OBVIOUS
<1>3. <<g>> \in SetToSeqs({g})
  BY <1>1, <1>2 DEF SetToSeqs
<1> QED BY <1>1, <1>3, GidPrefix

\* Any order of a set of gids is a queue of them.
LEMMA GidOrder ==
    ASSUME NEW S \in SUBSET Gids, IsFiniteSet(S), NEW o \in SetToSeqs(S)
    PROVE  o \in Seq(Gids) /\ ToSet(o) = S /\ OnceIn(o)
<1>1. Cardinality(S) \in Nat /\ o \in [1..Cardinality(S) -> Gids]
  BY FS_CardinalityType DEF SetToSeqs
<1>2. o \in Seq(Gids)
  <2> DEFINE n == Cardinality(S)
  <2> HIDE DEF n
  <2>1. n \in Nat /\ o \in [1..n -> Gids]
    BY <1>1 DEF n
  <2> QED BY <2>1, SeqDef
<1>3. o \o <<>> = o
  BY <1>2, ConcatEmptySeq
<1>4. <<>> \in Seq(Gids) /\ ToSet(<<>>) = {} /\ OnceIn(<<>>)
  BY EmptySeq DEF ToSet, OnceIn
<1>5. PICK q \in Seq(Gids) : q = <<>>
  BY <1>4
<1>6. ToSet(q) = {} /\ OnceIn(q) /\ o \o q = o
  BY <1>3, <1>4, <1>5
<1>7. ToSet(o \o q) = ToSet(q) \cup S /\ OnceIn(o \o q)
  BY <1>6, GidPrefix
<1> QED BY <1>2, <1>6, <1>7

\* Taking the first or the last gid out of a queue.
LEMMA GidPop ==
    ASSUME NEW q \in Seq(Gids), q # <<>>
    PROVE  /\ Head(q) \in Gids /\ Head(q) \in ToSet(q) /\ Tail(q) \in Seq(Gids)
           /\ OnceIn(q) => ToSet(Tail(q)) = ToSet(q) \ {Head(q)} /\ OnceIn(Tail(q))
           /\ Last(q) \in Gids /\ Last(q) \in ToSet(q) /\ Front(q) \in Seq(Gids)
           /\ OnceIn(q) => ToSet(Front(q)) = ToSet(q) \ {Last(q)} /\ OnceIn(Front(q))
           /\ Len(q) = 1 <=> Front(q) = <<>>
<1>1. Len(q) \in Nat /\ Len(q) >= 1 /\ 1 \in 1..Len(q) /\ Len(q) \in 1..Len(q)
  BY LenProperties, EmptySeq
<1>2. Head(q) = q[1] /\ Tail(q) = SubSeq(q, 2, Len(q))
  BY TailIsSubSeq
<1>3. SubSeq(q, 1, 0) = <<>> /\ SubSeq(q, Len(q) + 1, Len(q)) = <<>>
  BY <1>1, SubSeqEmpty
<1>4. /\ SubSeq(q, 2, Len(q)) \in Seq(Gids)
      /\ SubSeq(q, 1, Len(q) - 1) \in Seq(Gids) /\ Len(SubSeq(q, 1, Len(q) - 1)) = Len(q) - 1
  <2>1. \A k \in 1..Len(q) : q[k] \in Gids
    BY ElementOfSeq
  <2>2. \A k \in 2..Len(q) : q[k] \in Gids
    BY <2>1
  <2>3. \A k \in 1..Len(q) - 1 : q[k] \in Gids
    BY <1>1, <2>1
  <2>4. SubSeq(q, 2, Len(q)) \in Seq(Gids)
    BY <1>1, <2>2, SubSeqProperties
  <2>5. SubSeq(q, 1, Len(q) - 1) \in Seq(Gids) /\ Len(SubSeq(q, 1, Len(q) - 1)) = Len(q) - 1
    <3> DEFINE n == Len(q) - 1
    <3>1. n \in Nat
      BY <1>1
    <3>2. \A k \in 1..n : q[k] \in Gids
      BY <2>3
    <3> HIDE DEF n
    <3>3. SubSeq(q, 1, n) \in Seq(Gids) /\ Len(SubSeq(q, 1, n)) = IF 1 <= n THEN n - 1 + 1 ELSE 0
      BY <3>1, <3>2, SubSeqProperties
    <3>4. SubSeq(q, 1, n) \in Seq(Gids) /\ Len(SubSeq(q, 1, n)) = n
      BY <3>1, <3>3
    <3> QED BY <3>4 DEF n
  <2> QED BY <2>4, <2>5
<1>5. RemoveAt(q, 1) = Tail(q)
  <2>1. RemoveAt(q, 1) = SubSeq(q, 1, 0) \o SubSeq(q, 2, Len(q))
    BY DEF RemoveAt
  <2> QED BY <1>2, <1>3, <1>4, <2>1, ConcatEmptySeq
<1>6. RemoveAt(q, Len(q)) = Front(q)
  <2>1. RemoveAt(q, Len(q)) = SubSeq(q, 1, Len(q) - 1) \o SubSeq(q, Len(q) + 1, Len(q))
    BY DEF RemoveAt
  <2> QED BY <1>3, <1>4, <2>1, ConcatEmptySeq DEF Front
<1>7. q[1] \in Gids /\ q[Len(q)] \in Gids /\ q[1] \in ToSet(q) /\ q[Len(q)] \in ToSet(q)
  BY <1>1, ElementOfSeq, GidSet
<1>8. Len(q) = 1 <=> Front(q) = <<>>
  <2>1. Front(q) \in Seq(Gids) /\ Len(Front(q)) = Len(q) - 1
    BY <1>4 DEF Front
  <2>2. Front(q) = <<>> => Len(Front(q)) = 0
    BY EmptySeq
  <2>3. Front(q) # <<>> => Len(Front(q)) \in Nat \ {0}
    BY <2>1, EmptySeq
  <2> QED BY <1>1, <2>1, <2>2, <2>3
<1> QED BY <1>1, <1>2, <1>5, <1>6, <1>7, <1>8, GidWithout DEF Last

-----------------------------------------------------------------------------
\* The stores and the operation that is under way.
StoreInv == ManTypeOK /\ moving \in Movement /\ Moves /\ Home

\* What the invariant says of the operation under way.
LEMMA MovementTypes ==
    ASSUME moving \in Movement
    PROVE  /\ moving.op \in Movements /\ moving.gid \in Gids \cup {NoGid}
           /\ moving.by \in {"nobody", "client", "command", "pass"}
           /\ moving.rest \in Seq(Gids) /\ moving.result \in ResultRecord \cup {NoResult}
           /\ \A g \in Gids \cup {NoGid}, rest \in Seq(Gids), op \in Movements :
                /\ [moving EXCEPT !.gid = g] \in Movement
                /\ [moving EXCEPT !.op = op] \in Movement
                /\ [moving EXCEPT !.gid = g, !.rest = rest] \in Movement
                /\ [moving EXCEPT !.rest = rest] \in Movement
                /\ [moving EXCEPT !.op = op, !.by = "pass", !.gid = g] \in Movement
BY DEF Movement

\* Nobody holds the lock: nothing is in transit, and a new operation is typed.
LEMMA Starting ==
    /\ Unlocked \in Movement
    /\ Unlocked.op = "none" /\ Unlocked.gid = NoGid /\ Unlocked.rest = <<>>
    /\ <<>> \in Seq(Gids) /\ ToSet(<<>>) = {} /\ OnceIn(<<>>)
    /\ \A g \in Gids \cup {NoGid}, rest \in Seq(Gids), op \in Movements,
          by \in {"client", "command", "pass"}, result \in ResultRecord \cup {NoResult} :
        /\ [Unlocked EXCEPT !.op = op, !.by = by, !.gid = g] \in Movement
        /\ [Unlocked EXCEPT !.op = op, !.by = by, !.rest = rest] \in Movement
        /\ [Unlocked EXCEPT !.op = op, !.by = by, !.gid = g, !.result = result] \in Movement
<1>1. <<>> \in Seq(Gids) /\ ToSet(<<>>) = {} /\ OnceIn(<<>>)
  BY EmptySeq DEF ToSet, OnceIn
<1>2. Unlocked \in Movement /\ Unlocked.op = "none" /\ Unlocked.gid = NoGid /\ Unlocked.rest = <<>>
  BY <1>1 DEF Unlocked, Movement, Movements
<1>3. ASSUME NEW g \in Gids \cup {NoGid}, NEW rest \in Seq(Gids), NEW op \in Movements,
             NEW by \in {"client", "command", "pass"}, NEW result \in ResultRecord \cup {NoResult}
      PROVE  /\ [Unlocked EXCEPT !.op = op, !.by = by, !.gid = g] \in Movement
             /\ [Unlocked EXCEPT !.op = op, !.by = by, !.rest = rest] \in Movement
             /\ [Unlocked EXCEPT !.op = op, !.by = by, !.gid = g, !.result = result] \in Movement
  <2> HIDE DEF Unlocked
  <2>1. [Unlocked EXCEPT !.op = op, !.by = by, !.gid = g] \in Movement
    BY <1>2 DEF Movement
  <2>2. [Unlocked EXCEPT !.op = op, !.by = by, !.rest = rest] \in Movement
    BY <1>2 DEF Movement
  <2>3. [Unlocked EXCEPT !.op = op, !.by = by, !.gid = g, !.result = result] \in Movement
    BY <1>2 DEF Movement
  <2> QED BY <2>1, <2>2, <2>3
<1> QED BY <1>1, <1>2, <1>3

\* Steps that move nobody.  A step of the engine that leaves a phase in which
\* an operation of its own is under way waits for the end of that.
Elsewhere ==
    \/ phase' = phase \/ EngineFree
    \/ phase \notin {"find", "last_find", "fill", "spawn"}
LEMMA NobodyMoves ==
    ASSUME StoreInv, group' \in [Gids -> GroupRecord], Elsewhere,
           UNCHANGED <<groups, active, reserved, max_concurrent, moving>>,
           stopped' = stopped \/ stopped' = [g \in Gids |-> NoResult]
    PROVE  StoreInv'
<1> USE DEF StoreInv
<1>1. ManTypeOK'
  BY DEF ManTypeOK
<1>2. Moves'
  BY DEF Moves, Elsewhere, EngineFree
<1>3. ReservedIds' = ReservedIds /\ InTransit' = InTransit
  BY DEF ReservedIds, InTransit
<1>4. \A g \in groups' : stopped'[g] = NoResult
  BY DEF Home, ManTypeOK
<1>5. Home'
  BY <1>3, <1>4 DEF Home
<1> QED BY <1>1, <1>2, <1>5

\* unregister_group takes the download out of the index.
LEMMA UnregisterMoves == ASSUME StoreInv, Unregister PROVE StoreInv'
<1> USE DEF StoreInv
<1>1. /\ moving.op = "unregister" /\ moving.gid \in Gids /\ moving.rest = <<>>
      /\ moving.result # NoResult
  BY MovementTypes DEF Unregister, Moves
<1>2. /\ moving' = [moving EXCEPT !.op = "record"] /\ groups' = groups \ {moving.gid}
      /\ UNCHANGED <<group, active, reserved, stopped, max_concurrent>>
  BY DEF Unregister
<1>3. /\ moving' \in Movement /\ moving'.op = "record" /\ moving'.gid = moving.gid
      /\ moving'.rest = <<>> /\ moving'.result = moving.result
  BY <1>1, <1>2 DEF Movement, Movements
<1>4. ReservedIds' = ReservedIds /\ InTransit = {moving.gid} /\ InTransit' = {}
  BY <1>1, <1>2, <1>3, ManagerAssumption DEF ReservedIds, InTransit
<1>5. ManTypeOK'
  BY <1>2 DEF ManTypeOK
<1>6. Moves'
  BY <1>1, <1>3, ManagerAssumption DEF Moves
<1>7. Home'
  BY <1>1, <1>2, <1>3, <1>4, Starting DEF Home
<1> QED BY <1>3, <1>5, <1>6, <1>7

\* record_stopped_result ends the operation.
LEMMA RecordMoves == ASSUME StoreInv, RecordStoppedResult PROVE StoreInv'
<1> USE DEF StoreInv
<1>1. /\ moving.op = "record" /\ moving.gid \in Gids /\ moving.result \in ResultRecord
      /\ moving.gid \notin groups
  BY MovementTypes DEF RecordStoppedResult, Moves, Home
<1>2. /\ moving' = Unlocked /\ stopped' = Record(stopped, moving.gid, moving.result)
      /\ UNCHANGED <<group, groups, active, reserved, max_concurrent>>
  BY DEF RecordStoppedResult
<1>3. stopped' \in [Gids -> ResultRecord \cup {NoResult}]
  BY <1>1, <1>2, RecordType DEF ManTypeOK
<1>4. \A g \in groups' : stopped'[g] = NoResult
  BY <1>1, <1>2 DEF Home, ManTypeOK, Record
<1>5. ReservedIds' = ReservedIds /\ InTransit = {} /\ InTransit' = {}
  BY <1>1, <1>2, Starting DEF ReservedIds, InTransit
<1>6. ManTypeOK'
  BY <1>2, <1>3 DEF ManTypeOK
<1>7. Moves'
  BY <1>2, Starting DEF Moves
<1>8. Home'
  BY <1>2, <1>4, <1>5, Starting, ManagerAssumption DEF Home
<1> QED BY <1>2, <1>6, <1>7, <1>8, Starting

\* A reserved download that is removed is in the hands of the operation.
LEMMA RemoveMoves ==
    ASSUME StoreInv, NEW g, NEW by \in {"client", "command"}, RemoveReserved(g, by)
    PROVE  StoreInv' /\ g \in Gids /\ active' = active
<1> USE DEF StoreInv
<1>1. PICK k \in 1..Len(reserved) : reserved[k] = g /\ reserved' = RemoveAt(reserved, k)
  BY DEF RemoveReserved
<1>2. /\ moving = Unlocked
      /\ group' = [group EXCEPT ![g] = MarkRemoved(@)]
      /\ moving' = [Unlocked EXCEPT !.op = "unregister", !.by = by, !.gid = g,
                                    !.result = DownloadResult(MarkRemoved(group[g]))]
      /\ UNCHANGED <<groups, active, stopped, max_concurrent>>
  BY DEF RemoveReserved, Leave, IsUnlocked
<1>3. g \in Gids /\ g \in ReservedIds /\ reserved \in Seq(Gids) /\ OnceIn(reserved)
  BY <1>1, ElementOfSeq, GidSet DEF ManTypeOK, Home, ReservedIds
<1>4. reserved' \in Seq(Gids) /\ OnceIn(reserved') /\ ReservedIds' = ReservedIds \ {g}
  BY <1>1, <1>3, GidWithout DEF ReservedIds
<1>5. MarkRemoved(group[g]) \in GroupRecord /\ group \in [Gids -> GroupRecord]
  BY <1>3, GroupTransitions DEF ManTypeOK
<1>6. DownloadResult(MarkRemoved(group[g])) \in ResultRecord
  BY <1>5, ResultType
<1>7. /\ moving' \in Movement /\ moving'.op = "unregister" /\ moving'.gid = g
      /\ moving'.rest = <<>> /\ moving'.result # NoResult
  <2>1. moving' \in Movement
    BY <1>2, <1>3, <1>6, Starting DEF Movements
  <2> QED BY <1>2, <1>6, <2>1, ManagerAssumption DEF Unlocked
<1>8. InTransit = {} /\ InTransit' = {g}
  BY <1>2, <1>3, <1>7, Starting, ManagerAssumption DEF InTransit
<1>9. group' \in [Gids -> GroupRecord]
  BY <1>2, <1>3, <1>5
<1>10. ManTypeOK'
  BY <1>2, <1>4, <1>9 DEF ManTypeOK
<1>11. Moves'
  BY <1>3, <1>7, ManagerAssumption DEF Moves
<1>12. Home'
  BY <1>2, <1>3, <1>4, <1>7, <1>8, Starting DEF Home
<1> QED BY <1>2, <1>3, <1>7, <1>10, <1>11, <1>12

\* add_group_with_gid, in its two steps.
LEMMA AddMoves ==
    ASSUME StoreInv, NEW g \in Gids, AddRegister(g) \/ AddQueue
    PROVE  StoreInv'
<1> USE DEF StoreInv
<1>1. CASE AddRegister(g)
  <2>1. /\ moving = Unlocked /\ g \notin groups /\ stopped[g] = NoResult
        /\ groups' = groups \cup {g}
        /\ moving' = [Unlocked EXCEPT !.op = "add", !.by = "client", !.gid = g]
        /\ UNCHANGED <<group, active, reserved, stopped, max_concurrent>>
    BY <1>1 DEF AddRegister, IsUnlocked, Fresh, Live
  <2>2. /\ moving' \in Movement /\ moving'.op = "add" /\ moving'.gid = g
        /\ moving'.rest = <<>> /\ g # NoGid
    BY <2>1, Starting, ManagerAssumption DEF Movements, Unlocked
  <2>3. ReservedIds' = ReservedIds /\ InTransit = {} /\ InTransit' = {g}
    BY <2>1, <2>2, Starting DEF InTransit, ReservedIds
  <2>4. ManTypeOK'
    BY <2>1 DEF ManTypeOK
  <2>5. Moves'
    BY <2>2 DEF Moves
  <2>6. Home'
    BY <2>1, <2>2, <2>3, Starting DEF Home
  <2> QED BY <2>2, <2>4, <2>5, <2>6
<1>2. CASE AddQueue
  <2> DEFINE h == moving.gid
  <2>1. /\ moving.op = "add" /\ h \in Gids /\ h # NoGid /\ moving' = Unlocked
        /\ reserved' = Append(reserved, h)
        /\ UNCHANGED <<group, groups, active, stopped, max_concurrent>>
    BY <1>2, MovementTypes DEF AddQueue, Moves
  <2>2. InTransit = {h} /\ InTransit' = {}
    BY <2>1, Starting DEF InTransit
  <2>3. /\ reserved' \in Seq(Gids) /\ ReservedIds' = ReservedIds \cup {h}
        /\ OnceIn(reserved')
    BY <2>1, <2>2, GidAppend DEF ManTypeOK, Home, ReservedIds
  <2>4. ManTypeOK'
    BY <2>1, <2>3 DEF ManTypeOK
  <2>5. Moves'
    BY <2>1, Starting DEF Moves
  <2>6. Home'
    BY <2>1, <2>2, <2>3, Starting DEF Home
  <2> QED BY <2>1, <2>4, <2>5, <2>6, Starting
<1> QED BY <1>1, <1>2

\* demote_group takes the group out of the active map.
LEMMA DemoteMoves ==
    ASSUME StoreInv, NEW e \in [gid : Gids, result : ResultRecord], e.gid \in active,
           Demote(e)
    PROVE  StoreInv'
<1> USE DEF StoreInv
<1> DEFINE g == e.gid
<1>1. PICK r : /\ r = IF group[g].status = "Complete" THEN DownloadResult(group[g]) ELSE e.result
               /\ moving = Unlocked
               /\ moving' = [Unlocked EXCEPT !.op = "unregister", !.by = "pass", !.gid = g, !.result = r]
               /\ active' = active \ {g}
               /\ UNCHANGED <<group, groups, reserved, stopped, max_concurrent>>
  BY DEF Demote, Leave, IsUnlocked
<1>2. g \in Gids /\ g # NoGid /\ r \in ResultRecord
  BY <1>1, ResultType, ManagerAssumption DEF ManTypeOK
<1>3. /\ moving' \in Movement /\ moving'.op = "unregister" /\ moving'.gid = g
      /\ moving'.rest = <<>> /\ moving'.result # NoResult
  <2>1. moving' \in Movement
    BY <1>1, <1>2, Starting DEF Movements
  <2> QED BY <1>1, <1>2, <2>1, ManagerAssumption DEF Unlocked
<1>4. ReservedIds' = ReservedIds /\ InTransit = {} /\ InTransit' = {g}
  BY <1>1, <1>2, <1>3, Starting DEF InTransit, ReservedIds
<1>5. ManTypeOK'
  BY <1>1 DEF ManTypeOK
<1>6. Moves'
  BY <1>2, <1>3 DEF Moves
<1>7. Home'
  BY <1>1, <1>2, <1>3, <1>4, Starting DEF Home
<1> QED BY <1>3, <1>5, <1>6, <1>7

\* requeue_non_terminal_groups: a group is in the hands of the operation between
\* the active map and the front of the queue.
LEMMA RequeueMoves ==
    ASSUME StoreInv, RequeueBegin \/ RequeueTake \/ RequeuePut
    PROVE  StoreInv'
<1> USE DEF StoreInv
<1>0. /\ group \in [Gids -> GroupRecord] /\ active \subseteq Gids /\ reserved \in Seq(Gids)
      /\ moving.gid \in Gids \cup {NoGid} /\ moving.rest \in Seq(Gids) /\ NoGid \notin Gids
  BY MovementTypes, ManagerAssumption DEF ManTypeOK
<1>1. CASE RequeueBegin
  <2>1. PICK o \in SetToSeqs(Requeueable) :
          moving' = IF o = <<>> THEN Unlocked
                    ELSE [Unlocked EXCEPT !.op = "requeue", !.by = "pass", !.rest = o]
    BY <1>1 DEF RequeueBegin
  <2>2. /\ moving = Unlocked /\ phase' \in {"find", "last_find"}
        /\ UNCHANGED <<group, groups, active, reserved, stopped, max_concurrent>>
    BY <1>1 DEF RequeueBegin, IsUnlocked, GoTo, manVars
  <2>3. Requeueable \in SUBSET Gids /\ IsFiniteSet(Requeueable) /\ Requeueable \subseteq active
    BY <1>0, FS_Subset, ManagerAssumption DEF Requeueable
  <2>4. o \in Seq(Gids) /\ ToSet(o) = Requeueable /\ OnceIn(o)
    BY <2>3, GidOrder
  <2>5. /\ moving' \in Movement /\ moving'.gid = NoGid /\ ToSet(moving'.rest) \subseteq active
        /\ OnceIn(moving'.rest) /\ moving'.op \in {"none", "requeue"}
        /\ moving'.op = "none" => moving' = Unlocked
        /\ moving'.op = "requeue" => moving'.by = "pass" /\ moving'.rest # <<>>
    <3>1. CASE o = <<>>
      BY <2>1, <3>1, Starting
    <3>2. CASE o # <<>>
      <4>1. moving' = [Unlocked EXCEPT !.op = "requeue", !.by = "pass", !.rest = o]
        BY <2>1, <3>2
      <4>2. moving' \in Movement
        BY <2>4, <4>1, Starting DEF Movements
      <4> QED BY <2>3, <2>4, <3>2, <4>1, <4>2 DEF Unlocked
    <3> QED BY <3>1, <3>2
  <2>6. ReservedIds' = ReservedIds /\ InTransit = {} /\ InTransit' = {}
    BY <2>2, <2>5, Starting DEF ReservedIds, InTransit
  <2>7. moving'.gid \notin ToSet(moving'.rest)
    BY <1>0, <2>5
  <2>8. Moves'
    BY <2>2, <2>5 DEF Moves
  <2>9. Home'
    BY <2>2, <2>5, <2>6, <2>7 DEF Home
  <2> QED BY <2>2, <2>5, <2>8, <2>9 DEF ManTypeOK
<1>2. CASE RequeueTake
  <2> DEFINE g == Head(moving.rest)
             rest == Tail(moving.rest)
  <2>1. /\ moving.op = "requeue" /\ moving.gid = NoGid /\ moving.rest # <<>>
        /\ moving.by = "pass" /\ phase \in {"find", "last_find"}
        /\ ToSet(moving.rest) \subseteq active /\ OnceIn(moving.rest)
    BY <1>2 DEF RequeueTake, Moves, Home
  <2>2. /\ active' = active \ {g} /\ group' = [group EXCEPT ![g] = Requeued(@)]
        /\ moving' = [moving EXCEPT !.gid = g, !.rest = rest] /\ phase' = phase
        /\ UNCHANGED <<groups, reserved, stopped, max_concurrent>>
    BY <1>2 DEF RequeueTake, engineVars
  <2>3. /\ g \in Gids /\ g \in ToSet(moving.rest) /\ rest \in Seq(Gids)
        /\ ToSet(rest) = ToSet(moving.rest) \ {g} /\ OnceIn(rest)
    BY <1>0, <2>1, GidPop
  <2> HIDE DEF g, rest
  <2>4. /\ moving' \in Movement /\ moving'.op = "requeue" /\ moving'.gid = g
        /\ moving'.rest = rest /\ moving'.by = "pass"
    <3>1. moving' \in Movement
      BY <2>2, <2>3, MovementTypes
    <3> QED BY <2>1, <2>2, <3>1 DEF Movement
  <2>5. group' \in [Gids -> GroupRecord]
    <3>1. Requeued(group[g]) \in GroupRecord
      BY <1>0, <2>3, GroupTransitions
    <3> QED BY <1>0, <2>2, <2>3, <3>1
  <2>6. ReservedIds' = ReservedIds /\ InTransit = {} /\ InTransit' = {g}
    BY <1>0, <2>1, <2>2, <2>3, <2>4 DEF ReservedIds, InTransit
  <2>7. ManTypeOK'
    BY <2>2, <2>5 DEF ManTypeOK
  <2>8. Moves'
    BY <1>0, <2>1, <2>2, <2>3, <2>4 DEF Moves
  <2>9. Home'
    BY <2>1, <2>2, <2>3, <2>4, <2>6 DEF Home
  <2> QED BY <2>4, <2>7, <2>8, <2>9
<1>3. CASE RequeuePut
  <2> DEFINE g == moving.gid
  <2>1. /\ moving.op = "requeue" /\ g # NoGid /\ g \in Gids
        /\ moving.by = "pass" /\ phase \in {"find", "last_find"}
        /\ ToSet(moving.rest) \subseteq active /\ OnceIn(moving.rest)
    BY <1>0, <1>3 DEF RequeuePut, Moves, Home
  <2>2. /\ reserved' = <<g>> \o reserved /\ phase' = phase
        /\ moving' = IF moving.rest = <<>> THEN Unlocked ELSE [moving EXCEPT !.gid = NoGid]
        /\ UNCHANGED <<group, groups, active, stopped, max_concurrent>>
    BY <1>3 DEF RequeuePut, engineVars
  <2>3. InTransit = {g} /\ g \notin active /\ g \notin ReservedIds /\ OnceIn(reserved)
    BY <2>1 DEF InTransit, Home
  <2>4. reserved' \in Seq(Gids) /\ ReservedIds' = ReservedIds \cup {g} /\ OnceIn(reserved')
    BY <1>0, <2>1, <2>2, <2>3, GidPush DEF ReservedIds
  <2>5. /\ moving' \in Movement /\ moving'.gid = NoGid /\ ToSet(moving'.rest) \subseteq active
        /\ OnceIn(moving'.rest) /\ moving'.op \in {"none", "requeue"}
        /\ moving'.op = "none" => moving' = Unlocked
        /\ moving'.op = "requeue" => moving'.by = "pass" /\ moving'.rest # <<>>
    <3>1. CASE moving.rest = <<>>
      BY <2>2, <3>1, Starting
    <3>2. CASE moving.rest # <<>>
      <4>1. moving' = [moving EXCEPT !.gid = NoGid]
        BY <2>2, <3>2
      <4>2. moving' \in Movement
        BY <1>0, <4>1, MovementTypes
      <4> QED BY <2>1, <3>2, <4>1, <4>2 DEF Movement
    <3> QED BY <3>1, <3>2
  <2>6. InTransit' = {}
    BY <2>5, Starting DEF InTransit
  <2>7. ManTypeOK'
    BY <2>2, <2>4 DEF ManTypeOK
  <2>8. moving'.gid \notin ToSet(moving'.rest)
    BY <1>0, <2>5
  <2>9. Moves'
    BY <2>1, <2>2, <2>5 DEF Moves
  <2>10. Home'
    BY <2>2, <2>3, <2>4, <2>5, <2>6, <2>8 DEF Home
  <2> QED BY <2>5, <2>7, <2>9, <2>10
<1> QED BY <1>1, <1>2, <1>3

\* fill_from_reserver: the entry that was popped and those set aside are in the
\* hands of the operation until they are placed.
LEMMA FillMoves ==
    ASSUME StoreInv, FillPop \/ FillPlace \/ FillEnds \/ PutBack
    PROVE  StoreInv'
<1> USE DEF StoreInv
<1>0. /\ group \in [Gids -> GroupRecord] /\ active \subseteq Gids /\ reserved \in Seq(Gids)
      /\ moving.gid \in Gids \cup {NoGid} /\ moving.rest \in Seq(Gids) /\ NoGid \notin Gids
      /\ OnceIn(reserved) /\ OnceIn(moving.rest)
  BY MovementTypes, ManagerAssumption DEF ManTypeOK, Home
<1>1. CASE FillPop
  <2> DEFINE g == Head(reserved)
  <2>1. /\ reserved # <<>> /\ phase = "fill" /\ moving.gid = NoGid
        /\ moving = Unlocked \/ moving.op = "fill"
    BY <1>1, Starting DEF FillPop, IsUnlocked
  <2>2. /\ reserved' = Tail(reserved) /\ phase' = phase
        /\ moving' = [moving EXCEPT !.op = "fill", !.by = "pass", !.gid = g]
        /\ UNCHANGED <<group, groups, active, stopped, max_concurrent>>
    BY <1>1 DEF FillPop, engineVars
  <2>3. /\ g \in Gids /\ g \in ReservedIds /\ reserved' \in Seq(Gids)
        /\ ReservedIds' = ReservedIds \ {g} /\ OnceIn(reserved')
    BY <1>0, <2>1, <2>2, GidPop DEF ReservedIds
  <2> HIDE DEF g
  <2>4. /\ moving' \in Movement /\ moving'.op = "fill" /\ moving'.gid = g
        /\ moving'.rest = moving.rest /\ moving'.by = "pass"
    <3>1. moving' \in Movement
      BY <2>2, <2>3, MovementTypes DEF Movements
    <3> QED BY <2>2, <3>1 DEF Movement
  <2>5. InTransit = ToSet(moving.rest) /\ InTransit' = ToSet(moving.rest) \cup {g}
    <3>1. InTransit' = ToSet(moving.rest) \cup {g}
      BY <1>0, <2>3, <2>4 DEF InTransit
    <3>2. CASE moving = Unlocked
      BY <3>1, <3>2, Starting DEF InTransit
    <3>3. CASE moving.op = "fill"
      BY <2>1, <3>1, <3>3 DEF InTransit
    <3> QED BY <2>1, <3>2, <3>3
  <2>6. ManTypeOK'
    BY <2>2, <2>3 DEF ManTypeOK
  <2>7. Moves'
    BY <2>1, <2>2, <2>4 DEF Moves
  <2>8. g \notin ToSet(moving.rest)
    BY <2>3, <2>5 DEF Home
  <2>9. Home'
    BY <1>0, <2>2, <2>3, <2>4, <2>5, <2>8 DEF Home
  <2> QED BY <2>4, <2>6, <2>7, <2>9
<1>2. CASE FillPlace
  <2> DEFINE g == moving.gid
  <2>1. /\ moving.op = "fill" /\ g \in Gids /\ g # NoGid /\ phase = "fill" /\ moving.by = "pass"
        /\ phase' = phase
    BY <1>0, <1>2 DEF FillPlace, Moves
  <2>2. /\ InTransit = ToSet(moving.rest) \cup {g} /\ g \notin ToSet(moving.rest)
        /\ g \notin active /\ g \notin ReservedIds
    BY <2>1 DEF InTransit, Home
  <2>3. UNCHANGED <<groups, reserved, stopped, max_concurrent>> /\ ReservedIds' = ReservedIds
    BY <1>2 DEF FillPlace, ReservedIds
  <2>4. CASE Promotable(g)
    <3>1. /\ group' = [group EXCEPT ![g] = Promoted(@)] /\ active' = active \cup {g}
          /\ moving' = [moving EXCEPT !.gid = NoGid]
      BY <1>2, <2>4 DEF FillPlace
    <3>2. Promoted(group[g]) \in GroupRecord
      BY <1>0, <2>1, GroupTransitions
    <3>3. group' \in [Gids -> GroupRecord]
      BY <1>0, <2>1, <3>1, <3>2
    <3>4. /\ moving' \in Movement /\ moving'.op = "fill" /\ moving'.gid = NoGid
          /\ moving'.rest = moving.rest /\ moving'.by = "pass"
      <4>1. moving' \in Movement
        BY <1>0, <3>1, MovementTypes
      <4> QED BY <2>1, <3>1, <4>1 DEF Movement
    <3>5. InTransit' = ToSet(moving.rest)
      BY <3>4 DEF InTransit
    <3>6. ManTypeOK'
      BY <2>1, <2>3, <3>1, <3>3 DEF ManTypeOK
    <3>7. Moves'
      BY <2>1, <3>4 DEF Moves
    <3>8. NoGid \notin ToSet(moving.rest)
      BY <1>0, <2>2 DEF Home, ManTypeOK
    <3>9. Home'
      BY <2>2, <2>3, <3>1, <3>4, <3>5, <3>8 DEF Home
    <3> QED BY <3>4, <3>6, <3>7, <3>9
  <2>5. CASE ~Promotable(g)
    <3>1. /\ UNCHANGED <<group, active>>
          /\ moving' = [moving EXCEPT !.gid = NoGid, !.rest = Append(moving.rest, g)]
      BY <1>2, <2>5 DEF FillPlace
    <3>2. /\ Append(moving.rest, g) \in Seq(Gids) /\ OnceIn(Append(moving.rest, g))
          /\ ToSet(Append(moving.rest, g)) = ToSet(moving.rest) \cup {g}
      BY <1>0, <2>1, <2>2, GidAppend
    <3>3. /\ moving' \in Movement /\ moving'.op = "fill" /\ moving'.gid = NoGid
          /\ moving'.rest = Append(moving.rest, g) /\ moving'.by = "pass"
      <4>1. moving' \in Movement
        BY <3>1, <3>2, MovementTypes
      <4> QED BY <2>1, <3>1, <4>1 DEF Movement
    <3>4. InTransit' = ToSet(moving.rest) \cup {g}
      BY <3>2, <3>3 DEF InTransit
    <3>5. ManTypeOK'
      BY <2>3, <3>1 DEF ManTypeOK
    <3>6. Moves'
      BY <2>1, <3>3 DEF Moves
    <3>7. NoGid \notin ToSet(moving.rest) \cup {g}
      BY <1>0, <2>1, <2>2 DEF Home, ManTypeOK
    <3>8. Home'
      BY <2>2, <2>3, <3>1, <3>2, <3>3, <3>4, <3>7 DEF Home
    <3> QED BY <3>3, <3>5, <3>6, <3>8
  <2> QED BY <2>4, <2>5
<1>3. CASE FillEnds
  <2>1. /\ moving.gid = NoGid
        /\ moving = Unlocked \/ moving.op = "fill"
        /\ moving' = IF moving.rest = <<>> THEN Unlocked ELSE [moving EXCEPT !.op = "put_back"]
        /\ phase' = "spawn"
        /\ UNCHANGED <<group, groups, active, reserved, stopped, max_concurrent>>
    BY <1>3, Starting DEF FillEnds, IsUnlocked, GoTo, manVars
  <2>2. InTransit = ToSet(moving.rest) /\ ReservedIds' = ReservedIds
    BY <2>1, Starting DEF InTransit, ReservedIds
  <2>3. CASE moving.rest = <<>>
    <3>1. moving' = Unlocked /\ InTransit = {} /\ InTransit' = {}
      BY <2>1, <2>2, <2>3, Starting DEF InTransit
    <3>2. ManTypeOK' /\ Moves'
      BY <2>1, <3>1, Starting DEF ManTypeOK, Moves
    <3>3. Home'
      BY <2>1, <2>2, <3>1, Starting DEF Home
    <3> QED BY <3>1, <3>2, <3>3, Starting
  <2>4. CASE moving.rest # <<>>
    <3>0. moving.op = "fill" /\ moving.by = "pass"
      BY <2>1, <2>4, Starting DEF Moves
    <3>1. /\ moving' \in Movement /\ moving'.op = "put_back" /\ moving'.gid = NoGid
          /\ moving'.rest = moving.rest /\ moving'.by = "pass"
      <4>1. moving' = [moving EXCEPT !.op = "put_back"]
        BY <2>1, <2>4
      <4>2. moving' \in Movement
        BY <4>1, MovementTypes DEF Movements
      <4> QED BY <2>1, <3>0, <4>1, <4>2 DEF Movement
    <3>2. InTransit' = ToSet(moving.rest)
      BY <3>1 DEF InTransit
    <3>3. ManTypeOK' /\ Moves'
      BY <2>1, <2>4, <3>1 DEF ManTypeOK, Moves
    <3>4. Home'
      BY <2>1, <2>2, <3>1, <3>2 DEF Home
    <3> QED BY <3>1, <3>3, <3>4
  <2> QED BY <2>3, <2>4
<1>4. CASE PutBack
  <2> DEFINE g == Last(moving.rest)
             rest == Front(moving.rest)
  <2>1. /\ moving.op = "put_back" /\ moving.gid = NoGid /\ moving.rest # <<>>
        /\ moving.by = "pass" /\ phase = "spawn" /\ phase' = phase
    BY <1>4 DEF PutBack, Moves, engineVars
  <2>2. /\ reserved' = <<g>> \o reserved
        /\ moving' = IF Len(moving.rest) = 1 THEN Unlocked ELSE [moving EXCEPT !.rest = rest]
        /\ UNCHANGED <<group, groups, active, stopped, max_concurrent>>
    BY <1>4 DEF PutBack
  <2>3. /\ g \in Gids /\ g \in ToSet(moving.rest) /\ rest \in Seq(Gids)
        /\ ToSet(rest) = ToSet(moving.rest) \ {g} /\ OnceIn(rest)
        /\ Len(moving.rest) = 1 <=> rest = <<>>
    BY <1>0, <2>1, GidPop
  <2> HIDE DEF g, rest
  <2>4. InTransit = ToSet(moving.rest) /\ g \notin active /\ g \notin ReservedIds
    BY <2>1, <2>3 DEF InTransit, Home
  <2>5. reserved' \in Seq(Gids) /\ ReservedIds' = ReservedIds \cup {g} /\ OnceIn(reserved')
    BY <1>0, <2>2, <2>3, <2>4, GidPush DEF ReservedIds
  <2>6. ManTypeOK'
    BY <2>2, <2>5 DEF ManTypeOK
  <2>7. CASE rest = <<>>
    <3>1. moving' = Unlocked /\ InTransit = {g} /\ InTransit' = {}
      BY <2>2, <2>3, <2>4, <2>7, Starting DEF InTransit
    <3>2. Moves'
      BY <3>1, Starting DEF Moves
    <3>3. Home'
      BY <2>2, <2>4, <2>5, <3>1, Starting DEF Home
    <3> QED BY <2>6, <3>1, <3>2, <3>3, Starting
  <2>8. CASE rest # <<>>
    <3>1. /\ moving' \in Movement /\ moving'.op = "put_back" /\ moving'.gid = NoGid
          /\ moving'.rest = rest /\ moving'.by = "pass"
      <4>1. moving' = [moving EXCEPT !.rest = rest]
        BY <2>2, <2>3, <2>8
      <4>2. moving' \in Movement
        BY <2>3, <4>1, MovementTypes
      <4> QED BY <2>1, <4>1, <4>2 DEF Movement
    <3>2. InTransit' = ToSet(rest)
      BY <3>1 DEF InTransit
    <3>3. Moves'
      BY <2>1, <2>8, <3>1 DEF Moves
    <3>4. NoGid \notin ToSet(rest)
      BY <2>1, <2>3 DEF Home
    <3>5. Home'
      BY <2>2, <2>3, <2>4, <2>5, <3>1, <3>2, <3>4 DEF Home
    <3> QED BY <2>6, <3>1, <3>3, <3>5
  <2> QED BY <2>7, <2>8
<1> QED BY <1>1, <1>2, <1>3, <1>4


-----------------------------------------------------------------------------
\* The commands of the downloads.
SameCommands == \A g \in Gids : group'[g].commands = group[g].commands

\* Steps that start and end no command and leave the active map alone.
LEMMA AccountKept ==
    ASSUME Account, SameCommands, UNCHANGED <<active, taskVars, promoted, found>>,
           phase' = phase \/ (found = {} /\ (promoted = <<>> \/ phase' = "spawn")),
           \/ moving' = moving \/ moving'.op # "requeue"
           \/ moving.op = "requeue" /\ ToSet(moving'.rest) \subseteq ToSet(moving.rest)
    PROVE  Account'
<1>1. Running' = Running /\ tasks' = tasks /\ completions' = completions
  BY DEF Running, taskVars
<1>2. moving'.op = "requeue" => ToSet(moving'.rest) \cap Running = {}
  BY DEF Account
<1>3. promoted' # <<>> => phase' \in {"fill", "spawn"}
  BY DEF Account
<1>4. found' # {} => phase' \in {"demote", "last_demote"}
  BY DEF Account
<1> QED BY <1>1, <1>2, <1>3, <1>4 DEF Account, SameCommands

\* A step that only marks records, or the phase of the engine.
LEMMA QuietStep ==
    ASSUME StoreInv, Account, group' \in [Gids -> GroupRecord], SameCommands, Elsewhere,
           UNCHANGED <<groups, active, reserved, max_concurrent, moving, taskVars, found, promoted>>,
           stopped' = stopped \/ stopped' = [g \in Gids |-> NoResult],
           phase' = phase \/ (found = {} /\ promoted = <<>>)
    PROVE  StoreInv' /\ Account'
BY NobodyMoves, AccountKept

\* The marks of clients and commands count nothing and move nobody.
LEMMA Marks ==
    ASSUME ManTypeOK, NEW g,
           \/ PauseGroup(g) \/ UnpauseGroup(g) \/ HaltAll("ShutdownSignal")
           \/ g \in active /\ RemoveGroup(g)
    PROVE  /\ group' \in [Gids -> GroupRecord] /\ SameCommands
           /\ UNCHANGED <<groups, active, reserved, stopped, max_concurrent>>
<1>1. group \in [Gids -> GroupRecord]
  BY DEF ManTypeOK
<1>2. \A h \in Gids : /\ Pause(group[h]) \in GroupRecord /\ Resume(group[h]) \in GroupRecord
                      /\ \A reason \in HaltReasons : RequestHalt(group[h], reason) \in GroupRecord
  BY <1>1, GroupTransitions
<1>3. \A h \in Gids : /\ Pause(group[h]).commands = group[h].commands
                      /\ Resume(group[h]).commands = group[h].commands
                      /\ \A reason : RequestHalt(group[h], reason).commands = group[h].commands
  BY <1>1, GentleTransitions DEF Gentle
<1>4. CASE PauseGroup(g)
  BY <1>1, <1>2, <1>3, <1>4 DEF PauseGroup, Apply, SameCommands
<1>5. CASE UnpauseGroup(g)
  BY <1>1, <1>2, <1>3, <1>5 DEF UnpauseGroup, Apply, SameCommands
<1>6. CASE HaltAll("ShutdownSignal")
  <2>1. "ShutdownSignal" \in HaltReasons
    BY DEF HaltReasons
  <2> QED BY <1>1, <1>2, <1>3, <1>6, <2>1 DEF HaltAll, Apply, SameCommands
<1>7. CASE g \in active /\ RemoveGroup(g)
  <2>1. "UserRequest" \in HaltReasons
    BY DEF HaltReasons
  <2>2. /\ group' = [group EXCEPT ![g] = RequestHalt(@, "UserRequest")] /\ g \in Gids
        /\ UNCHANGED <<groups, active, reserved, stopped, max_concurrent>>
    BY <1>7 DEF RemoveGroup, ManTypeOK
  <2> QED BY <1>1, <1>2, <1>3, <2>1, <2>2 DEF SameCommands
<1> QED BY <1>4, <1>5, <1>6, <1>7

\* Taking a reserved download away, and adding one, count nothing.
LEMMA StoresKeepAccounts ==
    ASSUME StoreInv, Account, UNCHANGED <<phase, taskVars, promoted, found>>,
           \/ \E g, by : RemoveReserved(g, by)
           \/ \E g \in Gids : AddRegister(g)
           \/ AddQueue \/ Unregister \/ RecordStoppedResult
    PROVE  Account'
<1> USE DEF StoreInv
<1>1. CASE \E g, by : RemoveReserved(g, by)
  <2>1. PICK g, by : RemoveReserved(g, by)
    BY <1>1
  <2>2. g \in Gids
    <3>1. PICK k \in 1..Len(reserved) : reserved[k] = g
      BY <2>1 DEF RemoveReserved
    <3> QED BY <3>1, ElementOfSeq DEF ManTypeOK
  <2>3. group' = [group EXCEPT ![g] = MarkRemoved(@)] /\ active' = active
    BY <2>1 DEF RemoveReserved
  <2>4. SameCommands
    BY <2>2, <2>3, GentleTransitions DEF ManTypeOK, SameCommands
  <2>5. moving'.op = "unregister"
    BY <2>1, Starting DEF RemoveReserved, Leave, Unlocked
  <2> QED BY <2>3, <2>4, <2>5, AccountKept
<1>2. CASE \E g \in Gids : AddRegister(g)
  <2>1. group' = group /\ active' = active /\ moving'.op = "add"
    BY <1>2 DEF AddRegister, Unlocked
  <2> QED BY <2>1, AccountKept DEF SameCommands
<1>3. CASE AddQueue
  <2>1. group' = group /\ active' = active /\ moving'.op = "none"
    BY <1>3 DEF AddQueue, Unlocked
  <2> QED BY <2>1, AccountKept DEF SameCommands
<1>4. CASE Unregister
  <2>1. group' = group /\ active' = active /\ moving'.op = "record"
    BY <1>4 DEF Unregister, Movement
  <2> QED BY <2>1, AccountKept DEF SameCommands
<1>5. CASE RecordStoppedResult
  <2>1. group' = group /\ active' = active /\ moving'.op = "none"
    BY <1>5 DEF RecordStoppedResult, Unlocked
  <2> QED BY <2>1, AccountKept DEF SameCommands
<1> QED BY <1>1, <1>2, <1>3, <1>4, <1>5

\* What is requeued has no command.
LEMMA RequeueAccount ==
    ASSUME StoreInv, Account, RequeueBegin \/ RequeueTake \/ RequeuePut
    PROVE  Account'
<1> USE DEF StoreInv
<1>1. CASE RequeueBegin
  <2>1. PICK o \in SetToSeqs(Requeueable) :
          moving' = IF o = <<>> THEN Unlocked
                    ELSE [Unlocked EXCEPT !.op = "requeue", !.by = "pass", !.rest = o]
    BY <1>1 DEF RequeueBegin
  <2>2. /\ phase \in {"requeue", "last_requeue"} /\ phase' \in {"find", "last_find"}
        /\ UNCHANGED <<group, active, taskVars, promoted, found>>
    BY <1>1 DEF RequeueBegin, GoTo, manVars, KeepEngine
  <2>3. Requeueable \in SUBSET Gids /\ IsFiniteSet(Requeueable)
    BY FS_Subset, ManagerAssumption DEF Requeueable, ManTypeOK
  <2>4. ToSet(o) = Requeueable
    BY <2>3, GidOrder
  <2>5. Requeueable \cap Running = {}
    BY <2>3 DEF Requeueable, Account
  <2>6. moving'.op = "requeue" => ToSet(moving'.rest) \cap Running = {}
    BY <2>1, <2>4, <2>5 DEF Unlocked
  <2>7. Running' = Running /\ tasks' = tasks /\ completions' = completions
    BY <2>2 DEF Running, taskVars
  <2> QED BY <2>2, <2>6, <2>7 DEF Account
<1>2. CASE RequeueTake
  <2> DEFINE g == Head(moving.rest)
             rest == Tail(moving.rest)
  <2>1. /\ moving.op = "requeue" /\ moving.gid = NoGid /\ moving.rest # <<>>
        /\ phase \in {"find", "last_find"} /\ OnceIn(moving.rest) /\ moving.rest \in Seq(Gids)
        /\ ToSet(moving.rest) \cap Running = {} /\ promoted = <<>> /\ found = {}
    BY <1>2, MovementTypes DEF RequeueTake, Moves, Home, Account
  <2>2. /\ active' = active \ {g} /\ group' = [group EXCEPT ![g] = Requeued(@)]
        /\ moving' = [moving EXCEPT !.gid = g, !.rest = rest]
        /\ UNCHANGED <<phase, taskVars, promoted, found>>
    BY <1>2 DEF RequeueTake, engineVars
  <2>3. g \in Gids /\ g \in ToSet(moving.rest) /\ ToSet(rest) = ToSet(moving.rest) \ {g}
    BY <2>1, GidPop
  <2> HIDE DEF g, rest
  <2>4. moving'.rest = rest
    BY <2>2 DEF Movement
  <2>5. SameCommands
    BY <2>2, <2>3, GentleTransitions DEF ManTypeOK, SameCommands
  <2>6. Running' = Running /\ tasks' = tasks /\ completions' = completions
    BY <2>2 DEF Running, taskVars
  <2>7. promoted' = <<>> /\ ToSet(promoted') = {}
    BY <2>1, <2>2, Starting
  <2> QED BY <2>1, <2>2, <2>3, <2>4, <2>5, <2>6, <2>7 DEF Account, SameCommands
<1>3. CASE RequeuePut
  <2>1. /\ moving.op = "requeue" /\ UNCHANGED <<group, active, phase, taskVars, promoted, found>>
        /\ moving' = IF moving.rest = <<>> THEN Unlocked ELSE [moving EXCEPT !.gid = NoGid]
    BY <1>3 DEF RequeuePut, engineVars
  <2>2. moving'.op # "requeue" \/ moving'.rest = moving.rest
    BY <2>1 DEF Unlocked, Movement
  <2> QED BY <2>1, <2>2, AccountKept DEF SameCommands
<1> QED BY <1>1, <1>2, <1>3

\* What is promoted was not active, and has no command yet.
LEMMA FillAccount ==
    ASSUME StoreInv, Account, promoted \in Seq(Gids), FillPop \/ FillPlace \/ FillEnds \/ PutBack
    PROVE  Account'
<1> USE DEF StoreInv
<1>1. CASE FillPop \/ FillEnds \/ PutBack
  <2>1. /\ UNCHANGED <<group, active, taskVars, promoted, found>>
        /\ phase' = phase \/ (phase = "fill" /\ phase' = "spawn")
    BY <1>1 DEF FillPop, FillEnds, PutBack, engineVars, KeepEngine, manVars, GoTo
  <2>2. moving'.op # "requeue"
    <3>1. CASE FillPop
      BY <3>1 DEF FillPop, Movement, IsUnlocked
    <3>2. CASE FillEnds
      <4>1. moving.op \in {"none", "fill"}
        BY <3>2, Starting DEF FillEnds, IsUnlocked
      <4> QED BY <3>2, <4>1, Starting DEF FillEnds, Movement
    <3>3. CASE PutBack
      <4>1. moving.op = "put_back"
        BY <3>3 DEF PutBack
      <4> QED BY <3>3, <4>1, Starting DEF PutBack, Movement
    <3> QED BY <1>1, <3>1, <3>2, <3>3
  <2>3. phase' # phase => found = {}
    BY <2>1 DEF Account
  <2> QED BY <2>1, <2>2, <2>3, AccountKept DEF SameCommands
<1>2. CASE FillPlace
  <2>1. PICK g : /\ g = moving.gid /\ moving.op = "fill" /\ g # NoGid
                 /\ UNCHANGED <<phase, taskVars, found>>
    BY <1>2 DEF FillPlace
  <2>2. g \in Gids /\ g \in InTransit /\ phase = "fill" /\ found = {}
    BY <2>1, MovementTypes DEF InTransit, Moves, Account
  <2>3. g \notin active /\ g \notin Running /\ moving'.op = "fill"
    BY <1>2, <2>1, <2>2 DEF Home, Account, FillPlace, Movement
  <2>4. CASE Promotable(g)
    <3>1. /\ group' = [group EXCEPT ![g] = Promoted(@)] /\ active' = active \cup {g}
          /\ promoted' = Append(promoted, g)
      BY <1>2, <2>1, <2>4 DEF FillPlace
    <3>2. SameCommands
      BY <2>2, <3>1, GentleTransitions DEF ManTypeOK, SameCommands, Gentle
    <3>3. ToSet(promoted') = ToSet(promoted) \cup {g}
      BY <2>2, <3>1, GidAppend
    <3>4. Running' = Running /\ tasks' = tasks /\ completions' = completions
      BY <2>1 DEF Running, taskVars
    <3> QED BY <2>1, <2>2, <2>3, <3>1, <3>2, <3>3, <3>4 DEF Account, SameCommands
  <2>5. CASE ~Promotable(g)
    <3>1. UNCHANGED <<group, active, promoted>>
      BY <1>2, <2>1, <2>5 DEF FillPlace
    <3> QED BY <2>1, <2>3, <3>1, AccountKept DEF SameCommands
  <2> QED BY <2>4, <2>5
<1> QED BY <1>1, <1>2

\* A command starts for each download that was promoted.
LEMMA SpawnAccount ==
    ASSUME StoreInv, Account, promoted \in Seq(Gids), Spawn
    PROVE  StoreInv' /\ Account'
<1> USE DEF StoreInv
<1>1. /\ phase = "spawn" /\ EngineFree /\ phase' = "exit_check" /\ promoted' = <<>>
      /\ group' = Apply(ToSet(promoted), IncCommands)
      /\ tasks' = tasks \cup ToSet(promoted) /\ completions' = completions /\ found' = found
      /\ UNCHANGED <<groups, active, reserved, stopped, max_concurrent, moving>>
  BY DEF Spawn, GoTo
<1>2. group \in [Gids -> GroupRecord] /\ ToSet(promoted) \subseteq Gids
  <2>1. ToSet(promoted) \subseteq active
    BY DEF Account
  <2> QED BY <2>1 DEF ManTypeOK
<1>3. \A g \in Gids : IncCommands(group[g]) \in GroupRecord
  BY <1>2, GroupTransitions
<1>4. \A g \in Gids : IncCommands(group[g]).commands = group[g].commands + 1
  BY <1>2 DEF GroupRecord, IncCommands
<1>5. /\ group' \in [Gids -> GroupRecord]
      /\ \A g \in Gids : group'[g] = IF g \in ToSet(promoted) THEN IncCommands(group[g]) ELSE group[g]
  BY <1>1, <1>2, <1>3 DEF Apply
<1>6. StoreInv'
  BY <1>1, <1>5, NobodyMoves DEF Elsewhere
<1>7. Running' = Running \cup ToSet(promoted) /\ ToSet(promoted) \cap Running = {}
  BY <1>1 DEF Running, Account
<1>8. \A g \in Gids : group'[g].commands = IF g \in Running' THEN 1 ELSE 0
  BY <1>4, <1>5, <1>7 DEF Account
<1>9. moving.op # "requeue" /\ found = {}
  BY <1>1 DEF Moves, Account
<1>10. \A c \in completions' : c.gid \notin tasks'
  BY <1>1, <1>7 DEF Running, Account
<1>11. ToSet(promoted') = {}
  BY <1>1, Starting
<1> QED BY <1>1, <1>6, <1>7, <1>8, <1>9, <1>10, <1>11 DEF Account

\* The end of a command waits in the channel of the completions.
LEMMA EndAccount ==
    ASSUME StoreInv, Account, completions \subseteq [gid : Gids, result : TaskResults],
           NEW g \in Gids, NEW result \in TaskResults, TaskEnds(g, result)
    PROVE  StoreInv' /\ Account'
<1> USE DEF StoreInv
<1>1. /\ g \in tasks /\ tasks' = tasks \ {g}
      /\ completions' = completions \cup {[gid |-> g, result |-> result]}
      /\ group' = IF result = "Success" THEN [group EXCEPT ![g] = MarkComplete(@)] ELSE group
      /\ UNCHANGED <<groups, active, reserved, stopped, max_concurrent, moving, phase, promoted, found>>
  BY DEF TaskEnds, engineVars
<1>2. group' \in [Gids -> GroupRecord] /\ SameCommands
  BY <1>1, GroupTransitions, GentleTransitions DEF ManTypeOK, SameCommands
<1>3. StoreInv'
  BY <1>1, <1>2, NobodyMoves DEF Elsewhere
<1>4. Running' = Running /\ \A c \in completions : c.gid # g
  <2> DEFINE e == [gid |-> g, result |-> result]
  <2>1. e.gid = g
    OBVIOUS
  <2>2. completions' = completions \cup {e}
    BY <1>1
  <2> HIDE DEF e
  <2> QED BY <1>1, <2>1, <2>2 DEF Running, Account
<1>5. /\ \A c \in completions' : c.gid \notin tasks'
      /\ \A c, e \in completions' : c.gid = e.gid => c = e
  BY <1>1, <1>4 DEF Account
<1> QED BY <1>1, <1>2, <1>3, <1>4, <1>5 DEF Account, SameCommands

\* Once the end of its command is accounted for, a download has none.
LEMMA CompletionAccount ==
    ASSUME StoreInv, Account, completions \subseteq [gid : Gids, result : TaskResults],
           NEW c \in completions, ProcessCompletion(c)
    PROVE  StoreInv' /\ Account'
<1> USE DEF StoreInv
<1> DEFINE g == c.gid
<1>1. /\ phase \in {"completions", "woken"} /\ completions' = completions \ {c}
      /\ UNCHANGED <<groups, active, reserved, stopped, max_concurrent, moving, phase, promoted,
                     found, tasks>>
  BY DEF ProcessCompletion
<1>2. g \in Gids /\ c.result \in TaskResults /\ g \in Running /\ g \in active
  BY DEF Running, Account
<1>3. Live(g) /\ group[g] \in GroupRecord /\ group \in [Gids -> GroupRecord] /\ group[g].commands = 1
  BY <1>2 DEF Home, Live, ManTypeOK, Account
<1>4. group' = [group EXCEPT ![g] = ApplyCompletion(DecCommands(@), c.result, @.commands = 1)]
  BY <1>3 DEF ProcessCompletion
<1>5. DecCommands(group[g]) \in GroupRecord
  BY <1>3, GroupTransitions
<1>6. DecCommands(group[g]).commands = 0
  BY <1>3 DEF DecCommands, GroupRecord
<1>7. (group[g].commands = 1) \in BOOLEAN
  OBVIOUS
<1>8. PICK r \in GroupRecord : r = DecCommands(group[g])
  BY <1>5
<1>9. PICK last \in BOOLEAN : last = (group[g].commands = 1)
  BY <1>7
<1>10. /\ ApplyCompletion(r, c.result, last) \in GroupRecord
       /\ ApplyCompletion(r, c.result, last).commands = r.commands
  BY <1>2, SettleType, SettleCommands
<1>11. group' = [group EXCEPT ![g] = ApplyCompletion(r, c.result, last)]
  BY <1>4, <1>8, <1>9
<1>12. /\ group' \in [Gids -> GroupRecord] /\ group'[g].commands = 0
       /\ \A h \in Gids \ {g} : group'[h] = group[h]
  BY <1>2, <1>3, <1>6, <1>8, <1>10, <1>11
<1>13. StoreInv'
  BY <1>1, <1>12, NobodyMoves DEF Elsewhere
<1>14. Running' = Running \ {g}
  BY <1>1 DEF Running, Account
<1>15. \A h \in Gids : group'[h].commands = IF h \in Running' THEN 1 ELSE 0
  BY <1>2, <1>12, <1>14 DEF Account
<1> QED BY <1>1, <1>13, <1>14, <1>15 DEF Account

\* What is found stopped has no command, and is demoted once.
LEMMA FindAccount ==
    ASSUME StoreInv, Account,
           Find \/ (\E e \in found : e \in [gid : Gids, result : ResultRecord] /\ Demote(e))
    PROVE  StoreInv' /\ Account'
<1> USE DEF StoreInv
<1>1. CASE Find
  <2>1. /\ phase \in {"find", "last_find"} /\ EngineFree /\ phase' \in {"demote", "last_demote"}
        /\ found' = FoundStopped
        /\ UNCHANGED <<group, groups, active, reserved, stopped, max_concurrent, moving, promoted,
                       taskVars>>
    BY <1>1 DEF Find, GoTo, KeepStores, manVars
  <2>2. StoreInv'
    BY <2>1, NobodyMoves DEF Elsewhere, ManTypeOK
  <2>3. \A e \in found' : e.gid \in active \ Running
    <3> TAKE e \in found'
    <3>1. PICK g \in active : IsStopped(g) /\ e.gid = g
      BY <2>1 DEF FoundStopped
    <3> QED BY <3>1 DEF IsStopped, Account, ManTypeOK
  <2>4. \A c, e \in found' : c.gid = e.gid => c = e
    BY <2>1 DEF FoundStopped
  <2>5. Running' = Running /\ tasks' = tasks /\ completions' = completions
    BY <2>1 DEF Running, taskVars
  <2>6. moving'.op # "requeue" /\ promoted = <<>>
    BY <2>1 DEF Account, Moves, EngineFree
  <2> QED BY <2>1, <2>2, <2>3, <2>4, <2>5, <2>6 DEF Account
<1>2. CASE \E e \in found : e \in [gid : Gids, result : ResultRecord] /\ Demote(e)
  <2>1. PICK e \in found : e \in [gid : Gids, result : ResultRecord] /\ Demote(e)
    BY <1>2
  <2>2. e.gid \in active \ Running
    BY <2>1 DEF Account
  <2>3. StoreInv'
    BY <2>1, <2>2, DemoteMoves
  <2>4. /\ phase \in {"demote", "last_demote"} /\ found' = found \ {e} /\ active' = active \ {e.gid}
        /\ moving'.op = "unregister" /\ UNCHANGED <<group, phase, promoted, taskVars>>
    BY <2>1 DEF Demote, Leave, Unlocked
  <2>5. Running' = Running /\ tasks' = tasks /\ completions' = completions
    BY <2>4 DEF Running, taskVars
  <2>6. promoted' = <<>> /\ ToSet(promoted') = {}
    BY <2>4, Starting DEF Account
  <2> QED BY <2>1, <2>2, <2>3, <2>4, <2>5, <2>6 DEF Account
<1> QED BY <1>1, <1>2

-----------------------------------------------------------------------------
\* The engine and its channels, and the files and the ghosts, as typed.
LoopTyped ==
    /\ phase \in Phases
    /\ {follow_up, halt_requested, pending_dirty, dirty, armed} \subseteq BOOLEAN
    /\ found \subseteq [gid : Gids, result : ResultRecord]
    /\ promoted \in Seq(Gids)
    /\ completions \subseteq [gid : Gids, result : TaskResults]
    /\ commands \in Seq(Command)
    /\ budget \in BudgetRecord
DiskTyped ==
    /\ saver \in [Savers -> SaverRecord]
    /\ tmp \in Inodes \cup {NoFile} /\ session \in Inodes
    /\ content \in [Inodes -> Content]
    /\ kept \in [Savers -> SUBSET Gids] /\ moved \in [Savers -> SUBSET Gids]
    /\ {shared, untold} \subseteq BOOLEAN

\* The invariant, by the parts that the steps are shown to keep.
LEMMA SaveInvParts ==
    SaveInv <=> /\ StoreInv /\ Account /\ LoopTyped /\ DiskTyped /\ OwnerSaves
                /\ max_concurrent = InitialMax
<1>1. Account => tasks \subseteq active
  BY DEF Account, Running
<1> QED BY <1>1 DEF SaveInv, TypeOK, StoreInv, LoopTyped, DiskTyped

\* The phase of an engine that saves is none of those in which it moves or
\* counts downloads.
LEMMA OwnerPhase ==
    ASSUME OwnerSaves, DiskTyped, NEW s \in Savers, NEW ok, Ends(s, ok), saver[s].step # "idle"
    PROVE  /\ phase' = phase \/ phase \in {"saving", "final_save", "shutdown_save"}
           /\ phase' \in {phase, "commands", "shutdown_save", "over"}
           /\ dirty' \in {dirty, dirty /\ ~ok}
           /\ \E v \in {NotSaving, [NotSaving EXCEPT !.step = "reserved"]} :
                /\ saver' = [saver EXCEPT ![s] = v]
                /\ v # NotSaving => s = "owner" /\ phase' = "shutdown_save"
           /\ s = "rpc" => phase' = phase
<1>1. CASE s = "rpc"
  BY <1>1 DEF Ends, Steps
<1>2. CASE s = "owner"
  <2>1. phase \in {"saving", "final_save", "shutdown_save"}
    BY <1>2 DEF OwnerSaves
  <2>2. CASE phase = "saving"
    BY <1>2, <2>2 DEF Ends, Steps, GoTo, DirtyAfter
  <2>3. CASE phase = "final_save"
    BY <1>2, <2>3 DEF Ends, Steps, GoTo
  <2>4. CASE phase = "shutdown_save"
    BY <1>2, <2>4 DEF Ends, Steps, GoTo
  <2> QED BY <2>1, <2>2, <2>3, <2>4
<1> QED BY <1>1, <1>2 DEF Savers

\* process_engine_commands: an engine command that finds its download where the
\* client left it.
LEMMA CommandStep ==
    ASSUME StoreInv, Account, LoopTyped, ProcessCommand
    PROVE  StoreInv' /\ Account' /\ max_concurrent' = max_concurrent
<1> USE DEF StoreInv
<1>1. Head(commands) \in Command
  BY HeadTailProperties DEF ProcessCommand, LoopTyped
<1>2. PICK c \in Command : ApplyCommand(c)
  BY <1>1 DEF ProcessCommand
<1>3. /\ phase = "commands" /\ UNCHANGED <<phase, taskVars, promoted, found>>
      /\ found = {} /\ promoted = <<>> /\ Elsewhere
  BY DEF ProcessCommand, Account, Elsewhere
<1>4. group \in [Gids -> GroupRecord]
  BY DEF ManTypeOK
<1>5. c.op \in {"AddDownload", "Remove", "Pause", "Unpause", "HaltAll"}
  BY DEF Command
<1>6. CASE /\ moving' = moving
           /\ \/ PauseGroup(c.gid) \/ UnpauseGroup(c.gid) \/ HaltAll("ShutdownSignal")
              \/ c.gid \in active /\ RemoveGroup(c.gid)
  <2>1. /\ group' \in [Gids -> GroupRecord] /\ SameCommands
        /\ UNCHANGED <<groups, active, reserved, stopped, max_concurrent>>
    BY <1>6, Marks
  <2> QED BY <1>3, <1>6, <2>1, QuietStep
<1>7. CASE KeepStores
  <2>1. /\ group' \in [Gids -> GroupRecord] /\ SameCommands /\ moving' = moving
        /\ UNCHANGED <<groups, active, reserved, stopped, max_concurrent>>
    BY <1>4, <1>7 DEF KeepStores, manVars, SameCommands
  <2> QED BY <1>3, <2>1, QuietStep
<1>8. CASE RemoveReserved(c.gid, "command")
  <2>1. StoreInv'
    BY <1>8, RemoveMoves
  <2>2. Account'
    BY <1>3, <1>8, StoresKeepAccounts
  <2>3. max_concurrent' = max_concurrent
    BY <1>8 DEF RemoveReserved
  <2> QED BY <2>1, <2>2, <2>3
<1>9. \/ KeepStores \/ RemoveReserved(c.gid, "command")
      \/ /\ moving' = moving
         /\ \/ PauseGroup(c.gid) \/ UnpauseGroup(c.gid) \/ HaltAll("ShutdownSignal")
            \/ c.gid \in active /\ RemoveGroup(c.gid)
  <2>1. CASE c.op = "AddDownload"
    BY <1>2, <2>1 DEF ApplyCommand
  <2>2. CASE c.op = "Pause"
    BY <1>2, <2>2 DEF ApplyCommand
  <2>3. CASE c.op = "Unpause"
    BY <1>2, <2>3 DEF ApplyCommand
  <2>4. CASE c.op = "Remove"
    <3>1. CASE c.gid \in active
      BY <1>2, <2>4, <3>1 DEF ApplyCommand
    <3>2. CASE c.gid \notin active /\ c.gid \in ReservedIds
      BY <1>2, <2>4, <3>2 DEF ApplyCommand
    <3>3. CASE c.gid \notin active /\ c.gid \notin ReservedIds
      BY <1>2, <2>4, <3>3 DEF ApplyCommand
    <3> QED BY <3>1, <3>2, <3>3
  <2>5. CASE c.op = "HaltAll"
    BY <1>2, <2>5 DEF ApplyCommand
  <2> QED BY <1>5, <2>1, <2>2, <2>3, <2>4, <2>5
<1> QED BY <1>6, <1>7, <1>8, <1>9

\* The engine between its operations, and everything about the saves: the
\* stores and the commands are left alone.
LEMMA QuietEngine ==
    ASSUME StoreInv, Account, OwnerSaves, DiskTyped,
           \/ CommandsDone \/ CompletionsDone \/ DemoteDone \/ ExitCheck \/ Wake
           \/ (\E due \in BOOLEAN : Maintain(due))
           \/ (\E s \in Savers : Saver(s) \/ SaveFails(s)) \/ RpcAbandoned
           \/ RpcShutdown \/ RpcSaveSession
    PROVE  StoreInv' /\ Account' /\ max_concurrent' = max_concurrent
<1>1. KeepStores /\ UNCHANGED <<taskVars, promoted, found>>
  <2>1. CASE CommandsDone \/ CompletionsDone \/ DemoteDone \/ ExitCheck \/ Wake
    BY <2>1 DEF CommandsDone, CompletionsDone, DemoteDone, ExitCheck, Wake, KeepEngine
  <2>2. CASE \E due \in BOOLEAN : Maintain(due)
    BY <2>2 DEF Maintain, KeepEngine
  <2>3. CASE \E s \in Savers : Saver(s) \/ SaveFails(s)
    BY <2>3 DEF Saver, SaveFails, Collect, Open, Write, Rename, KeepAllBut, KeepEngine, engineVars
  <2>4. CASE RpcAbandoned \/ RpcShutdown \/ RpcSaveSession
    BY <2>4 DEF RpcAbandoned, RpcShutdown, RpcSaveSession, KeepAllBut, KeepEngine, KeepLoop, engineVars
  <2> QED BY <2>1, <2>2, <2>3, <2>4
<1>2. /\ Elsewhere
      /\ phase' = phase \/ (found = {} /\ promoted = <<>>)
  <2>1. CASE CommandsDone \/ CompletionsDone \/ ExitCheck \/ Wake
    BY <2>1 DEF CommandsDone, CompletionsDone, ExitCheck, Wake, Elsewhere, Account
  <2>2. CASE DemoteDone
    BY <2>2 DEF DemoteDone, Elsewhere, Account
  <2>3. CASE \E due \in BOOLEAN : Maintain(due)
    BY <2>3 DEF Maintain, Elsewhere, Account
  <2>4. CASE \E s \in Savers : Saver(s) \/ SaveFails(s)
    <3>1. PICK s \in Savers : Saver(s) \/ SaveFails(s)
      BY <2>4
    <3>2. phase' = phase \/ phase \in {"saving", "final_save", "shutdown_save"}
      <4>1. CASE Collect(s) \/ Open(s) \/ Write(s)
        BY <4>1 DEF Collect, Open, Write, engineVars
      <4>2. CASE Rename(s)
        BY <4>2, OwnerPhase DEF Rename
      <4>3. CASE SaveFails(s)
        BY <4>3, OwnerPhase DEF SaveFails
      <4> QED BY <3>1, <4>1, <4>2, <4>3 DEF Saver
    <3> QED BY <3>2 DEF Elsewhere, Account
  <2>5. CASE RpcAbandoned \/ RpcShutdown \/ RpcSaveSession
    <3>1. phase' = phase
      <4>1. CASE RpcAbandoned
        BY <4>1, OwnerPhase DEF RpcAbandoned, Savers
      <4>2. CASE RpcShutdown \/ RpcSaveSession
        BY <4>2 DEF RpcShutdown, RpcSaveSession, KeepLoop, engineVars
      <4> QED BY <2>5, <4>1, <4>2
    <3> QED BY <3>1 DEF Elsewhere
  <2> QED BY <2>1, <2>2, <2>3, <2>4, <2>5
<1>3. /\ group' \in [Gids -> GroupRecord] /\ SameCommands
      /\ UNCHANGED <<groups, active, reserved, stopped, max_concurrent, moving>>
  BY <1>1 DEF KeepStores, manVars, SameCommands, StoreInv, ManTypeOK
<1> QED BY <1>1, <1>2, <1>3, QuietStep

\* The operations of the RPC clients.
LEMMA ClientStep ==
    ASSUME StoreInv, Account, NEW g \in Gids,
           RpcAdd(g) \/ RpcPause(g) \/ RpcUnpause(g) \/ RpcRemove(g)
    PROVE  StoreInv' /\ Account' /\ max_concurrent' = max_concurrent
<1> USE DEF StoreInv
<1>1. /\ UNCHANGED <<phase, taskVars, promoted, found>> /\ Elsewhere
  BY DEF RpcAdd, RpcPause, RpcUnpause, RpcRemove, KeepLoop, engineVars, Elsewhere
<1>2. CASE RpcAdd(g)
  <2>1. AddRegister(g) /\ max_concurrent' = max_concurrent
    BY <1>2 DEF RpcAdd, AddRegister
  <2> QED BY <1>1, <2>1, AddMoves, StoresKeepAccounts
<1>3. CASE RpcPause(g) \/ RpcUnpause(g) \/ (RpcRemove(g) /\ g \in active /\ RemoveGroup(g) /\ moving' = moving)
  <2>1. moving' = moving /\ (PauseGroup(g) \/ UnpauseGroup(g) \/ (g \in active /\ RemoveGroup(g)))
    BY <1>3 DEF RpcPause, RpcUnpause
  <2>2. /\ group' \in [Gids -> GroupRecord] /\ SameCommands
        /\ UNCHANGED <<groups, active, reserved, stopped, max_concurrent>>
    BY <2>1, Marks
  <2> QED BY <1>1, <2>1, <2>2, QuietStep
<1>4. CASE RpcRemove(g) /\ RemoveReserved(g, "client")
  <2>1. StoreInv'
    BY <1>4, RemoveMoves
  <2>2. Account'
    BY <1>1, <1>4, StoresKeepAccounts
  <2>3. max_concurrent' = max_concurrent
    BY <1>4 DEF RemoveReserved
  <2> QED BY <2>1, <2>2, <2>3
<1>5. RpcRemove(g) => \/ g \in active /\ RemoveGroup(g) /\ moving' = moving
                      \/ RemoveReserved(g, "client")
  BY DEF RpcRemove
<1> QED BY <1>2, <1>3, <1>4, <1>5

\* Every step keeps the downloads where they belong, and their commands.
LEMMA StoreStep ==
    ASSUME SaveInv, [Next]_vars
    PROVE  StoreInv' /\ Account' /\ max_concurrent' = InitialMax
<1>1. StoreInv /\ Account /\ LoopTyped /\ DiskTyped /\ OwnerSaves /\ max_concurrent = InitialMax
  BY SaveInvParts
<1>2. /\ completions \subseteq [gid : Gids, result : TaskResults] /\ promoted \in Seq(Gids)
      /\ found \subseteq [gid : Gids, result : ResultRecord]
  BY <1>1 DEF LoopTyped
<1>3. CASE UNCHANGED vars
  <2>1. /\ UNCHANGED <<group, groups, active, reserved, stopped, max_concurrent, moving, taskVars,
                       promoted, found, phase>>
    BY <1>3 DEF vars, manVars, engineVars
  <2>2. group' \in [Gids -> GroupRecord] /\ SameCommands /\ Elsewhere
    BY <1>1, <2>1 DEF StoreInv, ManTypeOK, SameCommands, Elsewhere
  <2> QED BY <1>1, <2>1, <2>2, QuietStep
<1>4. CASE Engine
  <2>1. CASE ProcessCommand
    BY <1>1, <2>1, CommandStep
  <2>2. CASE CommandsDone \/ CompletionsDone \/ DemoteDone \/ ExitCheck \/ Wake
    BY <1>1, <2>2, QuietEngine
  <2>3. CASE RequeueBegin
    <3>1. max_concurrent' = max_concurrent
      BY <2>3 DEF RequeueBegin, manVars
    <3> QED BY <1>1, <2>3, <3>1, RequeueMoves, RequeueAccount
  <2>4. CASE Find
    <3>1. max_concurrent' = max_concurrent
      BY <2>4 DEF Find, KeepStores, manVars
    <3> QED BY <1>1, <2>4, <3>1, FindAccount
  <2>5. CASE FillPop \/ FillEnds
    <3>1. max_concurrent' = max_concurrent
      BY <2>5 DEF FillPop, FillEnds, manVars
    <3> QED BY <1>1, <1>2, <2>5, <3>1, FillMoves, FillAccount
  <2>6. CASE Spawn
    <3>1. max_concurrent' = max_concurrent
      BY <2>6 DEF Spawn
    <3> QED BY <1>1, <1>2, <2>6, <3>1, SpawnAccount
  <2>7. CASE \E c \in completions : ProcessCompletion(c)
    <3>1. PICK c \in completions : ProcessCompletion(c)
      BY <2>7
    <3>2. max_concurrent' = max_concurrent
      BY <3>1 DEF ProcessCompletion
    <3> QED BY <1>1, <1>2, <3>1, <3>2, CompletionAccount
  <2>8. CASE \E e \in found : Demote(e)
    <3>1. max_concurrent' = max_concurrent
      BY <2>8 DEF Demote
    <3> QED BY <1>1, <1>2, <2>8, <3>1, FindAccount
  <2> QED BY <1>4, <2>1, <2>2, <2>3, <2>4, <2>5, <2>6, <2>7, <2>8 DEF Engine
<1>5. CASE Movings
  <2>1. max_concurrent' = max_concurrent
    BY <1>5 DEF Movings, Unregister, RecordStoppedResult, AddQueue, RequeueTake, RequeuePut,
                FillPlace, PutBack
  <2>2. CASE Unregister
    <3>1. UNCHANGED <<phase, taskVars, promoted, found>>
      BY <2>2 DEF Unregister, engineVars
    <3> QED BY <1>1, <2>1, <2>2, <3>1, UnregisterMoves, StoresKeepAccounts
  <2>3. CASE RecordStoppedResult
    <3>1. UNCHANGED <<phase, taskVars, promoted, found>>
      BY <2>3 DEF RecordStoppedResult
    <3> QED BY <1>1, <2>1, <2>3, <3>1, RecordMoves, StoresKeepAccounts
  <2>4. CASE AddQueue
    <3>1. UNCHANGED <<phase, taskVars, promoted, found>> /\ moving.gid \in Gids
      BY <1>1, <2>4, MovementTypes DEF AddQueue, engineVars, StoreInv, Moves
    <3> QED BY <1>1, <2>1, <2>4, <3>1, AddMoves, StoresKeepAccounts
  <2>5. CASE RequeueTake \/ RequeuePut
    BY <1>1, <2>1, <2>5, RequeueMoves, RequeueAccount
  <2>6. CASE FillPlace \/ PutBack
    BY <1>1, <1>2, <2>1, <2>6, FillMoves, FillAccount
  <2> QED BY <1>5, <2>2, <2>3, <2>4, <2>5, <2>6 DEF Movings
<1>6. CASE (\E due \in BOOLEAN : Maintain(due)) \/ (\E s \in Savers : Saver(s) \/ SaveFails(s)) \/ RpcAbandoned
  BY <1>1, <1>6, QuietEngine
<1>7. CASE ClientOp
  <2>1. CASE RpcShutdown \/ RpcSaveSession
    BY <1>1, <2>1, QuietEngine
  <2>2. CASE \E g \in Gids : RpcAdd(g) \/ RpcPause(g) \/ RpcUnpause(g) \/ RpcRemove(g)
    BY <1>1, <2>2, ClientStep
  <2>3. CASE RpcPurge
    <3>1. /\ group' \in [Gids -> GroupRecord] /\ SameCommands /\ Elsewhere
          /\ stopped' = [h \in Gids |-> NoResult]
          /\ UNCHANGED <<groups, active, reserved, max_concurrent, moving, taskVars, found, promoted,
                         phase>>
      BY <1>1, <2>3 DEF RpcPurge, StoreInv, ManTypeOK, SameCommands, Elsewhere, KeepLoop, engineVars
    <3> QED BY <1>1, <3>1, QuietStep
  <2> QED BY <1>7, <2>1, <2>2, <2>3 DEF ClientOp
<1>8. CASE \E g \in Gids, result \in {"Success", "Failed", "FailedPaused"} : TaskEnds(g, result)
  <2>1. PICK g \in Gids, result \in {"Success", "Failed", "FailedPaused"} : TaskEnds(g, result)
    BY <1>8
  <2>2. max_concurrent' = max_concurrent
    BY <2>1 DEF TaskEnds
  <2>3. result \in TaskResults
    BY <2>1 DEF TaskResults
  <2> QED BY <1>1, <1>2, <2>1, <2>2, <2>3, EndAccount
<1>9. [Next]_vars => \/ UNCHANGED vars \/ Engine \/ Movings \/ ClientOp
                     \/ (\E due \in BOOLEAN : Maintain(due)) \/ (\E s \in Savers : Saver(s) \/ SaveFails(s))
                     \/ RpcAbandoned
                     \/ \E g \in Gids, result \in {"Success", "Failed", "FailedPaused"} : TaskEnds(g, result)
  BY DEF Next, Other
<1> QED BY <1>3, <1>4, <1>5, <1>6, <1>7, <1>8, <1>9

-----------------------------------------------------------------------------
\* A budget that is spent on something is a budget.
LEMMA Spending ==
    ASSUME budget \in BudgetRecord, NEW what \in {"ops", "saves", "failures"}, Spends(what)
    PROVE  budget' \in BudgetRecord
<1>1. CASE what = "ops"
  <2>1. budget.ops \in Nat /\ budget.ops > 0 /\ budget' = [budget EXCEPT !.ops = budget.ops - 1]
    BY <1>1 DEF Spends, BudgetRecord
  <2>2. budget.ops - 1 \in Nat
    BY <2>1
  <2> QED BY <2>1, <2>2 DEF BudgetRecord
<1>2. CASE what = "saves"
  <2>1. budget.saves \in Nat /\ budget.saves > 0 /\ budget' = [budget EXCEPT !.saves = budget.saves - 1]
    BY <1>2 DEF Spends, BudgetRecord
  <2>2. budget.saves - 1 \in Nat
    BY <2>1
  <2> QED BY <2>1, <2>2 DEF BudgetRecord
<1>3. CASE what = "failures"
  <2>1. /\ budget.failures \in Nat /\ budget.failures > 0
        /\ budget' = [budget EXCEPT !.failures = budget.failures - 1]
    BY <1>3 DEF Spends, BudgetRecord
  <2>2. budget.failures - 1 \in Nat
    BY <2>1
  <2> QED BY <2>1, <2>2 DEF BudgetRecord
<1> QED BY <1>1, <1>2, <1>3

\* The steps of a save, as far as the loop of the engine sees them.
LEMMA SavesSeenByTheLoop ==
    ASSUME LoopTyped, OwnerSaves, DiskTyped,
           (\E s \in Savers : Saver(s) \/ SaveFails(s)) \/ RpcAbandoned \/ RpcSaveSession
    PROVE  /\ phase' \in {phase, "commands", "shutdown_save", "over"}
           /\ dirty' \in BOOLEAN /\ budget' \in BudgetRecord
           /\ UNCHANGED <<follow_up, halt_requested, found, promoted, pending_dirty, armed,
                          completions, commands>>
<1>0. dirty \in BOOLEAN /\ budget \in BudgetRecord
  BY DEF LoopTyped
<1>1. CASE \E s \in Savers : Saver(s) \/ SaveFails(s)
  <2>1. PICK s \in Savers : Saver(s) \/ SaveFails(s)
    BY <1>1
  <2>2. CASE Collect(s) \/ Open(s) \/ Write(s)
    BY <1>0, <2>2 DEF Collect, Open, Write, KeepAllBut, KeepEngine, engineVars, taskVars, saveVars
  <2>3. CASE Rename(s)
    <3>1. saver[s].step # "idle" /\ Ends(s, tmp # NoFile)
      BY <2>3 DEF Rename
    <3>2. /\ phase' \in {phase, "commands", "shutdown_save", "over"}
          /\ dirty' \in {dirty, dirty /\ ~(tmp # NoFile)}
      BY <3>1, OwnerPhase
    <3> QED BY <1>0, <2>3, <3>2 DEF Rename, KeepAllBut, KeepEngine, taskVars
  <2>4. CASE SaveFails(s)
    <3>1. saver[s].step # "idle" /\ Ends(s, FALSE)
      BY <2>4 DEF SaveFails
    <3>2. /\ phase' \in {phase, "commands", "shutdown_save", "over"}
          /\ dirty' \in {dirty, dirty /\ ~FALSE}
      BY <3>1, OwnerPhase
    <3>3. budget' \in BudgetRecord
      BY <1>0, <2>4, Spending DEF SaveFails
    <3> QED BY <1>0, <2>4, <3>2, <3>3 DEF SaveFails, KeepAllBut, KeepEngine, taskVars
  <2> QED BY <2>1, <2>2, <2>3, <2>4 DEF Saver
<1>2. CASE RpcAbandoned
  <2>1. saver["rpc"].step # "idle" /\ Ends("rpc", FALSE) /\ "rpc" \in Savers
    BY <1>2 DEF RpcAbandoned, Savers
  <2>2. /\ phase' \in {phase, "commands", "shutdown_save", "over"}
        /\ dirty' \in {dirty, dirty /\ ~FALSE}
    BY <2>1, OwnerPhase
  <2> QED BY <1>0, <1>2, <2>2 DEF RpcAbandoned, KeepAllBut, KeepEngine, taskVars
<1>3. CASE RpcSaveSession
  <2>1. budget' \in BudgetRecord
    BY <1>0, <1>3, Spending DEF RpcSaveSession
  <2> QED BY <1>0, <1>3, <2>1 DEF RpcSaveSession, engineVars, taskVars, saveVars
<1> QED BY <1>1, <1>2, <1>3

\* Every step keeps the engine and its channels typed.
LEMMA LoopTypedStep ==
    ASSUME SaveInv, [Next]_vars
    PROVE  LoopTyped'
<1>0. /\ StoreInv /\ Account /\ LoopTyped /\ DiskTyped /\ OwnerSaves
      /\ phase \in Phases /\ follow_up \in BOOLEAN /\ halt_requested \in BOOLEAN
      /\ pending_dirty \in BOOLEAN /\ dirty \in BOOLEAN /\ armed \in BOOLEAN
      /\ found \subseteq [gid : Gids, result : ResultRecord] /\ promoted \in Seq(Gids)
      /\ completions \subseteq [gid : Gids, result : TaskResults]
      /\ commands \in Seq(Command) /\ budget \in BudgetRecord
  BY SaveInvParts DEF LoopTyped
<1> SUFFICES
      /\ phase' \in Phases /\ follow_up' \in BOOLEAN /\ halt_requested' \in BOOLEAN
      /\ pending_dirty' \in BOOLEAN /\ dirty' \in BOOLEAN /\ armed' \in BOOLEAN
      /\ found' \subseteq [gid : Gids, result : ResultRecord] /\ promoted' \in Seq(Gids)
      /\ completions' \subseteq [gid : Gids, result : TaskResults]
      /\ commands' \in Seq(Command) /\ budget' \in BudgetRecord
  BY DEF LoopTyped
<1> USE DEF engineVars, taskVars, saveVars, diskVars, KeepEngine, KeepSaves, KeepLoop
<1>1. CASE UNCHANGED vars
  BY <1>0, <1>1 DEF vars
<1>2. CASE Engine
  <2>1. CASE ProcessCommand
    <3>1. pending_dirty' \in BOOLEAN
      <4>1. PICK c \in Command : ApplyCommand(c)
        BY <1>0, <2>1, HeadTailProperties DEF ProcessCommand
      <4>2. c.op \in {"AddDownload", "Remove", "Pause", "Unpause", "HaltAll"}
        BY DEF Command
      <4>3. pending_dirty' \in {TRUE, pending_dirty}
        <5>1. CASE c.op = "AddDownload" \/ c.op = "HaltAll"
          BY <4>1, <5>1 DEF ApplyCommand
        <5>2. CASE c.op = "Pause" \/ c.op = "Unpause"
          BY <4>1, <5>2 DEF ApplyCommand
        <5>3. CASE c.op = "Remove"
          BY <4>1, <5>3 DEF ApplyCommand
        <5> QED BY <4>2, <5>1, <5>2, <5>3
      <4> QED BY <1>0, <4>3
    <3>2. commands' \in Seq(Command)
      BY <1>0, <2>1, HeadTailProperties DEF ProcessCommand
    <3> QED BY <1>0, <2>1, <3>1, <3>2 DEF ProcessCommand
  <2>2. CASE CommandsDone \/ CompletionsDone \/ RequeueBegin \/ DemoteDone \/ ExitCheck \/ Wake
    BY <1>0, <2>2 DEF CommandsDone, CompletionsDone, RequeueBegin, DemoteDone, ExitCheck, Wake,
                      GoTo, Phases
  <2>3. CASE Find
    <3>1. \A g \in active : DownloadResult(group[g]) \in ResultRecord /\ g \in Gids
      BY <1>0, ResultType DEF StoreInv, ManTypeOK
    <3>2. found' \subseteq [gid : Gids, result : ResultRecord]
      BY <2>3, <3>1 DEF Find, FoundStopped
    <3> QED BY <1>0, <2>3, <3>2 DEF Find, GoTo, Phases
  <2>4. CASE FillPop \/ FillEnds
    BY <1>0, <2>4 DEF FillPop, FillEnds, GoTo, Phases
  <2>5. CASE Spawn
    <3>1. promoted' \in Seq(Gids)
      BY <2>5, Starting DEF Spawn
    <3> QED BY <1>0, <2>5, <3>1 DEF Spawn, GoTo, Phases
  <2>6. CASE (\E c \in completions : ProcessCompletion(c)) \/ (\E e \in found : Demote(e))
    BY <1>0, <2>6 DEF ProcessCompletion, Demote
  <2> QED BY <1>2, <2>1, <2>2, <2>3, <2>4, <2>5, <2>6 DEF Engine
<1>3. CASE Movings
  <2>1. CASE Unregister \/ RequeueTake \/ RequeuePut \/ PutBack
    BY <1>0, <2>1 DEF Unregister, RequeueTake, RequeuePut, PutBack
  <2>2. CASE RecordStoppedResult
    BY <1>0, <2>2 DEF RecordStoppedResult
  <2>3. CASE AddQueue
    <3>1. [op |-> "AddDownload", gid |-> moving.gid] \in Command
      BY <1>0, MovementTypes DEF StoreInv, Command
    <3>2. commands' \in Seq(Command)
      BY <1>0, <2>3, <3>1, AppendProperties DEF AddQueue
    <3> QED BY <1>0, <2>3, <3>2 DEF AddQueue
  <2>4. CASE FillPlace
    <3>1. moving.gid \in Gids
      BY <1>0, <2>4, MovementTypes DEF StoreInv, FillPlace
    <3>2. promoted' \in Seq(Gids)
      BY <1>0, <2>4, <3>1, AppendProperties DEF FillPlace
    <3> QED BY <1>0, <2>4, <3>2 DEF FillPlace
  <2> QED BY <1>3, <2>1, <2>2, <2>3, <2>4 DEF Movings
<1>4. CASE \E due \in BOOLEAN : Maintain(due)
  BY <1>0, <1>4 DEF Maintain, GoTo, Phases
<1>5. CASE (\E s \in Savers : Saver(s) \/ SaveFails(s)) \/ RpcAbandoned \/ RpcSaveSession
  BY <1>0, <1>5, SavesSeenByTheLoop DEF Phases
<1>6. CASE (\E g \in Gids : RpcAdd(g) \/ RpcPause(g) \/ RpcUnpause(g) \/ RpcRemove(g)) \/ RpcPurge \/ RpcShutdown
  <2>1. budget' \in BudgetRecord
    BY <1>0, <1>6, Spending DEF RpcAdd, RpcPause, RpcUnpause, RpcRemove, RpcPurge, RpcShutdown, Client
  <2>2. commands' \in Seq(Command)
    <3>1. \/ commands' = commands
          \/ \E op \in {"Pause", "Unpause", "Remove"}, g \in Gids : Sends(op, g)
          \/ Sends("HaltAll", NoGid)
      BY <1>6 DEF RpcAdd, RpcPause, RpcUnpause, RpcRemove, RpcPurge, RpcShutdown
    <3>2. \A op \in {"Pause", "Unpause", "Remove", "HaltAll"}, g \in Gids \cup {NoGid} :
            [op |-> op, gid |-> g] \in Command
      BY DEF Command
    <3>3. commands' = commands \/ \E c \in Command : commands' = Append(commands, c)
      BY <3>1, <3>2 DEF Sends
    <3> QED BY <1>0, <3>3, AppendProperties
  <2> QED BY <1>0, <1>6, <2>1, <2>2
        DEF RpcAdd, RpcPause, RpcUnpause, RpcRemove, RpcPurge, RpcShutdown
<1>7. CASE \E g \in Gids, result \in {"Success", "Failed", "FailedPaused"} : TaskEnds(g, result)
  <2>1. completions' \subseteq [gid : Gids, result : TaskResults]
    BY <1>0, <1>7 DEF TaskEnds, TaskResults
  <2> QED BY <1>0, <1>7, <2>1 DEF TaskEnds
<1>8. [Next]_vars => \/ UNCHANGED vars \/ Engine \/ Movings \/ ClientOp
                     \/ (\E due \in BOOLEAN : Maintain(due)) \/ (\E s \in Savers : Saver(s) \/ SaveFails(s))
                     \/ RpcAbandoned
                     \/ \E g \in Gids, result \in {"Success", "Failed", "FailedPaused"} : TaskEnds(g, result)
  BY DEF Next, Other
<1>9. ClientOp => \/ RpcSaveSession \/ RpcPurge \/ RpcShutdown
                  \/ \E g \in Gids : RpcAdd(g) \/ RpcPause(g) \/ RpcUnpause(g) \/ RpcRemove(g)
  BY DEF ClientOp
<1> QED BY <1>1, <1>2, <1>3, <1>4, <1>5, <1>6, <1>7, <1>8, <1>9

-----------------------------------------------------------------------------
\* The records of a save.
LEMMA SaverTypes ==
    /\ NotSaving \in SaverRecord /\ [NotSaving EXCEPT !.step = "reserved"] \in SaverRecord
    /\ NotSaving.step = "idle" /\ NotSaving.file = NoFile
    /\ \A v \in SaverRecord :
         /\ v.step \in SaveSteps /\ v.reserved \subseteq Gids /\ v.count \in Nat
         /\ v.groups \subseteq Gids /\ v.results \subseteq Gids /\ v.data \subseteq Gids
         /\ v.file \in Inodes \cup {NoFile}
         /\ \A step \in SaveSteps : [v EXCEPT !.step = step] \in SaverRecord
<1>1. NotSaving \in SaverRecord /\ NotSaving.step = "idle" /\ NotSaving.file = NoFile
  BY DEF NotSaving, SaverRecord, SaveSteps
<1>2. \A v \in SaverRecord :
         /\ v.step \in SaveSteps /\ v.reserved \subseteq Gids /\ v.count \in Nat
         /\ v.groups \subseteq Gids /\ v.results \subseteq Gids /\ v.data \subseteq Gids
         /\ v.file \in Inodes \cup {NoFile}
         /\ \A step \in SaveSteps : [v EXCEPT !.step = step] \in SaverRecord
  BY DEF SaverRecord
<1>3. "reserved" \in SaveSteps
  BY DEF SaveSteps
<1> QED BY <1>1, <1>2, <1>3

\* The savers after a step of one of them.
LEMMA OneSaver ==
    ASSUME saver \in [Savers -> SaverRecord], NEW s \in Savers, NEW v \in SaverRecord, Steps(s, v)
    PROVE  /\ saver' \in [Savers -> SaverRecord] /\ saver'[s] = v
           /\ \A t \in Savers : t # s => saver'[t] = saver[t]
BY DEF Steps

\* Four files are enough: the temporary file that is created is a new one.
LEMMA TempFileIsNew ==
    ASSUME saver \in [Savers -> SaverRecord], session \in Inodes, tmp \in Inodes \cup {NoFile}
    PROVE  TempFile \in Inodes /\ (tmp = NoFile => TempFile \notin InUse)
<1>1. CASE tmp # NoFile
  BY <1>1 DEF TempFile
<1>2. CASE tmp = NoFile
  <2>1. PICK i, j, k : i = session /\ j = saver["owner"].file /\ k = saver["rpc"].file
    OBVIOUS
  <2>2. InUse = {NoFile} \cup ({i} \cup ({j} \cup {k}))
    BY <1>2, <2>1 DEF InUse, Savers
  <2>3. /\ IsFiniteSet({i}) /\ IsFiniteSet({j}) /\ IsFiniteSet({k})
        /\ Cardinality({i}) = 1 /\ Cardinality({j}) = 1 /\ Cardinality({k}) = 1
    BY FS_Singleton
  <2>4. IsFiniteSet({j} \cup {k}) /\ Cardinality({j} \cup {k}) <= 2
    <3>1. /\ IsFiniteSet({j} \cup {k}) /\ IsFiniteSet({j} \cap {k})
          /\ Cardinality({j} \cup {k}) = 1 + 1 - Cardinality({j} \cap {k})
      BY <2>3, FS_Union, FS_Intersection
    <3>2. Cardinality({j} \cap {k}) \in Nat
      BY <3>1, FS_CardinalityType
    <3> DEFINE both == Cardinality({j} \cap {k})
               all == Cardinality({j} \cup {k})
    <3>3. both \in Nat /\ all = 1 + 1 - both
      BY <3>1, <3>2
    <3> HIDE DEF both, all
    <3>4. all <= 2
      BY <3>3
    <3> QED BY <3>1, <3>4 DEF all
  <2>5. IsFiniteSet({i} \cup ({j} \cup {k})) /\ Cardinality({i} \cup ({j} \cup {k})) <= 3
    <3>1. /\ IsFiniteSet({i} \cup ({j} \cup {k})) /\ IsFiniteSet({i} \cap ({j} \cup {k}))
          /\ Cardinality({i} \cup ({j} \cup {k}))
               = 1 + Cardinality({j} \cup {k}) - Cardinality({i} \cap ({j} \cup {k}))
      BY <2>3, <2>4, FS_Union, FS_Intersection
    <3>2. /\ Cardinality({i} \cap ({j} \cup {k})) \in Nat
          /\ Cardinality({j} \cup {k}) \in Nat
      BY <2>4, <3>1, FS_CardinalityType
    <3> DEFINE two == Cardinality({j} \cup {k})
               both == Cardinality({i} \cap ({j} \cup {k}))
               all == Cardinality({i} \cup ({j} \cup {k}))
    <3>3. both \in Nat /\ two \in Nat /\ two <= 2 /\ all = 1 + two - both
      BY <2>4, <3>1, <3>2
    <3> HIDE DEF two, both, all
    <3>4. all <= 3
      BY <3>3
    <3> QED BY <3>1, <3>4 DEF all
  <2>6. ~(Inodes \subseteq {i} \cup ({j} \cup {k}))
    <3> SUFFICES ASSUME Inodes \subseteq {i} \cup ({j} \cup {k}) PROVE FALSE
      OBVIOUS
    <3>1. Cardinality(Inodes) <= Cardinality({i} \cup ({j} \cup {k}))
      BY <2>5, FS_Subset
    <3>2. Cardinality(Inodes) \in Nat /\ Cardinality({i} \cup ({j} \cup {k})) \in Nat
      BY <2>5, FS_CardinalityType, SessionAssumption
    <3> DEFINE all == Cardinality({i} \cup ({j} \cup {k}))
               four == Cardinality(Inodes)
    <3>3. four \in Nat /\ all \in Nat /\ four <= all /\ all <= 3 /\ four >= 4
      BY <2>5, <3>1, <3>2, SessionAssumption
    <3> HIDE DEF all, four
    <3> QED BY <3>3
  <2>7. \E n \in Inodes : n \notin InUse
    BY <2>2, <2>6, SessionAssumption
  <2> QED BY <1>2, <2>7 DEF TempFile
<1> QED BY <1>1, <1>2

\* What a save reads is typed.
LEMMA CollectTypes ==
    ASSUME ManTypeOK, saver \in [Savers -> SaverRecord], NEW s \in Savers, Collect(s)
    PROVE  \E v \in SaverRecord :
             Steps(s, v) /\ v.file \in {saver[s].file, NoFile} /\ v.step \notin {"write", "rename"}
<1> DEFINE w == saver[s]
<1>1. w \in SaverRecord
  OBVIOUS
<1> HIDE DEF w
<1>2. groups \subseteq Gids /\ active \subseteq Gids /\ ReservedIds \subseteq Gids /\ SavedResults \subseteq Gids
  BY GidSet, ElementOfSeq DEF ManTypeOK, ReservedIds, SavedResults
<1>3. Cardinality(groups) \in Nat
  BY <1>2, FS_Subset, FS_CardinalityType, ManagerAssumption
<1>4. \A step \in SaveSteps \ {"write", "rename"}, S \in SUBSET Gids, n \in Nat :
        {[w EXCEPT !.step = step, !.reserved = S], [w EXCEPT !.step = step, !.count = n],
            [w EXCEPT !.step = step, !.count = 0, !.reserved = {}],
            [w EXCEPT !.step = step, !.groups = S],
            [w EXCEPT !.step = step, !.groups = S, !.reserved = {}],
            [w EXCEPT !.step = step, !.results = S],
            [NotSaving EXCEPT !.step = step, !.data = S]} \subseteq
               {v \in SaverRecord : v.file \in {w.file, NoFile} /\ v.step \notin {"write", "rename"}}
  <2> TAKE step \in SaveSteps \ {"write", "rename"}, S \in SUBSET Gids, n \in Nat
  <2>1. /\ [w EXCEPT !.step = step, !.reserved = S] \in SaverRecord
        /\ [w EXCEPT !.step = step, !.count = n] \in SaverRecord
        /\ [w EXCEPT !.step = step, !.count = 0, !.reserved = {}] \in SaverRecord
        /\ [w EXCEPT !.step = step, !.groups = S] \in SaverRecord
        /\ [w EXCEPT !.step = step, !.groups = S, !.reserved = {}] \in SaverRecord
        /\ [w EXCEPT !.step = step, !.results = S] \in SaverRecord
    BY <1>1 DEF SaverRecord
  <2>2. [NotSaving EXCEPT !.step = step, !.data = S] \in SaverRecord
    BY DEF NotSaving, SaverRecord
  <2>3. [NotSaving EXCEPT !.step = step, !.data = S].file = NoFile
        /\ [NotSaving EXCEPT !.step = step, !.data = S].step = step
    BY DEF NotSaving
  <2>4. step \notin {"write", "rename"}
    OBVIOUS
  <2>5. /\ [w EXCEPT !.step = step, !.reserved = S].file = w.file
        /\ [w EXCEPT !.step = step, !.reserved = S].step = step
        /\ [w EXCEPT !.step = step, !.count = n].file = w.file
        /\ [w EXCEPT !.step = step, !.count = n].step = step
        /\ [w EXCEPT !.step = step, !.count = 0, !.reserved = {}].file = w.file
        /\ [w EXCEPT !.step = step, !.count = 0, !.reserved = {}].step = step
    BY <1>1 DEF SaverRecord
  <2>6. /\ [w EXCEPT !.step = step, !.groups = S].file = w.file
        /\ [w EXCEPT !.step = step, !.groups = S].step = step
        /\ [w EXCEPT !.step = step, !.groups = S, !.reserved = {}].file = w.file
        /\ [w EXCEPT !.step = step, !.groups = S, !.reserved = {}].step = step
        /\ [w EXCEPT !.step = step, !.results = S].file = w.file
        /\ [w EXCEPT !.step = step, !.results = S].step = step
    BY <1>1 DEF SaverRecord
  <2> QED BY <2>1, <2>2, <2>3, <2>4, <2>5, <2>6
<1>5. \E v : Steps(s, v) /\ v \in {u \in SaverRecord : u.file \in {w.file, NoFile} /\ u.step \notin {"write", "rename"}}
  <2> DEFINE Fine == {u \in SaverRecord : u.file \in {w.file, NoFile} /\ u.step \notin {"write", "rename"}}
  <2>0. {"count", "compare", "fast", "active", "reserved_again", "index", "results", "serialize", "open"}
          \subseteq SaveSteps \ {"write", "rename"}
    BY DEF SaveSteps
  <2>1. CASE w.step = "reserved"
    <3>1. Steps(s, [w EXCEPT !.step = "count", !.reserved = ReservedIds])
      BY <2>1 DEF Collect, w
    <3>2. [w EXCEPT !.step = "count", !.reserved = ReservedIds] \in Fine
      BY <1>2, <1>4, <2>0
    <3> QED BY <3>1, <3>2
  <2>2. CASE w.step = "count"
    <3>1. Steps(s, [w EXCEPT !.step = "compare", !.count = Cardinality(groups)])
      BY <2>2 DEF Collect, w
    <3>2. [w EXCEPT !.step = "compare", !.count = Cardinality(groups)] \in Fine
      BY <1>3, <1>4, <2>0
    <3> QED BY <3>1, <3>2
  <2>3. CASE w.step = "compare"
    <3>1. Steps(s, IF IsSteady(w) THEN [w EXCEPT !.step = "fast", !.count = 0]
                   ELSE [w EXCEPT !.step = "active", !.count = 0, !.reserved = {}])
      BY <2>3 DEF Collect, w
    <3>2. /\ [w EXCEPT !.step = "fast", !.count = 0] \in Fine
          /\ [w EXCEPT !.step = "active", !.count = 0, !.reserved = {}] \in Fine
      BY <1>4, <2>0
    <3> QED BY <3>1, <3>2
  <2>4. CASE w.step = "fast"
    <3>1. Steps(s, [w EXCEPT !.step = "results", !.groups = active \cup w.reserved, !.reserved = {}])
      BY <2>4 DEF Collect, w
    <3>2. active \cup w.reserved \in SUBSET Gids
      BY <1>1, <1>2, SaverTypes
    <3>3. [w EXCEPT !.step = "results", !.groups = active \cup w.reserved, !.reserved = {}] \in Fine
      BY <1>4, <2>0, <3>2
    <3> QED BY <3>1, <3>3
  <2>5. CASE w.step = "active"
    <3>1. Steps(s, [w EXCEPT !.step = "reserved_again", !.groups = active])
      BY <2>5 DEF Collect, w
    <3>2. [w EXCEPT !.step = "reserved_again", !.groups = active] \in Fine
      BY <1>2, <1>4, <2>0
    <3> QED BY <3>1, <3>2
  <2>6. CASE w.step = "reserved_again"
    <3>1. Steps(s, [w EXCEPT !.step = "index", !.groups = w.groups \cup ReservedIds])
      BY <2>6 DEF Collect, w
    <3>2. w.groups \cup ReservedIds \in SUBSET Gids
      BY <1>1, <1>2, SaverTypes
    <3>3. [w EXCEPT !.step = "index", !.groups = w.groups \cup ReservedIds] \in Fine
      BY <1>4, <2>0, <3>2
    <3> QED BY <3>1, <3>3
  <2>7. CASE w.step = "index"
    <3>1. Steps(s, [w EXCEPT !.step = "results", !.groups = w.groups \cup groups])
      BY <2>7 DEF Collect, w
    <3>2. w.groups \cup groups \in SUBSET Gids
      BY <1>1, <1>2, SaverTypes
    <3>3. [w EXCEPT !.step = "results", !.groups = w.groups \cup groups] \in Fine
      BY <1>4, <2>0, <3>2
    <3> QED BY <3>1, <3>3
  <2>8. CASE w.step = "results"
    <3>1. Steps(s, [w EXCEPT !.step = "serialize", !.results = SavedResults])
      BY <2>8 DEF Collect, w
    <3>2. [w EXCEPT !.step = "serialize", !.results = SavedResults] \in Fine
      BY <1>2, <1>4, <2>0
    <3> QED BY <3>1, <3>2
  <2>9. CASE w.step = "serialize"
    <3> DEFINE data == {g \in w.groups : ~IsTerminal(group[g])} \cup w.results
    <3>1. Steps(s, [NotSaving EXCEPT !.step = "open", !.data = data])
      BY <2>9 DEF Collect, w
    <3>2. data \in SUBSET Gids
      BY <1>1, SaverTypes
    <3> HIDE DEF data
    <3>3. [NotSaving EXCEPT !.step = "open", !.data = data] \in Fine
      BY <1>4, <2>0, <3>2
    <3> QED BY <3>1, <3>3
  <2>10. w.step \in {"reserved", "count", "compare", "fast", "active", "reserved_again", "index",
                    "results", "serialize"}
    BY DEF Collect, w
  <2> QED BY <2>1, <2>2, <2>3, <2>4, <2>5, <2>6, <2>7, <2>8, <2>9, <2>10
<1> QED BY <1>5 DEF w

\* A save begins: the engine is in the phase of a save from then on.
Starts(s) ==
    /\ saver[s].step = "idle" /\ UNCHANGED <<tmp, session, content>>
    /\ \E v \in {saver[s], NotSaving} : Steps(s, [v EXCEPT !.step = "reserved"])
    /\ IF s = "owner" THEN phase' \in {"saving", "final_save"} ELSE phase' = phase

\* What a step means for the files and the saves.
LEMMA DiskCases ==
    ASSUME SaveInv, [Next]_vars
    PROVE  \/ UNCHANGED diskVars /\ (phase' = phase \/ saver["owner"].step = "idle")
           \/ \E s \in Savers : Starts(s) \/ Saver(s) \/ SaveFails(s)
           \/ RpcAbandoned
<1>0. OwnerSaves /\ Account /\ Moves
  BY DEF SaveInv
<1>1. CASE UNCHANGED vars
  BY <1>1 DEF vars, engineVars
<1>2. CASE Engine
  <2>1. CASE DemoteDone
    <3>1. saver["owner"].step = "idle"
      BY <1>0, <2>1 DEF DemoteDone, OwnerSaves
    <3>2. CASE Leaving
      BY <2>1, <3>1, <3>2 DEF DemoteDone, Starts, Steps, GoTo, Savers
    <3>3. CASE ~Leaving
      BY <2>1, <3>1, <3>3 DEF DemoteDone, diskVars
    <3> QED BY <3>2, <3>3
  <2>2. CASE \/ ProcessCommand \/ FillPop \/ (\E c \in completions : ProcessCompletion(c))
             \/ (\E e \in found : Demote(e))
    BY <2>2 DEF ProcessCommand, FillPop, ProcessCompletion, Demote, engineVars, KeepSaves
  <2>3. CASE \/ CommandsDone \/ CompletionsDone \/ RequeueBegin \/ Find \/ FillEnds \/ Spawn
             \/ ExitCheck \/ Wake
    <3>1. phase \notin {"saving", "final_save", "shutdown_save"} /\ UNCHANGED diskVars
      BY <2>3 DEF CommandsDone, CompletionsDone, RequeueBegin, Find, FillEnds, Spawn, ExitCheck, Wake,
                  KeepSaves
    <3> QED BY <1>0, <3>1 DEF OwnerSaves
  <2> QED BY <1>2, <2>1, <2>2, <2>3 DEF Engine
<1>3. CASE Movings
  BY <1>3 DEF Movings, Unregister, RecordStoppedResult, AddQueue, RequeueTake, RequeuePut,
              FillPlace, PutBack, engineVars, KeepSaves
<1>4. CASE \E due \in BOOLEAN : Maintain(due)
  <2>1. PICK due \in BOOLEAN : Maintain(due)
    BY <1>4
  <2>2. saver["owner"].step = "idle" /\ UNCHANGED <<tmp, session, content>>
    BY <1>0, <2>1 DEF Maintain, OwnerSaves
  <2>3. CASE due /\ dirty'
    BY <2>1, <2>2, <2>3 DEF Maintain, Starts, Steps, GoTo, Savers
  <2>4. CASE ~(due /\ dirty')
    BY <2>1, <2>2, <2>4 DEF Maintain, diskVars
  <2> QED BY <2>3, <2>4
<1>5. CASE ClientOp
  <2>1. CASE RpcSaveSession
    BY <2>1 DEF RpcSaveSession, Starts, Savers, engineVars
  <2>2. CASE \/ \E g \in Gids : RpcAdd(g) \/ RpcPause(g) \/ RpcUnpause(g) \/ RpcRemove(g)
             \/ RpcPurge \/ RpcShutdown
    BY <2>2 DEF RpcAdd, RpcPause, RpcUnpause, RpcRemove, RpcPurge, RpcShutdown, KeepLoop, KeepSaves,
                engineVars
  <2> QED BY <1>5, <2>1, <2>2 DEF ClientOp
<1>6. CASE \E g \in Gids, result \in {"Success", "Failed", "FailedPaused"} : TaskEnds(g, result)
  BY <1>6 DEF TaskEnds, engineVars, KeepSaves
<1>7. CASE (\E s \in Savers : Saver(s) \/ SaveFails(s)) \/ RpcAbandoned
  BY <1>7
<1>8. [Next]_vars => \/ UNCHANGED vars \/ Engine \/ Movings \/ ClientOp
                     \/ (\E due \in BOOLEAN : Maintain(due)) \/ (\E s \in Savers : Saver(s) \/ SaveFails(s))
                     \/ RpcAbandoned
                     \/ \E g \in Gids, result \in {"Success", "Failed", "FailedPaused"} : TaskEnds(g, result)
  BY DEF Next, Other
<1> QED BY <1>1, <1>2, <1>3, <1>4, <1>5, <1>6, <1>7, <1>8

\* Every step keeps the saves and the files typed, and the engine where it saves.
LEMMA DiskTypedStep ==
    ASSUME SaveInv, [Next]_vars
    PROVE  /\ saver' \in [Savers -> SaverRecord] /\ tmp' \in Inodes \cup {NoFile}
           /\ session' \in Inodes /\ content' \in [Inodes -> Content]
           /\ OwnerSaves'
<1>0. /\ OwnerSaves /\ DiskTyped /\ ManTypeOK /\ saver \in [Savers -> SaverRecord]
      /\ tmp \in Inodes \cup {NoFile} /\ session \in Inodes /\ content \in [Inodes -> Content]
      /\ "owner" \in Savers /\ "rpc" \in Savers
  BY SaveInvParts DEF DiskTyped, StoreInv, Savers
<1>1. CASE UNCHANGED diskVars /\ (phase' = phase \/ saver["owner"].step = "idle")
  BY <1>0, <1>1 DEF diskVars, OwnerSaves
<1>2. ASSUME NEW s \in Savers, Starts(s)
      PROVE  /\ saver' \in [Savers -> SaverRecord] /\ UNCHANGED <<tmp, session, content>>
             /\ OwnerSaves'
  <2>1. PICK v \in {saver[s], NotSaving} : Steps(s, [v EXCEPT !.step = "reserved"])
    BY <1>2 DEF Starts
  <2>2. v \in SaverRecord /\ "reserved" \in SaveSteps
    <3>1. saver[s] \in SaverRecord /\ NotSaving \in SaverRecord
      BY <1>0, SaverTypes
    <3> QED BY <3>1 DEF SaveSteps
  <2>3. [v EXCEPT !.step = "reserved"] \in SaverRecord
    BY <2>2, SaverTypes
  <2>4. /\ saver' \in [Savers -> SaverRecord]
        /\ \A t \in Savers : t # s => saver'[t] = saver[t]
    BY <1>0, <2>1, <2>3, OneSaver
  <2>5. OwnerSaves'
    BY <1>0, <1>2, <2>4 DEF OwnerSaves, Starts
  <2> QED BY <1>2, <2>4, <2>5 DEF Starts
<1>3. ASSUME NEW s \in Savers, NEW v \in SaverRecord, Steps(s, v), phase' = phase,
             saver[s].step # "idle"
      PROVE  saver' \in [Savers -> SaverRecord] /\ OwnerSaves'
  <2>1. /\ saver' \in [Savers -> SaverRecord]
        /\ \A t \in Savers : t # s => saver'[t] = saver[t]
    BY <1>0, <1>3, OneSaver
  <2>2. saver'["owner"].step # "idle" => saver["owner"].step # "idle"
    BY <1>0, <1>3, <2>1
  <2> QED BY <1>0, <1>3, <2>1, <2>2 DEF OwnerSaves
<1>4. ASSUME NEW s \in Savers, NEW ok, Ends(s, ok), saver[s].step # "idle"
      PROVE  saver' \in [Savers -> SaverRecord] /\ OwnerSaves'
  <2>1. PICK v \in {NotSaving, [NotSaving EXCEPT !.step = "reserved"]} :
          /\ saver' = [saver EXCEPT ![s] = v] /\ Steps(s, v)
          /\ v # NotSaving => s = "owner" /\ phase' = "shutdown_save"
    BY <1>0, <1>4, OwnerPhase DEF Steps
  <2>2. v \in SaverRecord
    BY SaverTypes
  <2>3. /\ saver' \in [Savers -> SaverRecord] /\ saver'[s] = v
        /\ \A t \in Savers : t # s => saver'[t] = saver[t]
    BY <1>0, <2>1, <2>2, OneSaver
  <2>4. s = "rpc" => phase' = phase
    BY <1>0, <1>4, OwnerPhase
  <2>5. OwnerSaves'
    <3>1. CASE s = "owner"
      BY <2>1, <2>3, <3>1, SaverTypes DEF OwnerSaves
    <3>2. CASE s # "owner"
      BY <1>0, <2>3, <2>4, <3>2 DEF OwnerSaves, Savers
    <3> QED BY <3>1, <3>2
  <2> QED BY <2>3, <2>5
<1>5. Empty \in Content /\ Torn \in Content /\ \A data \in SUBSET Gids : Holding(data) \in Content
  BY DEF Content, Empty, Torn, Holding
<1>6. ASSUME NEW s \in Savers, Collect(s)
      PROVE  /\ saver' \in [Savers -> SaverRecord] /\ UNCHANGED <<tmp, session, content>> /\ OwnerSaves'
  <2>1. saver[s].step # "idle" /\ phase' = phase /\ UNCHANGED <<tmp, session, content>>
    BY <1>6 DEF Collect, engineVars
  <2>2. PICK v \in SaverRecord : Steps(s, v)
    BY <1>0, <1>6, CollectTypes
  <2> QED BY <1>3, <2>1, <2>2
<1>7. ASSUME NEW s \in Savers, Open(s) \/ Write(s)
      PROVE  /\ saver' \in [Savers -> SaverRecord] /\ tmp' \in Inodes \cup {NoFile}
             /\ session' = session /\ content' \in [Inodes -> Content] /\ OwnerSaves'
  <2>1. saver[s].step # "idle" /\ phase' = phase /\ session' = session
    BY <1>7 DEF Open, Write
  <2>2. saver[s] \in SaverRecord /\ TempFile \in Inodes
    BY <1>0, TempFileIsNew
  <2>3. \E v \in SaverRecord : Steps(s, v)
    <3>1. [saver[s] EXCEPT !.step = "write", !.file = TempFile] \in SaverRecord
      BY <2>2 DEF SaverRecord, SaveSteps
    <3>2. [saver[s] EXCEPT !.step = "rename"] \in SaverRecord
      BY <2>2, SaverTypes DEF SaveSteps
    <3> QED BY <1>7, <3>1, <3>2 DEF Open, Write
  <2>4. tmp' \in Inodes \cup {NoFile} /\ content' \in [Inodes -> Content]
    <3>1. CASE Open(s)
      BY <1>0, <1>5, <2>2, <3>1 DEF Open
    <3>2. CASE Write(s)
      <4>1. saver[s].data \in SUBSET Gids
        BY <2>2, SaverTypes
      <4>2. PICK c \in {Holding(saver[s].data), Torn} :
              content' = [content EXCEPT ![saver[s].file] = c] /\ tmp' = tmp
        BY <3>2 DEF Write
      <4> QED BY <1>0, <1>5, <4>1, <4>2
    <3> QED BY <1>7, <3>1, <3>2
  <2> QED BY <1>3, <2>1, <2>3, <2>4
<1>8. ASSUME NEW s \in Savers, Rename(s) \/ SaveFails(s)
      PROVE  /\ saver' \in [Savers -> SaverRecord] /\ tmp' \in Inodes \cup {NoFile}
             /\ session' \in Inodes /\ content' \in [Inodes -> Content] /\ OwnerSaves'
  <2>1. saver[s].step # "idle" /\ \E ok : Ends(s, ok)
    BY <1>8 DEF Rename, SaveFails
  <2>2. /\ tmp' \in Inodes \cup {NoFile} /\ session' \in Inodes
        /\ content' \in [Inodes -> Content]
    <3>1. CASE Rename(s)
      BY <1>0, <3>1 DEF Rename
    <3>2. CASE SaveFails(s)
      BY <1>0, <1>5, <3>2 DEF SaveFails
    <3> QED BY <1>8, <3>1, <3>2
  <2> QED BY <1>4, <2>1, <2>2
<1>9. CASE RpcAbandoned
  <2>1. saver["rpc"].step # "idle" /\ Ends("rpc", FALSE) /\ UNCHANGED <<tmp, session, content>>
    BY <1>9 DEF RpcAbandoned
  <2> QED BY <1>0, <1>4, <2>1
<1> QED BY <1>0, <1>1, <1>2, <1>6, <1>7, <1>8, <1>9, DiskCases DEF Saver

\* Owed and the changes of stores are about downloads of the instance.
LEMMA GhostTypedStep ==
    ASSUME SaveInv, [Next]_vars, ManTypeOK'
    PROVE  /\ kept' \in [Savers -> SUBSET Gids] /\ moved' \in [Savers -> SUBSET Gids]
           /\ shared' \in BOOLEAN /\ untold' \in BOOLEAN
<1>0. /\ kept \in [Savers -> SUBSET Gids] /\ moved \in [Savers -> SUBSET Gids]
      /\ shared \in BOOLEAN /\ untold \in BOOLEAN
  BY SaveInvParts DEF DiskTyped
<1>1. CASE UNCHANGED vars
  BY <1>0, <1>1 DEF vars, ghosts
<1>2. CASE Next
  <2>1. Observe
    BY <1>2 DEF Next
  <2>2. Owed' \subseteq Gids /\ ChangedStore \subseteq Gids
    BY DEF Owed, SavedResults, ChangedStore, ManTypeOK
  <2>3. kept' \in [Savers -> SUBSET Gids]
    BY <1>0, <2>1, <2>2 DEF Observe
  <2>4. moved' \in [Savers -> SUBSET Gids]
    BY <1>0, <2>1, <2>2 DEF Observe
  <2>5. shared' \in BOOLEAN
    BY <1>0, <2>1 DEF Observe
  <2>6. untold' \in BOOLEAN
    BY <1>0, <2>1 DEF Observe, ClientTakesAway, RpcWrites, LastSaveFails
  <2> QED BY <2>3, <2>4, <2>5, <2>6
<1> QED BY <1>1, <1>2

\* The session is restored, and nothing has moved yet.
LEMMA SaveInit == Init => SaveInv
<1> SUFFICES ASSUME Init PROVE SaveInv
  OBVIOUS
<1>1. PICK i \in Instances : /\ group = [g \in Gids |-> Restored(i, g)]
                             /\ groups = ToSet(i.queue) /\ reserved = i.queue
                             /\ budget = i.budget
  BY DEF Init
<1>2. i.queue \in Seq(Gids) /\ i.budget \in BudgetRecord /\ OnceIn(i.queue)
  BY SessionAssumption
<1>3. \A g \in Gids : Restored(i, g) \in GroupRecord /\ Restored(i, g).commands = 0
  <2> TAKE g \in Gids
  <2>1. InitialGroup(g) \in GroupRecord /\ InitialGroup(g).commands = 0
    BY DEF InitialGroup, NewGroup, GroupRecord, Statuses, HaltReasons
  <2>2. Pause(InitialGroup(g)) \in GroupRecord /\ Pause(InitialGroup(g)).commands = 0
    <3>1. Gentle(InitialGroup(g), Pause(InitialGroup(g)))
      BY <2>1, GentleTransitions
    <3> QED BY <2>1, <3>1, GroupTransitions DEF Gentle
  <2> QED BY <2>1, <2>2 DEF Restored
<1>4. ToSet(i.queue) \subseteq Gids
  BY <1>2, GidSet, ElementOfSeq
<1>5. /\ active = {} /\ stopped = [g \in Gids |-> NoResult] /\ max_concurrent = InitialMax
      /\ moving = Unlocked /\ phase = "fill" /\ follow_up = FALSE /\ halt_requested = FALSE
      /\ found = {} /\ promoted = <<>> /\ tasks = {} /\ completions = {} /\ commands = <<>>
      /\ pending_dirty = FALSE /\ dirty = FALSE /\ armed = FALSE
  BY DEF Init
<1>6. /\ saver = [s \in Savers |-> NotSaving] /\ tmp = NoFile /\ session = CHOOSE n \in Inodes : TRUE
      /\ content = [n \in Inodes |-> IF n = session THEN Holding(groups) ELSE Empty]
      /\ kept = [s \in Savers |-> {}] /\ moved = [s \in Savers |-> {}]
      /\ shared = FALSE /\ untold = FALSE
  BY DEF Init
<1>7. ManTypeOK
  BY <1>1, <1>2, <1>3, <1>4, <1>5, SessionAssumption DEF ManTypeOK
<1>8. InTransit = {} /\ moving \in Movement /\ OnceIn(moving.rest) /\ ToSet(moving.rest) = {}
  BY <1>5, Starting DEF InTransit
<1>9. Moves /\ Home
  <2>1. Moves
    BY <1>5, Starting DEF Moves
  <2>2. groups = ReservedIds /\ \A g \in groups : stopped[g] = NoResult
    BY <1>1, <1>4, <1>5 DEF ReservedIds
  <2> QED BY <1>1, <1>2, <1>5, <1>8, <2>1, <2>2, Starting DEF Home
<1>10. Account
  <2>1. Running = {} /\ ToSet(promoted) = {}
    BY <1>5, Starting DEF Running
  <2>2. moving.op # "requeue"
    BY <1>5, Starting
  <2> QED BY <1>1, <1>3, <1>5, <2>1, <2>2 DEF Account
<1>11. LoopTyped
  <2>1. <<>> \in Seq(Gids) /\ <<>> \in Seq(Command)
    BY EmptySeq
  <2> QED BY <1>1, <1>2, <1>5, <2>1 DEF LoopTyped, Phases
<1>12. DiskTyped /\ OwnerSaves
  <2>1. session \in Inodes
    <3>1. Inodes # {}
      BY FS_EmptySet, SessionAssumption
    <3> QED BY <1>6, <3>1
  <2>2. Empty \in Content /\ Holding(groups) \in Content
    BY <1>1, <1>4 DEF Content, Empty, Holding
  <2>3. DiskTyped
    BY <1>6, <2>1, <2>2, SaverTypes DEF DiskTyped
  <2>4. OwnerSaves
    BY <1>6, SaverTypes DEF OwnerSaves, Savers
  <2> QED BY <2>3, <2>4
<1> QED BY <1>5, <1>7, <1>8, <1>9, <1>10, <1>11, <1>12, SaveInvParts DEF StoreInv

\* The invariant is inductive.
LEMMA SaveStep == SaveInv /\ [Next]_vars => SaveInv'
<1> SUFFICES ASSUME SaveInv, [Next]_vars PROVE SaveInv'
  OBVIOUS
<1>1. StoreInv' /\ Account' /\ max_concurrent' = InitialMax
  BY StoreStep
<1>2. LoopTyped'
  BY LoopTypedStep
<1>3. DiskTyped' /\ OwnerSaves'
  BY <1>1, DiskTypedStep, GhostTypedStep DEF DiskTyped, StoreInv
<1>4. tasks' \subseteq active'
  BY <1>1 DEF Account, Running
<1> QED BY <1>1, <1>2, <1>3, <1>4 DEF SaveInv, TypeOK, StoreInv, LoopTyped, DiskTyped

\* A download is in one store or in the hands of one operation, and has a
\* command from the time it is spawned until its end has been accounted for.
LEMMA SaveAlways == Spec => []SaveInv
BY SaveInit, SaveStep, PTL DEF Spec

-----------------------------------------------------------------------------
\* The stores, the engine, the saves and the files stay what they are: whoever
\* moves a download, it is one of the instance and has a record, the count a
\* save takes is a number, and there is a file for every save.
THEOREM SessionTypes == Spec => []TypeOK
<1>1. SaveInv => TypeOK
  BY DEF SaveInv
<1> QED BY <1>1, SaveAlways, PTL

-----------------------------------------------------------------------------
\* A saver has no file before it opens one and after it has ended.
LEMMA Ended ==
    ASSUME SaveInv, NEW s \in Savers, NEW ok, Ends(s, ok), saver[s].step # "idle"
    PROVE  /\ saver'[s].file = NoFile /\ saver'[s].step \in {"idle", "reserved"}
           /\ \A t \in Savers : t # s => saver'[t] = saver[t]
<1>1. saver \in [Savers -> SaverRecord] /\ OwnerSaves /\ DiskTyped
  BY SaveInvParts DEF DiskTyped
<1>2. PICK v \in {NotSaving, [NotSaving EXCEPT !.step = "reserved"]} : saver' = [saver EXCEPT ![s] = v]
  BY <1>1, OwnerPhase
<1>3. v.file = NoFile /\ v.step \in {"idle", "reserved"}
  BY DEF NotSaving
<1> QED BY <1>1, <1>2, <1>3

\* Each step keeps the files apart as long as the temporary file is not shared.
LEMMA FileStep ==
    ASSUME SaveInv, FileInv, Next
    PROVE  FileInv'
<1>0. /\ saver \in [Savers -> SaverRecord] /\ saver' \in [Savers -> SaverRecord]
      /\ tmp \in Inodes \cup {NoFile} /\ session \in Inodes /\ content \in [Inodes -> Content]
      /\ NoFile \notin Inodes /\ ManTypeOK /\ "owner" \in Savers /\ "rpc" \in Savers
  BY SaveInvParts, DiskTypedStep, SessionAssumption DEF DiskTyped, StoreInv, Savers
<1>1. shared' <=> (shared \/ \A s \in Savers : saver'[s].file # NoFile)
  BY DEF Next, Observe
<1>2. tmp # session
  BY DEF FileInv
<1> DEFINE Apart(t) ==
       /\ saver[t].file # NoFile <=> saver[t].step \in {"write", "rename"}
       /\ saver[t].file # NoFile => saver[t].file = tmp
       /\ saver[t].step = "write" => content[saver[t].file] = Empty
       /\ saver[t].step = "rename" => content[saver[t].file].state = "whole"
<1>3. ~shared => /\ SessionFileWhole /\ \E s \in Savers : saver[s].file = NoFile
                 /\ \A t \in Savers : Apart(t)
  BY DEF FileInv
<1>4. ASSUME tmp' # session',
             ~shared' => content'[session'].state = "whole" /\ \A t \in Savers : Apart(t)'
      PROVE  FileInv'
  BY <1>1, <1>4 DEF FileInv, SessionFileWhole
<1>5. ~shared' => ~shared /\ \E s \in Savers : saver'[s].file = NoFile
  BY <1>1
\* A step of one saver that leaves the files alone and gives it no file.
<1>6. ASSUME NEW s \in Savers, \A t \in Savers : t # s => saver'[t] = saver[t],
             UNCHANGED <<tmp, session, content>>,
             saver'[s].file = NoFile, saver'[s].step \notin {"write", "rename"}
      PROVE  FileInv'
  <2>1. ~shared' => \A t \in Savers : Apart(t)'
    <3> SUFFICES ASSUME ~shared', NEW t \in Savers PROVE Apart(t)'
      OBVIOUS
    <3>1. CASE t = s
      BY <1>6, <3>1
    <3>2. CASE t # s
      BY <1>3, <1>5, <1>6, <3>2
    <3> QED BY <3>1, <3>2
  <2> QED BY <1>2, <1>3, <1>4, <1>5, <1>6, <2>1 DEF SessionFileWhole
<1>7. CASE UNCHANGED diskVars
  <2>1. ~shared' => \A t \in Savers : Apart(t)'
    BY <1>3, <1>5, <1>7 DEF diskVars
  <2> QED BY <1>2, <1>3, <1>4, <1>5, <1>7, <2>1 DEF SessionFileWhole, diskVars
<1>8. ASSUME NEW s \in Savers, Starts(s) PROVE FileInv'
  <2>1. PICK v \in {saver[s], NotSaving} : Steps(s, [v EXCEPT !.step = "reserved"])
    BY <1>8 DEF Starts
  <2>2. CASE shared'
    BY <1>2, <1>4, <1>8, <2>2 DEF Starts
  <2>3. CASE ~shared'
    <3>1. saver[s].file = NoFile
      BY <1>3, <1>5, <1>8, <2>3 DEF Starts
    <3>2. v \in SaverRecord /\ v.file = NoFile
      <4>1. saver[s] \in SaverRecord
        BY <1>0
      <4> QED BY <3>1, <4>1, SaverTypes
    <3>3. [v EXCEPT !.step = "reserved"].file = NoFile /\ [v EXCEPT !.step = "reserved"].step = "reserved"
      BY <3>2 DEF SaverRecord
    <3>4. saver'[s].file = NoFile /\ saver'[s].step = "reserved"
      BY <1>0, <2>1, <3>3 DEF Steps
    <3>5. \A t \in Savers : t # s => saver'[t] = saver[t]
      BY <1>0, <2>1 DEF Steps
    <3> QED BY <1>6, <1>8, <3>4, <3>5 DEF Starts
  <2> QED BY <2>2, <2>3
<1>9. ASSUME NEW s \in Savers, Collect(s) PROVE FileInv'
  <2>1. PICK v \in SaverRecord :
          Steps(s, v) /\ v.file \in {saver[s].file, NoFile} /\ v.step \notin {"write", "rename"}
    BY <1>0, <1>9, CollectTypes
  <2>2. UNCHANGED <<tmp, session, content>> /\ saver[s].step \notin {"write", "rename"}
    BY <1>9 DEF Collect
  <2>3. saver'[s] = v /\ \A t \in Savers : t # s => saver'[t] = saver[t]
    BY <1>0, <2>1, OneSaver
  <2>4. CASE shared'
    BY <1>2, <1>4, <2>2, <2>4
  <2>5. CASE ~shared'
    <3>1. saver[s].file = NoFile
      BY <1>3, <1>5, <2>2, <2>5
    <3> QED BY <1>6, <2>1, <2>2, <2>3, <3>1
  <2> QED BY <2>4, <2>5
<1>10. ASSUME NEW s \in Savers, Open(s) PROVE FileInv'
  <2>1. /\ tmp' = TempFile /\ session' = session /\ content' = [content EXCEPT ![TempFile] = Empty]
        /\ Steps(s, [saver[s] EXCEPT !.step = "write", !.file = TempFile])
    BY <1>10 DEF Open
  <2>2. TempFile \in Inodes /\ TempFile # session /\ TempFile # NoFile
    <3>1. CASE tmp = NoFile
      BY <1>0, <3>1, TempFileIsNew DEF InUse
    <3>2. CASE tmp # NoFile
      BY <1>0, <1>2, <3>2 DEF TempFile
    <3> QED BY <3>1, <3>2
  <2> DEFINE v == [saver[s] EXCEPT !.step = "write", !.file = TempFile]
  <2>3. v.step = "write" /\ v.file = TempFile
    BY <1>0, <2>2 DEF SaverRecord
  <2> HIDE DEF v
  <2>4. saver'[s] = v /\ \A t \in Savers : t # s => saver'[t] = saver[t]
    BY <1>0, <2>1 DEF Steps, v
  <2>5. ~shared' => content'[session'].state = "whole" /\ \A t \in Savers : Apart(t)'
    <3> SUFFICES ASSUME ~shared' PROVE content'[session'].state = "whole" /\ \A t \in Savers : Apart(t)'
      OBVIOUS
    <3>1. content'[session'].state = "whole"
      BY <1>0, <1>3, <1>5, <2>1, <2>2 DEF SessionFileWhole
    <3>2. Apart(s)'
      BY <1>0, <2>1, <2>2, <2>3, <2>4
    <3>3. ASSUME NEW t \in Savers, t # s PROVE Apart(t)'
      <4>1. saver'[t] = saver[t] /\ saver'[t].file = NoFile
        BY <1>5, <2>2, <2>3, <2>4, <3>3 DEF Savers
      <4> QED BY <1>3, <1>5, <4>1
    <3> QED BY <3>1, <3>2, <3>3
  <2> QED BY <1>4, <2>1, <2>2, <2>5
<1>11. ASSUME NEW s \in Savers, Write(s) PROVE FileInv'
  <2>1. /\ saver[s].step = "write" /\ tmp' = tmp /\ session' = session
        /\ Steps(s, [saver[s] EXCEPT !.step = "rename"])
    BY <1>11 DEF Write
  <2> DEFINE mine == Holding(saver[s].data)
  <2>2. PICK c \in {mine} \cup (IF content[saver[s].file] \in {Empty, mine} THEN {} ELSE {Torn}) :
          content' = [content EXCEPT ![saver[s].file] = c]
    BY <1>11 DEF Write
  <2>3. mine.state = "whole"
    BY DEF Holding
  <2> HIDE DEF mine
  <2> DEFINE v == [saver[s] EXCEPT !.step = "rename"]
  <2>4. v.step = "rename" /\ v.file = saver[s].file
    BY <1>0 DEF SaverRecord
  <2> HIDE DEF v
  <2>5. saver'[s] = v /\ \A t \in Savers : t # s => saver'[t] = saver[t]
    BY <1>0, <2>1 DEF Steps, v
  <2>6. ~shared' => content'[session'].state = "whole" /\ \A t \in Savers : Apart(t)'
    <3> SUFFICES ASSUME ~shared' PROVE content'[session'].state = "whole" /\ \A t \in Savers : Apart(t)'
      OBVIOUS
    <3>1. /\ saver[s].file # NoFile /\ saver[s].file = tmp /\ content[saver[s].file] = Empty
          /\ \A t \in Savers : Apart(t)
      BY <1>3, <1>5, <2>1
    <3>2. c = mine /\ tmp \in Inodes /\ content' = [content EXCEPT ![tmp] = c]
      BY <1>0, <2>2, <3>1
    <3>3. content'[session'].state = "whole"
      BY <1>0, <1>2, <1>3, <1>5, <2>1, <3>2 DEF SessionFileWhole
    <3>4. Apart(s)'
      BY <1>0, <2>1, <2>3, <2>4, <2>5, <3>1, <3>2
    <3>5. ASSUME NEW t \in Savers, t # s PROVE Apart(t)'
      <4>1. saver'[t] = saver[t] /\ saver'[t].file = NoFile
        BY <1>5, <2>4, <2>5, <3>1, <3>5 DEF Savers
      <4> QED BY <3>1, <4>1
    <3> QED BY <3>3, <3>4, <3>5
  <2> QED BY <1>2, <1>4, <2>1, <2>6
\* A saver that ends, with the session replaced or not.
<1>12. ASSUME NEW s \in Savers, Rename(s) \/ SaveFails(s) PROVE FileInv'
  <2>1. saver[s].step \in {"open", "write", "rename"} /\ \E ok : Ends(s, ok)
    BY <1>12 DEF Rename, SaveFails
  <2>2. /\ saver'[s].file = NoFile /\ saver'[s].step \in {"idle", "reserved"}
        /\ \A t \in Savers : t # s => saver'[t] = saver[t]
    BY <2>1, Ended
  <2>3. CASE Rename(s)
    <3>1. /\ saver[s].step = "rename" /\ session' = (IF tmp = NoFile THEN session ELSE tmp)
          /\ tmp' = NoFile /\ content' = content
      BY <2>3 DEF Rename
    <3>2. tmp' # session'
      BY <1>0, <3>1
    <3>3. ~shared' => content'[session'].state = "whole" /\ \A t \in Savers : Apart(t)'
      <4> SUFFICES ASSUME ~shared' PROVE content'[session'].state = "whole" /\ \A t \in Savers : Apart(t)'
        OBVIOUS
      <4>1. /\ saver[s].file # NoFile /\ saver[s].file = tmp
            /\ content[saver[s].file].state = "whole" /\ \A t \in Savers : Apart(t)
        BY <1>3, <1>5, <3>1
      <4>2. content'[session'].state = "whole"
        BY <3>1, <4>1
      <4>3. ASSUME NEW t \in Savers, t # s PROVE Apart(t)'
        <5>1. saver'[t] = saver[t] /\ saver[t].file = NoFile
          BY <1>3, <1>5, <2>2, <4>1, <4>3 DEF Savers
        <5> QED BY <3>1, <4>1, <5>1
      <4>4. Apart(s)'
        BY <2>2
      <4> QED BY <4>2, <4>3, <4>4
    <3> QED BY <1>4, <3>2, <3>3
  <2>4. CASE SaveFails(s)
    <3>1. /\ tmp' = tmp /\ session' = session
          /\ content' = IF saver[s].step = "write" THEN [content EXCEPT ![saver[s].file] = Torn] ELSE content
      BY <2>4 DEF SaveFails
    <3>2. CASE saver[s].step # "write"
      BY <1>6, <2>2, <3>1, <3>2
    <3>3. CASE saver[s].step = "write"
      <4>1. ~shared' => content'[session'].state = "whole" /\ \A t \in Savers : Apart(t)'
        <5> SUFFICES ASSUME ~shared' PROVE content'[session'].state = "whole" /\ \A t \in Savers : Apart(t)'
          OBVIOUS
        <5>1. saver[s].file # NoFile /\ saver[s].file = tmp /\ \A t \in Savers : Apart(t)
          BY <1>3, <1>5, <3>3
        <5>2. content'[session'].state = "whole"
          BY <1>0, <1>2, <1>3, <1>5, <3>1, <5>1 DEF SessionFileWhole
        <5>3. ASSUME NEW t \in Savers, t # s PROVE Apart(t)'
          <6>1. saver'[t] = saver[t] /\ saver[t].file = NoFile
            BY <1>3, <1>5, <2>2, <5>1, <5>3 DEF Savers
          <6> QED BY <3>1, <5>1, <6>1
        <5>4. Apart(s)'
          BY <2>2
        <5> QED BY <5>2, <5>3, <5>4
      <4> QED BY <1>2, <1>4, <3>1, <4>1
    <3> QED BY <3>2, <3>3
  <2> QED BY <1>12, <2>3, <2>4
<1>13. CASE RpcAbandoned
  <2>1. saver["rpc"].step # "idle" /\ Ends("rpc", FALSE) /\ UNCHANGED <<tmp, session, content>>
    BY <1>13 DEF RpcAbandoned
  <2>2. /\ saver'["rpc"].file = NoFile /\ saver'["rpc"].step \in {"idle", "reserved"}
        /\ \A t \in Savers : t # "rpc" => saver'[t] = saver[t]
    BY <1>0, <2>1, Ended
  <2> QED BY <1>0, <1>6, <2>1, <2>2
<1> QED BY <1>7, <1>8, <1>9, <1>10, <1>11, <1>12, <1>13, DiskCases DEF Saver

\* Whatever the savers, the engine and the clients do, and wherever the process
\* dies, the session file is one complete save: a save is written elsewhere and
\* renamed, and only two savers in one temporary file can spoil it.
THEOREM SessionFileIsWhole == Spec => []WholeUnlessShared
<1>1. Init => FileInv
  <2> SUFFICES ASSUME Init PROVE FileInv
    OBVIOUS
  <2>1. SaveInv /\ tmp = NoFile /\ saver = [s \in Savers |-> NotSaving]
        /\ content = [n \in Inodes |-> IF n = session THEN Holding(groups) ELSE Empty]
    BY SaveInit DEF Init
  <2>2. session \in Inodes /\ session # NoFile
    BY <2>1, SaveInvParts, SessionAssumption DEF DiskTyped
  <2>3. content[session].state = "whole"
    BY <2>1, <2>2 DEF Holding
  <2>4. \A s \in Savers : saver[s].file = NoFile /\ saver[s].step = "idle"
    BY <2>1, SaverTypes
  <2> QED BY <2>1, <2>2, <2>3, <2>4 DEF FileInv, SessionFileWhole, Savers
<1>2. SaveInv /\ FileInv /\ [Next]_vars => FileInv'
  <2>1. FileInv /\ UNCHANGED vars => FileInv'
    BY DEF FileInv, SessionFileWhole, vars, diskVars, ghosts
  <2> QED BY <2>1, FileStep
<1>3. FileInv => WholeUnlessShared
  BY DEF FileInv, WholeUnlessShared
<1> QED BY <1>1, <1>2, <1>3, SaveAlways, PTL DEF Spec

-----------------------------------------------------------------------------
\* A download enters the index without a result and leaves it before its result
\* is recorded: while it is owed it does neither.
LEMMA OwedStays ==
    ASSUME SaveInv, [Next]_vars, NEW g \in Owed, g \in Owed'
    PROVE  g \in groups <=> g \in groups'
<1>0. Home /\ Moves /\ moving \in Movement
  BY DEF SaveInv, TypeOK
<1>1. CASE Unregister
  <2>1. groups' = groups \ {moving.gid} /\ stopped' = stopped /\ moving.gid # NoGid
    BY <1>0, <1>1 DEF Unregister, Moves
  <2>2. g \in groups /\ g \notin groups' => stopped'[g] = NoResult
    BY <1>0, <2>1 DEF Home
  <2> QED BY <2>1, <2>2 DEF Owed, SavedResults
<1>2. ASSUME NEW h \in Gids, AddRegister(h) PROVE g \in groups <=> g \in groups'
  <2>1. groups' = groups \cup {h} /\ stopped[h] = NoResult
    BY <1>2 DEF AddRegister, Fresh
  <2> QED BY <2>1 DEF Owed, SavedResults
<1>3. CASE groups' = groups
  BY <1>3
<1>4. \/ groups' = groups \/ Unregister \/ \E h \in Gids : AddRegister(h)
  <2>1. CASE UNCHANGED vars
    BY <2>1 DEF vars, manVars
  <2>2. CASE Engine
    <3>1. CASE ProcessCommand
      <4>1. PICK c : ApplyCommand(c) /\ c = Head(commands)
        BY <3>1 DEF ProcessCommand
      <4>2. c \in Command /\ c.op \in {"AddDownload", "Remove", "Pause", "Unpause", "HaltAll"}
        <5>1. commands \in Seq(Command)
          BY DEF SaveInv, TypeOK
        <5>2. c \in Command
          BY <3>1, <4>1, <5>1, HeadTailProperties DEF ProcessCommand
        <5> QED BY <5>2 DEF Command
      <4> USE DEF KeepStores, manVars, PauseGroup, UnpauseGroup, HaltAll
      <4>3. CASE c.op \in {"AddDownload", "HaltAll"}
        BY <4>1, <4>3 DEF ApplyCommand
      <4>4. CASE c.op \in {"Pause", "Unpause"}
        BY <4>1, <4>4 DEF ApplyCommand
      <4>5. CASE c.op = "Remove"
        BY <4>1, <4>5 DEF ApplyCommand, RemoveGroup, RemoveReserved
      <4> QED BY <4>2, <4>3, <4>4, <4>5
    <3>2. CASE CommandsDone \/ CompletionsDone \/ RequeueBegin \/ Find \/ DemoteDone \/ ExitCheck \/ Wake
      BY <3>2 DEF CommandsDone, CompletionsDone, RequeueBegin, Find, DemoteDone, ExitCheck, Wake,
                  KeepStores, manVars
    <3>3. CASE \/ FillPop \/ FillEnds \/ Spawn \/ (\E c \in completions : ProcessCompletion(c))
               \/ (\E e \in found : Demote(e))
      BY <3>3 DEF FillPop, FillEnds, Spawn, ProcessCompletion, Demote, manVars
    <3> QED BY <2>2, <3>1, <3>2, <3>3 DEF Engine
  <2>3. CASE Movings
    BY <2>3 DEF Movings, RecordStoppedResult, AddQueue, RequeueTake, RequeuePut, FillPlace, PutBack
  <2>4. CASE (\E due \in BOOLEAN : Maintain(due)) \/ (\E s \in Savers : Saver(s) \/ SaveFails(s)) \/ RpcAbandoned
    BY <2>4 DEF Maintain, Saver, Collect, Open, Write, Rename, SaveFails, RpcAbandoned, KeepAllBut,
                KeepStores, manVars
  <2>5. CASE ClientOp
    <3>1. CASE RpcPurge \/ RpcShutdown \/ RpcSaveSession
      BY <3>1 DEF RpcPurge, RpcShutdown, RpcSaveSession, KeepStores, manVars
    <3>2. CASE \E h \in Gids : RpcAdd(h) \/ RpcPause(h) \/ RpcUnpause(h)
      BY <3>2 DEF RpcAdd, RpcPause, RpcUnpause, PauseGroup, UnpauseGroup
    <3>3. CASE \E h \in Gids : RpcRemove(h)
      BY <3>3 DEF RpcRemove, RemoveGroup, RemoveReserved
    <3> QED BY <2>5, <3>1, <3>2, <3>3 DEF ClientOp
  <2>6. CASE \E h \in Gids, result \in {"Success", "Failed", "FailedPaused"} : TaskEnds(h, result)
    BY <2>6 DEF TaskEnds
  <2> QED BY <2>1, <2>2, <2>3, <2>4, <2>5, <2>6 DEF Next, Other
<1> QED BY <1>1, <1>2, <1>3, <1>4

\* A save that begins or ends has collected what it must: nothing.
LEMMA Unwatched ==
    ASSUME SaveInv, Next, NEW s \in Savers, saver'[s] = NotSaving \/ Begins(s)
    PROVE  Collected(s)'
<1>1. saver'[s].step \in {"idle", "reserved"}
  BY SaverTypes DEF Begins
<1>2. kept' = [t \in Savers |-> IF Begins(t) THEN Owed'
                                 ELSE IF saver'[t] = NotSaving THEN {} ELSE kept[t] \cap Owed']
  BY DEF Next, Observe
<1>3. kept'[s] \subseteq Owed'
  BY <1>2
<1> QED BY <1>1, <1>3 DEF Collected

\* What the ghosts of a save under way know after a step.
LEMMA Watching ==
    ASSUME SaveInv, Next, NEW s \in Savers, saver'[s] # NotSaving, ~Begins(s)
    PROVE  /\ kept'[s] = kept[s] \cap Owed' /\ moved'[s] = moved[s] \cup ChangedStore
           /\ \A g \in Gids \ moved'[s] :
                /\ g \notin moved[s]
                /\ g \in active <=> g \in active'
                /\ g \in ReservedIds <=> g \in ReservedIds'
<1>1. /\ kept' = [t \in Savers |-> IF Begins(t) THEN Owed'
                                   ELSE IF saver'[t] = NotSaving THEN {} ELSE kept[t] \cap Owed']
      /\ moved' = [t \in Savers |-> IF Begins(t) \/ saver'[t] = NotSaving THEN {}
                                    ELSE moved[t] \cup ChangedStore]
  BY DEF Next, Observe
<1>2. kept'[s] = kept[s] \cap Owed' /\ moved'[s] = moved[s] \cup ChangedStore
  BY <1>1
<1> QED BY <1>2 DEF ChangedStore

\* A step of somebody else: what the save has read is still right for the
\* downloads that did not change stores.
LEMMA Watched ==
    ASSUME SaveInv, Next, NEW s \in Savers, Collected(s), saver'[s] = saver[s]
    PROVE  Collected(s)'
<1>1. CASE saver'[s] = NotSaving
  BY <1>1, Unwatched
<1>2. CASE saver'[s] # NotSaving
  <2>0. /\ kept[s] \subseteq Gids /\ moved[s] \subseteq Gids /\ active \subseteq Gids
        /\ active' \subseteq Gids /\ ReservedIds \subseteq Gids /\ ReservedIds' \subseteq Gids
    <3>1. \A q \in Seq(Gids) : ToSet(q) \subseteq Gids
      BY GidSet, ElementOfSeq
    <3>2. SaveInv'
      BY SaveStep
    <3> QED BY <3>1, <3>2 DEF SaveInv, TypeOK, ManTypeOK, ReservedIds
  <2>1. /\ kept'[s] = kept[s] \cap Owed' /\ moved'[s] = moved[s] \cup ChangedStore
        /\ \A g \in Gids \ moved'[s] :
             /\ g \notin moved[s]
             /\ g \in active <=> g \in active'
             /\ g \in ReservedIds <=> g \in ReservedIds'
    BY <1>2, Watching DEF Begins
  <2> DEFINE v == saver[s]
             still == kept[s] \ moved[s]
             stillNow == kept'[s] \ moved'[s]
  <2>2. kept[s] \subseteq Owed
    BY DEF Collected
  <2>3. /\ stillNow \subseteq still
        /\ \A g \in kept'[s] : g \in kept[s] /\ (g \in groups <=> g \in groups')
        /\ \A g \in stillNow : /\ g \in Gids /\ (g \in active <=> g \in active')
                               /\ g \in ReservedIds <=> g \in ReservedIds'
    BY <2>0, <2>1, <2>2, OwedStays
  <2>4. \A g \in stillNow : BetweenStores(g) <=> BetweenStores(g)'
    BY <2>3 DEF BetweenStores
  <2>5. moved'[s] = {} => moved[s] = {} /\ active' = active /\ ReservedIds' = ReservedIds
    BY <2>0, <2>1
  <2>6. \A g \in stillNow : Missed(s, g) => Missed(s, g)'
    BY <2>1, <2>4 DEF Missed
  <2>7. v.step \in {"count", "compare", "fast"} =>
          \A g \in Gids \ moved'[s] : g \in v.reserved <=> g \in ReservedIds'
    BY <2>1 DEF Collected
  <2>8. v.step = "compare" =>
          \E G \in SUBSET Gids :
            /\ v.count = Cardinality(G)
            /\ moved'[s] = {} => active' \cup ReservedIds' \cup (stillNow \cap groups') \subseteq G
    <3> SUFFICES ASSUME v.step = "compare"
                 PROVE  \E G \in SUBSET Gids :
                          /\ v.count = Cardinality(G)
                          /\ moved'[s] = {} => active' \cup ReservedIds' \cup (stillNow \cap groups') \subseteq G
      OBVIOUS
    <3>1. PICK G \in SUBSET Gids :
            /\ v.count = Cardinality(G)
            /\ moved[s] = {} => active \cup ReservedIds \cup (still \cap groups) \subseteq G
      BY DEF Collected
    <3>2. moved'[s] = {} => active' \cup ReservedIds' \cup (stillNow \cap groups') \subseteq G
      BY <2>3, <2>5, <3>1
    <3> QED BY <3>1, <3>2
  <2>9. v.step = "fast" /\ moved'[s] = {} => \A g \in stillNow : ~BetweenStores(g)'
    BY <2>3, <2>4, <2>5 DEF Collected
  <2>10. /\ v.step = "reserved_again" => stillNow \cap active' \subseteq v.groups
         /\ v.step = "index" => stillNow \cap (active' \cup ReservedIds') \subseteq v.groups
    BY <2>3 DEF Collected
  <2>11. v.step \in {"results", "serialize"} =>
           \A g \in stillNow \cap groups' : g \in v.groups \/ Missed(s, g)'
    BY <2>3, <2>6 DEF Collected
  <2>12. v.step = "serialize" => kept'[s] \ groups' \subseteq v.results
    BY <2>3 DEF Collected
  <2>13. v.step \in {"open", "write", "rename"} =>
           \A g \in stillNow : g \in v.data \/ Missed(s, g)'
    BY <2>3, <2>6 DEF Collected
  <2> QED BY <2>1, <2>7, <2>8, <2>9, <2>10, <2>11, <2>12, <2>13 DEF Collected
<1> QED BY <1>1, <1>2

\* A reading of one store: what it adds to what was read before.  If the lengths
\* agree and nobody changed stores, the two snapshots hold every live download.
LEMMA Collecting ==
    ASSUME SaveInv, Next, NEW s \in Savers, Collected(s), Collect(s)
    PROVE  Collected(s)'
<1> DEFINE v == saver[s]
           still == kept[s] \ moved[s]
<1>0. /\ saver \in [Savers -> SaverRecord] /\ v \in SaverRecord
      /\ ManTypeOK /\ Home /\ kept[s] \subseteq Gids /\ moved[s] \subseteq Gids
      /\ groups \subseteq Gids /\ active \subseteq Gids /\ ReservedIds \subseteq Gids
  <2>1. \A q \in Seq(Gids) : ToSet(q) \subseteq Gids
    BY GidSet, ElementOfSeq
  <2> QED BY <2>1 DEF SaveInv, TypeOK, ManTypeOK, ReservedIds
<1>1. UNCHANGED <<group, groups, active, reserved, stopped>>
  BY DEF Collect, KeepStores, manVars
<1>2. /\ ReservedIds' = ReservedIds /\ SavedResults' = SavedResults /\ Owed' = Owed
      /\ \A g \in Gids : BetweenStores(g)' <=> BetweenStores(g)
  BY <1>1 DEF ReservedIds, SavedResults, Owed, BetweenStores
<1>3. kept[s] \subseteq Owed
  BY DEF Collected
<1>4. ASSUME saver'[s] # NotSaving, ~Begins(s) PROVE kept'[s] = kept[s] /\ moved'[s] = moved[s]
  <2>1. ChangedStore = {}
    BY <1>1, <1>2 DEF ChangedStore
  <2> QED BY <1>2, <1>3, <1>4, <2>1, Watching
<1>5. \A w \in SaverRecord : Steps(s, w) => saver'[s] = w
  BY <1>0, OneSaver
<1>6. ASSUME NEW w \in SaverRecord, Steps(s, w), w.step \notin {"idle", "reserved"}
      PROVE  saver'[s] = w /\ kept'[s] = kept[s] /\ moved'[s] = moved[s]
  BY <1>4, <1>5, <1>6, SaverTypes DEF Begins
<1>7. PICK w \in SaverRecord : Steps(s, w) /\ saver'[s] = w
  BY <1>0, <1>5, CollectTypes
<1>8. ASSUME w.step \notin {"idle", "reserved"},
             w.step \in {"count", "compare", "fast"} =>
               \A g \in Gids \ moved[s] : g \in w.reserved <=> g \in ReservedIds,
             w.step = "compare" =>
               \E G \in SUBSET Gids :
                 /\ w.count = Cardinality(G)
                 /\ moved[s] = {} => active \cup ReservedIds \cup (still \cap groups) \subseteq G,
             w.step = "fast" /\ moved[s] = {} => \A g \in still : ~BetweenStores(g),
             w.step = "reserved_again" => still \cap active \subseteq w.groups,
             w.step = "index" => still \cap (active \cup ReservedIds) \subseteq w.groups,
             w.step \in {"results", "serialize"} =>
               \A g \in still \cap groups : g \in w.groups \/ Missed(s, g),
             w.step = "serialize" => kept[s] \ groups \subseteq w.results,
             w.step \in {"open", "write", "rename"} =>
               \A g \in still : g \in w.data \/ Missed(s, g)
      PROVE  Collected(s)'
  <2>1. saver'[s] = w /\ kept'[s] = kept[s] /\ moved'[s] = moved[s]
    BY <1>6, <1>7, <1>8
  <2>2. \A g \in Gids : Missed(s, g) <=> Missed(s, g)'
    BY <1>2, <2>1 DEF Missed
  <2>3. still \subseteq Gids
    BY <1>0
  <2>4. \A g \in still : /\ Missed(s, g) <=> Missed(s, g)'
                         /\ BetweenStores(g)' <=> BetweenStores(g)
    BY <1>2, <2>2, <2>3
  <2>5. kept'[s] \subseteq Owed'
    BY <1>2, <1>3, <2>1
  <2>6. groups' = groups /\ active' = active /\ ReservedIds' = ReservedIds
    BY <1>1, <1>2
  <2> HIDE <1>2
  <2> QED BY <1>8, <2>1, <2>4, <2>5, <2>6 DEF Collected
<1>9. CASE v.step = "reserved"
  <2>1. w = [v EXCEPT !.step = "count", !.reserved = ReservedIds]
    BY <1>0, <1>7, <1>9 DEF Collect, Steps
  <2>2. w.step = "count" /\ w.reserved = ReservedIds
    BY <1>0, <2>1 DEF SaverRecord
  <2> QED BY <1>8, <2>2
<1>10. CASE v.step = "count"
  <2>1. w = [v EXCEPT !.step = "compare", !.count = Cardinality(groups)]
    BY <1>0, <1>7, <1>10 DEF Collect, Steps
  <2>2. w.step = "compare" /\ w.reserved = v.reserved /\ w.count = Cardinality(groups)
    BY <1>0, <2>1 DEF SaverRecord
  <2>3. \A g \in Gids \ moved[s] : g \in w.reserved <=> g \in ReservedIds
    BY <1>10, <2>2 DEF Collected
  <2>4. active \cup ReservedIds \cup (still \cap groups) \subseteq groups
    BY <1>0 DEF Home
  <2> QED BY <1>0, <1>8, <2>2, <2>3, <2>4
<1>11. CASE v.step = "compare"
  <2>1. w = IF IsSteady(v) THEN [v EXCEPT !.step = "fast", !.count = 0]
            ELSE [v EXCEPT !.step = "active", !.count = 0, !.reserved = {}]
    BY <1>0, <1>7, <1>11 DEF Collect, Steps
  <2>2. CASE ~IsSteady(v)
    <3>1. w.step = "active"
      BY <1>0, <2>1, <2>2 DEF SaverRecord
    <3> QED BY <1>8, <3>1
  <2>3. CASE IsSteady(v)
    <3>1. w.step = "fast" /\ w.reserved = v.reserved
      BY <1>0, <2>1, <2>3 DEF SaverRecord
    <3>2. \A g \in Gids \ moved[s] : g \in v.reserved <=> g \in ReservedIds
      BY <1>11 DEF Collected
    <3>3. moved[s] = {} => \A g \in still : ~BetweenStores(g)
      <4> SUFFICES ASSUME moved[s] = {} PROVE \A g \in still : ~BetweenStores(g)
        OBVIOUS
      <4>1. v.reserved = ReservedIds
        BY <1>0, <3>2, SaverTypes
      <4>2. PICK G \in SUBSET Gids :
              v.count = Cardinality(G) /\ active \cup ReservedIds \cup (still \cap groups) \subseteq G
        BY <1>11 DEF Collected
      <4>3. Cardinality(active) + Cardinality(ReservedIds) = Cardinality(G)
        BY <2>3, <4>1, <4>2 DEF IsSteady
      <4>4. /\ IsFiniteSet(G) /\ IsFiniteSet(active) /\ IsFiniteSet(ReservedIds)
        BY <1>0, FS_Subset, ManagerAssumption
      <4>5. active \cap ReservedIds = {} /\ Cardinality({}) = 0
        BY <1>0, FS_EmptySet DEF Home
      <4>6. Cardinality(active \cup ReservedIds) = Cardinality(active) + Cardinality(ReservedIds) - 0
        BY <4>4, <4>5, FS_Union
      <4>7. Cardinality(active \cup ReservedIds) = Cardinality(G)
        <5>1. Cardinality(active) \in Nat /\ Cardinality(ReservedIds) \in Nat
          BY <4>4, FS_CardinalityType
        <5> QED BY <4>3, <4>6, <5>1
      <4>8. G = active \cup ReservedIds
        <5>1. active \cup ReservedIds \in SUBSET G
          BY <4>2
        <5> QED BY <4>4, <4>7, <5>1, FS_Subset
      <4> QED BY <4>2, <4>8 DEF BetweenStores
    <3> QED BY <1>8, <3>1, <3>2, <3>3
  <2> QED BY <2>2, <2>3
<1>12. CASE v.step = "fast"
  <2>1. w = [v EXCEPT !.step = "results", !.groups = active \cup v.reserved, !.reserved = {}]
    BY <1>0, <1>7, <1>12 DEF Collect, Steps
  <2>2. w.step = "results" /\ w.groups = active \cup v.reserved
    BY <1>0, <2>1 DEF SaverRecord
  <2>3. /\ \A g \in Gids \ moved[s] : g \in v.reserved <=> g \in ReservedIds
        /\ moved[s] = {} => \A g \in still : ~BetweenStores(g)
    BY <1>12 DEF Collected
  <2>4. \A g \in still \cap groups : g \in w.groups \/ Missed(s, g)
    BY <1>0, <2>2, <2>3 DEF Missed, BetweenStores
  <2> QED BY <1>8, <2>2, <2>4
<1>13. CASE v.step = "active"
  <2>1. w = [v EXCEPT !.step = "reserved_again", !.groups = active]
    BY <1>0, <1>7, <1>13 DEF Collect, Steps
  <2>2. w.step = "reserved_again" /\ w.groups = active
    BY <1>0, <2>1 DEF SaverRecord
  <2> QED BY <1>8, <2>2
<1>14. CASE v.step = "reserved_again"
  <2>1. w = [v EXCEPT !.step = "index", !.groups = v.groups \cup ReservedIds]
    BY <1>0, <1>7, <1>14 DEF Collect, Steps
  <2>2. w.step = "index" /\ w.groups = v.groups \cup ReservedIds
    BY <1>0, <2>1 DEF SaverRecord
  <2>3. still \cap active \subseteq v.groups
    BY <1>14 DEF Collected
  <2> QED BY <1>8, <2>2, <2>3
<1>15. CASE v.step = "index"
  <2>1. w = [v EXCEPT !.step = "results", !.groups = v.groups \cup groups]
    BY <1>0, <1>7, <1>15 DEF Collect, Steps
  <2>2. w.step = "results" /\ w.groups = v.groups \cup groups
    BY <1>0, <2>1 DEF SaverRecord
  <2> QED BY <1>8, <2>2
<1>16. CASE v.step = "results"
  <2>1. w = [v EXCEPT !.step = "serialize", !.results = SavedResults]
    BY <1>0, <1>7, <1>16 DEF Collect, Steps
  <2>2. w.step = "serialize" /\ w.results = SavedResults /\ w.groups = v.groups
    BY <1>0, <2>1 DEF SaverRecord
  <2>3. \A g \in still \cap groups : g \in v.groups \/ Missed(s, g)
    BY <1>16 DEF Collected
  <2>4. kept[s] \ groups \subseteq SavedResults
    BY <1>3 DEF Owed
  <2> QED BY <1>8, <2>2, <2>3, <2>4
<1>17. CASE v.step = "serialize"
  <2>1. w = [NotSaving EXCEPT !.step = "open",
                        !.data = {g \in v.groups : ~IsTerminal(group[g])} \cup v.results]
    BY <1>0, <1>7, <1>17 DEF Collect, Steps
  <2>2. w.step = "open" /\ w.data = {g \in v.groups : ~IsTerminal(group[g])} \cup v.results
    BY <2>1 DEF NotSaving
  <2>3. /\ \A g \in still \cap groups : g \in v.groups \/ Missed(s, g)
        /\ kept[s] \ groups \subseteq v.results
    BY <1>17 DEF Collected
  <2>4. \A g \in still \cap groups : ~IsTerminal(group[g])
    BY <1>0, <1>3 DEF Owed, SavedResults, Home
  <2>5. \A g \in still : g \in w.data \/ Missed(s, g)
    BY <2>2, <2>3, <2>4
  <2> QED BY <1>8, <2>2, <2>5
<1>18. v.step \in {"reserved", "count", "compare", "fast", "active", "reserved_again", "index",
                   "results", "serialize"}
  BY DEF Collect
<1> QED BY <1>9, <1>10, <1>11, <1>12, <1>13, <1>14, <1>15, <1>16, <1>17, <1>18

\* What a save writes is what it has collected.
LEMMA Writing ==
    ASSUME SaveInv, Next, NEW s \in Savers, Collected(s), Open(s) \/ Write(s)
    PROVE  Collected(s)'
<1>0. saver \in [Savers -> SaverRecord] /\ saver[s] \in SaverRecord
  BY DEF SaveInv, TypeOK
<1>1. PICK w : /\ saver' = [saver EXCEPT ![s] = w] /\ w.step \in {"write", "rename"}
               /\ w.data = saver[s].data /\ saver[s].step \in {"open", "write"}
  <2>1. CASE Open(s)
    <3> DEFINE w == [saver[s] EXCEPT !.step = "write", !.file = TempFile]
    <3>1. w.step = "write" /\ w.data = saver[s].data
      BY <1>0 DEF SaverRecord
    <3> QED BY <2>1, <3>1 DEF Open, Steps
  <2>2. CASE Write(s)
    <3> DEFINE w == [saver[s] EXCEPT !.step = "rename"]
    <3>1. w.step = "rename" /\ w.data = saver[s].data
      BY <1>0 DEF SaverRecord
    <3> QED BY <2>2, <3>1 DEF Write, Steps
  <2> QED BY <2>1, <2>2
<1>2. saver'[s] = w /\ saver'[s] # NotSaving /\ ~Begins(s)
  BY <1>0, <1>1, SaverTypes DEF Begins
<1>3. UNCHANGED <<group, groups, active, reserved, stopped>>
  BY DEF Open, Write, KeepAllBut, KeepStores, manVars
<1>4. /\ ReservedIds' = ReservedIds /\ Owed' = Owed /\ ChangedStore = {}
      /\ \A g : BetweenStores(g)' <=> BetweenStores(g)
  BY <1>3 DEF ReservedIds, SavedResults, Owed, BetweenStores, ChangedStore
<1>5. kept'[s] = kept[s] /\ moved'[s] = moved[s] /\ kept[s] \subseteq Owed
  BY <1>2, <1>4, Watching DEF Collected
<1>6. \A g \in kept[s] \ moved[s] : g \in w.data \/ Missed(s, g)
  BY <1>1 DEF Collected
<1>7. \A g \in kept'[s] \ moved'[s] : g \in saver'[s].data \/ Missed(s, g)'
  BY <1>2, <1>4, <1>5, <1>6 DEF Missed
<1>8. saver'[s].step \in {"write", "rename"} /\ kept'[s] \subseteq Owed'
  BY <1>1, <1>2, <1>4, <1>5
<1> QED BY <1>7, <1>8 DEF Collected

\* What a save has collected is right for each saver after each step.
LEMMA CollectStep ==
    ASSUME SaveInv, CollectInv, [Next]_vars
    PROVE  CollectInv'
<1> SUFFICES ASSUME NEW s \in Savers PROVE Collected(s)'
  BY DEF CollectInv
<1>1. Collected(s) /\ saver \in [Savers -> SaverRecord] /\ OwnerSaves /\ DiskTyped
  BY SaveInvParts DEF CollectInv, DiskTyped
<1>2. CASE UNCHANGED vars
  <2>1. /\ saver' = saver /\ kept' = kept /\ moved' = moved /\ groups' = groups /\ active' = active
        /\ reserved' = reserved /\ group' = group /\ stopped' = stopped
    BY <1>2 DEF vars, manVars, diskVars, ghosts
  <2>2. /\ ReservedIds' = ReservedIds /\ Owed' = Owed
        /\ \A g : (BetweenStores(g)' <=> BetweenStores(g)) /\ (Missed(s, g)' <=> Missed(s, g))
    BY <2>1 DEF ReservedIds, Owed, SavedResults, BetweenStores, Missed
  <2> QED BY <1>1, <2>1, <2>2 DEF Collected
<1>3. CASE Next
  <2>1. ASSUME NEW t \in Savers, Starts(t) PROVE Collected(s)'
    <3>1. PICK v \in {saver[t], NotSaving} : saver' = [saver EXCEPT ![t] = [v EXCEPT !.step = "reserved"]]
      BY <2>1 DEF Starts, Steps
    <3>2. CASE t = s
      <4>1. saver[s] \in SaverRecord /\ v \in SaverRecord
        BY <1>1, <3>1, <3>2, SaverTypes
      <4>2. saver'[s].step = "reserved"
        BY <1>1, <3>1, <3>2, <4>1 DEF SaverRecord
      <4>3. Begins(s)
        BY <2>1, <3>2, <4>2 DEF Begins, Starts
      <4> QED BY <1>3, <4>3, Unwatched
    <3>3. CASE t # s
      BY <1>1, <1>3, <3>1, <3>3, Watched
    <3> QED BY <3>2, <3>3
  <2>2. ASSUME NEW t \in Savers, Collect(t) \/ Open(t) \/ Write(t) PROVE Collected(s)'
    <3>1. CASE t = s
      BY <1>1, <1>3, <2>2, <3>1, Collecting, Writing
    <3>2. CASE t # s
      <4>1. saver'[s] = saver[s]
        BY <1>1, <2>2, <3>2 DEF Collect, Open, Write, Steps
      <4> QED BY <1>1, <1>3, <4>1, Watched
    <3> QED BY <3>1, <3>2
  <2>3. ASSUME NEW t \in Savers, NEW ok, Ends(t, ok), saver[t].step \notin {"idle", "reserved"}
        PROVE  Collected(s)'
    <3>1. PICK v \in {NotSaving, [NotSaving EXCEPT !.step = "reserved"]} : saver' = [saver EXCEPT ![t] = v]
      BY <1>1, <2>3, OwnerPhase
    <3>2. CASE t = s
      <4>1. saver'[s] = NotSaving \/ saver'[s].step = "reserved"
        BY <1>1, <3>1, <3>2 DEF NotSaving
      <4>2. saver'[s] = NotSaving \/ Begins(s)
        BY <2>3, <3>2, <4>1 DEF Begins
      <4> QED BY <1>3, <4>2, Unwatched
    <3>3. CASE t # s
      BY <1>1, <1>3, <3>1, <3>3, Watched
    <3> QED BY <3>2, <3>3
  <2>4. ASSUME NEW t \in Savers, Rename(t) \/ SaveFails(t) PROVE Collected(s)'
    <3>1. saver[t].step \notin {"idle", "reserved"} /\ \E ok : Ends(t, ok)
      BY <2>4 DEF Rename, SaveFails
    <3> QED BY <2>3, <3>1
  <2>5. CASE RpcAbandoned
    <3>1. saver["rpc"].step \notin {"idle", "reserved"} /\ Ends("rpc", FALSE) /\ "rpc" \in Savers
      BY <2>5 DEF RpcAbandoned, Savers
    <3> QED BY <2>3, <3>1
  <2>6. CASE UNCHANGED diskVars
    <3>1. saver' = saver
      BY <2>6 DEF diskVars
    <3> QED BY <1>1, <1>3, <3>1, Watched
  <2> QED BY <1>3, <2>1, <2>2, <2>4, <2>5, <2>6, DiskCases DEF Saver
<1> QED BY <1>2, <1>3

\* groups_snapshot without the lifecycle lock: a download that is owed from the
\* beginning of a save and is not moved meanwhile is saved, however the engine
\* and the clients interleave with the readings, unless it was between two
\* stores while another download moved.
THEOREM SavesHoldWhatIsOwed == Spec => []SavesAreComplete
<1>1. Init => CollectInv
  <2> SUFFICES ASSUME Init, NEW s \in Savers PROVE Collected(s)
    BY DEF CollectInv
  <2>1. saver[s].step = "idle" /\ kept[s] = {}
    BY SaverTypes DEF Init
  <2> QED BY <2>1 DEF Collected
<1>2. SaveInv /\ CollectInv /\ [Next]_vars => CollectInv'
  BY CollectStep
<1>3. CollectInv => SavesAreComplete
  BY DEF CollectInv, Collected, Missed, SavesAreComplete
<1> QED BY <1>1, <1>2, <1>3, SaveAlways, PTL DEF Spec
=============================================================================
