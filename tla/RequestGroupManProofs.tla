------------------------ MODULE RequestGroupManProofs ------------------------
(***************************************************************************)
(* What the operations of the request-group manager preserve, for any set  *)
(* of downloads: the types, and that every live group is in exactly one of *)
(* the active map and the reserved queue.                                  *)
(***************************************************************************)
EXTENDS RequestGroupMan, FiniteSetTheorems, SequenceTheorems, TLAPS

-----------------------------------------------------------------------------
\* The elements of a queue of gids, by their places.
LEMMA GidSet == \A q \in Seq(Gids) : ToSet(q) = {q[k] : k \in 1..Len(q)}
BY LenProperties DEF ToSet

\* Appending a gid adds it to the queue, and once when it was not queued.
LEMMA GidAppend ==
    ASSUME NEW q \in Seq(Gids), NEW g \in Gids
    PROVE  /\ Append(q, g) \in Seq(Gids)
           /\ ToSet(Append(q, g)) = ToSet(q) \cup {g}
           /\ OnceIn(q) /\ g \notin ToSet(q) => OnceIn(Append(q, g))
<1> DEFINE a == Append(q, g)
<1>1. /\ a \in Seq(Gids) /\ Len(a) = Len(q) + 1 /\ Len(q) \in Nat
      /\ \A k \in 1..Len(q) : a[k] = q[k]
      /\ a[Len(q) + 1] = g
  BY AppendProperties, LenProperties
<1> HIDE DEF a
<1>2. \A k \in 1..Len(a) : k \in 1..Len(q) \/ k = Len(q) + 1
  BY <1>1
<1>3. ToSet(a) = ToSet(q) \cup {g}
  BY <1>1, <1>2 DEF ToSet
<1>4. ASSUME OnceIn(q), g \notin ToSet(q) PROVE OnceIn(a)
  BY <1>1, <1>2, <1>4 DEF OnceIn, ToSet
<1> QED BY <1>1, <1>3, <1>4 DEF a

\* Taking an entry out of the queue removes its gid and nothing else.
LEMMA GidWithout ==
    ASSUME NEW q \in Seq(Gids), NEW k \in 1..Len(q)
    PROVE  /\ RemoveAt(q, k) \in Seq(Gids)
           /\ OnceIn(q) => /\ ToSet(RemoveAt(q, k)) = ToSet(q) \ {q[k]}
                           /\ OnceIn(RemoveAt(q, k))
<1> DEFINE a == RemoveAt(q, k)
           At(j) == IF j < k THEN j ELSE j + 1
<1>0. Len(q) \in Nat /\ \A j \in 1..Len(q) : q[j] \in Gids
  BY LenProperties, ElementOfSeq
<1>1. \A j \in 1..Len(q) - 1 : At(j) \in 1..Len(q) \ {k}
  BY <1>0
<1>2. /\ SubSeq(q, 1, k - 1) \in Seq(Gids) /\ Len(SubSeq(q, 1, k - 1)) = k - 1
      /\ \A j \in 1..k - 1 : SubSeq(q, 1, k - 1)[j] = q[j]
  BY <1>0, SubSeqProperties
<1>3. /\ SubSeq(q, k + 1, Len(q)) \in Seq(Gids) /\ Len(SubSeq(q, k + 1, Len(q))) = Len(q) - k
      /\ \A j \in 1..Len(q) - k : SubSeq(q, k + 1, Len(q))[j] = q[k + j]
  BY <1>0, SubSeqProperties
<1>4. /\ a \in Seq(Gids) /\ Len(a) = Len(q) - 1
      /\ \A j \in 1..Len(q) - 1 : a[j] = q[At(j)]
  <2> DEFINE b == SubSeq(q, 1, k - 1)
             c == SubSeq(q, k + 1, Len(q))
  <2>1. b \in Seq(Gids) /\ c \in Seq(Gids) /\ Len(b) = k - 1 /\ Len(c) = Len(q) - k
    BY <1>2, <1>3
  <2>2. /\ \A j \in 1..k - 1 : b[j] = q[j]
        /\ \A j \in 1..Len(q) - k : c[j] = q[k + j]
    BY <1>2, <1>3
  <2>3. a = b \o c
    BY DEF RemoveAt
  <2> HIDE DEF a, b, c
  <2>4. /\ a \in Seq(Gids) /\ Len(a) = Len(b) + Len(c)
        /\ \A j \in 1..Len(b) + Len(c) : a[j] = IF j <= Len(b) THEN b[j] ELSE c[j - Len(b)]
    BY <2>1, <2>3, ConcatProperties
  <2>5. k \in Int /\ Len(a) = Len(q) - 1
    BY <1>0, <2>1, <2>4
  <2>6. ASSUME NEW j \in 1..Len(q) - 1 PROVE a[j] = q[At(j)]
    <3>1. j \in 1..Len(b) + Len(c)
      BY <1>0, <2>1
    <3>2. CASE j < k
      BY <1>0, <2>1, <2>2, <2>4, <3>1, <3>2
    <3>3. CASE ~(j < k)
      <4>1. j - (k - 1) \in 1..Len(q) - k /\ ~(j <= k - 1) /\ k + (j - (k - 1)) = j + 1
        BY <1>0, <3>3
      <4>2. a[j] = c[j - (k - 1)]
        BY <2>1, <2>4, <3>1, <4>1
      <4> QED BY <2>2, <3>3, <4>1, <4>2
    <3> QED BY <3>2, <3>3
  <2> QED BY <2>4, <2>5, <2>6
<1>5. \A j \in 1..Len(a) : a[j] = q[At(j)] /\ At(j) \in 1..Len(q) \ {k}
  BY <1>1, <1>4
<1>6. \A m \in 1..Len(q) \ {k} : \E j \in 1..Len(a) : At(j) = m
  <2> TAKE m \in 1..Len(q) \ {k}
  <2>1. CASE m < k
    BY <1>0, <1>4, <2>1
  <2>2. CASE m > k
    <3>1. m - 1 \in 1..Len(a) /\ At(m - 1) = m
      BY <1>0, <1>4, <2>2
    <3> QED BY <3>1
  <2> QED BY <2>1, <2>2, <1>0
<1>7. \A i, j \in 1..Len(a) : At(i) = At(j) => i = j
  BY <1>0, <1>4
<1> HIDE DEF a, At
<1>8. ASSUME OnceIn(q) PROVE ToSet(a) = ToSet(q) \ {q[k]}
  <2>1. \A x \in ToSet(a) : x \in ToSet(q) \ {q[k]}
    BY <1>5, <1>8 DEF ToSet, OnceIn
  <2>2. ASSUME NEW x \in ToSet(q) \ {q[k]} PROVE x \in ToSet(a)
    <3>1. PICK m \in 1..Len(q) : q[m] = x
      BY GidSet
    <3>2. PICK j \in 1..Len(a) : a[j] = x
      BY <1>5, <1>6, <3>1
    <3>3. ToSet(a) = {a[i] : i \in 1..Len(a)}
      BY <1>4, GidSet
    <3> QED BY <3>2, <3>3
  <2> QED BY <2>1, <2>2
<1>9. ASSUME OnceIn(q) PROVE OnceIn(a)
  BY <1>5, <1>7, <1>9 DEF OnceIn
<1> QED BY <1>4, <1>8, <1>9 DEF a

\* An enumeration of a set of gids put in front of the queue.
LEMMA GidPrefix ==
    ASSUME NEW q \in Seq(Gids), NEW S \in SUBSET Gids, IsFiniteSet(S), NEW o \in SetToSeqs(S)
    PROVE  /\ o \o q \in Seq(Gids)
           /\ ToSet(o \o q) = ToSet(q) \cup S
           /\ OnceIn(q) /\ S \cap ToSet(q) = {} => OnceIn(o \o q)
<1> DEFINE n == Cardinality(S)
           a == o \o q
<1>1. n \in Nat /\ Len(q) \in Nat
  BY FS_CardinalityType, LenProperties
<1>2. /\ o \in [1..n -> S]
      /\ \A j, k \in 1..n : o[j] = o[k] => j = k
      /\ \A g \in S : \E k \in 1..n : o[k] = g
  <2>1. o \in [1..n -> S] /\ \A j, k \in 1..n : o[j] = o[k] => j = k
    BY DEF SetToSeqs
  <2>2. o \in Injection(1..n, S)
    BY <2>1 DEF Injection, IsInjective
  <2>3. Cardinality(1..n) = n
    BY <1>1, FS_Interval
  <2>4. o \in Surjection(1..n, S)
    BY <2>2, <2>3, FS_Injection
  <2> QED BY <2>1, <2>4 DEF Surjection
<1>3. o \in Seq(Gids) /\ Len(o) = n
  <2>1. o \in [1..n -> Gids]
    BY <1>2
  <2> HIDE DEF n
  <2> QED BY <1>1, <2>1, SeqDef, LenProperties
<1>4. /\ a \in Seq(Gids) /\ Len(a) = Len(o) + Len(q)
      /\ \A k \in 1..Len(o) + Len(q) : a[k] = IF k <= Len(o) THEN o[k] ELSE q[k - Len(o)]
  BY <1>3, ConcatProperties
<1> HIDE DEF a, n
<1>5. /\ \A k \in 1..n : k \in 1..Len(a) /\ a[k] = o[k]
      /\ \A k \in 1..Len(q) : n + k \in 1..Len(a) /\ a[n + k] = q[k]
      /\ \A k \in 1..Len(a) : k \in 1..n \/ (k - n \in 1..Len(q) /\ a[k] = q[k - n])
  BY <1>1, <1>3, <1>4
<1>6. ToSet(a) = ToSet(q) \cup S
  <2> DEFINE A == ToSet(a)
             Q == ToSet(q)
  <2>0. A = {a[k] : k \in 1..Len(a)} /\ Q = {q[k] : k \in 1..Len(q)}
    BY <1>4, GidSet
  <2> HIDE DEF A, Q
  <2>1. ASSUME NEW k \in 1..Len(a) PROVE a[k] \in Q \cup S
    <3>1. CASE k \in 1..n
      BY <1>2, <1>5, <3>1
    <3>2. CASE k - n \in 1..Len(q) /\ a[k] = q[k - n]
      BY <2>0, <3>2
    <3> QED BY <1>5, <3>1, <3>2
  <2>2. ASSUME NEW g \in S PROVE g \in A
    <3>1. PICK k \in 1..n : o[k] = g
      BY <1>2
    <3> QED BY <1>5, <2>0, <3>1
  <2>3. ASSUME NEW g \in Q PROVE g \in A
    <3>1. PICK k \in 1..Len(q) : q[k] = g
      BY <2>0
    <3> QED BY <1>5, <2>0, <3>1
  <2>4. A = Q \cup S
    BY <2>0, <2>1, <2>2, <2>3
  <2> QED BY <2>4 DEF A, Q
<1>7. ASSUME OnceIn(q), S \cap ToSet(q) = {} PROVE OnceIn(a)
  <2>1. \A k \in 1..Len(q) : q[k] \in ToSet(q)
    BY GidSet
  <2> SUFFICES ASSUME NEW j \in 1..Len(a), NEW k \in 1..Len(a), a[j] = a[k]
               PROVE  j = k
    BY DEF OnceIn
  <2>2. CASE j \in 1..n /\ k \in 1..n
    BY <1>2, <1>5, <2>2
  <2>3. CASE j \in 1..n /\ k \notin 1..n
    BY <1>2, <1>5, <1>7, <2>1, <2>3
  <2>4. CASE j \notin 1..n /\ k \in 1..n
    BY <1>2, <1>5, <1>7, <2>1, <2>4
  <2>5. CASE j \notin 1..n /\ k \notin 1..n
    <3>1. j - n = k - n
      BY <1>5, <1>7, <2>5 DEF OnceIn
    <3> QED BY <1>1, <1>3, <1>4, <3>1
  <2> QED BY <2>2, <2>3, <2>4, <2>5
<1> QED BY <1>4, <1>6, <1>7 DEF a

-----------------------------------------------------------------------------
\* Every transition of a RequestGroup yields a RequestGroup.
LEMMA GroupTransitions ==
    ASSUME NEW r \in GroupRecord
    PROVE  /\ {Start(r), Pause(r), Resume(r), RequestRestart(r), SetPendingOptions(r),
               ApplyPendingOptions(r), MarkRemoved(r), TimeOut(r), MarkRemoved(r), MarkComplete(r),
               MarkError(r), MarkPaused(r), MarkWaiting(r), RecordFailure(r), IncCommands(r),
               DecCommands(r), Promoted(r), Requeued(r), RequestRestart(Pause(r))} \subseteq GroupRecord
           /\ \A reason \in HaltReasons : RequestHalt(r, reason) \in GroupRecord
           /\ [r EXCEPT !.resolved = TRUE] \in GroupRecord
<1> USE DEF GroupRecord, Statuses, HaltReasons
<1>1. Start(r) \in GroupRecord /\ MarkRemoved(r) \in GroupRecord /\ MarkRemoved(r) \in GroupRecord
  BY DEF Start, Remove, MarkRemoved
<1>2. /\ MarkComplete(r) \in GroupRecord /\ MarkError(r) \in GroupRecord
      /\ MarkPaused(r) \in GroupRecord /\ MarkWaiting(r) \in GroupRecord
  BY DEF MarkComplete, MarkError, MarkPaused, MarkWaiting
<1>3. \A s \in GroupRecord : Pause(s) \in GroupRecord /\ Resume(s) \in GroupRecord
  <2> TAKE s \in GroupRecord
  <2>1. [s EXCEPT !.status = "Paused", !.halt = TRUE, !.pause = TRUE] \in GroupRecord
    OBVIOUS
  <2>2. [s EXCEPT !.status = "Waiting", !.failure = FALSE, !.pause = FALSE,
                  !.halt = FALSE, !.restart = FALSE] \in GroupRecord
    OBVIOUS
  <2> HIDE DEF GroupRecord
  <2> QED BY <2>1, <2>2 DEF Pause, Resume
<1>4. \A s \in GroupRecord : RequestRestart(s) \in GroupRecord /\ ApplyPendingOptions(s) \in GroupRecord
  BY DEF RequestRestart, ApplyPendingOptions
<1>5. SetPendingOptions(r) \in GroupRecord /\ RecordFailure(r) \in GroupRecord
  BY DEF SetPendingOptions, RecordFailure
<1>6. \A reason \in HaltReasons : RequestHalt(r, reason) \in GroupRecord
  BY DEF RequestHalt
<1>7. TimeOut(r) \in GroupRecord
  BY <1>6 DEF TimeOut
<1>8. IncCommands(r) \in GroupRecord
  BY DEF IncCommands
<1>9. DecCommands(r) \in GroupRecord
  <2>1. r.commands \in Nat /\ (r.commands > 0 => r.commands - 1 \in Nat)
    OBVIOUS
  <2> QED BY <2>1 DEF DecCommands
<1>10. Promoted(r) \in GroupRecord
  BY <1>1 DEF Promoted, Start
<1>11. Requeued(r) \in GroupRecord
  <2>1. \A s \in GroupRecord : MarkWaiting(s) \in GroupRecord
    BY DEF MarkWaiting
  <2> DEFINE q == IF r.restart THEN ApplyPendingOptions(r) ELSE r
  <2>2. q \in GroupRecord
    BY <1>4
  <2>3. Requeued(r) \in {MarkWaiting(q), Resume(q), q}
    BY DEF Requeued
  <2> HIDE DEF q
  <2> QED BY <1>3, <2>1, <2>2, <2>3
<1>12. [r EXCEPT !.resolved = TRUE] \in GroupRecord
  OBVIOUS
<1>13. RequestRestart(Pause(r)) \in GroupRecord
  BY <1>3, <1>4
<1> HIDE DEF GroupRecord, Statuses, HaltReasons
<1> QED BY <1>1, <1>2, <1>3, <1>4, <1>5, <1>6, <1>7, <1>8, <1>9, <1>10, <1>11, <1>12, <1>13

\* create_download_result covers every status.
LEMMA ResultType ==
    ASSUME NEW r \in GroupRecord
    PROVE  DownloadResult(r) \in ResultRecord
<1>1. r.status \in Statuses /\ r.reason \in HaltReasons
  BY DEF GroupRecord
<1>2. ResultCode(r) \in ResultCodes
  BY <1>1 DEF ResultCode, ResultCodes, Statuses, HaltReasons, IsPausable
<1> QED BY <1>1, <1>2 DEF DownloadResult, ResultRecord

\* Settling a finished command: whoever asked for the halt decides, and every
\* halt reason is covered.
LEMMA SettleType ==
    ASSUME NEW r \in GroupRecord, NEW result \in TaskResults, NEW last \in BOOLEAN
    PROVE  ApplyCompletion(r, result, last) \in GroupRecord
<1>1. /\ MarkRemoved(r) \in GroupRecord /\ MarkError(r) \in GroupRecord
      /\ MarkPaused(r) \in GroupRecord /\ MarkComplete(r) \in GroupRecord
      /\ MarkWaiting(r) \in GroupRecord
  BY GroupTransitions
<1>2. \A s \in GroupRecord : RecordFailure(s) \in GroupRecord /\ [s EXCEPT !.failure = FALSE] \in GroupRecord
  BY DEF GroupRecord, RecordFailure
<1>3. r.reason \in HaltReasons
  BY DEF GroupRecord
<1>4. \A other \in GroupRecord : SettleBy(r, other) \in GroupRecord
  BY <1>1, <1>3 DEF SettleBy, HaltReasons
<1>5. SettleSuccess(r) \in GroupRecord
  BY <1>1, <1>4 DEF SettleSuccess
<1>6. SettleFailure(r, result) \in GroupRecord
  <2> DEFINE other == IF WasPauseRequested(r) THEN MarkPaused(r)
                      ELSE IF result # "FailedPaused" THEN MarkError(r)
                      ELSE IF IsTerminal(r) THEN r ELSE MarkWaiting(r)
  <2>1. other \in GroupRecord
    BY <1>1
  <2>2. SettleFailure(r, result) = [SettleBy(r, other) EXCEPT !.failure = FALSE]
    BY DEF SettleFailure
  <2> HIDE DEF other
  <2>3. SettleBy(r, other) \in GroupRecord
    BY <1>4, <2>1
  <2> QED BY <1>2, <2>2, <2>3
<1>7. SettleCancelled(r, last) \in GroupRecord
  BY <1>1, <1>2, <1>4 DEF SettleCancelled
<1>8. RecordFailure(r) \in GroupRecord
  BY <1>2
<1> QED BY <1>5, <1>6, <1>7, <1>8 DEF ApplyCompletion, TaskResults

\* What the transitions of a group leave alone: the commands, and a status
\* that is not terminal.
Gentle(r, s) == s.commands = r.commands /\ (IsTerminal(s) => IsTerminal(r))

\* Which transitions of a group are gentle, and which at least count nothing.
LEMMA GentleTransitions ==
    ASSUME NEW r \in GroupRecord
    PROVE  /\ Gentle(r, r) /\ Gentle(r, Pause(r)) /\ Gentle(r, Resume(r)) /\ Gentle(r, RequestRestart(r))
           /\ Gentle(r, RequestRestart(Pause(r))) /\ Gentle(r, SetPendingOptions(r))
           /\ Gentle(r, Start(r)) /\ Gentle(r, TimeOut(r)) /\ Gentle(r, Promoted(r))
           /\ \A reason : Gentle(r, RequestHalt(r, reason))
           /\ MarkRemoved(r).commands = r.commands /\ MarkError(r).commands = r.commands
           /\ MarkComplete(r).commands = r.commands /\ Requeued(r).commands = r.commands
           /\ [r EXCEPT !.resolved = TRUE].commands = r.commands
<1>1. r = [status |-> r.status, halt |-> r.halt, pause |-> r.pause, restart |-> r.restart,
           reason |-> r.reason, failure |-> r.failure, commands |-> r.commands,
           resolved |-> r.resolved, pending |-> r.pending]
  BY DEF GroupRecord
<1>2. \A s \in GroupRecord : Gentle(s, Pause(s)) /\ Gentle(s, Resume(s)) /\ Gentle(s, RequestRestart(s))
  BY DEF GroupRecord, Gentle, Pause, Resume, RequestRestart, IsTerminal, IsPausable
<1>3. Gentle(r, RequestRestart(Pause(r)))
  <2>1. Pause(r) \in GroupRecord
    BY GroupTransitions
  <2> QED BY <1>2, <2>1 DEF Gentle
<1>4. Gentle(r, r) /\ Gentle(r, SetPendingOptions(r)) /\ Gentle(r, Start(r))
      /\ \A reason : Gentle(r, RequestHalt(r, reason))
  BY DEF GroupRecord, Gentle, SetPendingOptions, Start, RequestHalt, IsTerminal
<1>5. Gentle(r, TimeOut(r))
  BY <1>4 DEF TimeOut
<1>6. Gentle(r, Promoted(r))
  BY DEF GroupRecord, Gentle, Promoted, Start, IsTerminal
<1>7. /\ MarkRemoved(r).commands = r.commands /\ MarkError(r).commands = r.commands
      /\ MarkComplete(r).commands = r.commands /\ [r EXCEPT !.resolved = TRUE].commands = r.commands
  BY DEF GroupRecord, MarkRemoved, MarkError, MarkComplete
<1>8. Requeued(r).commands = r.commands
  <2> DEFINE q == IF r.restart THEN ApplyPendingOptions(r) ELSE r
  <2>1. q \in GroupRecord /\ q.commands = r.commands
    BY DEF GroupRecord, ApplyPendingOptions
  <2>2. Requeued(r) \in {MarkWaiting(q), Resume(q), q}
    BY DEF Requeued
  <2> HIDE DEF q
  <2>3. MarkWaiting(q).commands = q.commands
    BY <2>1 DEF GroupRecord, MarkWaiting
  <2>4. Resume(q).commands = q.commands
    BY <1>2, <2>1 DEF Gentle
  <2> QED BY <2>1, <2>2, <2>3, <2>4
<1> QED BY <1>2, <1>3, <1>4, <1>5, <1>6, <1>7, <1>8

\* Settling a finished command counts nothing.
LEMMA SettleCommands ==
    ASSUME NEW r \in GroupRecord, NEW result \in TaskResults, NEW last \in BOOLEAN
    PROVE  ApplyCompletion(r, result, last).commands = r.commands
<1> DEFINE Same == {s \in GroupRecord : s.commands = r.commands}
<1>1. r \in Same
  OBVIOUS
<1>2. /\ MarkRemoved(r) \in Same /\ MarkError(r) \in Same /\ MarkPaused(r) \in Same
      /\ MarkComplete(r) \in Same /\ MarkWaiting(r) \in Same
  BY GroupTransitions DEF GroupRecord, MarkRemoved, MarkError, MarkPaused, MarkComplete, MarkWaiting
<1>3. \A s \in Same : RecordFailure(s) \in Same /\ [s EXCEPT !.failure = FALSE] \in Same
  BY DEF GroupRecord, RecordFailure
<1>4. r.reason \in HaltReasons
  BY DEF GroupRecord
<1> HIDE DEF Same
<1>5. \A other \in Same : SettleBy(r, other) \in Same
  BY <1>1, <1>2, <1>4 DEF SettleBy, HaltReasons
<1>6. SettleSuccess(r) \in Same
  BY <1>2, <1>5 DEF SettleSuccess
<1>7. SettleFailure(r, result) \in Same
  <2> DEFINE other == IF WasPauseRequested(r) THEN MarkPaused(r)
                      ELSE IF result # "FailedPaused" THEN MarkError(r)
                      ELSE IF IsTerminal(r) THEN r ELSE MarkWaiting(r)
  <2>1. other \in Same
    BY <1>1, <1>2
  <2>2. SettleFailure(r, result) = [SettleBy(r, other) EXCEPT !.failure = FALSE]
    BY DEF SettleFailure
  <2> HIDE DEF other
  <2>3. SettleBy(r, other) \in Same
    BY <1>5, <2>1
  <2> QED BY <1>3, <2>2, <2>3
<1>8. SettleCancelled(r, last) \in Same
  BY <1>1, <1>2, <1>3, <1>5 DEF SettleCancelled
<1>9. RecordFailure(r) \in Same
  BY <1>1, <1>3
<1>10. ApplyCompletion(r, result, last) \in Same
  BY <1>1, <1>6, <1>7, <1>8, <1>9 DEF ApplyCompletion, TaskResults
<1> QED BY <1>10 DEF Same

-----------------------------------------------------------------------------
\* The invariant of the manager: the types, and one home for every live group.
ManInv == ManTypeOK /\ OneHome

\* Operations that only change group records or the limit move nobody.
LEMMA RecordsOnly ==
    ASSUME ManInv, group' \in [Gids -> GroupRecord], max_concurrent' \in Nat,
           UNCHANGED <<groups, active, reserved, stopped>>
    PROVE  ManInv'
BY DEF ManInv, ManTypeOK, OneHome, ReservedIds, ToSet, OnceIn

\* A step that leaves the manager alone keeps it consistent.
LEMMA ManUnchanged == ManInv /\ UNCHANGED manVars => ManInv'
BY RecordsOnly DEF ManInv, ManTypeOK, manVars

\* Pausing and unpausing move nobody.
LEMMA PausesKeep ==
    ASSUME ManInv, NEW g,
           PauseGroup(g) \/ UnpauseGroup(g) \/ PauseAll \/ UnpauseAll
    PROVE  ManInv'
<1>1. group \in [Gids -> GroupRecord] /\ max_concurrent \in Nat
  BY DEF ManInv, ManTypeOK
<1>2. \A h \in Gids : Pause(group[h]) \in GroupRecord /\ Resume(group[h]) \in GroupRecord
  BY <1>1, GroupTransitions
<1>3. group' \in [Gids -> GroupRecord]
  BY <1>1, <1>2 DEF PauseGroup, UnpauseGroup, PauseAll, UnpauseAll, Apply
<1> QED BY <1>1, <1>3, RecordsOnly DEF PauseGroup, UnpauseGroup, PauseAll, UnpauseAll

\* Asking groups to halt moves nobody.
LEMMA HaltsKeep ==
    ASSUME ManInv, NEW reason \in HaltReasons, NEW g, HaltAll(reason) \/ TimeoutGroup(g)
    PROVE  ManInv'
<1>1. group \in [Gids -> GroupRecord] /\ max_concurrent \in Nat /\ active \subseteq Gids
  BY DEF ManInv, ManTypeOK
<1>2. \A h \in Gids : RequestHalt(group[h], reason) \in GroupRecord /\ TimeOut(group[h]) \in GroupRecord
  BY <1>1, GroupTransitions
<1>3. CASE HaltAll(reason)
  <2>1. group' \in [Gids -> GroupRecord]
    BY <1>1, <1>2, <1>3 DEF HaltAll, Apply
  <2> QED BY <1>1, <1>3, <2>1, RecordsOnly DEF HaltAll
<1>4. CASE TimeoutGroup(g)
  <2>1. group' \in [Gids -> GroupRecord]
    BY <1>1, <1>2, <1>4 DEF TimeoutGroup
  <2> QED BY <1>1, <1>4, <2>1, RecordsOnly DEF TimeoutGroup
<1> QED BY <1>3, <1>4

\* Lowering the limit asks for pauses and moves nobody.
LEMMA LimitKeeps ==
    ASSUME ManInv, NEW max \in Nat, SetMaxConcurrent(max)
    PROVE  ManInv'
<1>1. group \in [Gids -> GroupRecord]
  BY DEF ManInv, ManTypeOK
<1>2. \A h \in Gids : RequestRestart(Pause(group[h])) \in GroupRecord
  BY <1>1, GroupTransitions
<1>3. PICK victims : group' = [g \in Gids |-> IF g \in victims THEN RequestRestart(Pause(group[g])) ELSE group[g]]
  BY DEF SetMaxConcurrent, Apply
<1>4. group' \in [Gids -> GroupRecord]
  BY <1>1, <1>2, <1>3
<1> QED BY <1>4, RecordsOnly DEF SetMaxConcurrent

-----------------------------------------------------------------------------
\* A stopped result is recorded under a gid of the instance.
LEMMA RecordType ==
    ASSUME NEW results \in [Gids -> ResultRecord \cup {NoResult}], NEW g, NEW result \in ResultRecord
    PROVE  Record(results, g, result) \in [Gids -> ResultRecord \cup {NoResult}]
BY DEF Record

\* A download that is not live enters the queue, and only there.
LEMMA AddKeeps ==
    ASSUME ManInv, NEW g \in Gids, ~Live(g), AddGroup(g)
    PROVE  ManInv'
<1>1. /\ group \in [Gids -> GroupRecord] /\ reserved \in Seq(Gids)
      /\ g \notin active /\ g \notin ToSet(reserved) /\ OnceIn(reserved)
  BY DEF ManInv, ManTypeOK, OneHome, Live, ReservedIds
<1>2. Pause(group[g]) \in GroupRecord
  BY <1>1, GroupTransitions
<1>3. group' \in [Gids -> GroupRecord]
  BY <1>1, <1>2 DEF AddGroup
<1>4. /\ reserved' \in Seq(Gids) /\ ToSet(reserved') = ToSet(reserved) \cup {g} /\ OnceIn(reserved')
  BY <1>1, GidAppend DEF AddGroup
<1>5. ManTypeOK'
  BY <1>3, <1>4 DEF ManInv, ManTypeOK, AddGroup
<1>6. OneHome'
  BY <1>1, <1>4 DEF ManInv, OneHome, ReservedIds, AddGroup
<1> QED BY <1>5, <1>6 DEF ManInv

\* One reserved group leaves the queue for the active map or for good.
LEMMA LeaveQueue ==
    ASSUME ManInv, NEW k \in 1..Len(reserved), reserved' = RemoveAt(reserved, k),
           \/ groups' = groups /\ active' = active \cup {reserved[k]}
           \/ groups' = groups \ {reserved[k]} /\ active' = active,
           group' \in [Gids -> GroupRecord],
           stopped' \in [Gids -> ResultRecord \cup {NoResult}],
           max_concurrent' = max_concurrent
    PROVE  ManInv'
<1>1. reserved \in Seq(Gids) /\ OnceIn(reserved) /\ reserved[k] \in Gids /\ reserved[k] \in ToSet(reserved)
  BY ElementOfSeq DEF ManInv, ManTypeOK, OneHome, ToSet
<1>2. reserved' \in Seq(Gids) /\ ToSet(reserved') = ToSet(reserved) \ {reserved[k]} /\ OnceIn(reserved')
  BY <1>1, GidWithout
<1>3. ManTypeOK'
  BY <1>1, <1>2 DEF ManInv, ManTypeOK
<1>4. OneHome'
  BY <1>1, <1>2 DEF ManInv, OneHome, ReservedIds
<1> QED BY <1>3, <1>4 DEF ManInv

\* fill_from_reserver moves a queued group to the active map.
LEMMA FillKeeps ==
    ASSUME ManInv, NEW k, FillFromReserver(k)
    PROVE  ManInv' /\ reserved[k] \in Gids
<1>1. k \in 1..Len(reserved)
  BY DEF FillFromReserver, FirstPromotable
<1>2. group \in [Gids -> GroupRecord] /\ reserved[k] \in Gids
  BY <1>1, ElementOfSeq DEF ManInv, ManTypeOK
<1>3. Promoted(group[reserved[k]]) \in GroupRecord
  BY <1>2, GroupTransitions
<1>4. group' \in [Gids -> GroupRecord]
  BY <1>2, <1>3 DEF FillFromReserver
<1>5. stopped' \in [Gids -> ResultRecord \cup {NoResult}]
  BY DEF FillFromReserver, ManInv, ManTypeOK
<1> QED BY <1>1, <1>2, <1>4, <1>5, LeaveQueue DEF FillFromReserver

\* One active group leaves for good.
LEMMA LeaveActive ==
    ASSUME ManInv, NEW g \in active, active' = active \ {g}, groups' = groups \ {g},
           group' \in [Gids -> GroupRecord],
           stopped' \in [Gids -> ResultRecord \cup {NoResult}],
           UNCHANGED <<reserved, max_concurrent>>
    PROVE  ManInv'
<1>1. ManTypeOK'
  BY DEF ManInv, ManTypeOK
<1>2. ReservedIds' = ReservedIds /\ OnceIn(reserved')
  BY DEF ReservedIds, ToSet, ManInv, OneHome
<1>3. OneHome'
  BY <1>2 DEF ManInv, OneHome
<1> QED BY <1>1, <1>3 DEF ManInv

\* Removal takes a reserved group out and leaves an active one where it is.
LEMMA RemoveKeeps ==
    ASSUME ManInv, NEW g, RemoveGroup(g)
    PROVE  ManInv'
<1>1. /\ group \in [Gids -> GroupRecord] /\ max_concurrent \in Nat /\ active \subseteq Gids
      /\ stopped \in [Gids -> ResultRecord \cup {NoResult}]
  BY DEF ManInv, ManTypeOK
<1>2. CASE g \in active
  <2>1. RequestHalt(group[g], "UserRequest") \in GroupRecord
    BY <1>1, <1>2, GroupTransitions DEF HaltReasons
  <2>2. group' \in [Gids -> GroupRecord] /\ UNCHANGED <<groups, active, reserved, stopped, max_concurrent>>
    BY <1>1, <1>2, <2>1 DEF RemoveGroup
  <2> QED BY <1>1, <2>2, RecordsOnly
<1>3. CASE g \notin active
  <2>1. PICK k \in 1..Len(reserved) : reserved[k] = g /\ reserved' = RemoveAt(reserved, k)
    BY <1>3 DEF RemoveGroup
  <2>2. g \in Gids
    BY <2>1, ElementOfSeq DEF ManInv, ManTypeOK
  <2>3. MarkRemoved(group[g]) \in GroupRecord
    BY <1>1, <2>2, GroupTransitions
  <2>4. DownloadResult(MarkRemoved(group[g])) \in ResultRecord
    BY <2>3, ResultType
  <2>5. /\ group' \in [Gids -> GroupRecord]
        /\ stopped' \in [Gids -> ResultRecord \cup {NoResult}]
        /\ groups' = groups \ {g} /\ active' = active /\ max_concurrent' = max_concurrent
    BY <1>1, <1>3, <2>3, <2>4, RecordType DEF RemoveGroup
  <2> QED BY <2>1, <2>5, LeaveQueue
<1> QED BY <1>2, <1>3

\* Emptying the queue drops exactly the reserved groups.
LEMMA ForceRemoveKeeps ==
    ASSUME ManInv, NEW current \in [Gids -> GroupRecord], ForceRemoveReserved(current)
    PROVE  ManInv'
<1>1. \A g \in Gids : /\ MarkRemoved(current[g]) \in GroupRecord
                       /\ DownloadResult(MarkRemoved(current[g])) \in ResultRecord
  BY GroupTransitions, ResultType
<1>2. /\ group' \in [Gids -> GroupRecord]
      /\ stopped' \in [Gids -> ResultRecord \cup {NoResult}]
  BY <1>1 DEF ForceRemoveReserved, ManInv, ManTypeOK
<1>3. reserved' = <<>> /\ reserved' \in Seq(Gids) /\ Len(<<>>) = 0
  BY EmptySeq DEF ForceRemoveReserved
<1>4. ReservedIds' = {} /\ OnceIn(reserved')
  BY <1>3 DEF ReservedIds, ToSet, OnceIn
<1>5. ManTypeOK'
  BY <1>2, <1>3 DEF ManInv, ManTypeOK, ForceRemoveReserved
<1>6. OneHome'
  BY <1>4 DEF ManInv, OneHome, ForceRemoveReserved
<1> QED BY <1>5, <1>6 DEF ManInv

\* A group that could not be spawned leaves.
LEMMA FailSpawnedKeeps ==
    ASSUME ManInv, NEW g, FailSpawnedGroup(g)
    PROVE  ManInv'
<1>1. CASE g \in active
  <2>1. /\ group \in [Gids -> GroupRecord] /\ g \in Gids
        /\ stopped \in [Gids -> ResultRecord \cup {NoResult}]
    BY <1>1 DEF ManInv, ManTypeOK
  <2>2. MarkError(group[g]) \in GroupRecord
    BY <2>1, GroupTransitions
  <2>3. DownloadResult(MarkError(group[g])) \in ResultRecord
    BY <2>2, ResultType
  <2>4. group' \in [Gids -> GroupRecord] /\ stopped' \in [Gids -> ResultRecord \cup {NoResult}]
    BY <1>1, <2>1, <2>2, <2>3, RecordType DEF FailSpawnedGroup
  <2> QED BY <1>1, <2>4, LeaveActive DEF FailSpawnedGroup
<1>2. CASE g \notin active
  BY <1>2, ManUnchanged DEF FailSpawnedGroup
<1> QED BY <1>1, <1>2

\* A stopped group leaves, unless it has left already.
LEMMA DemoteKeeps ==
    ASSUME ManInv, NEW d \in [gid : Gids, result : ResultRecord], DemoteGroup(d)
    PROVE  ManInv'
<1>1. CASE d.gid \in active
  <2>1. /\ group \in [Gids -> GroupRecord] /\ d.gid \in Gids /\ d.result \in ResultRecord
        /\ stopped \in [Gids -> ResultRecord \cup {NoResult}]
    BY DEF ManInv, ManTypeOK
  <2>2. DownloadResult(group[d.gid]) \in ResultRecord
    BY <2>1, ResultType
  <2>3. (IF group[d.gid].status = "Complete" THEN DownloadResult(group[d.gid]) ELSE d.result) \in ResultRecord
    BY <2>1, <2>2
  <2>4. group' \in [Gids -> GroupRecord] /\ stopped' \in [Gids -> ResultRecord \cup {NoResult}]
    BY <1>1, <2>1, <2>3, RecordType DEF DemoteGroup
  <2> QED BY <1>1, <2>4, LeaveActive DEF DemoteGroup
<1>2. CASE d.gid \notin active
  BY <1>2, ManUnchanged DEF DemoteGroup
<1> QED BY <1>1, <1>2

\* The requeued groups leave the active map as they enter the queue.
LEMMA RequeueKeeps ==
    ASSUME ManInv, RequeueNonTerminalGroups
    PROVE  ManInv'
<1>1. /\ group \in [Gids -> GroupRecord] /\ reserved \in Seq(Gids) /\ OnceIn(reserved)
      /\ Requeueable \subseteq active /\ Requeueable \in SUBSET Gids
      /\ Requeueable \cap ToSet(reserved) = {}
  BY DEF ManInv, ManTypeOK, OneHome, Requeueable, ReservedIds
<1>2. IsFiniteSet(Requeueable)
  BY <1>1, ManagerAssumption, FS_Subset
<1>3. PICK o \in SetToSeqs(Requeueable) : reserved' = o \o reserved
  BY DEF RequeueNonTerminalGroups
<1>4. /\ reserved' \in Seq(Gids) /\ ToSet(reserved') = ToSet(reserved) \cup Requeueable
      /\ OnceIn(reserved')
  BY <1>1, <1>2, <1>3, GidPrefix
<1>5. \A g \in Gids : Requeued(group[g]) \in GroupRecord
  BY <1>1, GroupTransitions
<1>6. group' \in [Gids -> GroupRecord]
  BY <1>1, <1>5 DEF RequeueNonTerminalGroups, Apply
<1>7. ManTypeOK'
  BY <1>4, <1>6 DEF ManInv, ManTypeOK, RequeueNonTerminalGroups
<1>8. OneHome'
  BY <1>1, <1>4 DEF ManInv, OneHome, ReservedIds, RequeueNonTerminalGroups
<1> QED BY <1>7, <1>8 DEF ManInv

\* A payload stays where it is or leaves the queue as a failure.
LEMMA ResolveKeeps ==
    ASSUME ManInv, NEW m, NEW usable, ResolveDependencies(m, usable)
    PROVE  ManInv'
<1>1. CASE UNCHANGED manVars
  BY <1>1, ManUnchanged
<1>2. CASE ~UNCHANGED manVars
  <2>1. PICK k \in 1..Len(reserved) :
          LET g == reserved[k] IN
          \/ /\ group' = [group EXCEPT ![g].resolved = TRUE]
             /\ UNCHANGED <<groups, active, reserved, stopped, max_concurrent>>
          \/ /\ group' = [group EXCEPT ![g] = MarkError(@)]
             /\ groups' = groups \ {g}
             /\ reserved' = RemoveAt(reserved, k)
             /\ stopped' = Record(stopped, g, DownloadResult(MarkError(group[g])))
             /\ UNCHANGED <<active, max_concurrent>>
    BY <1>2 DEF ResolveDependencies
  <2> DEFINE g == reserved[k]
  <2>2. /\ group \in [Gids -> GroupRecord] /\ g \in Gids /\ max_concurrent \in Nat
        /\ stopped \in [Gids -> ResultRecord \cup {NoResult}]
    BY ElementOfSeq DEF ManInv, ManTypeOK
  <2>3. MarkError(group[g]) \in GroupRecord /\ [group[g] EXCEPT !.resolved = TRUE] \in GroupRecord
    BY <2>2, GroupTransitions
  <2>4. DownloadResult(MarkError(group[g])) \in ResultRecord
    BY <2>3, ResultType
  <2>5. CASE /\ group' = [group EXCEPT ![g].resolved = TRUE]
             /\ UNCHANGED <<groups, active, reserved, stopped, max_concurrent>>
    <3>1. group' \in [Gids -> GroupRecord]
      BY <2>2, <2>3, <2>5
    <3> QED BY <2>2, <2>5, <3>1, RecordsOnly
  <2>6. CASE /\ group' = [group EXCEPT ![g] = MarkError(@)]
             /\ groups' = groups \ {g}
             /\ reserved' = RemoveAt(reserved, k)
             /\ stopped' = Record(stopped, g, DownloadResult(MarkError(group[g])))
             /\ UNCHANGED <<active, max_concurrent>>
    <3>1. group' \in [Gids -> GroupRecord] /\ stopped' \in [Gids -> ResultRecord \cup {NoResult}]
      BY <2>2, <2>3, <2>4, <2>6, RecordType
    <3> QED BY <2>6, <3>1, LeaveQueue
  <2> QED BY <2>1, <2>5, <2>6
<1> QED BY <1>1, <1>2
=============================================================================
