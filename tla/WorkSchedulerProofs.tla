------------------------- MODULE WorkSchedulerProofs -------------------------
(***************************************************************************)
(* Proofs about WorkScheduler, for any set of items, any budgets, counter  *)
(* widths and clock bound.                                                 *)
(***************************************************************************)
EXTENDS WorkScheduler, FiniteSetTheorems, SequenceTheorems, TLAPS

Works(q) == {q[k] : k \in 1..Len(q)}

\* What the scheduler does to its ready queue, in terms of the entries in it,
\* their ids and their order: an item appended is the only new one, and last.
LEMMA QueueAppend ==
    ASSUME NEW q \in Seq(ReadyWork), NEW w \in ReadyWork
    PROVE  /\ Append(q, w) \in Seq(ReadyWork)
           /\ QueueIds(Append(q, w)) = QueueIds(q) \cup {w.id}
           /\ OnceIn(q) /\ w.id \notin QueueIds(q) => OnceIn(Append(q, w))
           /\ AffordableIn(q) /\ Affordable(w) => AffordableIn(Append(q, w))
           /\ Works(Append(q, w)) = Works(q) \cup {w}
           /\ \A i, j : Precedes(Append(q, w), i, j) => Precedes(q, i, j) \/ j = w.id
<1> DEFINE a == Append(q, w)
<1>1. /\ a \in Seq(ReadyWork) /\ Len(a) = Len(q) + 1 /\ Len(q) \in Nat
      /\ \A k \in 1..Len(q) : a[k] = q[k]
      /\ a[Len(q) + 1] = w
  BY AppendProperties, LenProperties
<1> HIDE DEF a
<1>2. \A k \in 1..Len(a) : k \in 1..Len(q) \/ k = Len(q) + 1
  BY <1>1
<1>3. QueueIds(a) = QueueIds(q) \cup {w.id}
  BY <1>1, <1>2 DEF QueueIds
<1>4. ASSUME OnceIn(q), w.id \notin QueueIds(q) PROVE OnceIn(a)
  BY <1>1, <1>2, <1>4 DEF OnceIn, QueueIds
<1>5. ASSUME AffordableIn(q), Affordable(w) PROVE AffordableIn(a)
  BY <1>1, <1>2, <1>5 DEF AffordableIn
<1>6. Works(a) = Works(q) \cup {w}
  BY <1>1, <1>2 DEF Works
<1>7. \A i, j : Precedes(a, i, j) => Precedes(q, i, j) \/ j = w.id
  BY <1>1, <1>2 DEF Precedes
<1> QED BY <1>1, <1>3, <1>4, <1>5, <1>6, <1>7 DEF a

\* The same for an item put back at the front.
LEMMA QueuePrepend ==
    ASSUME NEW q \in Seq(ReadyWork), NEW w \in ReadyWork
    PROVE  /\ <<w>> \o q \in Seq(ReadyWork)
           /\ QueueIds(<<w>> \o q) = QueueIds(q) \cup {w.id}
           /\ OnceIn(q) /\ w.id \notin QueueIds(q) => OnceIn(<<w>> \o q)
           /\ AffordableIn(q) /\ Affordable(w) => AffordableIn(<<w>> \o q)
           /\ Works(<<w>> \o q) = Works(q) \cup {w}
           /\ \A i, j : Precedes(<<w>> \o q, i, j) => Precedes(q, i, j) \/ i = w.id
<1> DEFINE a == <<w>> \o q
<1>0. <<w>> \in Seq(ReadyWork) /\ Len(<<w>>) = 1 /\ <<w>>[1] = w /\ Len(q) \in Nat
  BY LenProperties
<1>1. /\ a \in Seq(ReadyWork) /\ Len(a) = Len(q) + 1
      /\ a[1] = w
      /\ \A k \in 1..Len(q) : a[k + 1] = q[k]
  BY <1>0, ConcatProperties
<1> HIDE DEF a
<1>2. \A k \in 1..Len(a) : k = 1 \/ (k - 1 \in 1..Len(q) /\ a[k] = q[k - 1])
  BY <1>0, <1>1
<1>3. QueueIds(a) = QueueIds(q) \cup {w.id}
  <2>1. ASSUME NEW k \in 1..Len(a) PROVE a[k].id \in QueueIds(q) \cup {w.id}
    <3>1. CASE k = 1
      BY <1>1, <3>1
    <3>2. CASE k - 1 \in 1..Len(q) /\ a[k] = q[k - 1]
      BY <3>2 DEF QueueIds
    <3> QED BY <1>2, <3>1, <3>2
  <2>2. 1 \in 1..Len(a) /\ \A k \in 1..Len(q) : k + 1 \in 1..Len(a)
    BY <1>0, <1>1
  <2>3. \A i \in QueueIds(q) \cup {w.id} : i \in QueueIds(a)
    BY <1>1, <2>2 DEF QueueIds
  <2> QED BY <2>1, <2>3 DEF QueueIds
<1>4. ASSUME OnceIn(q), w.id \notin QueueIds(q) PROVE OnceIn(a)
  <2> SUFFICES ASSUME NEW j \in 1..Len(a), NEW k \in 1..Len(a), a[j].id = a[k].id
               PROVE  j = k
    BY DEF OnceIn
  <2>1. CASE j = 1 /\ k = 1
    BY <2>1
  <2>2. CASE j # 1 /\ k # 1
    <3>1. j - 1 = k - 1
      BY <1>2, <1>4, <2>2 DEF OnceIn
    <3> QED BY <3>1, <1>0, <1>1
  <2>3. CASE j = 1 /\ k # 1
    BY <1>1, <1>2, <1>4, <2>3 DEF QueueIds
  <2>4. CASE j # 1 /\ k = 1
    BY <1>1, <1>2, <1>4, <2>4 DEF QueueIds
  <2> QED BY <2>1, <2>2, <2>3, <2>4
<1>5. ASSUME AffordableIn(q), Affordable(w) PROVE AffordableIn(a)
  BY <1>1, <1>2, <1>5 DEF AffordableIn
<1>6. Works(a) = Works(q) \cup {w}
  <2>1. Works(a) \subseteq Works(q) \cup {w}
    BY <1>1, <1>2 DEF Works
  <2>2. 1 \in 1..Len(a) /\ \A k \in 1..Len(q) : k + 1 \in 1..Len(a)
    BY <1>0, <1>1
  <2>3. Works(q) \cup {w} \subseteq Works(a)
    BY <1>1, <2>2 DEF Works
  <2> QED BY <2>1, <2>3
<1>7. ASSUME NEW i, NEW j, Precedes(a, i, j), i # w.id PROVE Precedes(q, i, j)
  <2>1. PICK k, m \in 1..Len(a) : k < m /\ a[k].id = i /\ a[m].id = j
    BY <1>7 DEF Precedes
  <2>2. k # 1 /\ m # 1
    BY <1>0, <1>1, <1>7, <2>1
  <2>3. /\ k - 1 \in 1..Len(q) /\ a[k] = q[k - 1]
        /\ m - 1 \in 1..Len(q) /\ a[m] = q[m - 1] /\ k - 1 < m - 1
    BY <1>0, <1>1, <1>2, <2>1, <2>2
  <2> QED BY <2>1, <2>3 DEF Precedes
<1> QED BY <1>1, <1>3, <1>4, <1>5, <1>6, <1>7 DEF a

\* Taking one entry out takes its id out and leaves the others.
LEMMA QueueWithout ==
    ASSUME NEW q \in Seq(ReadyWork), NEW k \in 1..Len(q)
    PROVE  /\ RemoveAt(q, k) \in Seq(ReadyWork)
           /\ OnceIn(q) => /\ QueueIds(RemoveAt(q, k)) = QueueIds(q) \ {q[k].id}
                           /\ OnceIn(RemoveAt(q, k))
           /\ AffordableIn(q) => AffordableIn(RemoveAt(q, k))
           /\ OnceIn(q) => Works(RemoveAt(q, k)) = Works(q) \ {q[k]}
           /\ \A i, j : Precedes(RemoveAt(q, k), i, j) => Precedes(q, i, j)
<1> DEFINE a == RemoveAt(q, k)
           At(j) == IF j < k THEN j ELSE j + 1
<1>0. Len(q) \in Nat /\ \A j \in 1..Len(q) : q[j] \in ReadyWork
  BY LenProperties, ElementOfSeq
<1>1. \A j \in 1..Len(q) - 1 : At(j) \in 1..Len(q) \ {k}
  BY <1>0
<1>2. /\ SubSeq(q, 1, k - 1) \in Seq(ReadyWork) /\ Len(SubSeq(q, 1, k - 1)) = k - 1
      /\ \A j \in 1..k - 1 : SubSeq(q, 1, k - 1)[j] = q[j]
  BY <1>0, SubSeqProperties
<1>3. /\ SubSeq(q, k + 1, Len(q)) \in Seq(ReadyWork) /\ Len(SubSeq(q, k + 1, Len(q))) = Len(q) - k
      /\ \A j \in 1..Len(q) - k : SubSeq(q, k + 1, Len(q))[j] = q[k + j]
  BY <1>0, SubSeqProperties
<1>4. /\ a \in Seq(ReadyWork) /\ Len(a) = Len(q) - 1
      /\ \A j \in 1..Len(q) - 1 : a[j] = q[At(j)]
  <2> DEFINE b == SubSeq(q, 1, k - 1)
             c == SubSeq(q, k + 1, Len(q))
  <2>1. b \in Seq(ReadyWork) /\ c \in Seq(ReadyWork) /\ Len(b) = k - 1 /\ Len(c) = Len(q) - k
    BY <1>2, <1>3
  <2>2. /\ \A j \in 1..k - 1 : b[j] = q[j]
        /\ \A j \in 1..Len(q) - k : c[j] = q[k + j]
    BY <1>2, <1>3
  <2>3. a = b \o c
    BY DEF RemoveAt
  <2> HIDE DEF a, b, c
  <2>4. /\ a \in Seq(ReadyWork) /\ Len(a) = Len(b) + Len(c)
        /\ \A j \in 1..Len(b) + Len(c) : a[j] = IF j <= Len(b) THEN b[j] ELSE c[j - Len(b)]
    BY <2>1, <2>3, ConcatProperties
  <2>5. k \in Int /\ Len(a) = Len(q) - 1
    BY <1>0, <2>1, <2>4
  <2>6. ASSUME NEW j \in 1..Len(q) - 1 PROVE a[j] = q[At(j)]
    <3>1. j \in 1..Len(b) + Len(c)
      BY <1>0, <2>1
    <3>2. CASE j < k
      BY <1>0, <2>1, <2>2, <2>4, <3>1, <3>2
    <3>3. CASE ~(j < k)
      <4>1. j - (k - 1) \in 1..Len(q) - k /\ ~(j <= k - 1) /\ k + (j - (k - 1)) = j + 1
        BY <1>0, <3>3
      <4>2. a[j] = c[j - (k - 1)]
        BY <2>1, <2>4, <3>1, <4>1
      <4> QED BY <2>2, <3>3, <4>1, <4>2
    <3> QED BY <3>2, <3>3
  <2> QED BY <2>4, <2>5, <2>6
<1>5. \A j \in 1..Len(a) : a[j] = q[At(j)] /\ At(j) \in 1..Len(q) \ {k}
  BY <1>1, <1>4
<1>6. \A m \in 1..Len(q) \ {k} : \E j \in 1..Len(a) : At(j) = m
  <2> TAKE m \in 1..Len(q) \ {k}
  <2>1. CASE m < k
    BY <1>0, <1>4, <2>1
  <2>2. CASE m > k
    <3>1. m - 1 \in 1..Len(a) /\ At(m - 1) = m
      BY <1>0, <1>4, <2>2
    <3> QED BY <3>1
  <2> QED BY <2>1, <2>2, <1>0
<1>7. \A i, j \in 1..Len(a) : (At(i) = At(j) => i = j) /\ (i < j => At(i) < At(j))
  BY <1>0, <1>4
<1> HIDE DEF a, At
<1>8. ASSUME OnceIn(q) PROVE QueueIds(a) = QueueIds(q) \ {q[k].id}
  <2>1. \A x \in QueueIds(a) : x \in QueueIds(q) \ {q[k].id}
    BY <1>5, <1>8 DEF QueueIds, OnceIn
  <2>2. ASSUME NEW x \in QueueIds(q) \ {q[k].id} PROVE x \in QueueIds(a)
    <3>1. PICK m \in 1..Len(q) : q[m].id = x
      BY DEF QueueIds
    <3>2. PICK j \in 1..Len(a) : At(j) = m
      BY <1>6, <3>1
    <3> QED BY <1>5, <3>1, <3>2 DEF QueueIds
  <2> QED BY <2>1, <2>2
<1>9. ASSUME OnceIn(q) PROVE OnceIn(a)
  BY <1>5, <1>7, <1>9 DEF OnceIn
<1>10. ASSUME AffordableIn(q) PROVE AffordableIn(a)
  BY <1>5, <1>10 DEF AffordableIn
<1>11. ASSUME OnceIn(q) PROVE Works(a) = Works(q) \ {q[k]}
  <2>1. \A x \in Works(a) : x \in Works(q) \ {q[k]}
    BY <1>5, <1>11 DEF Works, OnceIn
  <2>2. ASSUME NEW x \in Works(q) \ {q[k]} PROVE x \in Works(a)
    <3>1. PICK m \in 1..Len(q) : q[m] = x
      BY DEF Works
    <3>2. PICK j \in 1..Len(a) : At(j) = m
      BY <1>6, <3>1
    <3> QED BY <1>5, <3>1, <3>2 DEF Works
  <2> QED BY <2>1, <2>2
<1>12. ASSUME NEW i, NEW j, Precedes(a, i, j) PROVE Precedes(q, i, j)
  <2>1. PICK x, y \in 1..Len(a) : x < y /\ a[x].id = i /\ a[y].id = j
    BY <1>12 DEF Precedes
  <2>2. /\ At(x) \in 1..Len(q) /\ At(y) \in 1..Len(q) /\ At(x) < At(y)
        /\ q[At(x)].id = i /\ q[At(y)].id = j
    BY <1>5, <1>7, <2>1
  <2> QED BY <2>2 DEF Precedes
<1> QED BY <1>4, <1>8, <1>9, <1>10, <1>11, <1>12 DEF a

\* Promotion appends the due entries, each once, whatever their order.
LEMMA QueuePromoted ==
    ASSUME ready \in Seq(ReadyWork), NEW S, S \subseteq DelayedWork, IsFiniteSet(S),
           NEW s \in HeapOrders(S)
    PROVE  /\ Promoted(s) \in Seq(ReadyWork)
           /\ QueueIds(Promoted(s)) = ReadyIds \cup {d.id : d \in S}
           /\ /\ OnceIn(ready)
              /\ \A d, e \in S : d.id = e.id => d = e
              /\ \A d \in S : d.id \notin ReadyIds
              => OnceIn(Promoted(s))
           /\ AffordableIn(ready) /\ (\A d \in S : Affordable(d)) => AffordableIn(Promoted(s))
           /\ Works(Promoted(s)) = Works(ready) \cup {Work(d.id, d.previous_attempts) : d \in S}
           /\ \A i, j : Precedes(Promoted(s), i, j) =>
                \/ Precedes(ready, i, j)
                \/ \E e \in S : e.id = j /\ (i \in ReadyIds \/ \E d \in S : d.id = i /\ NotAfter(d, e))
<1> DEFINE n == Cardinality(S)
           t == [k \in 1..Len(s) |-> Work(s[k].id, s[k].previous_attempts)]
           a == Promoted(s)
<1>1. n \in Nat
  BY FS_CardinalityType
<1>2. /\ s \in [1..n -> S]
      /\ \A d \in S : \E k \in 1..n : s[k] = d
      /\ \A j, k \in 1..n : j < k => s[j] # s[k] /\ NotAfter(s[j], s[k])
  BY DEF HeapOrders
<1>3. s \in Seq(S) /\ Len(s) = n
  BY <1>1, <1>2, SeqDef, LenProperties
<1>4. /\ t \in [1..n -> ReadyWork]
      /\ \A k \in 1..n : t[k].id = s[k].id /\ t[k].previous_attempts = s[k].previous_attempts
  BY <1>2, <1>3 DEF Work, DelayedWork, ReadyWork
<1>5. t \in Seq(ReadyWork) /\ Len(t) = n
  <2> HIDE DEF t, n
  <2>1. t \in Seq(ReadyWork)
    BY <1>1, <1>4, SeqDef
  <2>2. DOMAIN t = 1..n /\ DOMAIN t = 1..Len(t) /\ Len(t) \in Nat
    BY <1>4, <2>1, LenProperties
  <2> QED BY <1>1, <2>1, <2>2
<1>6. a = ready \o t
  BY DEF Promoted
<1> HIDE DEF t, a, n
<1>7. Len(ready) \in Nat
  BY LenProperties
<1>8. /\ a \in Seq(ReadyWork) /\ Len(a) = Len(ready) + n
      /\ \A k \in 1..Len(ready) + n : a[k] = IF k <= Len(ready) THEN ready[k] ELSE t[k - Len(ready)]
  <2>1. /\ ready \o t \in Seq(ReadyWork) /\ Len(ready \o t) = Len(ready) + Len(t)
        /\ \A k \in 1..Len(ready) + Len(t) :
              (ready \o t)[k] = IF k <= Len(ready) THEN ready[k] ELSE t[k - Len(ready)]
    BY <1>5, ConcatProperties
  <2> QED BY <1>5, <1>6, <2>1
<1>9. /\ \A k \in 1..Len(ready) : k \in 1..Len(a) /\ a[k] = ready[k]
      /\ \A k \in 1..n : Len(ready) + k \in 1..Len(a) /\ a[Len(ready) + k] = t[k]
  <2>1. \A k \in 1..Len(ready) : k \in 1..Len(a) /\ a[k] = ready[k]
    BY <1>1, <1>7, <1>8
  <2>2. ASSUME NEW k \in 1..n
        PROVE  Len(ready) + k \in 1..Len(a) /\ a[Len(ready) + k] = t[k]
    <3>1. Len(ready) + k \in 1..Len(ready) + n /\ ~(Len(ready) + k <= Len(ready))
      BY <1>1, <1>7
    <3>2. Len(ready) + k - Len(ready) = k
      BY <1>1, <1>7
    <3> QED BY <1>8, <3>1, <3>2
  <2> QED BY <2>1, <2>2
<1>10. \A k \in 1..Len(a) : \/ k \in 1..Len(ready)
                            \/ k - Len(ready) \in 1..n /\ a[k] = t[k - Len(ready)]
  BY <1>1, <1>7, <1>8
<1>11. QueueIds(a) = ReadyIds \cup {d.id : d \in S}
  <2>1. ASSUME NEW k \in 1..Len(a) PROVE a[k].id \in ReadyIds \cup {d.id : d \in S}
    <3>1. CASE k \in 1..Len(ready)
      BY <1>9, <3>1 DEF ReadyIds, QueueIds
    <3>2. CASE k - Len(ready) \in 1..n /\ a[k] = t[k - Len(ready)]
      BY <1>2, <1>4, <3>2
    <3> QED BY <1>10, <3>1, <3>2
  <2>2. ASSUME NEW i \in ReadyIds PROVE i \in QueueIds(a)
    BY <1>9 DEF ReadyIds, QueueIds
  <2>3. ASSUME NEW d \in S PROVE d.id \in QueueIds(a)
    <3>1. PICK k \in 1..n : s[k] = d
      BY <1>2
    <3>2. a[Len(ready) + k].id = d.id /\ Len(ready) + k \in 1..Len(a)
      BY <1>4, <1>9, <3>1
    <3> QED BY <3>2 DEF QueueIds
  <2> QED BY <2>1, <2>2, <2>3 DEF QueueIds
<1>12. ASSUME OnceIn(ready), \A d, e \in S : d.id = e.id => d = e,
              \A d \in S : d.id \notin ReadyIds
       PROVE  OnceIn(a)
  <2>0. \A k \in 1..n : t[k].id \notin ReadyIds
    BY <1>2, <1>4, <1>12
  <2>1. \A j, k \in 1..n : t[j].id = t[k].id => j = k
    <3> TAKE j, k \in 1..n
    <3> HAVE t[j].id = t[k].id
    <3>1. s[j] = s[k]
      BY <1>2, <1>4, <1>12
    <3> QED BY <1>1, <1>2, <3>1 DEF n
  <2>2. \A k \in 1..Len(ready) : ready[k].id \in ReadyIds
    BY DEF ReadyIds, QueueIds
  <2> SUFFICES ASSUME NEW j \in 1..Len(a), NEW k \in 1..Len(a), a[j].id = a[k].id
               PROVE  j = k
    BY DEF OnceIn
  <2>3. CASE j \in 1..Len(ready) /\ k \in 1..Len(ready)
    BY <1>9, <1>12, <2>3 DEF OnceIn
  <2>4. CASE j \in 1..Len(ready) /\ k \notin 1..Len(ready)
    BY <1>9, <1>10, <2>0, <2>2, <2>4
  <2>5. CASE j \notin 1..Len(ready) /\ k \in 1..Len(ready)
    BY <1>9, <1>10, <2>0, <2>2, <2>5
  <2>6. CASE j \notin 1..Len(ready) /\ k \notin 1..Len(ready)
    <3>1. j - Len(ready) = k - Len(ready)
      BY <1>10, <2>1, <2>6
    <3> QED BY <1>7, <3>1, <1>8, <1>1
  <2> QED BY <2>3, <2>4, <2>5, <2>6
<1>13. ASSUME AffordableIn(ready), \A d \in S : Affordable(d) PROVE AffordableIn(a)
  <2> SUFFICES ASSUME NEW k \in 1..Len(a) PROVE Affordable(a[k])
    BY DEF AffordableIn
  <2>1. CASE k \in 1..Len(ready)
    BY <1>9, <1>13, <2>1 DEF AffordableIn
  <2>2. CASE k - Len(ready) \in 1..n /\ a[k] = t[k - Len(ready)]
    <3>1. Affordable(s[k - Len(ready)])
      BY <1>2, <1>13, <2>2
    <3> QED BY <1>4, <2>2, <3>1 DEF Affordable
  <2> QED BY <1>10, <2>1, <2>2
<1>14. \A k \in 1..n : t[k] = Work(s[k].id, s[k].previous_attempts)
  BY <1>3 DEF t
<1>15. Works(a) = Works(ready) \cup {Work(d.id, d.previous_attempts) : d \in S}
  <2> DEFINE due == {Work(d.id, d.previous_attempts) : d \in S}
  <2>1. ASSUME NEW k \in 1..Len(a) PROVE a[k] \in Works(ready) \cup due
    <3>1. CASE k \in 1..Len(ready)
      BY <1>9, <3>1 DEF Works
    <3>2. CASE k - Len(ready) \in 1..n /\ a[k] = t[k - Len(ready)]
      BY <1>2, <1>14, <3>2
    <3> QED BY <1>10, <3>1, <3>2
  <2>2. ASSUME NEW w \in Works(ready) PROVE w \in Works(a)
    BY <1>9 DEF Works
  <2>3. ASSUME NEW d \in S PROVE Work(d.id, d.previous_attempts) \in Works(a)
    <3>1. PICK k \in 1..n : s[k] = d
      BY <1>2
    <3> QED BY <1>9, <1>14, <3>1 DEF Works
  <2> QED BY <2>1, <2>2, <2>3 DEF Works
<1>16. ASSUME NEW i, NEW j, Precedes(a, i, j), ~Precedes(ready, i, j)
       PROVE  \E e \in S : e.id = j /\ (i \in ReadyIds \/ \E d \in S : d.id = i /\ NotAfter(d, e))
  <2>1. PICK x, y \in 1..Len(a) : x < y /\ a[x].id = i /\ a[y].id = j
    BY <1>16 DEF Precedes
  <2>2. CASE y \in 1..Len(ready)
    <3>1. x \in 1..Len(ready) /\ ready[x].id = i /\ ready[y].id = j
      BY <1>7, <1>9, <2>1, <2>2
    <3>2. Precedes(ready, i, j)
      <4> HIDE <1>16
      <4> QED BY <2>1, <2>2, <3>1 DEF Precedes
    <3> QED BY <1>16, <3>2
  <2>3. CASE y \notin 1..Len(ready)
    <3> DEFINE e == s[y - Len(ready)]
    <3>1. y - Len(ready) \in 1..n /\ e \in S /\ e.id = j
      BY <1>2, <1>4, <1>10, <2>1, <2>3
    <3>2. CASE x \in 1..Len(ready)
      <4>1. i \in ReadyIds
        BY <1>9, <2>1, <3>2 DEF ReadyIds, QueueIds
      <4> QED BY <3>1, <4>1
    <3>3. CASE x \notin 1..Len(ready)
      <4>1. x - Len(ready) \in 1..n /\ s[x - Len(ready)] \in S /\ s[x - Len(ready)].id = i
        BY <1>2, <1>4, <1>10, <2>1, <3>3
      <4>2. x - Len(ready) < y - Len(ready)
        BY <1>7, <2>1
      <4>3. NotAfter(s[x - Len(ready)], e)
        BY <1>2, <3>1, <4>1, <4>2
      <4> QED BY <3>1, <4>1, <4>3
    <3> QED BY <3>2, <3>3
  <2> QED BY <2>2, <2>3
<1> QED BY <1>8, <1>11, <1>12, <1>13, <1>15, <1>16 DEF a

-----------------------------------------------------------------------------
\* The inductive core: types, a finite heap (so that its order exists) and
\* every active id in exactly one place.
Core == TypeOK /\ IsFiniteSet(delayed) /\ OnePlace

\* The empty scheduler is consistent.
LEMMA CoreInit == Init => Core
<1> SUFFICES ASSUME Init PROVE Core
  OBVIOUS
<1>1. TypeOK
  <2>1. ready \in Seq(ReadyWork)
    BY EmptySeq DEF Init
  <2>2. in_flight \in [Ids -> Attempts]
    BY SchedulerAssumption DEF Init, Attempts
  <2>3. next_sequence \in 0..SequenceSpace - 1 /\ now \in 0..MaxTime
    BY SchedulerAssumption DEF Init
  <2> QED BY <2>1, <2>2, <2>3 DEF Init, TypeOK
<1>2. IsFiniteSet(delayed)
  BY FS_EmptySet DEF Init
<1>3. ReadyIds = {} /\ DelayedIds = {} /\ InFlightIds = {} /\ OnceIn(ready)
  BY EmptySeq DEF Init, ReadyIds, QueueIds, DelayedIds, InFlightIds, OnceIn
<1> QED BY <1>1, <1>2, <1>3 DEF Core, OnePlace, DelayedOnce, Disjoint, ActiveIdsExact, Init

\* A lease that is accepted names an item that is in flight and nowhere else.
LEMMA Release ==
    ASSUME Core, NEW l \in leases, RemoveActiveLease(l)
    PROVE  /\ l.id \in Ids /\ l.attempt \in 1..U32Max /\ leases' \subseteq Lease
           /\ in_flight' \in [Ids -> Attempts]
           /\ l.id \in InFlightIds /\ l.id \notin ReadyIds /\ l.id \notin DelayedIds
           /\ InFlightIds' = InFlightIds \ {l.id}
           /\ l.attempt - 1 \in Attempts /\ 0 \in Attempts /\ l.attempt \in Attempts
<1>1. l.id \in Ids /\ l.attempt \in 1..U32Max
  BY DEF Core, TypeOK, Lease
<1>2. in_flight \in [Ids -> Attempts] /\ leases \subseteq Lease
  BY DEF Core, TypeOK
<1>3. 0 \in Attempts /\ l.attempt \in Attempts /\ l.attempt - 1 \in Attempts /\ l.attempt # 0
  BY <1>1, SchedulerAssumption DEF Attempts
<1>4. in_flight' \in [Ids -> Attempts] /\ leases' \subseteq Lease
  BY <1>2, <1>3 DEF RemoveActiveLease
<1>5. l.id \in InFlightIds
  BY <1>1, <1>3 DEF RemoveActiveLease, InFlightIds
<1>6. InFlightIds' = InFlightIds \ {l.id}
  BY <1>1, <1>2 DEF RemoveActiveLease, InFlightIds
<1>7. l.id \notin ReadyIds /\ l.id \notin DelayedIds
  BY <1>5 DEF Core, OnePlace, Disjoint
<1> QED BY <1>1, <1>3, <1>4, <1>5, <1>6, <1>7

\* An accepted lease whose item returns to the queue, at either end.
LEMMA BackToQueue ==
    ASSUME Core, NEW l \in leases, RemoveActiveLease(l), NEW w \in ReadyWork, w.id = l.id,
           \/ ready' = Append(ready, w)
           \/ ready' = <<w>> \o ready,
           UNCHANGED <<delayed, active_ids, next_sequence, cancelled, now>>
    PROVE  Core'
<1>1. ready \in Seq(ReadyWork) /\ OnceIn(ready)
  BY DEF Core, TypeOK, OnePlace
<1>2. /\ ready' \in Seq(ReadyWork) /\ QueueIds(ready') = QueueIds(ready) \cup {l.id}
      /\ l.id \notin QueueIds(ready) => OnceIn(ready')
  <2>1. CASE ready' = Append(ready, w)
    BY <1>1, <2>1, QueueAppend
  <2>2. CASE ready' = <<w>> \o ready
    BY <1>1, <2>2, QueuePrepend
  <2> QED BY <2>1, <2>2
<1>3. /\ l.id \in Ids /\ leases' \subseteq Lease /\ in_flight' \in [Ids -> Attempts]
      /\ l.id \in InFlightIds /\ l.id \notin QueueIds(ready) /\ l.id \notin DelayedIds
      /\ InFlightIds' = InFlightIds \ {l.id}
  BY Release DEF ReadyIds
<1>4. TypeOK'
  BY <1>2, <1>3 DEF Core, TypeOK
<1>5. IsFiniteSet(delayed')
  BY DEF Core
<1>6. OnePlace'
  <2>1. ReadyIds' = ReadyIds \cup {l.id} /\ DelayedIds' = DelayedIds
    BY <1>2 DEF ReadyIds, DelayedIds
  <2>2. OnceIn(ready')
    BY <1>2, <1>3
  <2>3. DelayedOnce'
    BY DEF Core, OnePlace, DelayedOnce
  <2>4. Disjoint'
    BY <1>3, <2>1 DEF Core, OnePlace, Disjoint, ReadyIds
  <2>5. ActiveIdsExact'
    BY <1>3, <2>1 DEF Core, OnePlace, ActiveIdsExact
  <2> QED BY <2>2, <2>3, <2>4, <2>5 DEF OnePlace
<1> QED BY <1>4, <1>5, <1>6 DEF Core

\* An accepted lease whose item leaves the scheduler.
LEMMA LeavesScheduler ==
    ASSUME Core, NEW l \in leases, RemoveActiveLease(l),
           active_ids' = active_ids \ {l.id},
           UNCHANGED <<ready, delayed, next_sequence, cancelled, now>>
    PROVE  Core'
<1>1. /\ l.id \in Ids /\ leases' \subseteq Lease /\ in_flight' \in [Ids -> Attempts]
      /\ l.id \in InFlightIds /\ l.id \notin ReadyIds /\ l.id \notin DelayedIds
      /\ InFlightIds' = InFlightIds \ {l.id}
  BY Release
<1>2. TypeOK'
  BY <1>1 DEF Core, TypeOK
<1>3. ReadyIds' = ReadyIds /\ DelayedIds' = DelayedIds
  BY DEF ReadyIds, DelayedIds
<1>4. OnePlace'
  BY <1>1, <1>3 DEF Core, OnePlace, DelayedOnce, Disjoint, ActiveIdsExact
<1> QED BY <1>2, <1>4 DEF Core

\* What one admission does to the queue: everything due joins it.
LEMMA Promotion ==
    ASSUME Core, NEW s \in HeapOrders(DueEntries)
    PROVE  /\ DueEntries \subseteq delayed /\ IsFiniteSet(delayed \ DueEntries)
           /\ Promoted(s) \in Seq(ReadyWork) /\ OnceIn(Promoted(s))
           /\ QueueIds(Promoted(s)) = ReadyIds \cup {d.id : d \in DueEntries}
           /\ BudgetKept => AffordableIn(Promoted(s))
           /\ Works(Promoted(s)) = Works(ready) \cup {Work(d.id, d.previous_attempts) : d \in DueEntries}
           /\ \A i, j : Precedes(Promoted(s), i, j) =>
                \/ Precedes(ready, i, j)
                \/ \E e \in DueEntries : /\ e.id = j
                                         /\ i \in ReadyIds \/ \E d \in DueEntries : d.id = i /\ NotAfter(d, e)
<1>1. DueEntries \subseteq delayed /\ DueEntries \subseteq DelayedWork
  BY DEF DueEntries, Core, TypeOK
<1>2. IsFiniteSet(DueEntries) /\ IsFiniteSet(delayed \ DueEntries)
  BY <1>1, FS_Subset DEF Core
<1>3. /\ ready \in Seq(ReadyWork) /\ OnceIn(ready)
      /\ \A d, e \in DueEntries : d.id = e.id => d = e
      /\ \A d \in DueEntries : d.id \notin ReadyIds
  BY <1>1 DEF Core, TypeOK, OnePlace, DelayedOnce, Disjoint, DelayedIds
<1>4. BudgetKept => AffordableIn(ready) /\ \A d \in DueEntries : Affordable(d)
  BY <1>1 DEF BudgetKept
<1> QED BY <1>1, <1>2, <1>3, <1>4, QueuePromoted

\* An admission promotes due retries and leases at most one item.
LEMMA AdmitCore ==
    ASSUME Core, NEW m, NEW eligible, AdmitOneWhere(m, eligible)
    PROVE  Core'
<1>1. PICK s \in HeapOrders(DueEntries) :
        LET q == Promoted(s)
        IN  /\ delayed' = delayed \ DueEntries
            /\ \/ \E k \in 1..Len(q) : LeaseEntry(q, k)
               \/ ready' = q /\ UNCHANGED <<in_flight, leases>>
  BY DEF AdmitOneWhere
<1> DEFINE q == Promoted(s)
<1>2. /\ DueEntries \subseteq delayed /\ IsFiniteSet(delayed')
      /\ q \in Seq(ReadyWork) /\ OnceIn(q)
      /\ QueueIds(q) = ReadyIds \cup {d.id : d \in DueEntries}
  BY <1>1, Promotion
<1>3. UNCHANGED <<active_ids, next_sequence, cancelled, now>>
  BY DEF AdmitOneWhere
<1>4. DelayedIds' = DelayedIds \ {d.id : d \in DueEntries}
  BY <1>1, <1>2 DEF DelayedIds, Core, OnePlace, DelayedOnce
<1>5. DelayedOnce'
  BY <1>1 DEF DelayedOnce, Core, OnePlace
<1>6. /\ QueueIds(q) \cap DelayedIds' = {} /\ QueueIds(q) \cap InFlightIds = {}
      /\ DelayedIds' \cap InFlightIds = {}
      /\ active_ids = QueueIds(q) \cup DelayedIds' \cup InFlightIds
  <2>1. {d.id : d \in DueEntries} \subseteq DelayedIds
    BY <1>2 DEF DelayedIds
  <2> QED BY <1>2, <1>4, <2>1 DEF Core, OnePlace, Disjoint, ActiveIdsExact
<1> HIDE DEF q
<1>7. CASE ready' = q /\ UNCHANGED <<in_flight, leases>>
  <2>1. TypeOK'
    BY <1>1, <1>2, <1>3, <1>7 DEF Core, TypeOK
  <2>2. OnePlace'
    BY <1>2, <1>3, <1>5, <1>6, <1>7
       DEF OnePlace, Disjoint, ActiveIdsExact, ReadyIds, InFlightIds
  <2> QED BY <1>2, <2>1, <2>2 DEF Core
<1>8. ASSUME NEW k \in 1..Len(q), LeaseEntry(q, k) PROVE Core'
  <2> DEFINE i == q[k].id
             attempt == SaturatingInc(q[k].previous_attempts)
  <2>1. q[k] \in ReadyWork
    BY <1>2, <1>8, ElementOfSeq
  <2>2. i \in Ids /\ i \in QueueIds(q) /\ attempt \in 1..U32Max /\ attempt # 0
    BY <1>8, <2>1, SchedulerAssumption DEF ReadyWork, QueueIds, SaturatingInc, Attempts
  <2>3. /\ ready' \in Seq(ReadyWork) /\ OnceIn(ready')
        /\ QueueIds(ready') = QueueIds(q) \ {i}
    BY <1>2, <1>8, QueueWithout DEF LeaseEntry
  <2>4. /\ in_flight' = [in_flight EXCEPT ![i] = attempt]
        /\ leases' = leases \cup {[id |-> i, attempt |-> attempt]}
    BY <1>8 DEF LeaseEntry
  <2> HIDE DEF i, attempt
  <2>5. in_flight \in [Ids -> Attempts] /\ attempt \in Attempts
    BY <2>2, SchedulerAssumption DEF Core, TypeOK, Attempts
  <2>6. in_flight' \in [Ids -> Attempts] /\ leases' \subseteq Lease
    BY <2>2, <2>4, <2>5 DEF Core, TypeOK, Lease
  <2>7. InFlightIds' = InFlightIds \cup {i}
    BY <2>2, <2>4, <2>5 DEF InFlightIds
  <2>8. TypeOK'
    BY <1>1, <1>3, <2>3, <2>6 DEF Core, TypeOK
  <2>9. Disjoint' /\ ActiveIdsExact'
    BY <1>3, <1>6, <2>2, <2>3, <2>7 DEF Disjoint, ActiveIdsExact, ReadyIds
  <2> QED BY <1>2, <1>5, <2>3, <2>8, <2>9 DEF Core, OnePlace
<1> QED BY <1>1, <1>7, <1>8 DEF q

\* Every method of the scheduler keeps the types and the one place of each id.
LEMMA CoreStep == Core /\ [Next]_vars => Core'
<1> SUFFICES ASSUME Core, [Next]_vars PROVE Core'
  OBVIOUS
<1> USE DEF Core
<1>1. ASSUME NEW i \in Ids, Enqueue(i) PROVE Core'
  <2>1. Work(i, 0) \in ReadyWork /\ Work(i, 0).id = i
    BY SchedulerAssumption DEF Work, ReadyWork, Attempts
  <2>2. i \notin ReadyIds /\ i \notin DelayedIds /\ i \notin InFlightIds
    BY <1>1 DEF Enqueue, OnePlace, ActiveIdsExact
  <2>3. ready \in Seq(ReadyWork) /\ OnceIn(ready)
    BY DEF TypeOK, OnePlace
  <2>4. ready' \in Seq(ReadyWork) /\ OnceIn(ready') /\ ReadyIds' = ReadyIds \cup {i}
    BY <1>1, <2>1, <2>2, <2>3, QueueAppend DEF Enqueue, ReadyIds
  <2>5. TypeOK'
    BY <1>1, <2>4 DEF Enqueue, TypeOK
  <2>6. DelayedIds' = DelayedIds /\ InFlightIds' = InFlightIds
    BY <1>1 DEF Enqueue, DelayedIds, InFlightIds
  <2>7. OnePlace'
    BY <1>1, <2>2, <2>4, <2>6
       DEF Enqueue, OnePlace, DelayedOnce, Disjoint, ActiveIdsExact
  <2> QED BY <1>1, <2>5, <2>7 DEF Enqueue
<1>2. ASSUME NEW i \in Ids, CompletePending(i) PROVE Core'
  <2>1. InFlightIds' = InFlightIds
    BY <1>2 DEF CompletePending, InFlightIds
  <2>2. ASSUME NEW k \in 1..Len(ready), ready[k].id = i, ready' = RemoveAt(ready, k),
               UNCHANGED delayed
        PROVE  Core'
    <3>1. ready \in Seq(ReadyWork) /\ OnceIn(ready)
      BY DEF TypeOK, OnePlace
    <3>2. ready' \in Seq(ReadyWork) /\ OnceIn(ready') /\ ReadyIds' = ReadyIds \ {i}
      BY <2>2, <3>1, QueueWithout DEF ReadyIds
    <3>3. i \in ReadyIds
      BY <2>2 DEF ReadyIds, QueueIds
    <3>4. TypeOK'
      BY <1>2, <2>2, <3>2 DEF CompletePending, TypeOK
    <3>5. DelayedIds' = DelayedIds /\ DelayedOnce'
      BY <2>2 DEF DelayedIds, DelayedOnce, OnePlace
    <3>6. Disjoint' /\ ActiveIdsExact'
      BY <1>2, <2>1, <3>2, <3>3, <3>5 DEF CompletePending, OnePlace, Disjoint, ActiveIdsExact
    <3> QED BY <2>2, <3>2, <3>4, <3>5, <3>6 DEF OnePlace
  <2>3. CASE /\ i \notin ReadyIds /\ i \in DelayedIds
             /\ delayed' = {d \in delayed : d.id # i}
             /\ UNCHANGED ready
    <3>1. delayed' \subseteq delayed /\ IsFiniteSet(delayed')
      BY <2>3, FS_Subset
    <3>2. DelayedIds' = DelayedIds \ {i} /\ ReadyIds' = ReadyIds
      BY <2>3 DEF DelayedIds, ReadyIds
    <3>3. TypeOK'
      BY <1>2, <2>3, <3>1 DEF CompletePending, TypeOK
    <3>4. DelayedOnce' /\ OnceIn(ready')
      BY <2>3, <3>1 DEF DelayedOnce, OnePlace
    <3>5. Disjoint' /\ ActiveIdsExact'
      BY <1>2, <2>1, <2>3, <3>2 DEF CompletePending, OnePlace, Disjoint, ActiveIdsExact
    <3> QED BY <3>1, <3>3, <3>4, <3>5 DEF OnePlace
  <2> QED BY <1>2, <2>2, <2>3 DEF CompletePending
<1>3. ASSUME NEW m, NEW eligible, AdmitOneWhere(m, eligible) PROVE Core'
  BY <1>3, AdmitCore
<1>4. CASE DiscardPending
  <2>1. ready' = <<>> /\ ready' \in Seq(ReadyWork) /\ Len(<<>>) = 0
    BY <1>4, EmptySeq DEF DiscardPending
  <2>2. TypeOK'
    BY <1>4, <2>1 DEF DiscardPending, TypeOK
  <2>3. ReadyIds' = {} /\ DelayedIds' = {} /\ InFlightIds' = InFlightIds /\ OnceIn(ready')
    BY <1>4, <2>1 DEF DiscardPending, ReadyIds, QueueIds, DelayedIds, InFlightIds, OnceIn
  <2>4. OnePlace'
    BY <1>4, <2>3 DEF DiscardPending, OnePlace, DelayedOnce, Disjoint, ActiveIdsExact
  <2> QED BY <1>4, <2>2, <2>4, FS_EmptySet DEF DiscardPending
<1>5. ASSUME NEW l \in leases, HandBack(l) PROVE Core'
  <2>1. CASE HandBackInvalid(l)
    <3>1. TypeOK'
      BY <2>1 DEF HandBackInvalid, TypeOK
    <3>2. OnePlace'
      BY <2>1 DEF HandBackInvalid, OnePlace, DelayedOnce, Disjoint, ActiveIdsExact,
                  ReadyIds, DelayedIds, InFlightIds
    <3> QED BY <2>1, <3>1, <3>2 DEF HandBackInvalid
  <2>2. CASE Complete(l) \/ \E retryable \in BOOLEAN : FailExhausted(l, retryable)
    BY <2>2, LeavesScheduler DEF Complete, FailExhausted
  <2>3. ASSUME RemoveActiveLease(l)
        PROVE  \A n \in {0, l.attempt - 1} : Work(l.id, n) \in ReadyWork /\ Work(l.id, n).id = l.id
    BY <2>3, Release DEF Work, ReadyWork
  <2>4. CASE RescheduleAfterSuccess(l) \/ RetryWithoutConsumingAttempt(l)
    BY <2>3, <2>4, BackToQueue DEF RescheduleAfterSuccess, RetryWithoutConsumingAttempt
  <2>5. CASE RetryWithFreshAttemptBudget(l)
    BY <2>3, <2>5, BackToQueue DEF RetryWithFreshAttemptBudget
  <2>6. CASE RequeueUnstarted(l)
    BY <2>3, <2>6, BackToQueue DEF RequeueUnstarted
  <2>7. ASSUME NEW ready_at \in now..MaxTime, FailScheduled(l, ready_at) PROVE Core'
    <3> DEFINE d == [id |-> l.id, previous_attempts |-> l.attempt,
                     ready_at |-> ready_at, sequence |-> next_sequence]
    <3>1. /\ l.id \in Ids /\ leases' \subseteq Lease /\ in_flight' \in [Ids -> Attempts]
          /\ l.id \in InFlightIds /\ l.id \notin ReadyIds /\ l.id \notin DelayedIds
          /\ InFlightIds' = InFlightIds \ {l.id} /\ l.attempt \in Attempts
      BY <2>7, Release DEF FailScheduled
    <3>2. ready_at \in 0..MaxTime
      BY SchedulerAssumption DEF TypeOK
    <3>3. d \in DelayedWork /\ d.id = l.id
      BY <3>1, <3>2 DEF TypeOK, DelayedWork
    <3>4. delayed' = delayed \cup {d}
      BY <2>7 DEF FailScheduled
    <3>5. next_sequence' \in 0..SequenceSpace - 1
      BY <2>7, SchedulerAssumption DEF FailScheduled, TypeOK
    <3> HIDE DEF d
    <3>6. TypeOK'
      BY <2>7, <3>1, <3>3, <3>4, <3>5 DEF FailScheduled, TypeOK
    <3>7. IsFiniteSet(delayed')
      BY <3>4, FS_AddElement
    <3>8. DelayedIds' = DelayedIds \cup {l.id} /\ ReadyIds' = ReadyIds
      BY <2>7, <3>3, <3>4 DEF DelayedIds, ReadyIds, FailScheduled
    <3>9. DelayedOnce' /\ OnceIn(ready')
      BY <2>7, <3>1, <3>3, <3>4 DEF DelayedOnce, DelayedIds, OnePlace, FailScheduled
    <3>10. Disjoint' /\ ActiveIdsExact'
      BY <2>7, <3>1, <3>8 DEF FailScheduled, OnePlace, Disjoint, ActiveIdsExact
    <3> QED BY <3>6, <3>7, <3>9, <3>10 DEF OnePlace
  <2> QED BY <1>5, <2>1, <2>2, <2>4, <2>5, <2>6, <2>7 DEF HandBack
<1>6. CASE Cancel
  <2>1. ready' = <<>> /\ ready' \in Seq(ReadyWork) /\ Len(<<>>) = 0
    BY <1>6, EmptySeq DEF Cancel
  <2>2. in_flight' \in [Ids -> Attempts]
    BY <1>6, SchedulerAssumption DEF Cancel, Attempts
  <2>3. TypeOK'
    BY <1>6, <2>1, <2>2 DEF Cancel, TypeOK
  <2>4. ReadyIds' = {} /\ DelayedIds' = {} /\ InFlightIds' = {} /\ OnceIn(ready')
    BY <1>6, <2>1 DEF Cancel, ReadyIds, QueueIds, DelayedIds, InFlightIds, OnceIn
  <2>5. OnePlace'
    BY <1>6, <2>4 DEF Cancel, OnePlace, DelayedOnce, Disjoint, ActiveIdsExact
  <2> QED BY <1>6, <2>3, <2>5, FS_EmptySet DEF Cancel
<1>7. CASE Tick
  <2>1. TypeOK'
    BY <1>7, SchedulerAssumption DEF Tick, TypeOK
  <2>2. OnePlace'
    BY <1>7 DEF Tick, OnePlace, DelayedOnce, Disjoint, ActiveIdsExact,
                ReadyIds, DelayedIds, InFlightIds
  <2> QED BY <1>7, <2>1, <2>2 DEF Tick
<1>8. CASE UNCHANGED vars
  BY <1>8 DEF vars, TypeOK, OnePlace, DelayedOnce, Disjoint, ActiveIdsExact,
              ReadyIds, DelayedIds, InFlightIds
<1> QED BY <1>1, <1>2, <1>3, <1>4, <1>5, <1>6, <1>7, <1>8 DEF Next

\* Every variable keeps its type: in particular an attempt counter saturates
\* instead of leaving u32, and a sequence number wraps inside u64.
THEOREM TypeCorrect == Spec => []TypeOK
<1>1. Core => TypeOK
  BY DEF Core
<1> QED BY <1>1, CoreInit, CoreStep, PTL DEF Spec

\* Every active id is in exactly one of the ready queue, the delayed heap and
\* the in-flight map, once.
THEOREM EachIdInOnePlace == Spec => []OnePlace
<1>1. Core => OnePlace
  BY DEF Core
<1> QED BY <1>1, CoreInit, CoreStep, PTL DEF Spec

-----------------------------------------------------------------------------
\* Nothing is accepted back after cancel: the hand-back of a lease needs an
\* entry of the in-flight map, and cancel emptied it.
LEMMA CancelledStep == Core /\ CancelledIsEmpty /\ [Next]_vars => CancelledIsEmpty'
<1> SUFFICES ASSUME Core, CancelledIsEmpty, [Next]_vars PROVE CancelledIsEmpty'
  OBVIOUS
<1>1. CASE ~cancelled'
  BY <1>1 DEF CancelledIsEmpty
<1>2. CASE cancelled' /\ ~cancelled
  <2>1. Cancel
    BY <1>2 DEF Next, vars, Enqueue, CompletePending, AdmitOneWhere, DiscardPending, HandBack,
                HandBackInvalid, Complete, RescheduleAfterSuccess, RetryWithoutConsumingAttempt,
                RetryWithFreshAttemptBudget, RequeueUnstarted, FailScheduled, FailExhausted, Tick
  <2> QED BY <2>1 DEF Cancel, CancelledIsEmpty, InFlightIds
<1>3. CASE cancelled' /\ cancelled
  <2>1. active_ids = {} /\ ready = <<>> /\ delayed = {} /\ InFlightIds = {}
    BY <1>3 DEF CancelledIsEmpty
  <2>2. ReadyIds = {} /\ DelayedIds = {} /\ Len(ready) = 0
    BY <2>1, EmptySeq DEF ReadyIds, QueueIds, DelayedIds
  <2>3. \A l \in leases : ~RemoveActiveLease(l)
    BY <2>1, Release
  <2>4. ASSUME NEW l \in leases, HandBack(l) PROVE HandBackInvalid(l)
    BY <2>3, <2>4 DEF HandBack, Complete, RescheduleAfterSuccess, RetryWithoutConsumingAttempt,
                      RetryWithFreshAttemptBudget, RequeueUnstarted, FailScheduled, FailExhausted
  <2>5. ASSUME NEW i \in Ids PROVE ~Enqueue(i) /\ ~CompletePending(i)
    BY <1>3, <2>2 DEF Enqueue, CompletePending
  <2>6. ASSUME NEW m, NEW eligible PROVE ~AdmitOneWhere(m, eligible)
    BY <1>3 DEF AdmitOneWhere
  <2>7. DiscardPending \/ (\E l \in leases : HandBackInvalid(l)) \/ Cancel \/ Tick \/ UNCHANGED vars
    BY <2>4, <2>5, <2>6 DEF Next
  <2> QED BY <2>1, <2>7 DEF DiscardPending, HandBackInvalid, Cancel, Tick, vars,
                            CancelledIsEmpty, InFlightIds
<1> QED BY <1>1, <1>2, <1>3 DEF Core, TypeOK

\* A cancelled scheduler stays empty, whatever leases come back afterwards.
THEOREM NothingAfterCancel == Spec => []CancelledIsEmpty
<1>1. Init => CancelledIsEmpty
  BY DEF Init, CancelledIsEmpty
<1> QED BY <1>1, CoreInit, CoreStep, CancelledStep, PTL DEF Spec

-----------------------------------------------------------------------------
\* An attempt that is not charged leaves the budget it had when it started.
LEMMA Uncharged ==
    ASSUME Core, BudgetKept, NEW l \in leases, RemoveActiveLease(l),
           NEW n \in {0, l.attempt - 1}
    PROVE  Work(l.id, n) \in ReadyWork /\ Work(l.id, n).id = l.id /\ Affordable(Work(l.id, n))
<1>1. l.id \in Ids /\ l.attempt \in 1..U32Max /\ l.attempt - 1 \in Attempts /\ 0 \in Attempts
  BY Release
<1>2. in_flight[l.id] = l.attempt
  BY DEF RemoveActiveLease
<1>3. MaxAttempts[l.id] \in Nat
  BY <1>1, SchedulerAssumption
<1>4. MaxAttempts[l.id] # 0 => n < MaxAttempts[l.id]
  BY <1>1, <1>2, <1>3 DEF BudgetKept
<1> QED BY <1>1, <1>4 DEF Work, ReadyWork, Affordable

\* Leases only leave the in-flight map, or enter it within the budget.
LEMMA BudgetStep == Core /\ BudgetKept /\ [Next]_vars => BudgetKept'
<1> SUFFICES ASSUME Core, BudgetKept, [Next]_vars PROVE BudgetKept'
  OBVIOUS
<1>0. /\ ready \in Seq(ReadyWork) /\ in_flight \in [Ids -> Attempts]
      /\ MaxAttempts \in [Ids -> Nat]
  BY SchedulerAssumption DEF Core, TypeOK
<1> DEFINE Small(f) == \A i \in Ids : MaxAttempts[i] # 0 => f[i] <= MaxAttempts[i]
<1>a. AffordableIn(ready) /\ (\A d \in delayed : Affordable(d)) /\ Small(in_flight)
  BY DEF BudgetKept
<1>b. AffordableIn(<<>>)
  BY EmptySeq DEF AffordableIn
<1>c. ASSUME NEW l \in leases, RemoveActiveLease(l) PROVE Small(in_flight')
  BY <1>0, <1>a, <1>c DEF RemoveActiveLease
<1>1. ASSUME NEW i \in Ids, Enqueue(i) PROVE BudgetKept'
  <2>1. Work(i, 0) \in ReadyWork /\ Affordable(Work(i, 0))
    BY <1>0, SchedulerAssumption DEF Work, ReadyWork, Attempts, Affordable
  <2>2. AffordableIn(ready')
    BY <1>0, <1>1, <1>a, <2>1, QueueAppend DEF Enqueue
  <2> QED BY <1>1, <1>a, <2>2 DEF Enqueue, BudgetKept, AffordableIn, Affordable
<1>2. ASSUME NEW i \in Ids, CompletePending(i) PROVE BudgetKept'
  <2>1. AffordableIn(ready')
    BY <1>0, <1>2, <1>a, QueueWithout DEF CompletePending
  <2> QED BY <1>2, <1>a, <2>1 DEF CompletePending, BudgetKept, AffordableIn, Affordable
<1>3. ASSUME NEW m, NEW eligible, AdmitOneWhere(m, eligible) PROVE BudgetKept'
  <2>1. PICK s \in HeapOrders(DueEntries) :
          LET q == Promoted(s)
          IN  /\ delayed' = delayed \ DueEntries
              /\ \/ \E k \in 1..Len(q) : LeaseEntry(q, k)
                 \/ ready' = q /\ UNCHANGED <<in_flight, leases>>
    BY <1>3 DEF AdmitOneWhere
  <2> DEFINE q == Promoted(s)
  <2>2. q \in Seq(ReadyWork) /\ AffordableIn(q)
    BY Promotion
  <2> HIDE DEF q
  <2>3. \A d \in delayed' : Affordable(d)
    BY <1>a, <2>1
  <2>4. CASE ready' = q /\ UNCHANGED <<in_flight, leases>>
    BY <1>a, <2>2, <2>3, <2>4 DEF BudgetKept, AffordableIn, Affordable
  <2>5. ASSUME NEW k \in 1..Len(q), LeaseEntry(q, k) PROVE BudgetKept'
    <3>1. AffordableIn(ready')
      BY <2>2, <2>5, QueueWithout DEF LeaseEntry
    <3>2. q[k] \in ReadyWork /\ Affordable(q[k])
      BY <2>2, ElementOfSeq DEF AffordableIn
    <3>3. MaxAttempts[q[k].id] # 0 => SaturatingInc(q[k].previous_attempts) <= MaxAttempts[q[k].id]
      BY <1>0, <3>2, SchedulerAssumption DEF ReadyWork, Attempts, Affordable, SaturatingInc
    <3>4. Small(in_flight')
      BY <1>0, <1>a, <2>5, <3>2, <3>3 DEF LeaseEntry, ReadyWork
    <3> QED BY <2>3, <3>1, <3>4 DEF BudgetKept, AffordableIn, Affordable
  <2> QED BY <2>1, <2>4, <2>5 DEF q
<1>4. CASE DiscardPending
  BY <1>4, <1>a, <1>b DEF DiscardPending, BudgetKept, AffordableIn, Affordable
<1>5. ASSUME NEW l \in leases, HandBack(l) PROVE BudgetKept'
  <2>1. CASE HandBackInvalid(l)
    BY <2>1, <1>a DEF HandBackInvalid, BudgetKept, AffordableIn, Affordable
  <2>2. CASE Complete(l) \/ \E retryable \in BOOLEAN : FailExhausted(l, retryable)
    BY <2>2, <1>a, <1>c DEF Complete, FailExhausted, BudgetKept, AffordableIn, Affordable
  <2>3. ASSUME RemoveActiveLease(l), UNCHANGED delayed, NEW n \in {0, l.attempt - 1},
               \/ ready' = Append(ready, Work(l.id, n))
               \/ ready' = <<Work(l.id, n)>> \o ready
        PROVE  BudgetKept'
    <3>1. Work(l.id, n) \in ReadyWork /\ Affordable(Work(l.id, n))
      BY <2>3, Uncharged
    <3>2. AffordableIn(ready')
      BY <1>0, <1>a, <2>3, <3>1, QueueAppend, QueuePrepend
    <3> QED BY <1>a, <1>c, <2>3, <3>2 DEF BudgetKept, AffordableIn, Affordable
  <2>4. CASE RescheduleAfterSuccess(l) \/ RetryWithoutConsumingAttempt(l)
    BY <2>3, <2>4 DEF RescheduleAfterSuccess, RetryWithoutConsumingAttempt
  <2>5. CASE RetryWithFreshAttemptBudget(l)
    BY <2>3, <2>5 DEF RetryWithFreshAttemptBudget
  <2>6. CASE RequeueUnstarted(l)
    BY <2>3, <2>6 DEF RequeueUnstarted
  <2>7. ASSUME NEW ready_at \in now..MaxTime, FailScheduled(l, ready_at) PROVE BudgetKept'
    <3>1. \A d \in delayed' : Affordable(d)
      BY <1>a, <2>7 DEF FailScheduled, RetryAllowed, Affordable
    <3> QED BY <1>a, <1>c, <2>7, <3>1 DEF FailScheduled, BudgetKept, AffordableIn, Affordable
  <2> QED BY <1>5, <2>1, <2>2, <2>4, <2>5, <2>6, <2>7 DEF HandBack
<1>6. CASE Cancel
  <2>1. Small(in_flight')
    BY <1>0, <1>6 DEF Cancel
  <2> QED BY <1>6, <1>b, <2>1 DEF Cancel, BudgetKept, AffordableIn, Affordable
<1>7. CASE Tick \/ UNCHANGED vars
  BY <1>7, <1>a DEF Tick, vars, BudgetKept, AffordableIn, Affordable
<1> QED BY <1>1, <1>2, <1>3, <1>4, <1>5, <1>6, <1>7 DEF Next

\* No item is ever attempted more often than its max_attempts allows, and none
\* waits for an attempt it has no budget for.
THEOREM BudgetNeverExceeded == Spec => []BudgetKept
<1>1. Init => BudgetKept
  BY SchedulerAssumption, EmptySeq DEF Init, BudgetKept, AffordableIn
<1> QED BY <1>1, CoreInit, CoreStep, BudgetStep, PTL DEF Spec

-----------------------------------------------------------------------------
\* The leases that in_flight stands for.
LeasesOf(f) == {[id |-> i, attempt |-> f[i]] : i \in {j \in Ids : f[j] # 0}}

\* A new lease is entered under an id that had none.
LEMMA LeaseEntered ==
    ASSUME NEW f \in [Ids -> Attempts], NEW i \in Ids, f[i] = 0, NEW n \in Attempts, n # 0
    PROVE  LeasesOf([f EXCEPT ![i] = n]) = LeasesOf(f) \cup {[id |-> i, attempt |-> n]}
<1> DEFINE g == [f EXCEPT ![i] = n]
<1>1. {j \in Ids : g[j] # 0} = {j \in Ids : f[j] # 0} \cup {i}
  OBVIOUS
<1>2. \A j \in {j \in Ids : f[j] # 0} : g[j] = f[j]
  OBVIOUS
<1>3. g[i] = n
  OBVIOUS
<1> HIDE DEF g
<1>4. LeasesOf(g) = LeasesOf(f) \cup {[id |-> i, attempt |-> n]}
  BY <1>1, <1>2, <1>3 DEF LeasesOf
<1> QED BY <1>4 DEF g

\* An accepted lease is the only one of its id.
LEMMA LeaseDropped ==
    ASSUME NEW f \in [Ids -> Attempts], NEW i \in Ids, f[i] # 0
    PROVE  LeasesOf([f EXCEPT ![i] = 0]) = LeasesOf(f) \ {[id |-> i, attempt |-> f[i]]}
<1> DEFINE g == [f EXCEPT ![i] = 0]
<1>1. {j \in Ids : g[j] # 0} = {j \in Ids : f[j] # 0} \ {i}
  OBVIOUS
<1>2. \A j \in {j \in Ids : g[j] # 0} : g[j] = f[j]
  OBVIOUS
<1> HIDE DEF g
<1>3. ASSUME NEW j \in {j \in Ids : f[j] # 0}, [id |-> j, attempt |-> f[j]] = [id |-> i, attempt |-> f[i]]
      PROVE  j = i
  <2>1. [id |-> j, attempt |-> f[j]].id = [id |-> i, attempt |-> f[i]].id
    BY <1>3
  <2> QED BY <2>1
<1>4. LeasesOf(g) = LeasesOf(f) \ {[id |-> i, attempt |-> f[i]]}
  BY <1>1, <1>2, <1>3 DEF LeasesOf
<1> QED BY <1>4 DEF g

\* Every method keeps the leases of the driver and in_flight in step.
LEMMA LeasesStep == Core /\ LeasesMatch /\ [Next]_vars => LeasesMatch'
<1> SUFFICES ASSUME Core, LeasesMatch, [Next]_vars, ~cancelled' PROVE leases' = LeasesOf(in_flight')
  BY DEF LeasesMatch, LeasesOf, InFlightIds
<1>0. in_flight \in [Ids -> Attempts] /\ leases \subseteq Lease
  BY DEF Core, TypeOK
<1>a. ASSUME NEW l \in leases, RemoveActiveLease(l), leases = LeasesOf(in_flight)
      PROVE  leases' = LeasesOf(in_flight')
  <2>1. l = [id |-> l.id, attempt |-> in_flight[l.id]] /\ l.id \in Ids /\ in_flight[l.id] # 0
    BY <1>0, <1>a, SchedulerAssumption DEF RemoveActiveLease, Lease
  <2>2. leases' = leases \ {l} /\ in_flight' = [in_flight EXCEPT ![l.id] = 0]
    BY <1>a DEF RemoveActiveLease
  <2> QED BY <1>0, <1>a, <2>1, <2>2, LeaseDropped
<1>b. ASSUME leases = LeasesOf(in_flight), UNCHANGED <<leases, in_flight>>
      PROVE  leases' = LeasesOf(in_flight')
  BY <1>b DEF LeasesOf
<1>c. ASSUME cancelled' = cancelled PROVE leases = LeasesOf(in_flight)
  BY <1>c DEF LeasesMatch, LeasesOf, InFlightIds
<1>1. ASSUME NEW i \in Ids, Enqueue(i) \/ CompletePending(i) PROVE leases' = LeasesOf(in_flight')
  BY <1>1, <1>b, <1>c DEF Enqueue, CompletePending
<1>2. ASSUME NEW m, NEW eligible, AdmitOneWhere(m, eligible) PROVE leases' = LeasesOf(in_flight')
  <2>1. PICK s \in HeapOrders(DueEntries) :
          \/ \E k \in 1..Len(Promoted(s)) : LeaseEntry(Promoted(s), k)
          \/ UNCHANGED <<in_flight, leases>>
    BY <1>2 DEF AdmitOneWhere
  <2> DEFINE q == Promoted(s)
  <2>2. leases = LeasesOf(in_flight)
    BY <1>2, <1>c DEF AdmitOneWhere
  <2>3. q \in Seq(ReadyWork) /\ QueueIds(q) = ReadyIds \cup {d.id : d \in DueEntries}
        /\ DueEntries \subseteq delayed
    BY Promotion
  <2> HIDE DEF q
  <2>4. ASSUME NEW k \in 1..Len(q), LeaseEntry(q, k) PROVE leases' = LeasesOf(in_flight')
    <3> DEFINE i == q[k].id
               n == SaturatingInc(q[k].previous_attempts)
    <3>1. q[k] \in ReadyWork
      BY <2>3, ElementOfSeq
    <3>2. i \in Ids /\ i \in QueueIds(q) /\ n \in Attempts /\ n # 0
      BY <3>1, SchedulerAssumption DEF ReadyWork, QueueIds, SaturatingInc, Attempts
    <3>3. i \in ReadyIds \/ i \in DelayedIds
      BY <2>3, <3>2 DEF DelayedIds
    <3>4. in_flight[i] = 0
      BY <3>2, <3>3 DEF Core, OnePlace, Disjoint, InFlightIds
    <3>5. /\ in_flight' = [in_flight EXCEPT ![i] = n]
          /\ leases' = leases \cup {[id |-> i, attempt |-> n]}
      BY <2>4 DEF LeaseEntry
    <3> HIDE DEF i, n
    <3> QED BY <1>0, <2>2, <3>2, <3>4, <3>5, LeaseEntered
  <2> QED BY <1>b, <2>1, <2>2, <2>4 DEF q
<1>3. CASE DiscardPending
  BY <1>3, <1>b, <1>c DEF DiscardPending
<1>4. ASSUME NEW l \in leases, HandBack(l) PROVE leases' = LeasesOf(in_flight')
  <2>1. cancelled' = cancelled
    BY <1>4 DEF HandBack, HandBackInvalid, Complete, RescheduleAfterSuccess, FailScheduled,
                RetryWithoutConsumingAttempt, RetryWithFreshAttemptBudget, RequeueUnstarted,
                FailExhausted
  <2>2. leases = LeasesOf(in_flight)
    BY <1>c, <2>1
  <2>3. ~HandBackInvalid(l)
    BY <2>2 DEF LeasesOf, HandBackInvalid
  <2>4. RemoveActiveLease(l)
    BY <1>4, <2>3 DEF HandBack, Complete, RescheduleAfterSuccess, FailScheduled,
                RetryWithoutConsumingAttempt, RetryWithFreshAttemptBudget, RequeueUnstarted,
                FailExhausted
  <2> QED BY <1>a, <2>2, <2>4
<1>5. CASE Tick \/ UNCHANGED vars
  BY <1>5, <1>b, <1>c DEF Tick, vars
<1>6. ~Cancel
  BY DEF Cancel
<1> QED BY <1>1, <1>2, <1>3, <1>4, <1>5, <1>6 DEF Next

\* Until cancellation the leases the driver holds are exactly the in-flight
\* attempts: none is refused, and no slot stays occupied for ever.
THEOREM LeasesNeverRefused == Spec => []LeasesMatch
<1>1. Init => LeasesMatch
  BY DEF Init, LeasesMatch, InFlightIds
<1> QED BY <1>1, CoreInit, CoreStep, LeasesStep, PTL DEF Spec

\* Places and leases agree: whatever is admitted, handed back late, dropped or
\* cancelled, an item is in one place and its slot belongs to one lease.
THEOREM PlacesAndLeasesAgree == Spec => []PlacesAndLeases
<1>1. OnePlace /\ LeasesMatch => PlacesAndLeases
  BY DEF PlacesAndLeases
<1> QED BY <1>1, EachIdInOnePlace, LeasesNeverRefused, PTL

-----------------------------------------------------------------------------
(***************************************************************************)
(* The order of the queue.                                                 *)
(***************************************************************************)
OrderKept ==
    /\ \A i, j \in Ids : i # j /\ Precedes(ready, i, j) => ~Precedes(ready', j, i)
    /\ \A d, e \in delayed : d.ready_at < e.ready_at => ~Precedes(ready', e.id, d.id)

\* Of two queued items one precedes the other, and both are queued.
LEMMA OneOrder ==
    ASSUME Core, NEW i, NEW j, Precedes(ready, i, j)
    PROVE  ~Precedes(ready, j, i) /\ i \in ReadyIds /\ j \in ReadyIds
<1>1. OnceIn(ready) /\ Len(ready) \in Nat
  BY LenProperties DEF Core, OnePlace, TypeOK
<1>2. i \in ReadyIds /\ j \in ReadyIds
  BY DEF Precedes, ReadyIds, QueueIds
<1>3. ~Precedes(ready, j, i)
  BY <1>1 DEF Precedes, OnceIn
<1> QED BY <1>2, <1>3

\* A step that adds only items that were neither queued nor delayed keeps the order.
LEMMA OrderOfOthers ==
    ASSUME Core, NEW new, new \cap ReadyIds = {}, new \cap DelayedIds = {},
           \A i, j : Precedes(ready', i, j) => Precedes(ready, i, j) \/ i \in new \/ j \in new
    PROVE  OrderKept
<1>1. ASSUME NEW i, NEW j, Precedes(ready, i, j), Precedes(ready', j, i) PROVE FALSE
  <2>1. ~Precedes(ready, j, i) /\ i \in ReadyIds /\ j \in ReadyIds
    BY <1>1, OneOrder
  <2> QED BY <1>1, <2>1
<1>2. ASSUME NEW d \in delayed, NEW e \in delayed, Precedes(ready', e.id, d.id) PROVE FALSE
  <2>1. d.id \in DelayedIds /\ e.id \in DelayedIds
    BY DEF DelayedIds
  <2>2. Precedes(ready, e.id, d.id)
    BY <1>2, <2>1
  <2>3. d.id \in ReadyIds
    BY <2>2, OneOrder
  <2> QED BY <2>1, <2>3 DEF Core, OnePlace, Disjoint
<1> QED BY <1>1, <1>2 DEF OrderKept

\* So does a step that adds none.
LEMMA OrderOfFewer ==
    ASSUME Core, \A i, j : Precedes(ready', i, j) => Precedes(ready, i, j) PROVE OrderKept
<1>1. \E new : new = {}
  OBVIOUS
<1>2. PICK new : new = {}
  BY <1>1
<1>3. new \cap ReadyIds = {} /\ new \cap DelayedIds = {}
  BY <1>2
<1>4. \A i, j : Precedes(ready', i, j) => Precedes(ready, i, j) \/ i \in new \/ j \in new
  OBVIOUS
<1> QED BY <1>3, <1>4, OrderOfOthers

\* Promotion puts the due items behind the queued ones, by deadline.
LEMMA OrderOfAdmission ==
    ASSUME Core, NEW m, NEW eligible, AdmitOneWhere(m, eligible) PROVE OrderKept
<1>1. PICK s \in HeapOrders(DueEntries) :
        \/ \E k \in 1..Len(Promoted(s)) : ready' = RemoveAt(Promoted(s), k)
        \/ ready' = Promoted(s)
  BY DEF AdmitOneWhere, LeaseEntry
<1> DEFINE q == Promoted(s)
<1>2. /\ q \in Seq(ReadyWork) /\ DueEntries \subseteq delayed
      /\ \A i, j : Precedes(q, i, j) =>
            \/ Precedes(ready, i, j)
            \/ \E e \in DueEntries : /\ e.id = j
                                     /\ i \in ReadyIds \/ \E d \in DueEntries : d.id = i /\ NotAfter(d, e)
  BY Promotion
<1>3. ready' = q \/ \E k \in 1..Len(q) : ready' = RemoveAt(q, k)
  BY <1>1
<1> HIDE DEF q
<1>4. \A i, j : Precedes(ready', i, j) => Precedes(q, i, j)
  BY <1>2, <1>3, QueueWithout
<1>5. ASSUME NEW i, NEW j, Precedes(ready, i, j), Precedes(ready', j, i) PROVE FALSE
  <2>1. ~Precedes(ready, j, i) /\ i \in ReadyIds
    BY <1>5, OneOrder
  <2>2. PICK e \in DueEntries : e.id = i
    BY <1>2, <1>4, <1>5, <2>1
  <2> QED BY <1>2, <2>1, <2>2 DEF Core, OnePlace, Disjoint, DelayedIds
<1>6. ASSUME NEW d \in delayed, NEW e \in delayed, d.ready_at < e.ready_at,
             Precedes(ready', e.id, d.id)
      PROVE  FALSE
  <2>1. d.id \notin ReadyIds /\ e.id \notin ReadyIds
    BY DEF Core, OnePlace, Disjoint, DelayedIds
  <2>2. PICK x, y \in DueEntries : x.id = d.id /\ y.id = e.id /\ NotAfter(y, x)
    <3>1. ~Precedes(ready, e.id, d.id)
      BY <2>1, OneOrder
    <3> QED BY <1>2, <1>4, <1>6, <2>1, <3>1
  <2>3. x = d /\ y = e
    BY <1>2, <2>2 DEF Core, OnePlace, DelayedOnce
  <2>4. d.ready_at \in Nat /\ e.ready_at \in Nat
    BY SchedulerAssumption DEF Core, TypeOK, DelayedWork
  <2> QED BY <1>6, <2>2, <2>3, <2>4 DEF NotAfter
<1> QED BY <1>5, <1>6 DEF OrderKept

\* No step turns the order of two items around.
LEMMA OrderStep == Core /\ [Next]_vars => OrderKept
<1> SUFFICES ASSUME Core, [Next]_vars PROVE OrderKept
  OBVIOUS
<1>0. ready \in Seq(ReadyWork)
  BY DEF Core, TypeOK
<1>1. ASSUME NEW i \in Ids, Enqueue(i) PROVE OrderKept
  <2>1. Work(i, 0) \in ReadyWork /\ Work(i, 0).id = i
    BY SchedulerAssumption DEF Work, ReadyWork, Attempts
  <2>2. \A x, y : Precedes(ready', x, y) => Precedes(ready, x, y) \/ y \in {i}
    BY <1>0, <1>1, <2>1, QueueAppend DEF Enqueue
  <2>3. {i} \cap ReadyIds = {} /\ {i} \cap DelayedIds = {}
    BY <1>1 DEF Enqueue, Core, OnePlace, ActiveIdsExact
  <2> QED BY <2>2, <2>3, OrderOfOthers
<1>2. ASSUME NEW i \in Ids, CompletePending(i) PROVE OrderKept
  <2>1. \A x, y : Precedes(ready', x, y) => Precedes(ready, x, y)
    BY <1>0, <1>2, QueueWithout DEF CompletePending
  <2> QED BY <2>1, OrderOfFewer
<1>3. ASSUME NEW m, NEW eligible, AdmitOneWhere(m, eligible) PROVE OrderKept
  BY <1>3, OrderOfAdmission
<1>4. CASE DiscardPending \/ Cancel
  <2>1. \A x, y : ~Precedes(ready', x, y)
    BY <1>4 DEF DiscardPending, Cancel, Precedes
  <2> QED BY <2>1, OrderOfFewer
<1>5. ASSUME NEW l \in leases, HandBack(l) PROVE OrderKept
  <2>1. CASE UNCHANGED ready
    BY <2>1, OrderOfFewer
  <2>2. ASSUME RemoveActiveLease(l), NEW n \in {0, l.attempt - 1},
               \/ ready' = Append(ready, Work(l.id, n))
               \/ ready' = <<Work(l.id, n)>> \o ready
        PROVE  OrderKept
    <3>1. Work(l.id, n) \in ReadyWork /\ Work(l.id, n).id = l.id
      BY <2>2, Release DEF Work, ReadyWork
    <3>2. \A x, y : Precedes(ready', x, y) => Precedes(ready, x, y) \/ x \in {l.id} \/ y \in {l.id}
      <4>1. CASE ready' = Append(ready, Work(l.id, n))
        BY <1>0, <3>1, <4>1, QueueAppend
      <4>2. CASE ready' = <<Work(l.id, n)>> \o ready
        BY <1>0, <3>1, <4>2, QueuePrepend
      <4> QED BY <2>2, <4>1, <4>2
    <3>3. {l.id} \cap ReadyIds = {} /\ {l.id} \cap DelayedIds = {}
      BY <2>2, Release
    <3> QED BY <3>2, <3>3, OrderOfOthers
  <2> QED BY <1>5, <2>1, <2>2
          DEF HandBack, HandBackInvalid, Complete, RescheduleAfterSuccess, FailScheduled,
              RetryWithoutConsumingAttempt, RetryWithFreshAttemptBudget, RequeueUnstarted,
              FailExhausted
<1>6. CASE Tick \/ UNCHANGED vars
  <2>1. UNCHANGED ready
    BY <1>6 DEF Tick, vars
  <2> QED BY <2>1, OrderOfFewer
<1> QED BY <1>1, <1>2, <1>3, <1>4, <1>5, <1>6 DEF Next

\* Skipping ineligible items, handing leases back in any order and promoting
\* retries never swap two queued items, and retries promoted together are queued
\* by deadline.
THEOREM QueueOrder == Spec => QueueOrderKept
<1>1. Core /\ [Next]_vars =>
        [/\ \A i, j \in Ids : i # j /\ Precedes(ready, i, j) => ~Precedes(ready', j, i)
         /\ \A d, e \in delayed : d.ready_at < e.ready_at => ~Precedes(ready', e.id, d.id)]_vars
  BY OrderStep DEF OrderKept
<1> QED BY <1>1, CoreInit, CoreStep, PTL DEF Spec, QueueOrderKept

-----------------------------------------------------------------------------
(***************************************************************************)
(* The scheduler implements WorkLifecycle. What a step does to the phase   *)
(* and the charge of an item is read off the entries it moves.             *)
(***************************************************************************)
Budget(i, n) == IF MaxAttempts[i] = 0 THEN 0 ELSE n
PhaseMap == [i \in Ids |-> Phase(i)]
ChargeMap == [i \in Ids |-> Charged(i)]

\* What phase and charge mean while every id is in one place.
LEMMA PhaseMeaning ==
    Core => \A i \in Ids :
        /\ i \in ReadyIds <=> Phase(i) = "Pending"
        /\ i \in DelayedIds <=> Phase(i) = "Delayed"
        /\ i \in InFlightIds <=> Phase(i) = "InFlight"
        /\ i \notin active_ids <=> Phase(i) = "Idle"
        /\ Phase(i) \in {"Idle", "Pending", "Delayed", "InFlight"}
  BY DEF Core, OnePlace, Disjoint, ActiveIdsExact, Phase

\* The charge of an item is in its entry, and nothing is charged to an idle one.
LEMMA ChargeMeaning ==
    Core =>
        /\ \A w \in Works(ready) : w.id \in Ids /\ Charged(w.id) = Budget(w.id, w.previous_attempts)
        /\ \A d \in delayed : d.id \in Ids /\ Charged(d.id) = Budget(d.id, d.previous_attempts)
        /\ \A i \in InFlightIds : Charged(i) = Budget(i, in_flight[i] - 1)
        /\ \A i \in Ids \ active_ids : Charged(i) = 0
<1> SUFFICES ASSUME Core PROVE
        /\ \A w \in Works(ready) : w.id \in Ids /\ Charged(w.id) = Budget(w.id, w.previous_attempts)
        /\ \A d \in delayed : d.id \in Ids /\ Charged(d.id) = Budget(d.id, d.previous_attempts)
        /\ \A i \in InFlightIds : Charged(i) = Budget(i, in_flight[i] - 1)
        /\ \A i \in Ids \ active_ids : Charged(i) = 0
  OBVIOUS
<1>1. ASSUME NEW w \in Works(ready)
      PROVE  w.id \in Ids /\ Charged(w.id) = Budget(w.id, w.previous_attempts)
  <2>1. PICK k \in 1..Len(ready) : ready[k] = w
    BY DEF Works
  <2>2. w \in ReadyWork /\ w.id \in Ids
    <3>1. ready \in Seq(ReadyWork)
      BY DEF Core, TypeOK
    <3>2. w \in ReadyWork
      BY <2>1, <3>1, ElementOfSeq
    <3> QED BY <3>2 DEF ReadyWork
  <2>3. w.id \in ReadyIds
    BY <2>1 DEF ReadyIds, QueueIds
  <2>4. Phase(w.id) = "Pending"
    BY <2>2, <2>3, PhaseMeaning
  <2>5. ReadyEntry(w.id) = w
    BY <2>1 DEF ReadyEntry, Core, OnePlace, OnceIn
  <2> QED BY <2>2, <2>4, <2>5 DEF Charged, Budget
<1>2. ASSUME NEW d \in delayed
      PROVE  d.id \in Ids /\ Charged(d.id) = Budget(d.id, d.previous_attempts)
  <2>1. d.id \in Ids /\ d.id \in DelayedIds
    BY DEF Core, TypeOK, DelayedWork, DelayedIds
  <2>2. Phase(d.id) = "Delayed"
    BY <2>1, PhaseMeaning
  <2>3. DelayedEntry(d.id) = d
    BY DEF DelayedEntry, Core, OnePlace, DelayedOnce
  <2> QED BY <2>1, <2>2, <2>3 DEF Charged, Budget
<1>3. ASSUME NEW i \in InFlightIds PROVE Charged(i) = Budget(i, in_flight[i] - 1)
  <2>1. Phase(i) = "InFlight"
    BY PhaseMeaning DEF InFlightIds
  <2> QED BY <2>1 DEF Charged, Budget
<1>4. ASSUME NEW i \in Ids \ active_ids PROVE Charged(i) = 0
  <2>1. Phase(i) = "Idle"
    BY PhaseMeaning
  <2> QED BY <2>1 DEF Charged
<1> QED BY <1>1, <1>2, <1>3, <1>4

\* The same of the next state.
LEMMA MeaningNext ==
    Core' =>
        /\ (\A i \in Ids :
              /\ i \in ReadyIds <=> Phase(i) = "Pending"
              /\ i \in DelayedIds <=> Phase(i) = "Delayed"
              /\ i \in InFlightIds <=> Phase(i) = "InFlight"
              /\ i \notin active_ids <=> Phase(i) = "Idle"
              /\ Phase(i) \in {"Idle", "Pending", "Delayed", "InFlight"})'
        /\ (/\ \A w \in Works(ready) : w.id \in Ids /\ Charged(w.id) = Budget(w.id, w.previous_attempts)
            /\ \A d \in delayed : d.id \in Ids /\ Charged(d.id) = Budget(d.id, d.previous_attempts)
            /\ \A i \in InFlightIds : Charged(i) = Budget(i, in_flight[i] - 1)
            /\ \A i \in Ids \ active_ids : Charged(i) = 0)'
  BY PhaseMeaning, ChargeMeaning, PTL

\* An item whose entry stays where it is.
Kept(i) ==
    /\ \A w \in Works(ready) : w.id = i => w \in Works(ready')
    /\ \A d \in delayed : d.id = i => d \in delayed'
    /\ in_flight[i] # 0 => in_flight'[i] = in_flight[i]
    /\ i \notin active_ids => i \notin active_ids'

\* It keeps its phase and its charge.
LEMMA KeptItem ==
    ASSUME Core, Core', NEW i \in Ids, Kept(i)
    PROVE  Phase(i)' = Phase(i) /\ Charged(i)' = Charged(i)
<1>1. CASE i \in ReadyIds
  <2>1. PICK w \in Works(ready) : w.id = i
    BY <1>1 DEF ReadyIds, QueueIds, Works
  <2>2. w \in Works(ready')
    BY <2>1 DEF Kept
  <2>3. i \in ReadyIds'
    BY <2>1, <2>2 DEF ReadyIds, QueueIds, Works
  <2> QED BY <1>1, <2>1, <2>2, <2>3, PhaseMeaning, ChargeMeaning, MeaningNext
<1>2. CASE i \in DelayedIds
  <2>1. PICK d \in delayed : d.id = i
    BY <1>2 DEF DelayedIds
  <2>2. d \in delayed' /\ i \in DelayedIds'
    BY <2>1 DEF Kept, DelayedIds
  <2> QED BY <1>2, <2>1, <2>2, PhaseMeaning, ChargeMeaning, MeaningNext
<1>3. CASE i \in InFlightIds
  <2>1. i \in InFlightIds' /\ in_flight'[i] = in_flight[i]
    BY <1>3 DEF Kept, InFlightIds
  <2> QED BY <1>3, <2>1, PhaseMeaning, ChargeMeaning, MeaningNext
<1>4. CASE i \notin active_ids
  <2>1. i \notin active_ids'
    BY <1>4 DEF Kept
  <2> QED BY <1>4, <2>1, PhaseMeaning, ChargeMeaning, MeaningNext
<1> QED BY <1>1, <1>2, <1>3, <1>4 DEF Core, OnePlace, ActiveIdsExact

\* A step that moves one item changes the two maps at that item only.
LEMMA OneMoves ==
    ASSUME Core, Core', NEW i \in Ids, \A j \in Ids \ {i} : Kept(j)
    PROVE  /\ PhaseMap' = [PhaseMap EXCEPT ![i] = Phase(i)']
           /\ ChargeMap' = [ChargeMap EXCEPT ![i] = Charged(i)']
<1>1. \A j \in Ids \ {i} : Phase(j)' = Phase(j) /\ Charged(j)' = Charged(j)
  BY KeptItem
<1> QED BY <1>1 DEF PhaseMap, ChargeMap

\* A step that moves none changes neither.
LEMMA NoneMoves ==
    ASSUME Core, Core', \A j \in Ids : Kept(j)
    PROVE  PhaseMap' = PhaseMap /\ ChargeMap' = ChargeMap
<1>1. \A j \in Ids : Phase(j)' = Phase(j) /\ Charged(j)' = Charged(j)
  BY KeptItem
<1> QED BY <1>1 DEF PhaseMap, ChargeMap

\* The occupied slots are finitely many, so that they can be counted.
LifeInv == Core /\ BudgetKept /\ IsFiniteSet(InFlightIds)

\* A step occupies at most one slot more.
LEMMA SlotsStep == Core /\ IsFiniteSet(InFlightIds) /\ [Next]_vars => IsFiniteSet(InFlightIds')
<1> SUFFICES ASSUME Core, IsFiniteSet(InFlightIds), [Next]_vars PROVE IsFiniteSet(InFlightIds')
  OBVIOUS
<1>1. ASSUME NEW x, \A i \in Ids \ {x} : in_flight'[i] # 0 => in_flight[i] # 0
      PROVE  IsFiniteSet(InFlightIds')
  <2>1. InFlightIds' \subseteq InFlightIds \cup {x}
    BY <1>1 DEF InFlightIds
  <2> QED BY <2>1, FS_AddElement, FS_Subset
<1>2. CASE UNCHANGED in_flight
  BY <1>2 DEF InFlightIds
<1>3. ASSUME NEW l \in leases, RemoveActiveLease(l) PROVE IsFiniteSet(InFlightIds')
  BY <1>3, Release, FS_RemoveElement
<1>4. ASSUME NEW m, NEW eligible, AdmitOneWhere(m, eligible) PROVE IsFiniteSet(InFlightIds')
  <2>1. UNCHANGED in_flight \/ \E x, n : in_flight' = [in_flight EXCEPT ![x] = n]
    BY <1>4 DEF AdmitOneWhere, LeaseEntry
  <2>2. ASSUME NEW x, NEW n, in_flight' = [in_flight EXCEPT ![x] = n]
        PROVE  IsFiniteSet(InFlightIds')
    BY <1>1, <2>2 DEF Core, TypeOK
  <2> QED BY <1>2, <2>1, <2>2
<1>5. CASE Cancel
  <2>1. InFlightIds' = {}
    BY <1>5 DEF Cancel, InFlightIds
  <2> QED BY <2>1, FS_EmptySet
<1>6. ASSUME NEW l \in leases, HandBack(l) PROVE IsFiniteSet(InFlightIds')
  BY <1>2, <1>3, <1>6
     DEF HandBack, HandBackInvalid, Complete, RescheduleAfterSuccess, FailScheduled,
         RetryWithoutConsumingAttempt, RetryWithFreshAttemptBudget, RequeueUnstarted, FailExhausted
<1>7. CASE UNCHANGED vars \/ Tick \/ DiscardPending \/ \E i \in Ids : Enqueue(i) \/ CompletePending(i)
  BY <1>2, <1>7 DEF vars, Tick, DiscardPending, Enqueue, CompletePending
<1> QED BY <1>4, <1>5, <1>6, <1>7 DEF Next

\* An enqueued item is submitted.
LEMMA EnqueueMaps ==
    ASSUME Core, Core', NEW i \in Ids, Enqueue(i) PROVE Lifecycle!Submit(i)
<1>1. Work(i, 0) \in ReadyWork /\ ready \in Seq(ReadyWork)
  BY SchedulerAssumption DEF Work, ReadyWork, Attempts, Core, TypeOK
<1>2. Works(ready') = Works(ready) \cup {Work(i, 0)}
  BY <1>1, QueueAppend DEF Enqueue
<1>3. \A j \in Ids \ {i} : Kept(j)
  BY <1>2 DEF Enqueue, Kept
<1>4. Work(i, 0).id = i /\ Work(i, 0).previous_attempts = 0
  BY DEF Work
<1>5. Charged(i)' = 0
  BY <1>2, <1>4, MeaningNext DEF Budget
<1>6. Phase(i)' = "Pending"
  <2>1. i \in ReadyIds'
    BY <1>2, <1>4 DEF ReadyIds, QueueIds, Works
  <2> QED BY <2>1, MeaningNext
<1>7. Phase(i) = "Idle" /\ Charged(i) = 0
  BY PhaseMeaning, ChargeMeaning DEF Enqueue
<1>8. PhaseMap' = [PhaseMap EXCEPT ![i] = "Pending"] /\ ChargeMap' = ChargeMap
  BY <1>3, <1>5, <1>6, <1>7, OneMoves DEF ChargeMap
<1> QED BY <1>7, <1>8 DEF Lifecycle!Submit, PhaseMap, ChargeMap, Enqueue

\* The two modules count alike.
LEMMA SameCardinality == \A S : Lifecycle!Cardinality(S) = Cardinality(S)
  BY DEF Lifecycle!Cardinality, Cardinality

\* A set of items none of which is active afterwards has finished.
LEMMA FinishMaps ==
    ASSUME Core, Core', NEW done, done # {}, done \subseteq active_ids, active_ids' = active_ids \ done,
           Cardinality(done \cap InFlightIds) <= 1, \A j \in Ids \ done : Kept(j), UNCHANGED cancelled
    PROVE  Lifecycle!Finish(done) /\ done \in SUBSET Ids
<1>1. done \subseteq Ids
  BY DEF Core, TypeOK
<1>2. \A j \in Ids \ done : Phase(j)' = Phase(j) /\ Charged(j)' = Charged(j)
  BY KeptItem
<1>3. \A j \in done : Phase(j)' = "Idle" /\ Charged(j)' = 0 /\ Phase(j) # "Idle"
  BY <1>1, PhaseMeaning, MeaningNext
<1>4. /\ PhaseMap' = [j \in Ids |-> IF j \in done THEN "Idle" ELSE PhaseMap[j]]
      /\ ChargeMap' = [j \in Ids |-> IF j \in done THEN 0 ELSE ChargeMap[j]]
  BY <1>2, <1>3 DEF PhaseMap, ChargeMap
<1>5. Lifecycle!InPhase("InFlight") = InFlightIds
  BY PhaseMeaning DEF Lifecycle!InPhase, InFlightIds
<1>6. \A j \in done : PhaseMap[j] # "Idle"
  BY <1>1, <1>3 DEF PhaseMap
<1>7. Lifecycle!Cardinality(done \cap Lifecycle!InPhase("InFlight")) <= 1
  BY <1>5, SameCardinality
<1> HIDE DEF PhaseMap, ChargeMap
<1>8. /\ \A j \in done : [i \in Ids |-> Phase(i)][j] # "Idle"
      /\ [i \in Ids |-> Phase(i)]' = [j \in Ids |-> IF j \in done THEN "Idle" ELSE [i \in Ids |-> Phase(i)][j]]
      /\ [i \in Ids |-> Charged(i)]' = [j \in Ids |-> IF j \in done THEN 0 ELSE [i \in Ids |-> Charged(i)][j]]
  BY <1>4, <1>6 DEF PhaseMap, ChargeMap
<1> QED BY <1>1, <1>7, <1>8 DEF Lifecycle!Finish

\* So has what another source satisfied, what was discarded, and what was
\* completed or failed for good.
LEMMA CompletePendingMaps ==
    ASSUME Core, Core', NEW i \in Ids, CompletePending(i)
    PROVE  \E done \in SUBSET Ids : Lifecycle!Finish(done)
<1>1. i \in ReadyIds \cup DelayedIds
  BY DEF CompletePending, ReadyIds, QueueIds
<1>2. {i} \subseteq active_ids /\ {i} \cap InFlightIds = {}
  BY <1>1 DEF Core, OnePlace, ActiveIdsExact, Disjoint
<1>3. \A j \in Ids \ {i} : Kept(j)
  <2>1. CASE \E k \in 1..Len(ready) : ready[k].id = i /\ ready' = RemoveAt(ready, k) /\ UNCHANGED delayed
    <3>1. PICK k \in 1..Len(ready) : ready[k].id = i /\ ready' = RemoveAt(ready, k) /\ UNCHANGED delayed
      BY <2>1
    <3>2. ready \in Seq(ReadyWork) /\ OnceIn(ready)
      BY DEF Core, TypeOK, OnePlace
    <3>3. Works(ready') = Works(ready) \ {ready[k]}
      BY <3>1, <3>2, QueueWithout
    <3> QED BY <3>1, <3>3 DEF CompletePending, Kept
  <2>2. CASE delayed' = {d \in delayed : d.id # i} /\ UNCHANGED ready
    BY <2>2 DEF CompletePending, Kept
  <2> QED BY <2>1, <2>2 DEF CompletePending
<1>4. Cardinality({i} \cap InFlightIds) <= 1
  BY <1>2, FS_EmptySet
<1> QED BY <1>2, <1>3, <1>4, FinishMaps DEF CompletePending

\* Discarding nothing is a stutter.
LEMMA DiscardMaps ==
    ASSUME Core, Core', DiscardPending
    PROVE  \/ \E done \in SUBSET Ids : Lifecycle!Finish(done)
           \/ UNCHANGED Lifecycle!lvars
<1> DEFINE done == ReadyIds \cup DelayedIds
<1>1. done \subseteq active_ids /\ done \cap InFlightIds = {}
  BY DEF Core, OnePlace, ActiveIdsExact, Disjoint
<1>2. \A j \in Ids \ done : Kept(j)
  BY DEF DiscardPending, Kept, Works, ReadyIds, QueueIds, DelayedIds
<1>3. active_ids' = active_ids \ done /\ UNCHANGED cancelled
  BY DEF DiscardPending
<1>4. Cardinality(done \cap InFlightIds) <= 1
  BY <1>1, FS_EmptySet
<1>5. CASE done = {}
  <2>1. PhaseMap' = PhaseMap /\ ChargeMap' = ChargeMap
    BY <1>2, <1>5, NoneMoves
  <2> QED BY <1>3, <2>1 DEF Lifecycle!lvars, PhaseMap, ChargeMap
<1>6. CASE done # {}
  <2> HIDE DEF done
  <2> QED BY <1>1, <1>2, <1>3, <1>4, <1>6, FinishMaps
<1> QED BY <1>5, <1>6

\* An item whose lease ends for good has finished.
LEMMA LeaseEndsMaps ==
    ASSUME Core, Core', NEW l \in leases, RemoveActiveLease(l), active_ids' = active_ids \ {l.id},
           UNCHANGED <<ready, delayed, cancelled>>
    PROVE  \E done \in SUBSET Ids : Lifecycle!Finish(done)
<1>1. l.id \in Ids /\ l.id \in InFlightIds
  BY Release
<1>2. {l.id} \subseteq active_ids /\ {l.id} \cap InFlightIds = {l.id}
  BY <1>1 DEF Core, OnePlace, ActiveIdsExact
<1>3. Cardinality({l.id} \cap InFlightIds) <= 1
  BY <1>2, FS_Singleton
<1>4. \A j \in Ids \ {l.id} : Kept(j)
  BY <1>1 DEF RemoveActiveLease, Kept, Core, TypeOK
<1> QED BY <1>2, <1>3, <1>4, FinishMaps

\* A lease handed back uncharged, or on a fresh budget, puts its item back.
LEMMA RequeueMaps ==
    ASSUME Core, Core', NEW l \in leases, RemoveActiveLease(l), NEW n \in {0, l.attempt - 1},
           \/ ready' = Append(ready, Work(l.id, n))
           \/ ready' = <<Work(l.id, n)>> \o ready,
           UNCHANGED <<delayed, active_ids, cancelled>>
    PROVE  \E i \in Ids : \E c \in {ChargeMap[i], 0} : Lifecycle!Requeue(i, c)
<1> DEFINE i == l.id
           w == Work(l.id, n)
<1>1. i \in Ids /\ i \in InFlightIds /\ w \in ReadyWork /\ ready \in Seq(ReadyWork)
  BY Release DEF Core, TypeOK, Work, ReadyWork
<1>2. w.id = i /\ w.previous_attempts = n
  BY DEF Work
<1>3. Works(ready') = Works(ready) \cup {w}
  <2> HIDE DEF w
  <2>1. CASE ready' = Append(ready, w)
    BY <1>1, <2>1, QueueAppend
  <2>2. CASE ready' = <<w>> \o ready
    BY <1>1, <2>2, QueuePrepend
  <2> QED BY <2>1, <2>2 DEF w
<1> HIDE DEF w
<1>4. \A j \in Ids \ {i} : Kept(j)
  BY <1>1, <1>3 DEF RemoveActiveLease, Kept, Core, TypeOK
<1>5. Phase(i)' = "Pending" /\ Charged(i)' = Budget(i, n)
  <2>1. i \in ReadyIds'
    BY <1>2, <1>3 DEF ReadyIds, QueueIds, Works
  <2> QED BY <1>1, <1>2, <1>3, <2>1, MeaningNext
<1>6. Phase(i) = "InFlight" /\ Charged(i) = Budget(i, l.attempt - 1)
  BY <1>1, PhaseMeaning, ChargeMeaning DEF RemoveActiveLease
<1>7. Budget(i, n) \in {Charged(i), 0}
  BY <1>6 DEF Budget
<1>8. /\ PhaseMap' = [PhaseMap EXCEPT ![i] = "Pending"]
      /\ ChargeMap' = [ChargeMap EXCEPT ![i] = Budget(i, n)]
  BY <1>1, <1>4, <1>5, OneMoves
<1>9. PhaseMap[i] = "InFlight" /\ ChargeMap[i] = Charged(i)
  BY <1>1, <1>6 DEF PhaseMap, ChargeMap
<1>10. Lifecycle!Requeue(i, Budget(i, n))
  BY <1>7, <1>8, <1>9 DEF Lifecycle!Requeue, PhaseMap, ChargeMap
<1> QED BY <1>1, <1>7, <1>9, <1>10

\* A failure with attempts left is charged once and delays the item.
LEMMA DelayMaps ==
    ASSUME Core, Core', NEW l \in leases, NEW ready_at, FailScheduled(l, ready_at)
    PROVE  \E i \in Ids : Lifecycle!Delay(i)
<1> DEFINE i == l.id
           entry == [id |-> l.id, previous_attempts |-> l.attempt,
                     ready_at |-> ready_at, sequence |-> next_sequence]
<1>1. /\ RemoveActiveLease(l) /\ RetryAllowed(l) /\ delayed' = delayed \cup {entry}
      /\ UNCHANGED <<ready, active_ids, cancelled>>
  BY DEF FailScheduled
<1>2. i \in Ids /\ i \in InFlightIds /\ l.attempt \in Nat
  BY <1>1, Release DEF Attempts
<1>3. \A j \in Ids \ {i} : Kept(j)
  BY <1>1, <1>2 DEF RemoveActiveLease, Kept, Core, TypeOK
<1>4. Phase(i)' = "Delayed" /\ Charged(i)' = Budget(i, l.attempt)
  <2>1. entry \in delayed' /\ entry.id = i /\ entry.previous_attempts = l.attempt
    BY <1>1
  <2> HIDE DEF entry
  <2>2. i \in DelayedIds'
    BY <2>1 DEF DelayedIds
  <2> QED BY <1>2, <2>1, <2>2, MeaningNext
<1>5. Phase(i) = "InFlight" /\ Charged(i) = Budget(i, l.attempt - 1)
  BY <1>1, <1>2, PhaseMeaning, ChargeMeaning DEF RemoveActiveLease
<1>6. Lifecycle!Limited(i) <=> MaxAttempts[i] # 0
  BY DEF Lifecycle!Limited
<1>7. /\ ~cancelled
      /\ Lifecycle!Limited(i) => Charged(i) + 1 < MaxAttempts[i]
      /\ Charged(i)' = IF Lifecycle!Limited(i) THEN Charged(i) + 1 ELSE 0
  BY <1>1, <1>2, <1>4, <1>5, <1>6 DEF RetryAllowed, Budget
<1>8. /\ PhaseMap' = [PhaseMap EXCEPT ![i] = "Delayed"]
      /\ ChargeMap' = [ChargeMap EXCEPT ![i] = Charged(i)']
  BY <1>2, <1>3, <1>4, OneMoves
<1>9. PhaseMap[i] = "InFlight" /\ ChargeMap[i] = Charged(i)
  BY <1>2, <1>5 DEF PhaseMap, ChargeMap
<1>10. ChargeMap' = [ChargeMap EXCEPT ![i] = IF Lifecycle!Limited(i) THEN @ + 1 ELSE 0]
  BY <1>7, <1>8, <1>9
<1> QED BY <1>1, <1>2, <1>7, <1>8, <1>9, <1>10 DEF Lifecycle!Delay, PhaseMap, ChargeMap

\* An admission promotes the due items and starts at most one.
LEMMA AdmitMaps ==
    ASSUME LifeInv, Core', NEW m \in 0..MaxInFlight, NEW eligible, AdmitOneWhere(m, eligible)
    PROVE  \E due \in SUBSET Ids, started \in SUBSET Ids : Lifecycle!Admit(due, started)
<1>1. PICK s \in HeapOrders(DueEntries) :
        LET q == Promoted(s)
        IN  /\ delayed' = delayed \ DueEntries
            /\ \/ \E k \in 1..Len(q) : LeaseEntry(q, k)
               \/ ready' = q /\ UNCHANGED <<in_flight, leases>>
  BY DEF AdmitOneWhere
<1> DEFINE q == Promoted(s)
           due == {d.id : d \in DueEntries}
<1>2. ~cancelled /\ UNCHANGED <<active_ids, cancelled>> /\ Cardinality(InFlightIds) < m
  BY DEF AdmitOneWhere
<1>3. /\ q \in Seq(ReadyWork) /\ OnceIn(q) /\ DueEntries \subseteq delayed
      /\ Works(q) = Works(ready) \cup {Work(d.id, d.previous_attempts) : d \in DueEntries}
      /\ AffordableIn(q) /\ QueueIds(q) = ReadyIds \cup due
  BY Promotion DEF LifeInv
<1> USE DEF LifeInv
<1>4. due \in SUBSET Ids /\ due \subseteq DelayedIds
  BY <1>3 DEF Core, TypeOK, DelayedWork, DelayedIds
<1>5. Lifecycle!InPhase("InFlight") = InFlightIds /\ Lifecycle!InPhase("Delayed") = DelayedIds
      /\ Lifecycle!InPhase("Pending") = ReadyIds
  <2>1. DelayedIds \subseteq Ids /\ ReadyIds \subseteq Ids
    BY DEF Core, TypeOK, OnePlace, ActiveIdsExact
  <2> QED BY <2>1, PhaseMeaning DEF Lifecycle!InPhase, InFlightIds
<1> DEFINE Starts(started) == [i \in Ids |-> IF i \in started THEN "InFlight"
                                            ELSE IF i \in due THEN "Pending" ELSE Phase(i)]
<1>6. ASSUME NEW started \in SUBSET Ids, started \subseteq ReadyIds \cup due,
             Cardinality(started) <= 1, Cardinality(InFlightIds \cup started) <= MaxInFlight,
             PhaseMap' = Starts(started), ChargeMap' = ChargeMap
      PROVE  Lifecycle!Admit(due, started)
  <2>1. /\ Lifecycle!Cardinality(started) <= 1
        /\ Lifecycle!Cardinality(Lifecycle!InPhase("InFlight") \cup started) <= MaxInFlight
    BY <1>5, <1>6, SameCardinality
  <2>2. /\ [i \in Ids |-> Phase(i)]' = [i \in Ids |-> IF i \in started THEN "InFlight"
                ELSE IF i \in due THEN "Pending" ELSE [j \in Ids |-> Phase(j)][i]]
        /\ [i \in Ids |-> Charged(i)]' = [i \in Ids |-> Charged(i)]
    BY <1>6 DEF PhaseMap, ChargeMap
  <2> HIDE DEF due
  <2> QED BY <1>2, <1>4, <1>5, <1>6, <2>1, <2>2 DEF Lifecycle!Admit
<1>7. ASSUME NEW i \in Ids, i \in due, Work(i, 0).id \in ReadyIds',
             \A d \in DueEntries : d.id = i => Work(d.id, d.previous_attempts) \in Works(ready')
      PROVE  Phase(i)' = "Pending" /\ Charged(i)' = Charged(i)
  <2>1. PICK d \in DueEntries : d.id = i
    BY <1>7
  <2>2. Work(d.id, d.previous_attempts) \in Works(ready')
    BY <1>7, <2>1
  <2>3. Work(d.id, d.previous_attempts).id = i
        /\ Work(d.id, d.previous_attempts).previous_attempts = d.previous_attempts
    BY <2>1 DEF Work
  <2>4. Charged(i)' = Budget(i, d.previous_attempts) /\ Charged(i) = Budget(i, d.previous_attempts)
    BY <1>3, <2>1, <2>2, <2>3, ChargeMeaning, MeaningNext
  <2>5. Phase(i)' = "Pending"
    BY <1>7, MeaningNext DEF Work
  <2> QED BY <2>4, <2>5
<1>8. ASSUME NEW i \in Ids, i \notin due,
             \A w \in Works(ready) : w.id = i => w \in Works(ready'),
             in_flight[i] # 0 => in_flight'[i] = in_flight[i]
      PROVE  Phase(i)' = Phase(i) /\ Charged(i)' = Charged(i)
  <2>1. Kept(i)
    BY <1>1, <1>2, <1>8 DEF Kept
  <2> QED BY <2>1, KeptItem
<1>9. CASE ready' = q /\ UNCHANGED <<in_flight, leases>>
  <2>1. ASSUME NEW i \in due PROVE Phase(i)' = "Pending" /\ Charged(i)' = Charged(i)
    <3>1. Work(i, 0).id \in ReadyIds'
      BY <1>3, <1>9 DEF ReadyIds, Work
    <3>2. \A d \in DueEntries : Work(d.id, d.previous_attempts) \in Works(ready')
      BY <1>3, <1>9
    <3> QED BY <1>4, <1>7, <3>1, <3>2
  <2>2. ASSUME NEW i \in Ids \ due PROVE Phase(i)' = Phase(i) /\ Charged(i)' = Charged(i)
    BY <1>3, <1>8, <1>9
  <2>3. PhaseMap' = Starts({}) /\ ChargeMap' = ChargeMap
    BY <2>1, <2>2 DEF PhaseMap, ChargeMap
  <2>4. Cardinality({}) <= 1 /\ Cardinality(InFlightIds \cup {}) <= MaxInFlight
    <3>1. InFlightIds \cup {} = InFlightIds /\ Cardinality(InFlightIds) \in Nat
      BY FS_CardinalityType
    <3> QED BY <1>2, <3>1, FS_EmptySet, SchedulerAssumption
  <2>5. Lifecycle!Admit(due, {})
    BY <1>6, <2>3, <2>4
  <2> QED BY <1>4, <2>5
<1>10. ASSUME NEW k \in 1..Len(q), LeaseEntry(q, k)
       PROVE  \E d \in SUBSET Ids, started \in SUBSET Ids : Lifecycle!Admit(d, started)
  <2>1. q[k] \in ReadyWork /\ Affordable(q[k]) /\ q[k] \in Works(q)
    BY <1>3, <1>10, ElementOfSeq DEF AffordableIn, Works
  <2>0. PICK i \in Ids, prev \in Attempts, attempt \in Attempts :
          i = q[k].id /\ prev = q[k].previous_attempts /\ attempt = SaturatingInc(prev)
    BY <2>1, SchedulerAssumption DEF ReadyWork, SaturatingInc, Attempts
  <2>2. i \in ReadyIds \cup due
    BY <1>3, <1>10, <2>0 DEF QueueIds
  <2>3. /\ attempt # 0
        /\ MaxAttempts[i] # 0 => attempt - 1 = prev
    BY <2>0, <2>1, SchedulerAssumption DEF SaturatingInc, Attempts, Affordable
  <2>4. Works(ready') = Works(q) \ {q[k]} /\ in_flight' = [in_flight EXCEPT ![i] = attempt]
    BY <1>3, <1>10, <2>0, QueueWithout DEF LeaseEntry
  <2>5. in_flight' \in [Ids -> Attempts] /\ in_flight'[i] = attempt /\ i \in InFlightIds'
        /\ \A j \in Ids \ {i} : in_flight'[j] = in_flight[j]
    BY <2>2, <2>3, <2>4 DEF Core, TypeOK, InFlightIds
  <2>6. Charged(i) = Budget(i, prev)
    <3>1. CASE q[k] \in Works(ready)
      BY <2>0, <3>1, ChargeMeaning
    <3>2. CASE q[k] \notin Works(ready)
      <4>1. PICK d \in DueEntries : q[k] = Work(d.id, d.previous_attempts)
        BY <1>3, <2>1, <3>2
      <4>2. d \in delayed /\ d.id = i /\ d.previous_attempts = prev
        BY <1>3, <2>0, <4>1 DEF Work
      <4> QED BY <4>2, ChargeMeaning
    <3> QED BY <3>1, <3>2
  <2>7. Phase(i)' = "InFlight" /\ Charged(i)' = Budget(i, attempt - 1)
    <3>1. Phase(i)' = "InFlight"
      BY <2>2, <2>5, MeaningNext
    <3>2. Charged(i)' = Budget(i, in_flight[i] - 1)'
      BY <2>5, MeaningNext
    <3> QED BY <2>5, <3>1, <3>2 DEF Budget
  <2>8. Charged(i)' = Charged(i)
    BY <2>3, <2>6, <2>7 DEF Budget
  <2>9. ASSUME NEW j \in Ids \ {i} PROVE
          /\ Charged(j)' = Charged(j)
          /\ Phase(j)' = IF j \in due THEN "Pending" ELSE Phase(j)
    <3>1. CASE j \in due
      <4>1. \A d \in DueEntries : d.id = j => Work(d.id, d.previous_attempts) \in Works(ready')
        <5>1. \A d \in DueEntries : d.id = j =>
                Work(d.id, d.previous_attempts) \in Works(q) /\ Work(d.id, d.previous_attempts).id # i
          BY <1>3 DEF Work
        <5> QED BY <2>0, <2>4, <5>1
      <4>2. Work(j, 0).id \in ReadyIds'
        <5>1. PICK d \in DueEntries : d.id = j
          BY <3>1
        <5>2. Work(d.id, d.previous_attempts) \in Works(ready') /\ Work(d.id, d.previous_attempts).id = j
          BY <4>1, <5>1 DEF Work
        <5>3. j \in ReadyIds'
          BY <5>2 DEF Works, ReadyIds, QueueIds
        <5> QED BY <5>3 DEF Work
      <4> QED BY <1>7, <3>1, <4>1, <4>2
    <3>2. CASE j \notin due
      <4>1. \A w \in Works(ready) : w.id = j => w \in Works(ready')
        BY <1>3, <2>0, <2>4
      <4> QED BY <1>8, <2>5, <3>2, <4>1
    <3> QED BY <3>1, <3>2
  <2>10. PhaseMap' = Starts({i}) /\ ChargeMap' = ChargeMap
    <3> HIDE DEF due
    <3>1. \A j \in Ids : /\ Phase(j)' = IF j \in {i} THEN "InFlight" ELSE IF j \in due THEN "Pending" ELSE Phase(j)
                         /\ Charged(j)' = Charged(j)
      BY <2>7, <2>8, <2>9
    <3> QED BY <3>1 DEF PhaseMap, ChargeMap
  <2>11. Cardinality({i}) <= 1 /\ Cardinality(InFlightIds \cup {i}) <= MaxInFlight
    <3>1. Cardinality(InFlightIds) \in Nat
      BY FS_CardinalityType
    <3>2. Cardinality(InFlightIds \cup {i}) \in {Cardinality(InFlightIds), Cardinality(InFlightIds) + 1}
      BY <3>1, FS_AddElement
    <3>3. m \in Nat /\ MaxInFlight \in Nat /\ m <= MaxInFlight
      BY SchedulerAssumption
    <3>4. Cardinality({i}) = 1
      BY FS_Singleton
    <3>5. Cardinality(InFlightIds \cup {i}) <= MaxInFlight
      BY <1>2, <3>1, <3>2, <3>3
    <3> QED BY <3>4, <3>5
  <2>12. {i} \in SUBSET Ids /\ {i} \subseteq ReadyIds \cup due
    BY <2>2
  <2>13. Lifecycle!Admit(due, {i})
    BY <1>6, <2>10, <2>11, <2>12
  <2> QED BY <1>4, <2>12, <2>13
<1> QED BY <1>1, <1>9, <1>10

\* Cancellation idles every item, in flight or not.
LEMMA CancelMaps == ASSUME Core, Core', Cancel PROVE Lifecycle!Cancel
<1>1. \A i \in Ids : Phase(i)' = "Idle" /\ Charged(i)' = 0
  BY MeaningNext DEF Cancel
<1>2. cancelled' = TRUE
  BY DEF Cancel
<1>3. /\ [i \in Ids |-> Phase(i)]' = [i \in Ids |-> "Idle"]
      /\ [i \in Ids |-> Charged(i)]' = [i \in Ids |-> 0]
  BY <1>1
<1> QED BY <1>2, <1>3 DEF Lifecycle!Cancel

\* Ticks and refused leases are not seen.
LEMMA StutterMaps ==
    ASSUME Core, Core', UNCHANGED <<ready, delayed, in_flight, active_ids, cancelled>>
    PROVE  UNCHANGED Lifecycle!lvars
<1>1. PhaseMap' = PhaseMap /\ ChargeMap' = ChargeMap
  <2>1. \A j \in Ids : Kept(j)
    BY DEF Kept
  <2> QED BY <2>1, NoneMoves
<1> QED BY <1>1 DEF Lifecycle!lvars, PhaseMap, ChargeMap

\* What a driver does with a lease is a step of the life cycle.
LEMMA HandBackMaps ==
    ASSUME Core, Core', NEW l \in leases, HandBack(l)
    PROVE  \/ UNCHANGED Lifecycle!lvars
           \/ \E i \in Ids : Lifecycle!Delay(i) \/ \E c \in {ChargeMap[i], 0} : Lifecycle!Requeue(i, c)
           \/ \E done \in SUBSET Ids : Lifecycle!Finish(done)
<1>1. CASE HandBackInvalid(l)
  BY <1>1, StutterMaps DEF HandBackInvalid
<1>2. CASE Complete(l) \/ \E retryable \in BOOLEAN : FailExhausted(l, retryable)
  BY <1>2, LeaseEndsMaps DEF Complete, FailExhausted
<1>3. CASE RescheduleAfterSuccess(l) \/ RetryWithoutConsumingAttempt(l)
  BY <1>3, RequeueMaps DEF RescheduleAfterSuccess, RetryWithoutConsumingAttempt
<1>4. CASE RetryWithFreshAttemptBudget(l)
  BY <1>4, RequeueMaps DEF RetryWithFreshAttemptBudget
<1>5. CASE RequeueUnstarted(l)
  BY <1>5, RequeueMaps DEF RequeueUnstarted
<1>6. CASE \E ready_at \in now..MaxTime : FailScheduled(l, ready_at)
  BY <1>6, DelayMaps
<1> QED BY <1>1, <1>2, <1>3, <1>4, <1>5, <1>6 DEF HandBack

\* The empty scheduler is the idle life cycle.
LEMMA LifecycleInit == Init => Lifecycle!Init
<1> SUFFICES ASSUME Init PROVE Lifecycle!Init
  OBVIOUS
<1>1. Core
  BY CoreInit
<1>2. \A i \in Ids : Phase(i) = "Idle" /\ Charged(i) = 0
  BY <1>1, PhaseMeaning, ChargeMeaning DEF Init
<1> QED BY <1>2 DEF Lifecycle!Init, Init

\* Every method of the scheduler is a step of the life cycle or a stutter.
LEMMA LifecycleStep ==
    LifeInv /\ Core' /\ [Next]_vars => [Lifecycle!Next]_Lifecycle!lvars
<1> SUFFICES ASSUME LifeInv, Core', [Next]_vars
             PROVE  Lifecycle!Next \/ UNCHANGED Lifecycle!lvars
  OBVIOUS
<1> USE DEF LifeInv
<1>1. ASSUME NEW i \in Ids, Enqueue(i) PROVE Lifecycle!Next
  <2>1. Lifecycle!Submit(i)
    BY <1>1, EnqueueMaps
  <2> QED BY <2>1 DEF Lifecycle!Next
<1>2. ASSUME NEW i \in Ids, CompletePending(i) PROVE Lifecycle!Next
  <2>1. \E done \in SUBSET Ids : Lifecycle!Finish(done)
    BY <1>2, CompletePendingMaps
  <2> QED BY <2>1 DEF Lifecycle!Next
<1>3. ASSUME NEW m \in 0..MaxInFlight, NEW eligible, AdmitOneWhere(m, eligible) PROVE Lifecycle!Next
  <2>1. \E due \in SUBSET Ids, started \in SUBSET Ids : Lifecycle!Admit(due, started)
    BY <1>3, AdmitMaps
  <2> QED BY <2>1 DEF Lifecycle!Next
<1>4. CASE DiscardPending
  <2>1. (\E done \in SUBSET Ids : Lifecycle!Finish(done)) \/ UNCHANGED Lifecycle!lvars
    BY <1>4, DiscardMaps
  <2> QED BY <2>1 DEF Lifecycle!Next
<1>5. ASSUME NEW l \in leases, HandBack(l) PROVE Lifecycle!Next \/ UNCHANGED Lifecycle!lvars
  <2>1. \/ UNCHANGED Lifecycle!lvars
        \/ \E i \in Ids : Lifecycle!Delay(i) \/ \E c \in {ChargeMap[i], 0} : Lifecycle!Requeue(i, c)
        \/ \E done \in SUBSET Ids : Lifecycle!Finish(done)
    BY <1>5, HandBackMaps
  <2> QED BY <2>1 DEF Lifecycle!Next, ChargeMap
<1>6. CASE Cancel
  BY <1>6, CancelMaps DEF Lifecycle!Next
<1>7. CASE Tick \/ UNCHANGED vars
  BY <1>7, StutterMaps DEF Tick, vars
<1> QED BY <1>1, <1>2, <1>3, <1>4, <1>5, <1>6, <1>7 DEF Next

\* The scheduler keeps what WorkLifecycle promises about each item: one phase,
\* budgets charged by failures alone, nothing started after a cancel or above
\* the ceiling.
THEOREM SchedulerImplementsLifecycle == Spec => ImplementsLifecycle
<1>1. Init => LifeInv
  <2>1. Init => InFlightIds = {}
    BY DEF Init, InFlightIds
  <2>2. Init => BudgetKept
    BY SchedulerAssumption, EmptySeq DEF Init, BudgetKept, AffordableIn
  <2> QED BY <2>1, <2>2, CoreInit, FS_EmptySet DEF LifeInv
<1>2. LifeInv /\ [Next]_vars => LifeInv'
  BY CoreStep, BudgetStep, SlotsStep DEF LifeInv
<1>3. LifeInv /\ LifeInv' /\ [Next]_vars => [Lifecycle!Next]_Lifecycle!lvars
  BY LifecycleStep DEF LifeInv
<1> QED BY <1>1, <1>2, <1>3, LifecycleInit, PTL DEF Spec, ImplementsLifecycle, Lifecycle!Spec
=============================================================================
