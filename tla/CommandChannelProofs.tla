------------------------- MODULE CommandChannelProofs -------------------------
(***************************************************************************)
(* Theorems about the command channel, for any producers, capacities and   *)
(* numbers of sends: the coalescing keys are exact, an accepted command is *)
(* still to be applied, and depth and capacities are kept.                 *)
(***************************************************************************)
EXTENDS CommandChannel, FiniteSetTheorems, TLAPS

\* Whoever is past the start of a call holds a command.
Holding ==
    /\ \A q \in Producers : producer[q].stage # "idle" => producer[q].command \in Commands
    /\ receiver.stage \in {"popped", "applying"} => receiver.command \in Commands
\* After the receiver was dropped nothing is queued, owed or received.
Dropped == closed => receiver.stage = "closed" /\ control = <<>> /\ normal = <<>> /\ owed = {}
\* A keyed command is under way at most once: queued, reserved or popped; and
\* never in the normal queue.
Once ==
    ~closed =>
        /\ \A k \in 1..Len(normal) : ~coalesce_key(normal[k])
        /\ \A k, l \in 1..Len(control) :
               control[k] = control[l] /\ coalesce_key(control[k]) => k = l
        /\ \A q \in At("reserved") : coalesce_key(producer[q].command) =>
               /\ \A k \in 1..Len(control) : control[k] # producer[q].command
               /\ \A r \in At("reserved") : producer[r].command = producer[q].command => q = r
               /\ ~(receiver.stage = "popped" /\ receiver.command = producer[q].command)
        /\ receiver.stage = "popped" /\ coalesce_key(receiver.command) =>
               \A k \in 1..Len(control) : control[k] # receiver.command
\* The key set of a command that is keyed.
Pending(c) ==
    \/ \E k \in 1..Len(control) : control[k] = c
    \/ \E q \in At("reserved") : producer[q].command = c
    \/ receiver.stage = "popped" /\ receiver.command = c
Keys == ~closed => \A c \in Commands : c \in pending_keys <=> coalesce_key(c) /\ Pending(c)

ChanInv == TypeOK /\ Holding /\ Dropped /\ Once /\ Keys /\ OwedIsComing /\ CapacityKept

-----------------------------------------------------------------------------
\* The keys as KeysExact has them: only the control queue holds keyed commands.
LEMMA KeysAreExact == TypeOK /\ Keys => KeysExact
BY DEF TypeOK, Keys, KeysExact, Pending, InQueue, Queue, is_control, coalesce_key

\* Sets of producers are finite.
LEMMA AtFinite ==
    ASSUME NEW s PROVE IsFiniteSet(At(s)) /\ Cardinality(At(s)) \in Nat
BY ChannelAssumption, FS_Subset, FS_CardinalityType DEF At

\* Finitely many producers hold a reserved place.
LEMMA ReservedFinite ==
    /\ IsFiniteSet(ControlReserved) /\ Cardinality(ControlReserved) \in Nat
    /\ IsFiniteSet(NormalReserved) /\ Cardinality(NormalReserved) \in Nat
BY AtFinite, FS_Subset, FS_CardinalityType DEF ControlReserved, NormalReserved

\* The empty channel satisfies the invariant.
LEMMA ChanInit == Init => ChanInv
<1> SUFFICES ASSUME Init PROVE ChanInv
  OBVIOUS
<1>1. TypeOK
  <2>1. control \in Seq(Commands) /\ normal \in Seq(Commands) /\ pending_keys \subseteq Commands
        /\ depth \in Nat /\ owed \subseteq Commands
    BY DEF Init
  <2>2. permit \in BOOLEAN /\ closed \in BOOLEAN /\ paused \in BOOLEAN /\ requested \in BOOLEAN
    BY DEF Init
  <2>3. producer \in [Producers -> [stage : {"idle", "sending", "reserved", "queued"},
                                    command : Commands \cup {Idle}, left : 0..MaxSends]]
    BY ChannelAssumption DEF Init
  <2>4. receiver \in [stage : {"ready", "normal", "popped", "applying", "parked", "closed"},
                      command : Commands \cup {Idle}]
    BY DEF Init
  <2> QED
    BY <2>1, <2>2, <2>3, <2>4 DEF TypeOK
<1>2. At("reserved") = {} /\ ControlReserved = {} /\ NormalReserved = {}
  BY DEF Init, At, ControlReserved, NormalReserved
<1>3. Cardinality(At("reserved")) = 0 /\ Cardinality(ControlReserved) = 0
      /\ Cardinality(NormalReserved) = 0
  BY <1>2, FS_EmptySet
<1>4. CapacityKept
  BY <1>3, ChannelAssumption DEF Init, CapacityKept
<1>5. Holding /\ Dropped /\ Once /\ Keys /\ OwedIsComing
  BY <1>2 DEF Init, Holding, Dropped, Once, Keys, Pending, OwedIsComing
<1> QED
  BY <1>1, <1>4, <1>5 DEF ChanInv

-----------------------------------------------------------------------------
\* Steps that leave the reservations alone.
LEMMA SameReservations ==
    ASSUME \A q \in Producers : producer'[q].stage = "reserved" <=> producer[q].stage = "reserved",
           \A q \in At("reserved") : producer'[q].command = producer[q].command
    PROVE  /\ At("reserved")' = At("reserved")
           /\ ControlReserved' = ControlReserved /\ NormalReserved' = NormalReserved
BY DEF At, ControlReserved, NormalReserved

\* What the invariant says of the queues, the keys and the counter depends on
\* these and on the reservations alone.
LEMMA QuietStep ==
    ASSUME Holding, Dropped, Once, Keys, CapacityKept,
           UNCHANGED <<control, normal, pending_keys, depth, closed>>,
           receiver'.stage = "popped" <=> receiver.stage = "popped",
           receiver.stage = "popped" => receiver'.command = receiver.command,
           \A q \in Producers : producer'[q].stage = "reserved" <=> producer[q].stage = "reserved",
           \A q \in At("reserved") : producer'[q].command = producer[q].command
    PROVE  Once' /\ Keys' /\ CapacityKept'
<1>1. /\ At("reserved")' = At("reserved")
      /\ ControlReserved' = ControlReserved /\ NormalReserved' = NormalReserved
  BY SameReservations
<1>2. Once'
  BY <1>1 DEF Once, coalesce_key
<1>3. Keys'
  BY <1>1 DEF Keys, Pending
<1>4. CapacityKept'
  BY <1>1 DEF CapacityKept
<1> QED
  BY <1>2, <1>3, <1>4

\* What is queued depends on the two queues only.
LEMMA QueuesKept ==
    ASSUME UNCHANGED <<control, normal>> PROVE \A c : InQueue(c)' <=> InQueue(c)
BY DEF InQueue, Queue

ProducerType ==
    producer \in [Producers -> [stage : {"idle", "sending", "reserved", "queued"},
                                command : Commands \cup {Idle}, left : 0..MaxSends]]

\* What becomes of the producers when one of them returns or moves on.
LEMMA Returned ==
    ASSUME ProducerType, NEW q \in Producers, Return(q)
    PROVE  /\ ProducerType'
           /\ producer'[q].stage = "idle"
           /\ \A r \in Producers : r # q => producer'[r] = producer[r]
<1> DEFINE f == [producer[q] EXCEPT !.stage = "idle", !.command = Idle]
<1>1. producer' = [producer EXCEPT ![q] = f]
  BY DEF Return, ProducerType
<1>2. f \in [stage : {"idle", "sending", "reserved", "queued"},
             command : Commands \cup {Idle}, left : 0..MaxSends] /\ f.stage = "idle"
  BY DEF ProducerType
<1> HIDE DEF f
<1> QED
  BY <1>1, <1>2 DEF ProducerType

\* A producer that reaches its next stage keeps the command it sends.
LEMMA Staged ==
    ASSUME ProducerType, NEW q \in Producers, NEW s \in {"reserved", "queued"}, SetStage(q, s)
    PROVE  /\ ProducerType'
           /\ producer'[q].stage = s /\ producer'[q].command = producer[q].command
           /\ \A r \in Producers : r # q => producer'[r] = producer[r]
<1> DEFINE f == [producer[q] EXCEPT !.stage = s]
<1>1. producer' = [producer EXCEPT ![q] = f]
  BY DEF SetStage, ProducerType
<1>2. f \in [stage : {"idle", "sending", "reserved", "queued"},
             command : Commands \cup {Idle}, left : 0..MaxSends]
      /\ f.stage = s /\ f.command = producer[q].command
  BY DEF ProducerType
<1> HIDE DEF f
<1> QED
  BY <1>1, <1>2 DEF ProducerType

\* A command is in the queue of its kind.
LEMMA InQueueIs ==
    ASSUME NEW d
    PROVE  /\ is_control(d) => (InQueue(d) <=> \E k \in 1..Len(control) : control[k] = d)
           /\ ~is_control(d) => (InQueue(d) <=> \E k \in 1..Len(normal) : normal[k] = d)
           /\ is_control(d) => (InQueue(d)' <=> \E k \in 1..Len(control') : control'[k] = d)
           /\ ~is_control(d) => (InQueue(d)' <=> \E k \in 1..Len(normal') : normal'[k] = d)
<1>1. is_control(d) => Queue(d) = control /\ Queue(d)' = control'
  BY DEF Queue
<1>2. ~is_control(d) => Queue(d) = normal /\ Queue(d)' = normal'
  BY DEF Queue
<1> QED
  BY <1>1, <1>2, Zenon DEF InQueue

\* A producer that takes up a command changes nothing of the channel.
LEMMA RequestStep ==
    ASSUME ChanInv, NEW q \in Producers, NEW c \in Commands, Request(q, c) PROVE ChanInv'
<1> USE DEF ChanInv
<1>1. AfterCommand(c) \in BOOLEAN
  BY DEF TypeOK, AfterCommand
<1>2. producer[q].stage = "idle" /\ UNCHANGED <<chanVars, receiver, owed>>
  BY DEF Request
<1> DEFINE f == [stage |-> "sending", command |-> c, left |-> producer[q].left - 1]
<1>3. producer' = [producer EXCEPT ![q] = f]
  BY DEF Request, TypeOK
<1>4. f \in [stage : {"idle", "sending", "reserved", "queued"},
             command : Commands \cup {Idle}, left : 0..MaxSends]
      /\ f.stage = "sending" /\ f.command = c
  BY ChannelAssumption DEF TypeOK, Request
<1> HIDE DEF f
<1>5. producer'[q].stage = "sending" /\ producer'[q].command = c
      /\ \A r \in Producers : r # q => producer'[r] = producer[r]
  BY <1>3, <1>4 DEF TypeOK
<1>6. TypeOK'
  <2>1. ProducerType'
    BY <1>3, <1>4 DEF TypeOK, ProducerType
  <2>2. paused' \in BOOLEAN /\ requested' \in BOOLEAN
    BY <1>1, Zenon DEF TypeOK, Request
  <2> QED
    BY <1>2, <2>1, <2>2 DEF TypeOK, ProducerType, chanVars
<1>7. Holding' /\ Dropped'
  BY <1>2, <1>5 DEF chanVars, Holding, Dropped
<1>8. Once' /\ Keys' /\ CapacityKept'
  <2>1. \A r \in Producers : producer'[r].stage = "reserved" <=> producer[r].stage = "reserved"
    BY <1>2, <1>5
  <2>2. \A r \in At("reserved") : producer'[r].command = producer[r].command
    BY <1>2, <1>5 DEF At
  <2> QED
    BY <1>2, <2>1, <2>2, QuietStep DEF chanVars
<1>9. OwedIsComing'
  BY <1>2, QueuesKept DEF chanVars, OwedIsComing
<1> QED
  BY <1>6, <1>7, <1>8, <1>9

\* Calls that return without a reservation, or after the push.
LEMMA ReturnStep ==
    ASSUME ChanInv, NEW q \in Producers, SendClosed(q) \/ SendFull(q) \/ NotifyOne(q) PROVE ChanInv'
<1> USE DEF ChanInv
<1>1. producer[q].stage \in {"sending", "queued"} /\ Return(q)
      /\ UNCHANGED <<control, normal, pending_keys, depth, closed, receiver, paused, requested, owed>>
      /\ permit' \in BOOLEAN
  BY DEF SendClosed, SendFull, NotifyOne, MaySend, chanVars, TypeOK
<1>2. /\ ProducerType' /\ producer'[q].stage = "idle"
      /\ \A r \in Producers : r # q => producer'[r] = producer[r]
  BY <1>1, Returned DEF TypeOK, ProducerType
<1>3. TypeOK'
  BY <1>1, <1>2 DEF TypeOK, ProducerType
<1>4. Holding' /\ Dropped'
  BY <1>1, <1>2 DEF Holding, Dropped
<1>5. Once' /\ Keys' /\ CapacityKept'
  BY <1>1, <1>2, QuietStep DEF At
<1>6. OwedIsComing'
  BY <1>1, QueuesKept DEF OwedIsComing
<1> QED
  BY <1>3, <1>4, <1>5, <1>6

\* A coalesced command stands for one that is queued or popped: its key is
\* pending, and nobody who reserves a slot can hold it, for the keys are locked.
LEMMA CoalescedStep ==
    ASSUME ChanInv, NEW q \in Producers, SendCoalesced(q) PROVE ChanInv'
<1> USE DEF ChanInv
<1> DEFINE c == producer[q].command
<1>1. producer[q].stage = "sending" /\ Return(q) /\ UNCHANGED <<chanVars, receiver, paused, requested>>
      /\ ~closed /\ owed' = owed \cup {c}
  BY DEF SendCoalesced, MaySend
<1>2. c \in Commands
  BY <1>1 DEF Holding
<1>3. /\ ProducerType' /\ producer'[q].stage = "idle"
      /\ \A r \in Producers : r # q => producer'[r] = producer[r]
  BY <1>1, Returned DEF TypeOK, ProducerType
<1>4. TypeOK'
  BY <1>1, <1>2, <1>3 DEF TypeOK, ProducerType, chanVars
<1>5. Holding' /\ Dropped'
  BY <1>1, <1>3 DEF Holding, Dropped, chanVars
<1>6. Once' /\ Keys' /\ CapacityKept'
  BY <1>1, <1>3, QuietStep DEF At, chanVars
<1>7. OwedIsComing'
  <2>1. coalesce_key(c) /\ Pending(c)
    BY <1>1, <1>2 DEF SendCoalesced, Keys
  <2>2. \A r \in At("reserved") : producer[r].command # c
    BY <2>1 DEF SendCoalesced, MaySend, KeysLocked
  <2>3. InQueue(c) \/ (receiver.stage = "popped" /\ receiver.command = c)
    BY <2>1, <2>2 DEF Pending, InQueue, Queue, coalesce_key, is_control
  <2> QED
    BY <1>1, <2>3, QueuesKept DEF OwedIsComing, chanVars
<1> QED
  BY <1>4, <1>5, <1>6, <1>7

\* A reservation counts itself, takes a free slot and, when keyed, a key that
\* was not pending, so that no other such command is under way.
LEMMA ReserveStep ==
    ASSUME ChanInv, NEW q \in Producers, Reserve(q) PROVE ChanInv'
<1> USE DEF ChanInv
<1> DEFINE c == producer[q].command
<1>1. producer[q].stage = "sending" /\ ~closed /\ SetStage(q, "reserved") /\ depth' = depth + 1
      /\ UNCHANGED <<control, normal, permit, closed, receiver, paused, requested, owed>>
      /\ HasRoom(c) /\ c \notin pending_keys
      /\ pending_keys' = pending_keys \cup (IF coalesce_key(c) THEN {c} ELSE {})
  BY DEF Reserve, MaySend
<1>2. c \in Commands
  BY <1>1 DEF Holding
<1>3. /\ ProducerType' /\ producer'[q].stage = "reserved" /\ producer'[q].command = c
      /\ \A r \in Producers : r # q => producer'[r] = producer[r]
  BY <1>1, Staged DEF TypeOK, ProducerType
<1>4. At("reserved")' = At("reserved") \cup {q} /\ q \notin At("reserved")
  BY <1>1, <1>3 DEF At
<1>5. TypeOK'
  BY <1>1, <1>2, <1>3 DEF TypeOK, ProducerType
<1>6. Holding' /\ Dropped'
  BY <1>1, <1>2, <1>3 DEF Holding, Dropped
<1>7. coalesce_key(c) => ~Pending(c)
  BY <1>1, <1>2 DEF Keys
<1>8. \A r \in At("reserved") : producer'[r] = producer[r] /\ r # q
  BY <1>3, <1>4 DEF At
<1>9. Once'
  BY <1>1, <1>3, <1>4, <1>7, <1>8 DEF Once, Pending, coalesce_key
<1>10. Keys'
  <2>1. ASSUME NEW d \in Commands PROVE Pending(d)' <=> Pending(d) \/ d = c
    BY <1>1, <1>3, <1>4, <1>8 DEF Pending
  <2> QED
    BY <1>1, <1>7, <2>1 DEF Keys, coalesce_key
<1>11. CapacityKept'
  <2>1. Cardinality(At("reserved")') = Cardinality(At("reserved")) + 1
    BY <1>4, AtFinite, FS_AddElement
  <2>0. Len(control) \in Nat /\ Len(normal) \in Nat /\ depth \in Nat
    BY DEF TypeOK
  <2>4. depth' = Len(control) + Len(normal) + Cardinality(At("reserved")')
                  + (IF receiver.stage = "popped" THEN 1 ELSE 0)
    BY <1>1, <2>0, <2>1, AtFinite DEF CapacityKept
  <2>2. CASE is_control(c)
    <3>1. ControlReserved' = ControlReserved \cup {q} /\ q \notin ControlReserved
          /\ NormalReserved' = NormalReserved
      BY <1>3, <1>4, <1>8, <2>2 DEF ControlReserved, NormalReserved
    <3>2. Cardinality(ControlReserved') = Cardinality(ControlReserved) + 1
      BY <3>1, ReservedFinite, FS_AddElement
    <3>3. Len(control) + Cardinality(ControlReserved) < ControlCapacity
      BY <1>1, <2>2 DEF HasRoom, Queue, Reserved, Capacity
    <3> QED
      BY <1>1, <2>0, <2>4, <3>1, <3>2, <3>3, ReservedFinite, ChannelAssumption DEF CapacityKept
  <2>3. CASE ~is_control(c)
    <3>1. NormalReserved' = NormalReserved \cup {q} /\ q \notin NormalReserved
          /\ ControlReserved' = ControlReserved
      BY <1>3, <1>4, <1>8, <2>3 DEF ControlReserved, NormalReserved
    <3>2. Cardinality(NormalReserved') = Cardinality(NormalReserved) + 1
      BY <3>1, ReservedFinite, FS_AddElement
    <3>3. Len(normal) + Cardinality(NormalReserved) < NormalCapacity
      BY <1>1, <2>3 DEF HasRoom, Queue, Reserved, Capacity
    <3> QED
      BY <1>1, <2>0, <2>4, <3>1, <3>2, <3>3, ReservedFinite, ChannelAssumption DEF CapacityKept
  <2> QED
    BY <2>2, <2>3
<1>12. OwedIsComing'
  BY <1>1, QueuesKept DEF OwedIsComing
<1> QED
  BY <1>5, <1>6, <1>9, <1>10, <1>11, <1>12

\* The reserved command enters its queue, or is dropped with the receiver.
LEMMA PushStep ==
    ASSUME ChanInv, NEW q \in Producers, Push(q) PROVE ChanInv'
<1> USE DEF ChanInv
<1> DEFINE c == producer[q].command
<1>1. producer[q].stage = "reserved" /\ SetStage(q, "queued")
      /\ UNCHANGED <<pending_keys, depth, permit, closed, receiver, paused, requested>>
  BY DEF Push
<1>2. c \in Commands
  BY <1>1 DEF Holding
<1>3. /\ ProducerType' /\ producer'[q].stage = "queued" /\ producer'[q].command = c
      /\ \A r \in Producers : r # q => producer'[r] = producer[r]
  BY <1>1, Staged DEF TypeOK, ProducerType
<1>4. At("reserved")' = At("reserved") \ {q} /\ q \in At("reserved")
  BY <1>1, <1>3 DEF At
<1>5. \A r \in At("reserved") : r # q => producer'[r] = producer[r]
  BY <1>3 DEF At
<1>6. control \in Seq(Commands) /\ normal \in Seq(Commands) /\ Len(control) \in Nat
      /\ Len(normal) \in Nat /\ depth \in Nat
  BY DEF TypeOK
<1>7. Cardinality(At("reserved")') = Cardinality(At("reserved")) - 1
  BY <1>4, AtFinite, FS_RemoveElement
<1>8. Holding'
  BY <1>1, <1>2, <1>3 DEF Holding
<1>9. ControlReserved' = ControlReserved \ {q} /\ NormalReserved' = NormalReserved \ {q}
  BY <1>3, <1>4, <1>5 DEF ControlReserved, NormalReserved
<1>10. Cardinality(ControlReserved') \in Nat /\ Cardinality(NormalReserved') \in Nat
       /\ Cardinality(ControlReserved') <= Cardinality(ControlReserved)
       /\ Cardinality(NormalReserved') <= Cardinality(NormalReserved)
       /\ (is_control(c) => Cardinality(ControlReserved') = Cardinality(ControlReserved) - 1)
       /\ (~is_control(c) => Cardinality(NormalReserved') = Cardinality(NormalReserved) - 1)
  <2>1. CASE is_control(c)
    <3>1. q \in ControlReserved /\ q \notin NormalReserved
      BY <1>4, <2>1 DEF ControlReserved, NormalReserved
    <3>2. Cardinality(ControlReserved') = Cardinality(ControlReserved) - 1
      BY <1>9, <3>1, ReservedFinite, FS_RemoveElement
    <3>3. NormalReserved' = NormalReserved
      BY <1>9, <3>1
    <3>4. q \in ControlReserved /\ IsFiniteSet(ControlReserved) => Cardinality(ControlReserved) # 0
      BY FS_EmptySet
    <3> QED
      BY <2>1, <3>1, <3>2, <3>3, <3>4, ReservedFinite
  <2>2. CASE ~is_control(c)
    <3>1. q \in NormalReserved /\ q \notin ControlReserved
      BY <1>4, <2>2 DEF ControlReserved, NormalReserved
    <3>2. Cardinality(NormalReserved') = Cardinality(NormalReserved) - 1
      BY <1>9, <3>1, ReservedFinite, FS_RemoveElement
    <3>3. ControlReserved' = ControlReserved
      BY <1>9, <3>1
    <3>4. q \in NormalReserved /\ IsFiniteSet(NormalReserved) => Cardinality(NormalReserved) # 0
      BY FS_EmptySet
    <3> QED
      BY <2>2, <3>1, <3>2, <3>3, <3>4, ReservedFinite
  <2> QED
    BY <2>1, <2>2
<1>11. CASE closed
  <2>1. UNCHANGED <<control, normal, owed>>
    BY <1>11 DEF Push
  <2>2. TypeOK'
    BY <1>1, <1>3, <2>1 DEF TypeOK, ProducerType
  <2>3. Dropped' /\ Once' /\ Keys'
    BY <1>1, <1>11, <2>1 DEF Dropped, Once, Keys
  <2>4. CapacityKept'
    BY <1>1, <1>6, <1>10, <1>11, <2>1, ReservedFinite, ChannelAssumption DEF CapacityKept
  <2>5. OwedIsComing'
    BY <1>1, <2>1, QueuesKept DEF OwedIsComing
  <2> QED
    BY <1>8, <2>2, <2>3, <2>4, <2>5
<1>12. CASE ~closed /\ is_control(c)
  <2>1. control' = Append(control, c) /\ normal' = normal /\ owed' = owed \cup {c}
    BY <1>12 DEF Push
  <2>2. /\ control' \in Seq(Commands) /\ Len(control') = Len(control) + 1
        /\ control'[Len(control) + 1] = c
        /\ \A k \in 1..Len(control) : control'[k] = control[k]
    BY <1>2, <1>6, <2>1
  <2>3. TypeOK'
    BY <1>1, <1>2, <1>3, <2>1, <2>2 DEF TypeOK, ProducerType
  <2>4. Dropped'
    BY <1>1, <1>12 DEF Dropped
  <2>5. Once'
    <3>1. coalesce_key(c) => \A k \in 1..Len(control) : control[k] # c
      BY <1>1, <1>4, <1>12 DEF Once
    <3>2. coalesce_key(c) => ~(receiver.stage = "popped" /\ receiver.command = c)
      BY <1>1, <1>4, <1>12 DEF Once
    <3>3. coalesce_key(c) => \A r \in At("reserved") : producer[r].command = c => q = r
      BY <1>1, <1>4, <1>12 DEF Once
    <3>4. \A k, l \in 1..Len(control') :
            control'[k] = control'[l] /\ coalesce_key(control'[k]) => k = l
      BY <1>6, <1>12, <2>2, <3>1 DEF Once
    <3>5. \A p \in At("reserved")' : coalesce_key(producer'[p].command) =>
               /\ \A k \in 1..Len(control') : control'[k] # producer'[p].command
               /\ \A r \in At("reserved")' : producer'[r].command = producer'[p].command => p = r
               /\ ~(receiver'.stage = "popped" /\ receiver'.command = producer'[p].command)
      BY <1>1, <1>4, <1>5, <1>6, <1>12, <2>2, <3>3 DEF Once
    <3>6. receiver'.stage = "popped" /\ coalesce_key(receiver'.command) =>
               \A k \in 1..Len(control') : control'[k] # receiver'.command
      BY <1>1, <1>6, <1>12, <2>2, <3>2 DEF Once
    <3> QED
      BY <1>12, <2>1, <3>4, <3>5, <3>6 DEF Once, coalesce_key
  <2>6. Keys'
    <3>1. ASSUME NEW d \in Commands PROVE Pending(d)' <=> Pending(d)
      <4>1. CASE d = c
        <5>1. Pending(d)
          BY <1>4, <4>1 DEF Pending
        <5>2. Len(control) + 1 \in 1..Len(control') /\ control'[Len(control) + 1] = d
          BY <1>6, <2>2, <4>1
        <5> QED
          BY <5>1, <5>2 DEF Pending
      <4>2. CASE d # c
        <5>1. (\E k \in 1..Len(control') : control'[k] = d) <=> \E k \in 1..Len(control) : control[k] = d
          BY <1>6, <2>2, <4>2
        <5>2. (\E r \in At("reserved")' : producer'[r].command = d)
                <=> \E r \in At("reserved") : producer[r].command = d
          BY <1>4, <1>5, <4>2
        <5> QED
          BY <1>1, <5>1, <5>2 DEF Pending
      <4> QED
        BY <4>1, <4>2
    <3> QED
      BY <1>1, <1>12, <3>1 DEF Keys, coalesce_key
  <2>7. CapacityKept'
    <3>1. depth' = Len(control') + Len(normal') + Cardinality(At("reserved")')
                    + (IF receiver'.stage = "popped" THEN 1 ELSE 0)
      BY <1>1, <1>6, <1>7, <1>12, <2>1, <2>2, AtFinite DEF CapacityKept
    <3>2. Len(control') + Cardinality(ControlReserved') <= ControlCapacity
      BY <1>6, <1>10, <1>12, <2>1, <2>2, ReservedFinite, ChannelAssumption DEF CapacityKept
    <3>3. Len(normal') + Cardinality(NormalReserved') <= NormalCapacity
      BY <1>6, <1>10, <1>12, <2>1, <2>2, ReservedFinite, ChannelAssumption DEF CapacityKept
    <3> QED
      BY <3>1, <3>2, <3>3 DEF CapacityKept
  <2>8. OwedIsComing'
    <3>1. ASSUME NEW d, InQueue(d) PROVE InQueue(d)'
      BY <1>6, <2>1, <2>2, <3>1, InQueueIs
    <3>2. ASSUME NEW d, d = c PROVE InQueue(d)'
      <4>1. Len(control) + 1 \in 1..Len(control') /\ control'[Len(control) + 1] = d
        BY <1>6, <2>2, <3>2
      <4> QED
        BY <1>12, <3>2, <4>1, InQueueIs, Zenon
    <3>3. SUFFICES ASSUME NEW d \in owed'
                   PROVE  \/ InQueue(d)'
                          \/ receiver'.stage \in {"popped", "applying"} /\ receiver'.command = d
      BY DEF OwedIsComing
    <3>4. CASE d = c
      BY <3>2, <3>4
    <3>5. CASE d \in owed
      <4>1. InQueue(d) \/ (receiver.stage \in {"popped", "applying"} /\ receiver.command = d)
        BY <3>5 DEF OwedIsComing
      <4> QED
        BY <1>1, <3>1, <4>1
    <3> QED
      BY <2>1, <3>4, <3>5
  <2> QED
    BY <1>8, <2>3, <2>4, <2>5, <2>6, <2>7, <2>8
<1>13. CASE ~closed /\ ~is_control(c)
  <2>1. normal' = Append(normal, c) /\ control' = control /\ owed' = owed \cup {c}
    BY <1>13 DEF Push
  <2>2. /\ normal' \in Seq(Commands) /\ Len(normal') = Len(normal) + 1
        /\ normal'[Len(normal) + 1] = c
        /\ \A k \in 1..Len(normal) : normal'[k] = normal[k]
    BY <1>2, <1>6, <2>1
  <2>3. TypeOK'
    BY <1>1, <1>2, <1>3, <2>1, <2>2 DEF TypeOK, ProducerType
  <2>4. Dropped'
    BY <1>1, <1>13 DEF Dropped
  <2>5. Once'
    <3>1. \A k \in 1..Len(normal') : ~coalesce_key(normal'[k])
      <4>1. ~coalesce_key(c)
        BY <1>13 DEF coalesce_key, is_control
      <4>2. \A k \in 1..Len(normal') : k \in 1..Len(normal) \/ k = Len(normal) + 1
        BY <1>6, <2>2
      <4>3. \A k \in 1..Len(normal) : ~coalesce_key(normal[k])
        BY <1>13 DEF Once
      <4> QED
        BY <2>2, <4>1, <4>2, <4>3
    <3> QED
      BY <1>1, <1>4, <1>5, <1>13, <2>1, <3>1 DEF Once, coalesce_key
  <2>6. Keys'
    <3>1. ~coalesce_key(c)
      BY <1>13 DEF coalesce_key, is_control
    <3>2. ASSUME NEW d \in Commands, coalesce_key(d) PROVE Pending(d)' <=> Pending(d)
      BY <1>1, <1>4, <1>5, <2>1, <3>1, <3>2 DEF Pending
    <3> QED
      BY <1>1, <1>13, <3>2 DEF Keys, coalesce_key
  <2>7. CapacityKept'
    <3>1. depth' = Len(control') + Len(normal') + Cardinality(At("reserved")')
                    + (IF receiver'.stage = "popped" THEN 1 ELSE 0)
      BY <1>1, <1>6, <1>7, <1>13, <2>1, <2>2, AtFinite DEF CapacityKept
    <3>2. Len(control') + Cardinality(ControlReserved') <= ControlCapacity
      BY <1>6, <1>10, <1>13, <2>1, <2>2, ReservedFinite, ChannelAssumption DEF CapacityKept
    <3>3. Len(normal') + Cardinality(NormalReserved') <= NormalCapacity
      BY <1>6, <1>10, <1>13, <2>1, <2>2, ReservedFinite, ChannelAssumption DEF CapacityKept
    <3> QED
      BY <3>1, <3>2, <3>3 DEF CapacityKept
  <2>8. OwedIsComing'
    <3>1. ASSUME NEW d, InQueue(d) PROVE InQueue(d)'
      BY <1>6, <2>1, <2>2, <3>1, InQueueIs
    <3>2. ASSUME NEW d, d = c PROVE InQueue(d)'
      <4>1. Len(normal) + 1 \in 1..Len(normal') /\ normal'[Len(normal) + 1] = d
        BY <1>6, <2>2, <3>2
      <4> QED
        BY <1>13, <3>2, <4>1, InQueueIs, Zenon
    <3>3. SUFFICES ASSUME NEW d \in owed'
                   PROVE  \/ InQueue(d)'
                          \/ receiver'.stage \in {"popped", "applying"} /\ receiver'.command = d
      BY DEF OwedIsComing
    <3>4. CASE d = c
      BY <3>2, <3>4
    <3>5. CASE d \in owed
      <4>1. InQueue(d) \/ (receiver.stage \in {"popped", "applying"} /\ receiver.command = d)
        BY <3>5 DEF OwedIsComing
      <4> QED
        BY <1>1, <3>1, <4>1
    <3> QED
      BY <2>1, <3>4, <3>5
  <2> QED
    BY <1>8, <2>3, <2>4, <2>5, <2>6, <2>7, <2>8
<1> QED
  BY <1>11, <1>12, <1>13

-----------------------------------------------------------------------------
\* Steps of the receiver leave the producers alone.
LEMMA SameProducers ==
    ASSUME producer' = producer
    PROVE  /\ At("reserved")' = At("reserved")
           /\ ControlReserved' = ControlReserved /\ NormalReserved' = NormalReserved
BY DEF At, ControlReserved, NormalReserved

\* What Tail leaves of a queue.
LEMMA TailFacts ==
    ASSUME NEW S, NEW s \in Seq(S), s # <<>>
    PROVE  /\ Head(s) \in S /\ Tail(s) \in Seq(S) /\ Len(s) \in Nat /\ Len(Tail(s)) = Len(s) - 1
           /\ Head(s) = s[1] /\ 1 \in 1..Len(s)
           /\ \A k \in 1..Len(Tail(s)) : k + 1 \in 1..Len(s) /\ Tail(s)[k] = s[k + 1]
           /\ \A k \in 1..Len(s) : k # 1 => k - 1 \in 1..Len(Tail(s)) /\ Tail(s)[k - 1] = s[k]
OBVIOUS

\* The receiver moves between the stages that hold no command of a queue.
LEMMA MovesStep ==
    ASSUME ChanInv,
           OtherArm \/ Unpark \/ (TryControl /\ control = <<>>) \/ (TryNormal /\ normal = <<>>)
    PROVE  ChanInv'
<1> USE DEF ChanInv
<1>1. /\ receiver.stage \in {"ready", "normal", "parked"} /\ permit' \in BOOLEAN
      /\ receiver' \in {[stage |-> "normal", command |-> Idle], [stage |-> "ready", command |-> Idle],
                        [stage |-> "parked", command |-> Idle]}
      /\ UNCHANGED <<control, normal, pending_keys, depth, closed, producer, paused, requested, owed>>
  BY DEF OtherArm, Unpark, TryControl, TryNormal, Receive, chanVars, TypeOK
<1>2. receiver'.stage \in {"ready", "normal", "parked"} /\ receiver'.command = Idle
  BY <1>1
<1>3. TypeOK'
  BY <1>1 DEF TypeOK
<1>4. Holding' /\ Dropped'
  BY <1>1, <1>2 DEF Holding, Dropped
<1>5. Once' /\ Keys' /\ CapacityKept'
  BY <1>1, <1>2, QuietStep DEF At
<1>6. OwedIsComing'
  BY <1>1, QueuesKept DEF OwedIsComing
<1> QED
  BY <1>3, <1>4, <1>5, <1>6

\* The head of the control queue is popped: it stays the only one of its key.
LEMMA PopControlStep ==
    ASSUME ChanInv, TryControl, control # <<>> PROVE ChanInv'
<1> USE DEF ChanInv
<1> DEFINE c == Head(control)
<1>1. receiver.stage = "ready" /\ receiver' = [stage |-> "popped", command |-> c]
      /\ control' = Tail(control)
      /\ UNCHANGED <<normal, pending_keys, depth, permit, closed, producer, paused, requested, owed>>
  BY DEF TryControl, Receive
<1>2. control \in Seq(Commands) /\ normal \in Seq(Commands) /\ Len(normal) \in Nat /\ depth \in Nat
  BY DEF TypeOK
<1>3. /\ c \in Commands /\ control' \in Seq(Commands) /\ Len(control) \in Nat
      /\ Len(control') = Len(control) - 1
      /\ c = control[1] /\ 1 \in 1..Len(control)
      /\ \A k \in 1..Len(control') : k + 1 \in 1..Len(control) /\ control'[k] = control[k + 1]
      /\ \A k \in 1..Len(control) : k # 1 => k - 1 \in 1..Len(control') /\ control'[k - 1] = control[k]
  BY <1>1, <1>2, TailFacts
<1> HIDE DEF c
<1>4. receiver'.stage = "popped" /\ receiver'.command = c
  BY <1>1
<1>5. ~closed
  BY <1>1 DEF Dropped
<1>6. /\ At("reserved")' = At("reserved")
      /\ ControlReserved' = ControlReserved /\ NormalReserved' = NormalReserved
  BY <1>1, SameProducers
<1>7. TypeOK'
  BY <1>1, <1>3 DEF TypeOK
<1>8. Holding' /\ Dropped'
  BY <1>1, <1>3, <1>4, <1>5 DEF Holding, Dropped
<1>9. Once'
  <2>1. \A k, l \in 1..Len(control') :
          control'[k] = control'[l] /\ coalesce_key(control'[k]) => k = l
    <3>1. SUFFICES ASSUME NEW k \in 1..Len(control'), NEW l \in 1..Len(control'),
                          control'[k] = control'[l], coalesce_key(control'[k])
                   PROVE  k = l
      OBVIOUS
    <3>2. k + 1 = l + 1
      <4>1. /\ k + 1 \in 1..Len(control) /\ l + 1 \in 1..Len(control)
            /\ control[k + 1] = control[l + 1] /\ coalesce_key(control[k + 1])
        BY <1>3, <3>1
      <4> QED
        BY <1>5, <4>1, Zenon DEF Once
    <3> QED
      BY <1>3, <3>2
  <2>2. \A p \in At("reserved") : coalesce_key(producer[p].command) =>
             /\ \A k \in 1..Len(control') : control'[k] # producer[p].command
             /\ \A r \in At("reserved") : producer[r].command = producer[p].command => p = r
             /\ c # producer[p].command
    BY <1>3, <1>5 DEF Once
  <2>3. coalesce_key(c) => \A k \in 1..Len(control') : control'[k] # c
    <3>1. SUFFICES ASSUME coalesce_key(c), NEW k \in 1..Len(control'), control'[k] = c PROVE FALSE
      OBVIOUS
    <3>2. k + 1 = 1
      BY <1>3, <1>5, <3>1 DEF Once
    <3> QED
      BY <1>3, <3>2
  <2> QED
    BY <1>1, <1>4, <1>6, <2>1, <2>2, <2>3 DEF Once, coalesce_key
<1>10. Keys'
  <2>1. ASSUME NEW d \in Commands PROVE Pending(d)' <=> Pending(d)
    <3>1. (\E k \in 1..Len(control) : control[k] = d)
            <=> d = c \/ \E k \in 1..Len(control') : control'[k] = d
      BY <1>3
    <3>2. (receiver'.stage = "popped" /\ receiver'.command = d) <=> d = c
      BY <1>4
    <3> QED
      BY <1>1, <1>6, <3>1, <3>2 DEF Pending
  <2> QED
    BY <1>1, <1>5, <2>1 DEF Keys, coalesce_key
<1>11. CapacityKept'
  <2>1. depth = Len(control) + Len(normal) + Cardinality(At("reserved"))
    <3>1. receiver.stage # "popped"
      BY <1>1
    <3>2. depth = Len(control) + Len(normal) + Cardinality(At("reserved"))
                  + (IF receiver.stage = "popped" THEN 1 ELSE 0)
      BY <1>5 DEF CapacityKept
    <3> QED
      BY <1>2, <1>3, <3>1, <3>2, AtFinite
  <2>2. depth' = Len(control') + Len(normal') + Cardinality(At("reserved")')
                  + (IF receiver'.stage = "popped" THEN 1 ELSE 0)
    BY <1>1, <1>2, <1>3, <1>4, <1>6, <2>1, AtFinite
  <2>3. Len(control') + Cardinality(ControlReserved') <= ControlCapacity
    BY <1>1, <1>3, <1>6, ReservedFinite, ChannelAssumption DEF CapacityKept
  <2>4. Len(normal') + Cardinality(NormalReserved') <= NormalCapacity
    BY <1>1, <1>6 DEF CapacityKept
  <2> QED
    BY <2>2, <2>3, <2>4 DEF CapacityKept
<1>12. OwedIsComing'
  <2>1. SUFFICES ASSUME NEW d \in owed' PROVE InQueue(d)' \/ d = c
    BY <1>4 DEF OwedIsComing
  <2>2. InQueue(d)
    BY <1>1 DEF OwedIsComing
  <2>3. CASE is_control(d)
    <3>1. PICK k \in 1..Len(control) : control[k] = d
      BY <2>2, <2>3, InQueueIs
    <3>2. k # 1 => \E l \in 1..Len(control') : control'[l] = d
      BY <1>3, <3>1
    <3> QED
      BY <1>3, <2>3, <3>1, <3>2, InQueueIs
  <2>4. CASE ~is_control(d)
    BY <1>1, <2>2, <2>4, InQueueIs
  <2> QED
    BY <2>3, <2>4
<1> QED
  BY <1>7, <1>8, <1>9, <1>10, <1>11, <1>12

\* Taking a command from the normal queue: what is under way with its key was counted once.
LEMMA PopNormalStep ==
    ASSUME ChanInv, TryNormal, normal # <<>> PROVE ChanInv'
<1> USE DEF ChanInv
<1> DEFINE c == Head(normal)
<1>1. receiver.stage = "normal" /\ receiver' = [stage |-> "popped", command |-> c]
      /\ normal' = Tail(normal)
      /\ UNCHANGED <<control, pending_keys, depth, permit, closed, producer, paused, requested, owed>>
  BY DEF TryNormal, Receive
<1>2. control \in Seq(Commands) /\ normal \in Seq(Commands) /\ Len(control) \in Nat /\ depth \in Nat
  BY DEF TypeOK
<1>3. /\ c \in Commands /\ normal' \in Seq(Commands) /\ Len(normal) \in Nat
      /\ Len(normal') = Len(normal) - 1
      /\ c = normal[1] /\ 1 \in 1..Len(normal)
      /\ \A k \in 1..Len(normal) : k # 1 => k - 1 \in 1..Len(normal') /\ normal'[k - 1] = normal[k]
  BY <1>1, <1>2, TailFacts
<1> HIDE DEF c
<1>4. receiver'.stage = "popped" /\ receiver'.command = c /\ receiver.stage # "popped"
  BY <1>1
<1>5. ~closed
  BY <1>1 DEF Dropped
<1>6. /\ At("reserved")' = At("reserved")
      /\ ControlReserved' = ControlReserved /\ NormalReserved' = NormalReserved
  BY <1>1, SameProducers
<1>7. TypeOK'
  BY <1>1, <1>3 DEF TypeOK
<1>8. Holding' /\ Dropped'
  BY <1>1, <1>3, <1>4, <1>5 DEF Holding, Dropped
<1>9. ~coalesce_key(c) /\ \A k \in 1..Len(normal') : ~coalesce_key(normal'[k])
  <2>1. ~coalesce_key(c)
    BY <1>3, <1>5 DEF Once
  <2>2. \A k \in 1..Len(normal') : normal'[k] = normal[k + 1] /\ k + 1 \in 1..Len(normal)
    BY <1>1, <1>2, TailFacts
  <2> QED
    BY <1>5, <2>1, <2>2 DEF Once
<1>10. Once'
  BY <1>1, <1>4, <1>5, <1>6, <1>9 DEF Once, coalesce_key
<1>11. Keys'
  <2>1. ASSUME NEW d \in Commands, coalesce_key(d) PROVE Pending(d)' <=> Pending(d)
    BY <1>1, <1>4, <1>6, <1>9, <2>1 DEF Pending
  <2> QED
    BY <1>1, <1>5, <2>1 DEF Keys, coalesce_key
<1>12. CapacityKept'
  <2>1. depth = Len(control) + Len(normal) + Cardinality(At("reserved"))
    <3>1. depth = Len(control) + Len(normal) + Cardinality(At("reserved"))
                  + (IF receiver.stage = "popped" THEN 1 ELSE 0)
      BY <1>5 DEF CapacityKept
    <3> QED
      BY <1>2, <1>3, <1>4, <3>1, AtFinite
  <2>2. depth' = Len(control') + Len(normal') + Cardinality(At("reserved")')
                  + (IF receiver'.stage = "popped" THEN 1 ELSE 0)
    BY <1>1, <1>2, <1>3, <1>4, <1>6, <2>1, AtFinite
  <2>3. Len(normal') + Cardinality(NormalReserved') <= NormalCapacity
    BY <1>1, <1>3, <1>6, ReservedFinite, ChannelAssumption DEF CapacityKept
  <2>4. Len(control') + Cardinality(ControlReserved') <= ControlCapacity
    BY <1>1, <1>6 DEF CapacityKept
  <2> QED
    BY <2>2, <2>3, <2>4 DEF CapacityKept
<1>13. OwedIsComing'
  <2>1. SUFFICES ASSUME NEW d \in owed' PROVE InQueue(d)' \/ d = c
    BY <1>4 DEF OwedIsComing
  <2>2. InQueue(d)
    BY <1>1 DEF OwedIsComing
  <2>3. CASE ~is_control(d)
    <3>1. PICK k \in 1..Len(normal) : normal[k] = d
      BY <2>2, <2>3, InQueueIs
    <3>2. k # 1 => \E l \in 1..Len(normal') : normal'[l] = d
      BY <1>3, <3>1
    <3> QED
      BY <1>3, <2>3, <3>1, <3>2, InQueueIs
  <2>4. CASE is_control(d)
    BY <1>1, <2>2, <2>4, InQueueIs
  <2> QED
    BY <2>3, <2>4
<1> QED
  BY <1>7, <1>8, <1>10, <1>11, <1>12, <1>13

\* The popped command gives its key back, and the counter its one.
LEMMA ReleaseStep ==
    ASSUME ChanInv, ReleaseKey PROVE ChanInv'
<1> USE DEF ChanInv
<1> DEFINE c == receiver.command
<1>1. receiver.stage = "popped" /\ receiver' = [stage |-> "applying", command |-> c]
      /\ depth' = depth - 1 /\ pending_keys' = pending_keys \ {c}
      /\ UNCHANGED <<control, normal, permit, closed, producer, paused, requested, owed>>
  BY DEF ReleaseKey, Receive
<1>2. Len(control) \in Nat /\ Len(normal) \in Nat /\ depth \in Nat
  BY DEF TypeOK
<1>3. c \in Commands
  BY <1>1 DEF Holding
<1> HIDE DEF c
<1>4. receiver'.stage = "applying" /\ receiver'.command = c
  BY <1>1
<1>5. ~closed
  BY <1>1 DEF Dropped
<1>6. /\ At("reserved")' = At("reserved")
      /\ ControlReserved' = ControlReserved /\ NormalReserved' = NormalReserved
  BY <1>1, SameProducers
<1>7. depth = Len(control) + Len(normal) + Cardinality(At("reserved")) + 1
  <2>1. depth = Len(control) + Len(normal) + Cardinality(At("reserved"))
                + (IF receiver.stage = "popped" THEN 1 ELSE 0)
    BY <1>5 DEF CapacityKept
  <2> QED
    BY <1>1, <2>1
<1>8. depth' \in Nat /\ depth' = Len(control') + Len(normal') + Cardinality(At("reserved")')
                                  + (IF receiver'.stage = "popped" THEN 1 ELSE 0)
  BY <1>1, <1>2, <1>4, <1>6, <1>7, AtFinite
<1>9. TypeOK'
  BY <1>1, <1>3, <1>8 DEF TypeOK
<1>10. Holding' /\ Dropped'
  BY <1>1, <1>3, <1>4, <1>5 DEF Holding, Dropped
<1>11. Once'
  BY <1>1, <1>4, <1>5, <1>6 DEF Once, coalesce_key
<1>12. Keys'
  <2>1. coalesce_key(c) => /\ \A k \in 1..Len(control) : control[k] # c
                           /\ \A q \in At("reserved") : producer[q].command # c
    BY <1>1, <1>5 DEF Once, c
  <2>2. ASSUME NEW d \in Commands, coalesce_key(d)
        PROVE  Pending(d)' <=> Pending(d) /\ d # c
    BY <1>1, <1>4, <1>6, <2>1, <2>2 DEF Pending, c
  <2> QED
    BY <1>1, <1>5, <2>2 DEF Keys, coalesce_key
<1>13. CapacityKept'
  BY <1>1, <1>6, <1>8 DEF CapacityKept
<1>14. OwedIsComing'
  BY <1>1, <1>4, QueuesKept DEF OwedIsComing, c
<1> QED
  BY <1>9, <1>10, <1>11, <1>12, <1>13, <1>14

\* What is applied is no longer owed.
LEMMA ApplyStep ==
    ASSUME ChanInv, ApplyReceived PROVE ChanInv'
<1> USE DEF ChanInv
<1>1. receiver.stage = "applying" /\ receiver' = [stage |-> "ready", command |-> Idle]
      /\ owed' = owed \ {receiver.command} /\ UNCHANGED <<chanVars, producer, requested>>
  BY DEF ApplyReceived, Receive
<1>2. paused' \in BOOLEAN
  <2>1. AfterCommand(receiver.command) \in BOOLEAN
    BY DEF TypeOK, AfterCommand
  <2> QED
    BY <2>1, Zenon DEF ApplyReceived
<1>3. TypeOK'
  BY <1>1, <1>2 DEF TypeOK, chanVars
<1>4. Holding' /\ Dropped'
  BY <1>1 DEF Holding, Dropped, chanVars
<1>5. Once' /\ Keys' /\ CapacityKept'
  BY <1>1, QuietStep DEF At, chanVars
<1>6. OwedIsComing'
  BY <1>1, QueuesKept DEF OwedIsComing, chanVars
<1> QED
  BY <1>3, <1>4, <1>5, <1>6

\* Nothing is owed by an engine that is gone.
LEMMA CloseStep ==
    ASSUME ChanInv, Close PROVE ChanInv'
<1> USE DEF ChanInv
<1>1. receiver' = [stage |-> "closed", command |-> Idle] /\ closed' = TRUE
      /\ control' = <<>> /\ normal' = <<>> /\ owed' = {}
      /\ UNCHANGED <<pending_keys, depth, permit, producer, paused, requested>>
  BY DEF Close, Receive
<1>2. TypeOK'
  BY <1>1 DEF TypeOK
<1>3. Holding' /\ Dropped' /\ Once' /\ Keys' /\ OwedIsComing'
  BY <1>1 DEF Holding, Dropped, Once, Keys, OwedIsComing
<1>4. CapacityKept'
  <2>1. Len(control') = 0 /\ Len(normal') = 0 /\ Len(control) \in Nat /\ Len(normal) \in Nat
    BY <1>1 DEF TypeOK
  <2>2. ControlReserved' = ControlReserved /\ NormalReserved' = NormalReserved
    BY <1>1, SameProducers
  <2> QED
    BY <1>1, <2>1, <2>2, ReservedFinite, ChannelAssumption DEF CapacityKept
<1> QED
  BY <1>2, <1>3, <1>4

-----------------------------------------------------------------------------
\* Every step keeps the invariant.
LEMMA ChanNext == ChanInv /\ [Next]_vars => ChanInv'
<1> SUFFICES ASSUME ChanInv, [Next]_vars PROVE ChanInv'
  OBVIOUS
<1>1. ASSUME NEW q \in Producers, Produce(q) PROVE ChanInv'
  BY <1>1, ReturnStep, CoalescedStep, ReserveStep, PushStep DEF Produce
<1>2. ASSUME NEW q \in Producers, NEW c \in Commands, Request(q, c) PROVE ChanInv'
  BY <1>2, RequestStep
<1>3. CASE Consume
  <2>1. CASE TryControl
    BY <2>1, PopControlStep, MovesStep, Zenon
  <2>2. CASE TryNormal
    BY <2>2, PopNormalStep, MovesStep, Zenon
  <2>3. CASE Unpark
    BY <2>3, MovesStep, Zenon
  <2> QED
    BY <1>3, <2>1, <2>2, <2>3, ReleaseStep, ApplyStep, Zenon DEF Consume
<1>4. CASE OtherArm
  BY <1>4, MovesStep, Zenon
<1>5. CASE Close
  BY <1>5, CloseStep
<1>6. CASE UNCHANGED vars
  <2>1. ChanInv /\ UNCHANGED vars => ChanInv'
    BY DEF ChanInv, vars, chanVars, TypeOK, Holding, Dropped, Once, Keys, Pending, OwedIsComing,
           InQueue, Queue, CapacityKept, At, ControlReserved, NormalReserved
  <2> QED
    BY <1>6, <2>1
<1> QED
  BY <1>1, <1>2, <1>3, <1>4, <1>5, <1>6 DEF Next

\* The invariant of the channel holds in every reachable state: types, places, keys and debts.
THEOREM Invariance == Spec => []ChanInv
BY ChanInit, ChanNext, PTL DEF Spec

\* For any producers and capacities: the state of the channel has its types;
\* in particular the depth counter never wraps below zero.
THEOREM ChannelTypes == Spec => []TypeOK
<1>1. ChanInv => TypeOK
  BY DEF ChanInv
<1> QED
  BY Invariance, <1>1, PTL

\* A key is pending exactly while a command with that key is under way, so that
\* coalescing never swallows a command nobody is going to apply.
THEOREM KeysNeverStale == Spec => []KeysExact
<1>1. ChanInv => KeysExact
  BY KeysAreExact DEF ChanInv
<1> QED
  BY Invariance, <1>1, PTL

\* Every accepted command, coalesced or not, is still queued or in the engine's
\* hands until it is applied.
THEOREM AcceptedIsComing == Spec => []OwedIsComing
<1>1. ChanInv => OwedIsComing
  BY DEF ChanInv
<1> QED
  BY Invariance, <1>1, PTL

\* The depth counter covers the queues, the reservations and the command being
\* received, and no queue is over its capacity.
THEOREM CapacitiesKept == Spec => []CapacityKept
<1>1. ChanInv => CapacityKept
  BY DEF ChanInv
<1> QED
  BY Invariance, <1>1, PTL

\* Keys, depth and slots account for the same commands at every step of every
\* sender and of the engine.
THEOREM CountsNeverDrift == Spec => []CountsExact
<1>1. KeysExact /\ CapacityKept => CountsExact
  BY DEF CountsExact
<1> QED
  BY KeysNeverStale, CapacitiesKept, <1>1, PTL
=============================================================================
