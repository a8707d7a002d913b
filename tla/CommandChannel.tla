---------------------------- MODULE CommandChannel ----------------------------
(***************************************************************************)
(* The engine's command channel (aria2-core/src/engine/engine_command.rs): *)
(* any number of producers, a bounded control and a bounded normal queue,  *)
(* the set of keys that coalesces repeated lifecycle commands, the depth   *)
(* counter and the Notify the idle engine parks on.  The producers are RPC *)
(* handlers that pause or unpause one download directly before they send   *)
(* (aria2/src/app/rpc_backend/lifecycle.rs); the receiver is the engine.   *)
(***************************************************************************)
EXTENDS Integers, Sequences, FiniteSets

CONSTANTS
    Producers,
    Idle,               \* the producer or receiver holds no command
    Commands,           \* the commands of the instance
    ControlCapacity, NormalCapacity,
    MaxSends            \* bound: sends of one producer

AllCommands == {"Pause", "Unpause", "SetMaxConcurrent", "AddDownload"}

ASSUME ChannelAssumption ==
    /\ Idle \notin AllCommands
    /\ Commands \subseteq AllCommands
    /\ IsFiniteSet(Producers)
    /\ ControlCapacity \in Nat \ {0} /\ NormalCapacity \in Nat \ {0}
    /\ MaxSends \in Nat

VARIABLES
    control, normal,    \* the two bounded queues
    pending_keys,       \* the coalescing keys of commands not yet received
    depth,              \* metrics.depth
    permit,             \* the permit stored in the Notify
    closed,             \* the engine dropped the receiver
    producer,           \* [stage, command, left] of each producer
    receiver,           \* [stage, command]
    paused,             \* the download, as the manager has it
    requested,          \* what the last client call asked for
    owed                \* commands accepted whose application is still due
chanVars == <<control, normal, pending_keys, depth, permit, closed>>
vars == <<chanVars, producer, receiver, paused, requested, owed>>

coalesce_key(c) == c \in {"Pause", "Unpause"}
is_control(c) == c # "AddDownload"
Queue(c) == IF is_control(c) THEN control ELSE normal
Capacity(c) == IF is_control(c) THEN ControlCapacity ELSE NormalCapacity
At(stage) == {q \in Producers : producer[q].stage = stage}
ControlReserved == {q \in At("reserved") : is_control(producer[q].command)}
NormalReserved == At("reserved") \ ControlReserved
Reserved(c) == IF is_control(c) THEN ControlReserved ELSE NormalReserved

\* A sender of a keyed command holds the mutex of the keys until it returns.
KeysLocked == \E q \in At("reserved") \cup At("queued") : coalesce_key(producer[q].command)

-----------------------------------------------------------------------------
Init ==
    /\ control = <<>> /\ normal = <<>> /\ pending_keys = {} /\ depth = 0
    /\ permit = FALSE /\ closed = FALSE
    /\ producer = [q \in Producers |-> [stage |-> "idle", command |-> Idle, left |-> MaxSends]]
    /\ receiver = [stage |-> "ready", command |-> Idle]
    /\ paused = FALSE /\ requested = FALSE /\ owed = {}

SetStage(q, stage) == producer' = [producer EXCEPT ![q].stage = stage]
Return(q) ==
    producer' = [producer EXCEPT ![q].stage = "idle", ![q].command = Idle]

\* The handler changes the download before it sends.
AfterCommand(c) == IF c = "Pause" THEN TRUE ELSE IF c = "Unpause" THEN FALSE ELSE paused
Request(q, c) ==
    /\ producer[q].stage = "idle" /\ producer[q].left > 0
    /\ coalesce_key(c) => AfterCommand(c) # paused      \* the manager refuses otherwise
    /\ producer' = [producer EXCEPT ![q] =
                      [stage |-> "sending", command |-> c, left |-> @.left - 1]]
    /\ paused' = AfterCommand(c)
    /\ requested' = IF coalesce_key(c) THEN AfterCommand(c) ELSE requested
    /\ UNCHANGED <<chanVars, receiver, owed>>

\* send up to the reservation of a slot: Closed, coalesced, Full, or reserved.
SendClosed(q) ==
    /\ producer[q].stage = "sending" /\ closed
    /\ Return(q)
    /\ UNCHANGED <<chanVars, receiver, paused, requested, owed>>

HasRoom(c) == Len(Queue(c)) + Cardinality(Reserved(c)) < Capacity(c)
MaySend(q) ==
    /\ producer[q].stage = "sending" /\ ~closed
    /\ coalesce_key(producer[q].command) => ~KeysLocked

SendCoalesced(q) ==
    /\ MaySend(q)
    /\ producer[q].command \in pending_keys
    /\ Return(q)
    /\ owed' = owed \cup {producer[q].command}
    /\ UNCHANGED <<chanVars, receiver, paused, requested>>

\* Mutants: the key stays behind; the depth is corrected for nothing.
SendFullKeepingKey(q) ==
    /\ MaySend(q)
    /\ producer[q].command \notin pending_keys /\ ~HasRoom(producer[q].command)
    /\ Return(q)
    /\ pending_keys' = pending_keys \cup {producer[q].command}
    /\ UNCHANGED <<control, normal, depth, permit, closed, receiver, paused, requested, owed>>
SendFullUncounted(q) ==
    /\ MaySend(q)
    /\ producer[q].command \notin pending_keys /\ ~HasRoom(producer[q].command)
    /\ Return(q)
    /\ depth' = depth - 1
    /\ UNCHANGED <<control, normal, pending_keys, permit, closed, receiver, paused, requested, owed>>

\* The key that was inserted is removed again.
SendFull(q) ==
    /\ MaySend(q)
    /\ producer[q].command \notin pending_keys /\ ~HasRoom(producer[q].command)
    /\ Return(q)
    /\ UNCHANGED <<chanVars, receiver, paused, requested, owed>>

Reserve(q) ==
    /\ MaySend(q)
    /\ producer[q].command \notin pending_keys /\ HasRoom(producer[q].command)
    /\ SetStage(q, "reserved")
    /\ pending_keys' = pending_keys \cup
         (IF coalesce_key(producer[q].command) THEN {producer[q].command} ELSE {})
    /\ depth' = depth + 1
    /\ UNCHANGED <<control, normal, permit, closed, receiver, paused, requested, owed>>

\* permit.send.
Push(q) ==
    /\ producer[q].stage = "reserved"
    /\ LET c == producer[q].command IN
       /\ IF closed THEN UNCHANGED <<control, normal, owed>>
          ELSE /\ owed' = owed \cup {c}
               /\ control' = (IF is_control(c) THEN Append(control, c) ELSE control)
               /\ normal' = (IF is_control(c) THEN normal ELSE Append(normal, c))
    /\ SetStage(q, "queued")
    /\ UNCHANGED <<pending_keys, depth, permit, closed, receiver, paused, requested>>

\* Mutant: only the sender that finds the queues empty notifies.
NotifyOnEdge(q) ==
    /\ producer[q].stage = "queued"
    /\ permit' = (permit \/ depth = 1)
    /\ Return(q)
    /\ UNCHANGED <<control, normal, pending_keys, depth, closed, receiver, paused, requested, owed>>

NotifyOne(q) ==
    /\ producer[q].stage = "queued"
    /\ permit' = TRUE
    /\ Return(q)
    /\ UNCHANGED <<control, normal, pending_keys, depth, closed, receiver, paused, requested, owed>>

Produce(q) ==
    SendClosed(q) \/ SendCoalesced(q) \/ SendFull(q) \/ Reserve(q) \/ Push(q) \/ NotifyOne(q)

-----------------------------------------------------------------------------
\* try_recv looks at the control queue and then at the normal one.
Receive(stage, c) == receiver' = [stage |-> stage, command |-> c]
TryControl ==
    /\ receiver.stage = "ready"
    /\ IF control # <<>>
       THEN Receive("popped", Head(control)) /\ control' = Tail(control)
       ELSE Receive("normal", Idle) /\ UNCHANGED control
    /\ UNCHANGED <<normal, pending_keys, depth, permit, closed, producer, paused, requested, owed>>

TryNormal ==
    /\ receiver.stage = "normal"
    /\ IF normal # <<>>
       THEN Receive("popped", Head(normal)) /\ normal' = Tail(normal)
       ELSE Receive("parked", Idle) /\ UNCHANGED normal
    /\ UNCHANGED <<control, pending_keys, depth, permit, closed, producer, paused, requested, owed>>

\* Mutant: the key is not released.
ReleaseNothing ==
    /\ receiver.stage = "popped"
    /\ coalesce_key(receiver.command) => ~KeysLocked
    /\ depth' = depth - 1
    /\ Receive("applying", receiver.command)
    /\ UNCHANGED <<control, normal, pending_keys, permit, closed, producer, paused, requested, owed>>

\* metrics.dequeued, and the key is released before the command is returned.
ReleaseKey ==
    /\ receiver.stage = "popped"
    /\ coalesce_key(receiver.command) => ~KeysLocked
    /\ depth' = depth - 1
    /\ pending_keys' = pending_keys \ {receiver.command}
    /\ Receive("applying", receiver.command)
    /\ UNCHANGED <<control, normal, permit, closed, producer, paused, requested, owed>>

\* process_engine_commands applies the command that try_recv returned.
ApplyReceived ==
    /\ receiver.stage = "applying"
    /\ paused' = AfterCommand(receiver.command)
    /\ owed' = owed \ {receiver.command}
    /\ Receive("ready", Idle)
    /\ UNCHANGED <<chanVars, producer, requested>>

\* recv parks until the Notify has a permit; another arm of select! may drop it.
Unpark ==
    /\ receiver.stage = "parked" /\ permit
    /\ permit' = FALSE
    /\ Receive("ready", Idle)
    /\ UNCHANGED <<control, normal, pending_keys, depth, closed, producer, paused, requested, owed>>

OtherArm ==
    /\ receiver.stage = "parked"
    /\ Receive("ready", Idle)
    /\ UNCHANGED <<chanVars, producer, paused, requested, owed>>

\* The engine exits and drops the receiver with whatever is queued.
Close ==
    /\ receiver.stage = "ready"
    /\ closed' = TRUE /\ control' = <<>> /\ normal' = <<>> /\ owed' = {}
    /\ Receive("closed", Idle)
    /\ UNCHANGED <<pending_keys, depth, permit, producer, paused, requested>>

Consume == TryControl \/ TryNormal \/ ReleaseKey \/ ApplyReceived \/ Unpark
Next ==
    \/ \E q \in Producers : Produce(q) \/ \E c \in Commands : Request(q, c)
    \/ Consume \/ OtherArm \/ Close

Spec == Init /\ [][Next]_vars
FairSpec == Spec /\ WF_vars(Consume) /\ \A q \in Producers : WF_vars(Produce(q))

-----------------------------------------------------------------------------
TypeOK ==
    /\ control \in Seq(Commands) /\ normal \in Seq(Commands)
    /\ pending_keys \subseteq Commands
    /\ depth \in Nat
    /\ permit \in BOOLEAN /\ closed \in BOOLEAN /\ paused \in BOOLEAN /\ requested \in BOOLEAN
    /\ producer \in [Producers -> [stage : {"idle", "sending", "reserved", "queued"},
                                   command : Commands \cup {Idle}, left : 0..MaxSends]]
    /\ receiver \in [stage : {"ready", "normal", "popped", "applying", "parked", "closed"},
                     command : Commands \cup {Idle}]
    /\ owed \subseteq Commands

InQueue(c) == \E k \in 1..Len(Queue(c)) : Queue(c)[k] = c

\* A key is pending exactly while a command with that key is under way.  A key
\* that stayed behind would swallow every later command of that kind.
KeysExact ==
    ~closed => pending_keys =
        {c \in Commands : /\ coalesce_key(c)
                          /\ \/ InQueue(c)
                             \/ \E q \in At("reserved") : producer[q].command = c
                             \/ receiver.stage = "popped" /\ receiver.command = c}

\* A coalesced command is applied after it was accepted: the engine releases
\* the key before it applies the command the key stands for.
OwedIsComing ==
    \A c \in owed :
        \/ InQueue(c)
        \/ receiver.stage \in {"popped", "applying"} /\ receiver.command = c

\* The depth counter covers the queues, so that it never wraps below zero, and
\* neither queue outgrows its capacity.
CapacityKept ==
    /\ ~closed => depth = Len(control) + Len(normal) + Cardinality(At("reserved"))
                           + (IF receiver.stage = "popped" THEN 1 ELSE 0)
    /\ Len(control) + Cardinality(ControlReserved) <= ControlCapacity
    /\ Len(normal) + Cardinality(NormalReserved) <= NormalCapacity

\* Keys, depth and slots account for the same commands, although send and
\* try_recv update them one after the other and send takes them back when full.
CountsExact == KeysExact /\ CapacityKept

\* A queued command is received: no notification is lost between try_recv
\* finding the queues empty and the engine parking.
Delivered == \A c \in Commands : InQueue(c) ~> (~InQueue(c) \/ closed)

\* When everything one client sent has been applied, the download is as the
\* client asked last.
Quiet ==
    /\ \A q \in Producers : producer[q].stage = "idle"
    /\ control = <<>> /\ normal = <<>> /\ receiver.command = Idle
LastRequestWins == Quiet /\ ~closed => paused = requested
=============================================================================
