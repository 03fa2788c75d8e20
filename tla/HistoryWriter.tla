---------------------------- MODULE HistoryWriter ----------------------------
(***************************************************************************)
(* One life of the validation history writer (internal/historyservice,       *)
(* internal/historyipc): clients connect and write one frame each, the       *)
(* accept loop admits a bounded number of receivers, a receiver reserves the  *)
(* frame's bytes, reads it and queues an event or answers a control, and one  *)
(* goroutine persists the events.  Shutdown, the cancellation of the process  *)
(* and its death may come at any moment.                                    *)
(*                                                                         *)
(* A step is one operation on a channel, on the budget, on the listener or    *)
(* on the database.                                                         *)
(***************************************************************************)
EXTENDS Naturals, Sequences, FiniteSets, FiniteSetsExt

CONSTANTS Conns,          \* the connections; one frame each
          Kinds, Size,    \* per connection: what its frame may be, and its bytes
          Slots, Bytes, QueueSize,   \* the receiver's limits
          MaxErrors,      \* bound: errors of accept and of insert
          None

\* An event is named by the connection that carries it.
Events == {c \in Conns : Kinds[c] = {"validation"}}

ASSUME FrameAssumption ==
    /\ Kinds \in [Conns -> {{"validation"}, {"identify", "shutdown"}}]
    /\ Size \in [Conns -> Nat] /\ IsFiniteSet(Conns) /\ None \notin Conns
ASSUME LimitAssumption == Slots \in Nat \ {0} /\ Bytes \in Nat /\ QueueSize \in Nat \ {0}
ASSUME BoundAssumption == MaxErrors \in Nat

VARIABLES
    at,          \* where each connection is
    frame,       \* what its client has written: a whole frame of some kind, or None
    acked,       \* the controls that were answered
    acceptor,    \* the accept loop: the connection it admits, and where it is
    slots,       \* Receiver.slots: how many are taken
    stopped,     \* Receiver.stopped
    reserved,    \* byteBudget.reservedBytes
    queue,       \* Receiver.completed
    listener,    \* whether the listener is open
    once,        \* service.stopOnce: None, who runs it, or "done"
    main,        \* where serve is
    persister,   \* the persist goroutine
    cancelled,   \* the context of Run
    stored,      \* the events in the databases
    errors

recvVars == <<slots, stopped, reserved, queue>>
svcVars == <<listener, once, main, cancelled>>
vars == <<at, frame, acked, acceptor, recvVars, svcVars, persister, stored, errors>>

WithSlot == {"header", "payload", "control", "stop", "closing"}
WithBytes == {"payload", "control", "stop"}
Idle == [at |-> "select", conn |-> None]
Accepting == [at |-> "accept", conn |-> None]

Move(c, a) == at' = [at EXCEPT ![c] = a]
ReceiversCancelled == cancelled \/ main \in {"cancelled", "drain", "closed"}
WritesCancelled == ReceiversCancelled
\* The receiver goroutines, which the WaitGroup counts.
Receiving == {c \in Conns : at[c] \in WithSlot}

----------------------------------------------------------------------------
(* The clients *)

\* Publish and RequestControl: connect without waiting and write the frame, all of it
\* or, when the socket's buffer is full or the client dies, less.
Connect(c) ==
    /\ at[c] = "new"
    /\ IF listener THEN Move(c, "backlog") /\ \E k \in Kinds[c] \cup {None} : frame' = [frame EXCEPT ![c] = k]
       ELSE Move(c, "refused") /\ UNCHANGED frame
    /\ UNCHANGED <<acked, acceptor, recvVars, svcVars, persister, stored, errors>>

----------------------------------------------------------------------------
(* The accept loop *)

Accept(c) ==
    /\ main = "accepting" /\ acceptor = Accepting /\ listener /\ at[c] = "backlog"
    /\ Move(c, "accepted") /\ acceptor' = [at |-> "check", conn |-> c]
    /\ UNCHANGED <<frame, acked, recvVars, svcVars, persister, stored, errors>>

Reject(c) == Move(c, "ended") /\ acceptor' = Accepting

\* Admit: stopped is read before and after the slot is taken.
AdmitCheck ==
    LET c == acceptor.conn IN
    /\ acceptor.at = "check"
    /\ IF stopped THEN Reject(c) ELSE acceptor' = [acceptor EXCEPT !.at = "slot"] /\ UNCHANGED at
    /\ UNCHANGED <<frame, acked, recvVars, svcVars, persister, stored, errors>>

\* Fault: there is always a slot.
AdmitSlotUnbounded ==
    /\ acceptor.at = "slot"
    /\ slots' = slots + 1 /\ acceptor' = [acceptor EXCEPT !.at = "recheck"]
    /\ UNCHANGED <<at, frame, acked, stopped, reserved, queue, svcVars, persister, stored, errors>>

AdmitSlot ==
    LET c == acceptor.conn IN
    /\ acceptor.at = "slot"
    /\ IF slots = Slots THEN Reject(c) /\ UNCHANGED slots
       ELSE slots' = slots + 1 /\ acceptor' = [acceptor EXCEPT !.at = "recheck"] /\ UNCHANGED at
    /\ UNCHANGED <<frame, acked, stopped, reserved, queue, svcVars, persister, stored, errors>>

\* The slot is given back, or the receiver starts.
AdmitRecheck ==
    LET c == acceptor.conn IN
    /\ acceptor.at = "recheck"
    /\ IF stopped THEN Reject(c) /\ slots' = slots - 1
       ELSE Move(c, "header") /\ acceptor' = Accepting /\ UNCHANGED slots
    /\ UNCHANGED <<frame, acked, stopped, reserved, queue, svcVars, persister, stored, errors>>

\* accept returns: the listener is closed and its backlog reset, or accept failed.
AcceptEnds ==
    /\ main = "accepting" /\ acceptor = Accepting
    /\ \/ ~listener /\ UNCHANGED errors
       \/ listener /\ errors < MaxErrors /\ errors' = errors + 1
    /\ main' = "stop"
    /\ UNCHANGED <<at, frame, acked, acceptor, recvVars, listener, once, cancelled, persister, stored>>

----------------------------------------------------------------------------
(* Receive *)

\* readHeader and reserve; a frame beyond the budget is refused.
Reserve(c) ==
    /\ at[c] = "header"
    /\ IF Size[c] > Bytes - reserved THEN Move(c, "closing") /\ UNCHANGED reserved
       ELSE Move(c, "payload") /\ reserved' = reserved + Size[c]
    /\ UNCHANGED <<frame, acked, acceptor, slots, stopped, queue, svcVars, persister, stored, errors>>

\* Fault: a frame that cannot be read keeps its bytes.
ReceiveFailsHolding(c) ==
    /\ at[c] \in {"header", "payload"}
    /\ Move(c, "closing")
    /\ UNCHANGED <<frame, acked, acceptor, recvVars, svcVars, persister, stored, errors>>

\* The frame is cut short, malformed, late, or the receivers are cancelled.
ReceiveFails(c) ==
    /\ at[c] \in {"header", "payload"}
    /\ Move(c, "closing")
    /\ reserved' = (IF at[c] = "payload" THEN reserved - Size[c] ELSE reserved)
    /\ UNCHANGED <<frame, acked, acceptor, slots, stopped, queue, svcVars, persister, stored, errors>>

\* enqueue: never waits.  The slot is free again once the connection is closed.
Enqueue(c) ==
    /\ at[c] = "payload" /\ frame[c] = "validation"
    /\ IF Len(queue) < QueueSize
       THEN queue' = Append(queue, c) /\ UNCHANGED reserved
       ELSE reserved' = reserved - Size[c] /\ UNCHANGED queue
    /\ Move(c, "closing")
    /\ UNCHANGED <<frame, acked, acceptor, slots, stopped, svcVars, persister, stored, errors>>

\* handleControl: an identity, or stop.
Control(c) ==
    /\ at[c] = "payload" /\ frame[c] \in {"identify", "shutdown"}
    /\ Move(c, IF frame[c] = "shutdown" THEN "stop" ELSE "control")
    /\ UNCHANGED <<frame, acked, acceptor, recvVars, svcVars, persister, stored, errors>>

\* The response is written, unless the deadline has passed, the client is gone or the
\* receivers are cancelled.
Answer(c) ==
    /\ at[c] = "control"
    /\ acked' \in {acked, acked \cup {c}}
    /\ reserved' = reserved - Size[c]
    /\ Move(c, "closing")
    /\ UNCHANGED <<frame, acceptor, slots, stopped, queue, svcVars, persister, stored, errors>>

CloseReceive(c) ==
    /\ at[c] = "closing"
    /\ slots' = slots - 1 /\ Move(c, "ended")
    /\ UNCHANGED <<frame, acked, acceptor, stopped, reserved, queue, svcVars, persister, stored, errors>>

----------------------------------------------------------------------------
(* stop, under sync.Once: later callers wait for the first *)

Stopping(a) == (a \in Conns /\ at[a] = "stop") \/ (a = "main" /\ main = "stop") \/ (a = "cancel" /\ cancelled)

StopAdmission(a) ==
    /\ Stopping(a) /\ once = None
    /\ stopped' = TRUE /\ once' = a
    /\ UNCHANGED <<at, frame, acked, acceptor, slots, reserved, queue, listener, main, cancelled, persister,
                   stored, errors>>

\* The connections still in the backlog are reset.
CloseListener ==
    /\ once \notin {None, "done"}
    /\ listener' = FALSE /\ once' = "done"
    /\ at' = [c \in Conns |-> IF at[c] = "backlog" THEN "refused" ELSE at[c]]
    /\ UNCHANGED <<frame, acked, acceptor, recvVars, main, cancelled, persister, stored, errors>>

\* Fault: the handler does not wait for another caller's stop.
StopReturnsAtOnce(c) ==
    /\ at[c] = "stop" /\ once # None
    /\ Move(c, "control")
    /\ UNCHANGED <<frame, acked, acceptor, recvVars, svcVars, persister, stored, errors>>

\* Fault: the handler waits until the writer has ended.
StopReturnsLast(c) ==
    /\ at[c] = "stop" /\ main = "closed"
    /\ Move(c, "control")
    /\ UNCHANGED <<frame, acked, acceptor, recvVars, svcVars, persister, stored, errors>>

StopReturns(c) ==
    /\ at[c] = "stop" /\ once = "done"
    /\ Move(c, "control")
    /\ UNCHANGED <<frame, acked, acceptor, recvVars, svcVars, persister, stored, errors>>

----------------------------------------------------------------------------
(* persist *)

\* select takes a delivery or notices the cancellation, whichever it likes.
Take ==
    /\ persister.at = "select" /\ queue # <<>>
    /\ persister' = [at |-> IF WritesCancelled THEN "release" ELSE "insert", conn |-> Head(queue)]
    /\ queue' = Tail(queue)
    /\ UNCHANGED <<at, frame, acked, acceptor, slots, stopped, reserved, svcVars, stored, errors>>

\* Insert: one transaction of SQLite, which a cancellation may undo.
Insert ==
    /\ persister.at = "insert"
    /\ \/ stored' = stored \cup {persister.conn} /\ UNCHANGED errors
       \/ WritesCancelled /\ UNCHANGED <<stored, errors>>
       \/ errors < MaxErrors /\ errors' = errors + 1 /\ UNCHANGED stored
    /\ persister' = [persister EXCEPT !.at = "release"]
    /\ UNCHANGED <<at, frame, acked, acceptor, recvVars, svcVars>>

\* Fault: an event whose insert failed is tried once more.
ReleaseWithRetry ==
    /\ persister.at = "release"
    /\ reserved' = reserved - Size[persister.conn]
    /\ stored' = stored \cup {persister.conn}
    /\ persister' = Idle
    /\ UNCHANGED <<at, frame, acked, acceptor, slots, stopped, queue, svcVars, errors>>

\* Fault: persist returns after its first delivery.
ReleaseAndReturn ==
    /\ persister.at = "release"
    /\ reserved' = reserved - Size[persister.conn]
    /\ persister' = [Idle EXCEPT !.at = "exit"]
    /\ UNCHANGED <<at, frame, acked, acceptor, slots, stopped, queue, svcVars, stored, errors>>

Release ==
    /\ persister.at = "release"
    /\ reserved' = reserved - Size[persister.conn]
    /\ persister' = Idle
    /\ UNCHANGED <<at, frame, acked, acceptor, slots, stopped, queue, svcVars, stored, errors>>

PersistEnds ==
    /\ persister.at = "select" /\ WritesCancelled
    /\ persister' = [Idle EXCEPT !.at = "exit"]
    /\ UNCHANGED <<at, frame, acked, acceptor, recvVars, svcVars, stored, errors>>

----------------------------------------------------------------------------
(* serve *)

\* receivers.Wait, then cancelReceivers and cancelWrites.
Join ==
    /\ main = "stop" /\ once = "done" /\ Receiving = {}
    /\ main' = "cancelled"
    /\ UNCHANGED <<at, frame, acked, acceptor, recvVars, listener, once, cancelled, persister, stored, errors>>

\* Fault: the writer goroutine is not waited for.
JoinPersistSkipped ==
    /\ main = "cancelled"
    /\ main' = "drain"
    /\ UNCHANGED <<at, frame, acked, acceptor, recvVars, listener, once, cancelled, persister, stored, errors>>

\* <-doneWriting.
JoinPersist ==
    /\ main = "cancelled" /\ persister.at = "exit"
    /\ main' = "drain"
    /\ UNCHANGED <<at, frame, acked, acceptor, recvVars, listener, once, cancelled, persister, stored, errors>>

\* releaseQueued, and then endpoint.close.
ReleaseQueued ==
    /\ main = "drain"
    /\ IF queue # <<>>
       THEN queue' = Tail(queue) /\ reserved' = reserved - Size[Head(queue)] /\ UNCHANGED main
       ELSE main' = "closed" /\ UNCHANGED <<queue, reserved>>
    /\ UNCHANGED <<at, frame, acked, acceptor, slots, stopped, listener, once, cancelled, persister, stored,
                   errors>>

\* The context of Run is cancelled by a signal.
Cancel ==
    /\ ~cancelled /\ main \notin {"closed", "dead"}
    /\ cancelled' = TRUE
    /\ UNCHANGED <<at, frame, acked, acceptor, recvVars, listener, once, main, persister, stored, errors>>

\* The process is killed: its goroutines are gone with their memory, and the kernel
\* closes its sockets.
Die ==
    /\ main \notin {"closed", "dead"}
    /\ main' = "dead" /\ listener' = FALSE /\ stopped' = TRUE /\ once' = "done" /\ cancelled' = FALSE
    /\ at' = [c \in Conns |-> IF at[c] = "new" THEN "new" ELSE "ended"]
    /\ acceptor' = Accepting /\ slots' = 0 /\ reserved' = 0 /\ queue' = <<>>
    /\ persister' = [Idle EXCEPT !.at = "exit"]
    /\ UNCHANGED <<frame, acked, stored, errors>>

----------------------------------------------------------------------------
Init ==
    /\ at = [c \in Conns |-> "new"] /\ frame = [c \in Conns |-> None] /\ acked = {}
    /\ acceptor = Accepting /\ slots = 0 /\ stopped = FALSE /\ reserved = 0 /\ queue = <<>>
    /\ listener = TRUE /\ once = None /\ main = "accepting" /\ persister = Idle
    /\ cancelled = FALSE /\ stored = {} /\ errors = 0

Receive(c) ==
    Reserve(c) \/ ReceiveFails(c) \/ Enqueue(c) \/ Control(c) \/ StopReturns(c) \/ Answer(c) \/ CloseReceive(c)
AcceptLoop == AdmitCheck \/ AdmitSlot \/ AdmitRecheck \/ AcceptEnds
Serve == Join \/ JoinPersist \/ ReleaseQueued
Persist == Take \/ Insert \/ Release \/ PersistEnds
Stop == CloseListener \/ \E a \in Conns \cup {"main", "cancel"} : StopAdmission(a)

Next ==
    \/ \E c \in Conns : Connect(c) \/ Accept(c) \/ Receive(c)
    \/ AcceptLoop \/ Serve \/ Persist \/ Stop \/ Cancel \/ Die

Spec == Init /\ [][Next]_vars

\* Every goroutine is scheduled, and a transaction of SQLite ends.
FairSpec ==
    /\ Spec
    /\ \A c \in Conns : WF_vars(Receive(c))
    /\ WF_vars(AcceptLoop \/ \E c \in Conns : Accept(c))
    /\ WF_vars(Serve) /\ WF_vars(Persist) /\ WF_vars(Stop)

----------------------------------------------------------------------------
(* Properties *)

\* The connections whose bytes are charged: those of readReserved, the completed ones,
\* and the one being persisted.
Charged ==
    {c \in Conns : at[c] \in WithBytes} \cup {queue[i] : i \in DOMAIN queue} \cup ({persister.conn} \ {None})

\* The pieces of the service have the forms service.go and receive.go give them, and no
\* limit is exceeded.
TypeOK ==
    /\ at \in [Conns -> {"new", "refused", "backlog", "accepted", "ended"} \cup WithSlot]
    /\ \A c \in Conns : frame[c] \in Kinds[c] \cup {None}
    /\ acked \subseteq Conns
    /\ acceptor.at \in {"accept", "check", "slot", "recheck"}
    /\ slots \in 0..Slots /\ stopped \in BOOLEAN /\ reserved \in 0..Bytes
    /\ queue \in Seq(Conns) /\ Len(queue) <= QueueSize
    /\ listener \in BOOLEAN /\ once \in Conns \cup {None, "main", "cancel", "done"}
    /\ main \in {"accepting", "stop", "cancelled", "drain", "closed", "dead"}
    /\ persister.at \in {"select", "insert", "release", "exit"}
    /\ cancelled \in BOOLEAN /\ stored \subseteq Events /\ errors \in 0..MaxErrors

\* A frame's bytes are charged from its reservation until it is refused, answered,
\* persisted or dropped, once each; a slot is held by exactly the receivers (and by the
\* accept loop for the moment of its second look at stopped).
Accounting ==
    /\ reserved = MapThenSumSet(LAMBDA c : Size[c], Charged)
    /\ slots = Cardinality(Receiving) + (IF acceptor.at = "recheck" THEN 1 ELSE 0)

\* "joining all work before releasing ownership" (service.go:35): when the endpoint is
\* given up no goroutine is left that could touch a database, and nothing is charged.
JoinedBeforeRelease ==
    main = "closed" =>
        /\ Receiving = {} /\ acceptor = Accepting /\ persister.at = "exit" /\ queue = <<>>
        /\ reserved = 0 /\ slots = 0 /\ ~listener

\* "Graceful controls MUST flush their ACK before receiver cancellation" (service.go:101):
\* the shutdown itself never cancels a receiver that has yet to answer a control, and
\* who gets the acknowledgement finds admission stopped and the listener closed.
ShutdownAcknowledged ==
    /\ ReceiversCancelled /\ ~cancelled => \A c \in Conns : at[c] \notin {"stop", "control"}
    /\ \A c \in acked : frame[c] = "shutdown" => stopped /\ ~listener

\* No event is stored after the endpoint is released, and none that was refused, dropped
\* or failed to be inserted is stored later: the writer implements HistoryLog.  (A second
\* insert of an event would change nothing: "ON CONFLICT(event_id) DO NOTHING".)
InFlight(c) ==
    \/ at[c] \in {"new", "backlog", "accepted", "header", "payload"}
    \/ \E i \in DOMAIN queue : queue[i] = c
    \/ persister = [at |-> "insert", conn |-> c]

Log == INSTANCE HistoryLog WITH
           log <- stored,
           lost <- {e \in Events : e \notin stored /\ ~InFlight(e)},
           open <- main \notin {"closed", "dead"}
Implements == Log!Spec

\* Once admission has stopped, for whatever reason, the writer gives up its endpoint.
ShutdownCompletes == stopped ~> main \in {"closed", "dead"}

\* An event that reached the writer is stored or dropped; it does not wait for ever.  (A
\* connection carries one event, so none can come back once it is settled.)
EventsSettle == []<>(\A e \in Events : at[e] = "new" \/ ~InFlight(e))
=============================================================================
