--------------------------- MODULE Notifications ---------------------------
(***************************************************************************)
(* Notifications of one maniud process: Dispatcher of                      *)
(* src/internal/notification/dispatcher.go, the diagnostic sink of         *)
(* src/internal/cli/notification_diagnostic.go, and the order in which     *)
(* src/internal/cli/notification_runtime.go shuts both down.               *)
(*                                                                         *)
(* Publishers call TryPublish; one worker per target takes events from its  *)
(* bounded queue and calls the sender once per event; Close stops admission, *)
(* waits for the workers until its deadline, and then stops the sink.        *)
(* TryPublish and stop exclude each other by an RWMutex: the publishers that *)
(* are queueing hold its read lock, and TryRLock fails as soon as stop waits *)
(* for the write lock.                                                     *)
(*                                                                         *)
(* An event that ignoredApplicationEvent names changes nothing and is left   *)
(* out, and so is the Boolean that TryPublish returns: its callers drop it.  *)
(* TryReport is one step: it holds the read lock of a mutex of the sink's    *)
(* own, and never waits.                                                   *)
(***************************************************************************)
EXTENDS Naturals, Sequences, FiniteSets

CONSTANTS
    Publishers,     \* goroutines that publish application events
    TargetCount,    \* configured targets (bark, telegram), in slice order
    Responsive,     \* the targets whose sender always answers
    QueueDepth,     \* notificationQueueDepth
    SinkDepth,      \* notificationDiagnosticQueueDepth
    MaxEvents       \* bound on the number of TryPublish calls

ASSUME PublishersAssumption == IsFiniteSet(Publishers)
ASSUME CountAssumption == TargetCount \in Nat \ {0}
ASSUME DepthAssumption == QueueDepth \in Nat \ {0} /\ SinkDepth \in Nat \ {0}
ASSUME EventsAssumption == MaxEvents \in Nat
ASSUME ResponsiveAssumption == Responsive \subseteq 1 .. TargetCount

Targets == 1 .. TargetCount

Items == [by : Publishers, no : Nat]

(* What Send may answer; a panic of the sender is an ErrDelivery.           *)
Errors == {"nil", "ErrRejected", "ErrInvalidMessage", "ErrDelivery"}

Reasons == {"invalid", "queueFull", "shutdown"}

VARIABLES
    issued,     \* events for which TryPublish was called
    call,       \* call[p]: where p stands in TryPublish
    accepting,  \* Dispatcher.accepting
    stopWaits,  \* stop has called mutex.Lock and has not yet unlocked
    queue,      \* queue[t]: the buffered channel of target t
    closed,     \* closed[t]: that channel is closed
    worker,     \* worker[t]: where run stands, and its current item
    cancelled,  \* the delivery context is cancelled
    done,       \* Dispatcher.done is closed
    dropped,    \* dropped[t]: targetCounters of t
    sink,       \* notificationDiagnosticSink
    closer,     \* where processNotifications.Close stands
    drained,    \* what Dispatcher.Shutdown returned: nil, or not (yet)
    expired,    \* the context of Close has passed its deadline
    sent,       \* history: the items handed to the sender of t, in order
    settled,    \* history: how many of them were delivered or diagnosed as failed
    cut         \* history: how many queued items t gave up after the cancel

publishVars == <<issued, call>>
targetVars == <<queue, closed, worker, dropped, sent, settled, cut>>
closeVars == <<accepting, stopWaits, closer, drained, expired>>
vars == <<publishVars, targetVars, closeVars, cancelled, done, sink>>

Idle == [state |-> "idle", no |-> 0, at |-> 0]

CallType == [state : {"idle", "queueing", "invalid", "shutdown"}, no : Nat, at : Nat]

WorkerType == [state : {"receive", "send", "record", "done"}, item : Seq(Items), err : Errors]

(* One type invariant: every variable of the dispatcher, its workers and the *)
(* sink keeps its type, and neither queue ever exceeds its buffer.           *)
NotificationsTypeOK ==
    /\ issued \in 0 .. MaxEvents
    /\ call \in [Publishers -> CallType]
    /\ accepting \in BOOLEAN /\ stopWaits \in BOOLEAN
    /\ queue \in [Targets -> Seq(Items)]
    /\ \A t \in Targets : Len(queue[t]) <= QueueDepth
    /\ closed \in [Targets -> BOOLEAN]
    /\ worker \in [Targets -> WorkerType]
    /\ cancelled \in BOOLEAN /\ done \in BOOLEAN
    /\ dropped \in [Targets -> [Reasons -> Nat]]
    /\ sink \in [accepting : BOOLEAN, lines : 0 .. SinkDepth, done : BOOLEAN]
    /\ closer \in {"idle", "stopping", "draining", "stopSink", "drainSink", "returned"}
    /\ drained \in BOOLEAN /\ expired \in BOOLEAN
    /\ sent \in [Targets -> Seq(Items)]
    /\ settled \in [Targets -> Nat] /\ cut \in [Targets -> Nat]

Init ==
    /\ issued = 0
    /\ call = [p \in Publishers |-> Idle]
    /\ accepting = TRUE /\ stopWaits = FALSE
    /\ queue = [t \in Targets |-> <<>>]
    /\ closed = [t \in Targets |-> FALSE]
    /\ worker = [t \in Targets |-> [state |-> "receive", item |-> <<>>, err |-> "nil"]]
    /\ cancelled = FALSE /\ done = FALSE
    /\ dropped = [t \in Targets |-> [r \in Reasons |-> 0]]
    /\ sink = [accepting |-> TRUE, lines |-> 0, done |-> FALSE]
    /\ closer = "idle" /\ drained = FALSE /\ expired = FALSE
    /\ sent = [t \in Targets |-> <<>>]
    /\ settled = [t \in Targets |-> 0] /\ cut = [t \in Targets |-> 0]

-----------------------------------------------------------------------------
(* TryReport: a full or stopped sink refuses the line.                      *)
TryReport ==
    sink' = IF sink.accepting /\ sink.lines < SinkDepth
            THEN [sink EXCEPT !.lines = @ + 1] ELSE sink

(* One drop counter of one target.                                          *)
CountDrop(t, reason) == dropped' = [dropped EXCEPT ![t][reason] = @ + 1]

Readers == {p \in Publishers : call[p].state = "queueing"}

(* TryPublish up to the loop over the targets: an event that cannot be       *)
(* rendered, or that comes during or after stop, is dropped for every        *)
(* target; any other holds the read lock.                                    *)
TryPublish(p, valid) ==
    /\ call[p].state = "idle" /\ issued < MaxEvents
    /\ issued' = issued + 1
    /\ call' = [call EXCEPT ![p] =
         [state |-> IF ~valid THEN "invalid"
                    ELSE IF stopWaits \/ ~accepting THEN "shutdown"
                    ELSE "queueing",
          no |-> issued + 1, at |-> 1]]
    /\ UNCHANGED <<targetVars, closeVars, cancelled, done, sink>>

(* The loop goes to the next target, or TryPublish returns.                 *)
NextTarget(p) ==
    call' = [call EXCEPT ![p] =
               IF call[p].at = TargetCount THEN Idle ELSE [call[p] EXCEPT !.at = @ + 1]]

(* Mutant: a full channel ends the loop and not only its iteration.         *)
QueueStopsAtFull(p) ==
    /\ call[p].state = "queueing"
    /\ LET t == call[p].at IN
         \/ /\ Len(queue[t]) < QueueDepth
            /\ queue' = [queue EXCEPT ![t] = Append(@, [by |-> p, no |-> call[p].no])]
            /\ NextTarget(p) /\ UNCHANGED <<dropped, sink>>
         \/ /\ Len(queue[t]) = QueueDepth
            /\ CountDrop(t, "queueFull") /\ TryReport
            /\ call' = [call EXCEPT ![p] = Idle] /\ UNCHANGED queue
    /\ UNCHANGED <<issued, closed, worker, sent, settled, cut, closeVars, cancelled, done>>

(* Mutant: the send has no default case and waits for room.                 *)
QueueWaits(p) ==
    /\ call[p].state = "queueing" /\ Len(queue[call[p].at]) < QueueDepth
    /\ queue' = [queue EXCEPT ![call[p].at] = Append(@, [by |-> p, no |-> call[p].no])]
    /\ NextTarget(p)
    /\ UNCHANGED <<issued, closed, worker, dropped, sent, settled, cut, closeVars, cancelled, done, sink>>

(* The select of TryPublish: send on the channel if it has room, else drop.  *)
Queue(p) ==
    /\ call[p].state = "queueing"
    /\ LET t == call[p].at IN
         \/ /\ Len(queue[t]) < QueueDepth
            /\ queue' = [queue EXCEPT ![t] = Append(@, [by |-> p, no |-> call[p].no])]
            /\ UNCHANGED <<dropped, sink>>
         \/ /\ Len(queue[t]) = QueueDepth
            /\ CountDrop(t, "queueFull") /\ TryReport
            /\ UNCHANGED queue
    /\ NextTarget(p)
    /\ UNCHANGED <<issued, closed, worker, sent, settled, cut, closeVars, cancelled, done>>

(* One iteration of dropAll.                                                *)
DropAll(p) ==
    /\ call[p].state \in {"invalid", "shutdown"}
    /\ CountDrop(call[p].at, call[p].state) /\ TryReport
    /\ NextTarget(p)
    /\ UNCHANGED <<issued, queue, closed, worker, sent, settled, cut, closeVars, cancelled, done>>

-----------------------------------------------------------------------------
(* Mutant: the workers share one sender, so that only one sends at a time.   *)
ReceiveInTurn(t) ==
    /\ worker[t].state = "receive" /\ queue[t] # <<>>
    /\ \A u \in Targets : worker[u].state # "send"
    /\ queue' = [queue EXCEPT ![t] = Tail(@)]
    /\ worker' = [worker EXCEPT ![t] = [state |-> "send", item |-> <<Head(queue[t])>>, err |-> "nil"]]
    /\ sent' = [sent EXCEPT ![t] = Append(@, Head(queue[t]))]
    /\ UNCHANGED <<publishVars, closed, settled, cut, dropped, closeVars, cancelled, done, sink>>

(* run takes the next item; after the cancel it only counts it.             *)
Receive(t) ==
    /\ worker[t].state = "receive" /\ queue[t] # <<>>
    /\ queue' = [queue EXCEPT ![t] = Tail(@)]
    /\ \/ /\ cancelled
          /\ cut' = [cut EXCEPT ![t] = @ + 1]
          /\ CountDrop(t, "shutdown") /\ TryReport
          /\ UNCHANGED <<worker, sent>>
       \/ /\ ~cancelled
          /\ worker' = [worker EXCEPT ![t] = [state |-> "send", item |-> <<Head(queue[t])>>, err |-> "nil"]]
          /\ sent' = [sent EXCEPT ![t] = Append(@, Head(queue[t]))]
          /\ UNCHANGED <<cut, dropped, sink>>
    /\ UNCHANGED <<publishVars, closed, settled, closeVars, cancelled, done>>

(* sendNotification returns: the service answered, or the request timed out  *)
(* or was cancelled.                                                        *)
Send(t, err) ==
    /\ worker[t].state = "send"
    /\ worker' = [worker EXCEPT ![t] = [worker[t] EXCEPT !.state = "record", !.err = err]]
    /\ UNCHANGED <<publishVars, queue, closed, dropped, sent, settled, cut, closeVars, cancelled, done, sink>>

(* Mutant: a failed delivery goes back to the end of the queue.             *)
RecordResultRequeues(t) ==
    /\ worker[t].state = "record"
    /\ worker' = [worker EXCEPT ![t] = [state |-> "receive", item |-> <<>>, err |-> "nil"]]
    /\ \/ /\ worker[t].err = "ErrDelivery" /\ ~closed[t] /\ Len(queue[t]) < QueueDepth
          /\ queue' = [queue EXCEPT ![t] = @ \o worker[t].item]
          /\ UNCHANGED settled
       \/ settled' = [settled EXCEPT ![t] = @ + 1] /\ UNCHANGED queue
    /\ UNCHANGED <<publishVars, closed, dropped, sent, cut, closeVars, cancelled, done, sink>>

(* recordResult looks at the context only now: a failure that came before    *)
(* the cancel may be counted as a shutdown drop.                             *)
RecordResult(t) ==
    /\ worker[t].state = "record"
    /\ worker' = [worker EXCEPT ![t] = [state |-> "receive", item |-> <<>>, err |-> "nil"]]
    /\ \/ /\ worker[t].err = "nil"
          /\ settled' = [settled EXCEPT ![t] = @ + 1]
          /\ UNCHANGED <<dropped, cut, sink>>
       \/ /\ worker[t].err # "nil" /\ cancelled
          /\ cut' = [cut EXCEPT ![t] = @ + 1]
          /\ CountDrop(t, "shutdown") /\ TryReport
          /\ UNCHANGED settled
       \/ /\ worker[t].err = "ErrInvalidMessage" /\ ~cancelled
          /\ CountDrop(t, "invalid") /\ TryReport
          /\ UNCHANGED <<settled, cut>>
       \/ /\ worker[t].err \in {"ErrRejected", "ErrDelivery"} /\ ~cancelled
          /\ settled' = [settled EXCEPT ![t] = @ + 1]
          /\ TryReport
          /\ UNCHANGED <<dropped, cut>>
    /\ UNCHANGED <<publishVars, queue, closed, sent, closeVars, cancelled, done>>

(* The range over the closed and empty channel ends.                        *)
WorkerReturns(t) ==
    /\ worker[t].state = "receive" /\ queue[t] = <<>> /\ closed[t]
    /\ worker' = [worker EXCEPT ![t].state = "done"]
    /\ UNCHANGED <<publishVars, queue, closed, dropped, sent, settled, cut, closeVars, cancelled, done, sink>>

(* The goroutine of newDispatcherWith that waits for the workers.           *)
WorkersWaited ==
    /\ ~done /\ \A t \in Targets : worker[t].state = "done"
    /\ cancelled' = TRUE /\ done' = TRUE
    /\ UNCHANGED <<publishVars, targetVars, closeVars, sink>>

-----------------------------------------------------------------------------
(* Close starts its deadline and stop asks for the write lock.              *)
Close ==
    /\ closer = "idle"
    /\ closer' = "stopping" /\ stopWaits' = TRUE
    /\ UNCHANGED <<publishVars, targetVars, accepting, drained, expired, cancelled, done, sink>>

(* Mutant: stop does not take the lock.                                     *)
StopUnlocked ==
    /\ closer = "stopping"
    /\ accepting' = FALSE /\ stopWaits' = FALSE
    /\ closed' = [t \in Targets |-> TRUE]
    /\ closer' = "draining"
    /\ UNCHANGED <<publishVars, queue, worker, dropped, sent, settled, cut, drained, expired, cancelled, done, sink>>

(* stop holds the write lock: no publisher is in its loop.                  *)
Stop ==
    /\ closer = "stopping" /\ Readers = {}
    /\ accepting' = FALSE /\ stopWaits' = FALSE
    /\ closed' = [t \in Targets |-> TRUE]
    /\ closer' = "draining"
    /\ UNCHANGED <<publishVars, queue, worker, dropped, sent, settled, cut, drained, expired, cancelled, done, sink>>

(* The context of Close expires.                                            *)
Deadline ==
    /\ closer \notin {"idle", "returned"} /\ ~expired
    /\ expired' = TRUE
    /\ UNCHANGED <<publishVars, targetVars, accepting, stopWaits, closer, drained, cancelled, done, sink>>

(* Mutant: Shutdown waits for the workers only.                             *)
ShutdownWaits ==
    /\ closer = "draining" /\ done
    /\ drained' = TRUE /\ closer' = "stopSink"
    /\ UNCHANGED <<publishVars, targetVars, accepting, stopWaits, expired, cancelled, done, sink>>

(* The select of Dispatcher.Shutdown: with both channels ready either case   *)
(* may be taken.                                                            *)
Shutdown ==
    /\ closer = "draining"
    /\ \/ done /\ drained' = TRUE /\ UNCHANGED cancelled
       \/ expired /\ cancelled' = TRUE /\ UNCHANGED drained
    /\ closer' = "stopSink"
    /\ UNCHANGED <<publishVars, targetVars, accepting, stopWaits, expired, done, sink>>

(* notificationDiagnosticSink.Shutdown stops the sink ...                   *)
StopSink ==
    /\ closer = "stopSink"
    /\ sink' = [sink EXCEPT !.accepting = FALSE]
    /\ closer' = "drainSink"
    /\ UNCHANGED <<publishVars, targetVars, accepting, stopWaits, drained, expired, cancelled, done>>

(* ... and waits for its writer, or not.                                    *)
DrainSink ==
    /\ closer = "drainSink"
    /\ sink.done \/ expired
    /\ closer' = "returned"
    /\ UNCHANGED <<publishVars, targetVars, accepting, stopWaits, drained, expired, cancelled, done, sink>>

(* The writer of the sink takes a line, or finds its channel closed.        *)
WriteLine ==
    /\ \/ sink.lines > 0 /\ sink' = [sink EXCEPT !.lines = @ - 1]
       \/ sink.lines = 0 /\ ~sink.accepting /\ ~sink.done /\ sink' = [sink EXCEPT !.done = TRUE]
    /\ UNCHANGED <<publishVars, targetVars, closeVars, cancelled, done>>

-----------------------------------------------------------------------------
PublisherStep(p) == (\E valid \in BOOLEAN : TryPublish(p, valid)) \/ Queue(p) \/ DropAll(p)

WorkerStep(t) ==
    \/ Receive(t)
    \/ \E err \in Errors : Send(t, err)
    \/ RecordResult(t)
    \/ WorkerReturns(t)

CloserStep == Close \/ Stop \/ Deadline \/ Shutdown \/ StopSink \/ DrainSink

Next ==
    \/ \E p \in Publishers : PublisherStep(p)
    \/ \E t \in Targets : WorkerStep(t)
    \/ WorkersWaited
    \/ CloserStep
    \/ WriteLine

Spec == Init /\ [][Next]_vars

(* A goroutine that can take a step takes it: the loop of TryPublish, Close  *)
(* once it was called, its deadline, and the workers of the targets whose    *)
(* sender answers.  Nothing is assumed of the other targets, of the writer   *)
(* of the diagnostics, or of how often events are published.                 *)
FairSpec ==
    /\ Spec
    /\ \A p \in Publishers : WF_vars(Queue(p) \/ DropAll(p))
    /\ \A t \in Responsive : WF_vars(WorkerStep(t))
    /\ WF_vars(Stop) /\ WF_vars(Deadline)
    /\ WF_vars(Shutdown \/ StopSink \/ DrainSink)

-----------------------------------------------------------------------------
(* TryPublish never sends on a channel that stop has closed, which would     *)
(* panic: while a publisher is in its loop the channels stay open.           *)
NoSendOnClosed ==
    \A p \in Readers : \A t \in Targets : ~closed[t]

TargetDrops(t) == dropped[t]["invalid"] + dropped[t]["queueFull"] + dropped[t]["shutdown"]

(* Every published event is, for every target, exactly one of: still to be   *)
(* offered by its publisher, queued, with the sender, settled, or counted by *)
(* DroppedEvents: nothing is lost silently and nothing is counted twice,     *)
(* whichever way publishers, workers and shutdown interleave.                *)
EveryEventAccounted ==
    \A t \in Targets :
        issued = Cardinality({p \in Publishers : call[p].at \in 1 .. t})
                 + Len(queue[t]) + (IF worker[t].state \in {"send", "record"} THEN 1 ELSE 0)
                 + settled[t] + TargetDrops(t)

(* A target gets the events of one publisher in the order of the calls, and  *)
(* none of them twice.                                                       *)
PublisherOrderKept ==
    \A t \in Targets :
        LET all == sent[t] \o queue[t]
        IN  \A i, j \in 1 .. Len(all) :
                i < j /\ all[i].by = all[j].by => all[i].no < all[j].no

(* A queued event is given up only when the deadline of Close has passed     *)
(* before the workers were through: if Shutdown returned nil, every queued    *)
(* event was handed to its sender and its result recorded.                   *)
GivesUpOnlyAfterDeadline ==
    (\E t \in Targets : cut[t] > 0) => expired /\ ~drained

(* Close stops the dispatcher before the sink, so that the diagnostics of    *)
(* the last deliveries are not refused: until its deadline the sink accepts   *)
(* for as long as a worker may report.                                       *)
SinkOutlivesWorkers ==
    ~sink.accepting /\ ~expired => \A t \in Targets : worker[t].state = "done"

(* TryPublish returns whatever the senders, the sink and Close do.           *)
PublishReturns == \A p \in Publishers : call[p].state # "idle" ~> call[p].state = "idle"

(* Close returns although no sender, and no writer of diagnostics, answers.  *)
CloseReturns == closer # "idle" ~> closer = "returned"

(* A target that does not answer delays no other: an event queued for a      *)
(* responsive target leaves its queue.                                       *)
TargetsIsolated ==
    \A t \in Responsive : \A p \in Publishers : \A n \in 1 .. MaxEvents :
        LET queued == \E i \in 1 .. Len(queue[t]) : queue[t][i] = [by |-> p, no |-> n]
        IN  queued ~> ~queued

(* Neither a publisher nor Close waits for a sender or a writer for ever.    *)
NobodyWaits == PublishReturns /\ CloseReturns
=============================================================================
