------------------------ MODULE NotificationsProofs ------------------------
(***************************************************************************)
(* Safety of the notification dispatcher for any number of publishers,      *)
(* targets, events and queue depths.                                        *)
(*                                                                         *)
(* The argument is a chain along the life of Close.  Before Stop nothing is  *)
(* closed; Stop runs without readers, and TryPublish admits no reader once    *)
(* stop waits, so from Stop on there is none.  A worker is done only with an  *)
(* empty closed channel, which then stays empty; the waiting goroutine        *)
(* closes done only after all of them; and the delivery context is cancelled  *)
(* only then, or by a Shutdown that met its deadline.                        *)
(***************************************************************************)
EXTENDS Notifications, FiniteSetTheorems, TLAPS

(* A publisher inside TryPublish stands at one of the targets.              *)
CallsAtTargets ==
    \A p \in Publishers : call[p].state # "idle" => call[p].at \in Targets

Stopped == closer \notin {"idle", "stopping"}
PastShutdown == closer \in {"stopSink", "drainSink", "returned"}

(* What the phase of Close says of the mutex, the channels and the readers. *)
PhaseOfStop ==
    /\ stopWaits <=> closer = "stopping"
    /\ accepting <=> ~Stopped
    /\ \A t \in Targets : closed[t] => Stopped
    /\ Stopped => Readers = {}

(* What a finished worker, a closed done channel and a cancel mean.         *)
PhaseOfWorkers ==
    /\ \A t \in Targets : worker[t].state = "done" => queue[t] = <<>> /\ Stopped
    /\ done => \A t \in Targets : worker[t].state = "done"
    /\ cancelled /\ ~done => expired /\ PastShutdown
    /\ \A t \in Targets : cut[t] > 0 => expired /\ PastShutdown /\ ~drained

(* What the phase of Close says of its result and of the sink.              *)
PhaseOfSink ==
    /\ drained => done /\ PastShutdown
    /\ PastShutdown => drained \/ expired
    /\ ~sink.accepting => PastShutdown

(* The inductive invariant.                                                 *)
NotificationsInv ==
    /\ NotificationsTypeOK
    /\ CallsAtTargets
    /\ PhaseOfStop
    /\ PhaseOfWorkers
    /\ PhaseOfSink

USE CountAssumption, DepthAssumption, EventsAssumption DEF Targets

LEMMA InitInv == Init => NotificationsInv
  <1> SUFFICES ASSUME Init PROVE NotificationsInv
    OBVIOUS
  <1>a. call \in [Publishers -> CallType]
    BY DEF Init, CallType, Idle
  <1>b. worker \in [Targets -> WorkerType]
    BY DEF Init, WorkerType, Errors
  <1>c. /\ queue \in [Targets -> Seq(Items)] /\ sent \in [Targets -> Seq(Items)]
        /\ \A t \in Targets : Len(queue[t]) <= QueueDepth
    BY DEF Init
  <1>d. dropped \in [Targets -> [Reasons -> Nat]]
    BY DEF Init
  <1>e. closed \in [Targets -> BOOLEAN]
    BY DEF Init
  <1>f. sink \in [accepting : BOOLEAN, lines : 0 .. SinkDepth, done : BOOLEAN]
    BY DEF Init
  <1>g. settled \in [Targets -> Nat] /\ cut \in [Targets -> Nat] /\ issued \in 0 .. MaxEvents
    BY DEF Init
  <1>h. /\ accepting \in BOOLEAN /\ stopWaits \in BOOLEAN /\ cancelled \in BOOLEAN
        /\ done \in BOOLEAN /\ drained \in BOOLEAN /\ expired \in BOOLEAN
        /\ closer \in {"idle", "stopping", "draining", "stopSink", "drainSink", "returned"}
    BY DEF Init
  <1>1. NotificationsTypeOK
    BY <1>a, <1>b, <1>c, <1>d, <1>e, <1>f, <1>g, <1>h DEF NotificationsTypeOK
  <1>2. CallsAtTargets /\ PhaseOfStop /\ PhaseOfWorkers /\ PhaseOfSink
    BY DEF Init, CallsAtTargets, PhaseOfStop, PhaseOfWorkers, PhaseOfSink, Stopped, PastShutdown, Readers, Idle
  <1> QED BY <1>1, <1>2 DEF NotificationsInv

(* A function updated at one point of its domain.                           *)
LEMMA Updated ==
  ASSUME NEW S, NEW R, NEW f \in [S -> R], NEW x \in S, NEW v \in R
  PROVE  /\ [f EXCEPT ![x] = v] \in [S -> R]
         /\ [f EXCEPT ![x] = v][x] = v
         /\ \A y \in S : y # x => [f EXCEPT ![x] = v][y] = f[y]
  OBVIOUS

(* The loop of TryPublish keeps the type of call and stays at the targets.   *)
LEMMA NextTargetStep ==
  ASSUME NEW p \in Publishers, call \in [Publishers -> CallType], CallsAtTargets,
         call[p].state # "idle", NextTarget(p)
  PROVE  /\ call' \in [Publishers -> CallType]
         /\ CallsAtTargets'
         /\ \A q \in Publishers : call'[q].state = "queueing" => call[q].state = "queueing"
  <1> DEFINE c == IF call[p].at = TargetCount THEN Idle ELSE [call[p] EXCEPT !.at = @ + 1]
  <1>1. call[p] \in CallType /\ call[p].at \in Targets
    BY DEF CallsAtTargets
  <1>2. /\ c \in CallType
        /\ c.state # "idle" => c.at \in Targets
        /\ c.state = "queueing" => call[p].state = "queueing"
    BY <1>1 DEF CallType, Idle
  <1>3. call' = [call EXCEPT ![p] = c]
    BY DEF NextTarget
  <1> HIDE DEF c
  <1> QED BY <1>2, <1>3 DEF CallsAtTargets

(* A report and a drop keep the types of the sink and of the counters.       *)
LEMMA ReportStep ==
  ASSUME sink \in [accepting : BOOLEAN, lines : 0 .. SinkDepth, done : BOOLEAN], TryReport
  PROVE  /\ sink' \in [accepting : BOOLEAN, lines : 0 .. SinkDepth, done : BOOLEAN]
         /\ sink'.accepting = sink.accepting
  BY DEF TryReport

LEMMA CountDropStep ==
  ASSUME dropped \in [Targets -> [Reasons -> Nat]], NEW t \in Targets, NEW r \in Reasons, CountDrop(t, r)
  PROVE  dropped' \in [Targets -> [Reasons -> Nat]]
  BY DEF CountDrop

LEMMA StepInv == NotificationsInv /\ [Next]_vars => NotificationsInv'
  <1> SUFFICES ASSUME NotificationsInv, [Next]_vars PROVE NotificationsInv'
    OBVIOUS
  <1> USE DEF NotificationsInv
  <1>1. ASSUME NEW p \in Publishers, NEW valid \in BOOLEAN, TryPublish(p, valid) PROVE NotificationsInv'
    <2>s. call' \in [Publishers -> CallType] /\ issued' \in 0 .. MaxEvents
      BY <1>1 DEF TryPublish, NotificationsTypeOK, CallType
    <2>1. NotificationsTypeOK'
      BY <1>1, <2>s, ZenonT(60) DEF TryPublish, NotificationsTypeOK, publishVars, targetVars, closeVars, CallType
    <2>2. CallsAtTargets'
      BY <1>1, <2>s DEF TryPublish, CallsAtTargets, publishVars, targetVars, closeVars
    <2>3. PhaseOfStop'
      BY <1>1, <2>s DEF TryPublish, NotificationsTypeOK, PhaseOfStop, Stopped, Readers, publishVars, targetVars, closeVars
    <2>4. PhaseOfWorkers'
      BY <1>1, <2>s DEF TryPublish, NotificationsTypeOK, PhaseOfStop, PhaseOfWorkers, PhaseOfSink, Stopped, PastShutdown, Readers, publishVars, targetVars, closeVars
    <2>5. PhaseOfSink'
      BY <1>1, <2>s DEF TryPublish, NotificationsTypeOK, PhaseOfSink, PhaseOfWorkers, PastShutdown, publishVars, targetVars, closeVars
    <2> QED BY <2>1, <2>2, <2>3, <2>4, <2>5 DEF NotificationsInv
  <1>2. ASSUME NEW p \in Publishers, Queue(p) PROVE NotificationsInv'
    <2>t. call[p].at \in Targets /\ call[p].state # "idle" /\ "queueFull" \in Reasons
      BY <1>2 DEF Queue, CallsAtTargets, Reasons
    <2>0. /\ call' \in [Publishers -> CallType] /\ CallsAtTargets'
          /\ \A q \in Publishers : call'[q].state = "queueing" => call[q].state = "queueing"
          /\ dropped' \in [Targets -> [Reasons -> Nat]]
          /\ sink' \in [accepting : BOOLEAN, lines : 0 .. SinkDepth, done : BOOLEAN]
          /\ sink'.accepting = sink.accepting
          /\ [by |-> p, no |-> call[p].no] \in Items
      BY <1>2, <2>t, NextTargetStep, CountDropStep, ReportStep DEF Queue, NotificationsTypeOK, Items, CallType
    <2>s. /\ queue' \in [Targets -> Seq(Items)]
          /\ \A u \in Targets : Len(queue'[u]) <= QueueDepth
      <3> DEFINE t == call[p].at
                 i == [by |-> p, no |-> call[p].no]
      <3>0. t \in Targets
        BY <2>t
      <3>1. queue[t] \in Seq(Items) /\ Len(queue[t]) <= QueueDepth /\ Len(queue[t]) \in Nat
        BY <2>t DEF NotificationsTypeOK
      <3>2. Append(queue[t], i) \in Seq(Items) /\ Len(Append(queue[t], i)) = Len(queue[t]) + 1
        BY <2>0, <3>1
      <3>3. \/ queue' = queue
            \/ queue' = [queue EXCEPT ![t] = Append(queue[t], i)] /\ Len(queue[t]) < QueueDepth
        BY <1>2 DEF Queue
      <3> HIDE DEF t, i
      <3>4. queue \in [Targets -> Seq(Items)] /\ \A u \in Targets : Len(queue[u]) <= QueueDepth
        BY DEF NotificationsTypeOK
      <3>5. CASE queue' = [queue EXCEPT ![t] = Append(queue[t], i)] /\ Len(queue[t]) < QueueDepth
        <4>1. /\ queue' \in [Targets -> Seq(Items)]
              /\ queue'[t] = Append(queue[t], i)
              /\ \A u \in Targets : u # t => queue'[u] = queue[u]
          BY <3>0, <3>2, <3>4, <3>5, Updated
        <4>2. Len(queue'[t]) <= QueueDepth
          BY <3>1, <3>2, <3>5, <4>1
        <4> QED BY <3>0, <3>4, <4>1, <4>2
      <3> QED BY <3>3, <3>4, <3>5
    <2>1. NotificationsTypeOK'
      BY <1>2, <2>0, <2>s DEF Queue, NotificationsTypeOK, publishVars, targetVars, closeVars
    <2>2. CallsAtTargets'
      BY <1>2, <2>0, <2>s DEF Queue, CallsAtTargets, publishVars, targetVars, closeVars
    <2>3. PhaseOfStop'
      BY <1>2, <2>0, <2>s DEF Queue, NotificationsTypeOK, PhaseOfStop, Stopped, Readers, publishVars, targetVars, closeVars
    <2>4. PhaseOfWorkers'
      BY <1>2, <2>0, <2>s DEF Queue, NotificationsTypeOK, PhaseOfStop, PhaseOfWorkers, PhaseOfSink, Stopped, PastShutdown, Readers, publishVars, targetVars, closeVars
    <2>5. PhaseOfSink'
      BY <1>2, <2>0, <2>s DEF Queue, NotificationsTypeOK, PhaseOfSink, PhaseOfWorkers, PastShutdown, publishVars, targetVars, closeVars
    <2> QED BY <2>1, <2>2, <2>3, <2>4, <2>5 DEF NotificationsInv
  <1>3. ASSUME NEW p \in Publishers, DropAll(p) PROVE NotificationsInv'
    <2>t. call[p].at \in Targets /\ call[p].state # "idle" /\ call[p].state \in Reasons
      BY <1>3 DEF DropAll, CallsAtTargets, Reasons
    <2>0. /\ call' \in [Publishers -> CallType] /\ CallsAtTargets'
          /\ \A q \in Publishers : call'[q].state = "queueing" => call[q].state = "queueing"
          /\ dropped' \in [Targets -> [Reasons -> Nat]]
          /\ sink' \in [accepting : BOOLEAN, lines : 0 .. SinkDepth, done : BOOLEAN]
          /\ sink'.accepting = sink.accepting
      BY <1>3, <2>t, NextTargetStep, CountDropStep, ReportStep DEF DropAll, NotificationsTypeOK
    <2>1. NotificationsTypeOK'
      BY <1>3, <2>0 DEF DropAll, NotificationsTypeOK, publishVars, targetVars, closeVars
    <2>2. CallsAtTargets'
      BY <1>3, <2>0 DEF DropAll, CallsAtTargets, publishVars, targetVars, closeVars
    <2>3. PhaseOfStop'
      BY <1>3, <2>0 DEF DropAll, NotificationsTypeOK, PhaseOfStop, Stopped, Readers, publishVars, targetVars, closeVars
    <2>4. PhaseOfWorkers'
      BY <1>3, <2>0 DEF DropAll, NotificationsTypeOK, PhaseOfStop, PhaseOfWorkers, PhaseOfSink, Stopped, PastShutdown, Readers, publishVars, targetVars, closeVars
    <2>5. PhaseOfSink'
      BY <1>3, <2>0 DEF DropAll, NotificationsTypeOK, PhaseOfSink, PhaseOfWorkers, PastShutdown, publishVars, targetVars, closeVars
    <2> QED BY <2>1, <2>2, <2>3, <2>4, <2>5 DEF NotificationsInv
  <1>4. ASSUME NEW t \in Targets, Receive(t) PROVE NotificationsInv'
    <2>0. /\ dropped' \in [Targets -> [Reasons -> Nat]]
          /\ sink' \in [accepting : BOOLEAN, lines : 0 .. SinkDepth, done : BOOLEAN]
          /\ sink'.accepting = sink.accepting
      BY <1>4, CountDropStep, ReportStep DEF Receive, NotificationsTypeOK, Reasons
    <2>r. /\ queue[t] \in Seq(Items) /\ Len(queue[t]) <= QueueDepth /\ queue[t] # <<>>
          /\ worker[t] \in WorkerType /\ worker[t].state = "receive"
      BY <1>4 DEF Receive, NotificationsTypeOK
    <2>q. /\ Head(queue[t]) \in Items /\ Tail(queue[t]) \in Seq(Items)
          /\ Len(Tail(queue[t])) <= QueueDepth
      BY <2>r
    <2>v. [state |-> "send", item |-> <<Head(queue[t])>>, err |-> "nil"] \in WorkerType
      BY <2>q DEF WorkerType, Errors
    <2>w. /\ worker' \in [Targets -> WorkerType]
          /\ \A u \in Targets : worker'[u].state = "done" => worker[u].state = "done" /\ u # t
      <3> DEFINE w == [state |-> "send", item |-> <<Head(queue[t])>>, err |-> "nil"]
      <3>1. worker' = worker \/ worker' = [worker EXCEPT ![t] = w]
        BY <1>4 DEF Receive
      <3>2. w \in WorkerType /\ w.state = "send" /\ worker \in [Targets -> WorkerType]
        BY <2>v DEF NotificationsTypeOK
      <3> HIDE DEF w
      <3>3. CASE worker' = [worker EXCEPT ![t] = w]
        BY <3>2, <3>3
      <3> QED BY <2>r, <3>1, <3>2, <3>3
    <2>u. /\ queue' \in [Targets -> Seq(Items)]
          /\ \A u \in Targets : Len(queue'[u]) <= QueueDepth
          /\ \A u \in Targets : u # t => queue'[u] = queue[u]
      BY <1>4, <2>r, <2>q DEF Receive, NotificationsTypeOK
    <2>x. sent' \in [Targets -> Seq(Items)]
      <3>1. Append(sent[t], Head(queue[t])) \in Seq(Items)
        BY <2>q DEF NotificationsTypeOK
      <3> QED BY <1>4, <3>1 DEF Receive, NotificationsTypeOK
    <2>y. cut' \in [Targets -> Nat]
      <3>1. cut' = cut \/ cut' = [cut EXCEPT ![t] = cut[t] + 1]
        BY <1>4 DEF Receive
      <3>2. cut \in [Targets -> Nat] /\ cut[t] + 1 \in Nat
        BY <1>4 DEF NotificationsTypeOK
      <3> QED BY <3>1, <3>2, Updated
    <2>s. /\ worker' \in [Targets -> WorkerType] /\ queue' \in [Targets -> Seq(Items)]
          /\ \A u \in Targets : Len(queue'[u]) <= QueueDepth
          /\ \A u \in Targets : u # t => queue'[u] = queue[u]
          /\ \A u \in Targets : worker'[u].state = "done" => worker[u].state = "done" /\ u # t
          /\ sent' \in [Targets -> Seq(Items)] /\ cut' \in [Targets -> Nat]
      BY <2>w, <2>u, <2>x, <2>y
    <2>d. ~done
      BY <1>4 DEF Receive, PhaseOfWorkers
    <2>1. NotificationsTypeOK'
      BY <1>4, <2>0, <2>s DEF Receive, NotificationsTypeOK, publishVars, targetVars, closeVars, WorkerType, Errors
    <2>2. CallsAtTargets'
      BY <1>4, <2>0, <2>s DEF Receive, CallsAtTargets, publishVars, targetVars, closeVars
    <2>3. PhaseOfStop'
      BY <1>4 DEF Receive, NotificationsTypeOK, PhaseOfStop, Stopped, Readers, publishVars, targetVars, closeVars
    <2>4. PhaseOfWorkers'
      BY <1>4, <2>0, <2>s DEF Receive, NotificationsTypeOK, PhaseOfStop, PhaseOfWorkers, PhaseOfSink, Stopped, PastShutdown, Readers, publishVars, targetVars, closeVars
    <2>5. PhaseOfSink'
      BY <1>4, <2>0, <2>s DEF Receive, NotificationsTypeOK, PhaseOfSink, PhaseOfWorkers, PastShutdown, publishVars, targetVars, closeVars
    <2> QED BY <2>1, <2>2, <2>3, <2>4, <2>5 DEF NotificationsInv
  <1>5. ASSUME NEW t \in Targets, NEW err \in Errors, Send(t, err) PROVE NotificationsInv'
    <2>r. worker[t] \in WorkerType
      BY <1>5 DEF NotificationsTypeOK
    <2>v. /\ [worker[t] EXCEPT !.state = "record", !.err = err] \in WorkerType
          /\ [worker[t] EXCEPT !.state = "record", !.err = err].state = "record"
      BY <1>5, <2>r DEF WorkerType
    <2>s. /\ worker' \in [Targets -> WorkerType]
          /\ \A u \in Targets : worker'[u].state = "done" => worker[u].state = "done" /\ u # t
      BY <1>5, <2>v DEF Send, NotificationsTypeOK
    <2>1. NotificationsTypeOK'
      BY <1>5, <2>s DEF Send, NotificationsTypeOK, publishVars, targetVars, closeVars, WorkerType, Errors
    <2>2. CallsAtTargets'
      BY <1>5, <2>s DEF Send, CallsAtTargets, publishVars, targetVars, closeVars
    <2>3. PhaseOfStop'
      BY <1>5, <2>s DEF Send, NotificationsTypeOK, PhaseOfStop, Stopped, Readers, publishVars, targetVars, closeVars
    <2>4. PhaseOfWorkers'
      BY <1>5, <2>s DEF Send, NotificationsTypeOK, PhaseOfStop, PhaseOfWorkers, PhaseOfSink, Stopped, PastShutdown, Readers, publishVars, targetVars, closeVars
    <2>5. PhaseOfSink'
      BY <1>5, <2>s DEF Send, NotificationsTypeOK, PhaseOfSink, PhaseOfWorkers, PastShutdown, publishVars, targetVars, closeVars
    <2> QED BY <2>1, <2>2, <2>3, <2>4, <2>5 DEF NotificationsInv
  <1>6. ASSUME NEW t \in Targets, RecordResult(t) PROVE NotificationsInv'
    <2>0. /\ dropped' \in [Targets -> [Reasons -> Nat]]
          /\ sink' \in [accepting : BOOLEAN, lines : 0 .. SinkDepth, done : BOOLEAN]
          /\ sink'.accepting = sink.accepting
      BY <1>6, CountDropStep, ReportStep DEF RecordResult, NotificationsTypeOK, Reasons
    <2>v. [state |-> "receive", item |-> <<>>, err |-> "nil"] \in WorkerType
      BY DEF WorkerType, Errors
    <2>w. /\ worker' \in [Targets -> WorkerType]
          /\ \A u \in Targets : worker'[u].state = "done" => worker[u].state = "done" /\ u # t
      BY <1>6, <2>v DEF RecordResult, NotificationsTypeOK
    <2>x. settled' \in [Targets -> Nat] /\ cut' \in [Targets -> Nat]
      <3>1. /\ cut' = cut \/ cut' = [cut EXCEPT ![t] = cut[t] + 1]
            /\ settled' = settled \/ settled' = [settled EXCEPT ![t] = settled[t] + 1]
        BY <1>6 DEF RecordResult
      <3>2. cut \in [Targets -> Nat] /\ settled \in [Targets -> Nat]
        BY DEF NotificationsTypeOK
      <3>3. cut' \in [Targets -> Nat]
        BY <1>6, <3>1, <3>2
      <3>4. settled' \in [Targets -> Nat]
        BY <1>6, <3>1, <3>2
      <3> QED BY <3>3, <3>4
    <2>s. /\ worker' \in [Targets -> WorkerType]
          /\ \A u \in Targets : worker'[u].state = "done" => worker[u].state = "done" /\ u # t
          /\ settled' \in [Targets -> Nat] /\ cut' \in [Targets -> Nat]
      BY <2>w, <2>x
    <2>1. NotificationsTypeOK'
      BY <1>6, <2>0, <2>s DEF RecordResult, NotificationsTypeOK, publishVars, targetVars, closeVars, WorkerType, Errors
    <2>2. CallsAtTargets'
      BY <1>6, <2>0, <2>s DEF RecordResult, CallsAtTargets, publishVars, targetVars, closeVars
    <2>3. PhaseOfStop'
      BY <1>6, <2>0, <2>s DEF RecordResult, NotificationsTypeOK, PhaseOfStop, Stopped, Readers, publishVars, targetVars, closeVars
    <2>4. PhaseOfWorkers'
      BY <1>6, <2>0, <2>s DEF RecordResult, NotificationsTypeOK, PhaseOfStop, PhaseOfWorkers, PhaseOfSink, Stopped, PastShutdown, Readers, publishVars, targetVars, closeVars
    <2>5. PhaseOfSink'
      BY <1>6, <2>0, <2>s DEF RecordResult, NotificationsTypeOK, PhaseOfSink, PhaseOfWorkers, PastShutdown, publishVars, targetVars, closeVars
    <2> QED BY <2>1, <2>2, <2>3, <2>4, <2>5 DEF NotificationsInv
  <1>7. ASSUME NEW t \in Targets, WorkerReturns(t) PROVE NotificationsInv'
    <2>r. worker[t] \in WorkerType
      BY <1>7 DEF NotificationsTypeOK
    <2>v. [worker[t] EXCEPT !.state = "done"] \in WorkerType
      BY <2>r DEF WorkerType
    <2>s. worker' \in [Targets -> WorkerType]
      BY <1>7, <2>v DEF WorkerReturns, NotificationsTypeOK
    <2>1. NotificationsTypeOK'
      BY <1>7, <2>s, ZenonT(60) DEF WorkerReturns, NotificationsTypeOK, publishVars, targetVars, closeVars
    <2>2. CallsAtTargets'
      BY <1>7 DEF WorkerReturns, CallsAtTargets, publishVars, targetVars, closeVars
    <2>3. PhaseOfStop'
      BY <1>7 DEF WorkerReturns, NotificationsTypeOK, PhaseOfStop, Stopped, Readers, publishVars, targetVars, closeVars
    <2>4. PhaseOfWorkers'
      BY <1>7 DEF WorkerReturns, NotificationsTypeOK, PhaseOfStop, PhaseOfWorkers, PhaseOfSink, Stopped, PastShutdown, Readers, publishVars, targetVars, closeVars
    <2>5. PhaseOfSink'
      BY <1>7 DEF WorkerReturns, NotificationsTypeOK, PhaseOfSink, PhaseOfWorkers, PastShutdown, publishVars, targetVars, closeVars
    <2> QED BY <2>1, <2>2, <2>3, <2>4, <2>5 DEF NotificationsInv
  <1>8. ASSUME WorkersWaited PROVE NotificationsInv'
    <2>1. NotificationsTypeOK'
      BY <1>8 DEF WorkersWaited, NotificationsTypeOK, publishVars, targetVars, closeVars
    <2>2. CallsAtTargets'
      BY <1>8 DEF WorkersWaited, CallsAtTargets, publishVars, targetVars, closeVars
    <2>3. PhaseOfStop'
      BY <1>8 DEF WorkersWaited, NotificationsTypeOK, PhaseOfStop, Stopped, Readers, publishVars, targetVars, closeVars
    <2>4. PhaseOfWorkers'
      BY <1>8 DEF WorkersWaited, NotificationsTypeOK, PhaseOfStop, PhaseOfWorkers, PhaseOfSink, Stopped, PastShutdown, Readers, publishVars, targetVars, closeVars
    <2>5. PhaseOfSink'
      BY <1>8 DEF WorkersWaited, NotificationsTypeOK, PhaseOfSink, PhaseOfWorkers, PastShutdown, publishVars, targetVars, closeVars
    <2> QED BY <2>1, <2>2, <2>3, <2>4, <2>5 DEF NotificationsInv
  <1>9. ASSUME Close PROVE NotificationsInv'
    <2>1. NotificationsTypeOK'
      BY <1>9 DEF Close, NotificationsTypeOK, publishVars, targetVars, closeVars
    <2>2. CallsAtTargets'
      BY <1>9 DEF Close, CallsAtTargets, publishVars, targetVars, closeVars
    <2>3. PhaseOfStop'
      BY <1>9 DEF Close, NotificationsTypeOK, PhaseOfStop, Stopped, Readers, publishVars, targetVars, closeVars
    <2>4. PhaseOfWorkers'
      BY <1>9 DEF Close, NotificationsTypeOK, PhaseOfStop, PhaseOfWorkers, PhaseOfSink, Stopped, PastShutdown, Readers, publishVars, targetVars, closeVars
    <2>5. PhaseOfSink'
      BY <1>9 DEF Close, NotificationsTypeOK, PhaseOfSink, PhaseOfWorkers, PastShutdown, publishVars, targetVars, closeVars
    <2> QED BY <2>1, <2>2, <2>3, <2>4, <2>5 DEF NotificationsInv
  <1>a. ASSUME Stop PROVE NotificationsInv'
    <2>1. NotificationsTypeOK'
      BY <1>a DEF Stop, NotificationsTypeOK, publishVars, targetVars, closeVars
    <2>2. CallsAtTargets'
      BY <1>a DEF Stop, CallsAtTargets, publishVars, targetVars, closeVars
    <2>3. PhaseOfStop'
      BY <1>a DEF Stop, NotificationsTypeOK, PhaseOfStop, Stopped, Readers, publishVars, targetVars, closeVars
    <2>4. PhaseOfWorkers'
      BY <1>a DEF Stop, NotificationsTypeOK, PhaseOfStop, PhaseOfWorkers, PhaseOfSink, Stopped, PastShutdown, Readers, publishVars, targetVars, closeVars
    <2>5. PhaseOfSink'
      BY <1>a DEF Stop, NotificationsTypeOK, PhaseOfSink, PhaseOfWorkers, PastShutdown, publishVars, targetVars, closeVars
    <2> QED BY <2>1, <2>2, <2>3, <2>4, <2>5 DEF NotificationsInv
  <1>b. ASSUME Deadline PROVE NotificationsInv'
    <2>1. NotificationsTypeOK'
      BY <1>b DEF Deadline, NotificationsTypeOK, publishVars, targetVars, closeVars
    <2>2. CallsAtTargets'
      BY <1>b DEF Deadline, CallsAtTargets, publishVars, targetVars, closeVars
    <2>3. PhaseOfStop'
      BY <1>b DEF Deadline, NotificationsTypeOK, PhaseOfStop, Stopped, Readers, publishVars, targetVars, closeVars
    <2>4. PhaseOfWorkers'
      BY <1>b DEF Deadline, NotificationsTypeOK, PhaseOfStop, PhaseOfWorkers, PhaseOfSink, Stopped, PastShutdown, Readers, publishVars, targetVars, closeVars
    <2>5. PhaseOfSink'
      BY <1>b DEF Deadline, NotificationsTypeOK, PhaseOfSink, PhaseOfWorkers, PastShutdown, publishVars, targetVars, closeVars
    <2> QED BY <2>1, <2>2, <2>3, <2>4, <2>5 DEF NotificationsInv
  <1>c. ASSUME Shutdown PROVE NotificationsInv'
    <2>1. NotificationsTypeOK'
      BY <1>c DEF Shutdown, NotificationsTypeOK, publishVars, targetVars, closeVars
    <2>2. CallsAtTargets'
      BY <1>c DEF Shutdown, CallsAtTargets, publishVars, targetVars, closeVars
    <2>3. PhaseOfStop'
      BY <1>c DEF Shutdown, NotificationsTypeOK, PhaseOfStop, Stopped, Readers, publishVars, targetVars, closeVars
    <2>4. PhaseOfWorkers'
      BY <1>c DEF Shutdown, NotificationsTypeOK, PhaseOfStop, PhaseOfWorkers, PhaseOfSink, Stopped, PastShutdown, Readers, publishVars, targetVars, closeVars
    <2>5. PhaseOfSink'
      BY <1>c DEF Shutdown, NotificationsTypeOK, PhaseOfSink, PhaseOfWorkers, PastShutdown, publishVars, targetVars, closeVars
    <2> QED BY <2>1, <2>2, <2>3, <2>4, <2>5 DEF NotificationsInv
  <1>d. ASSUME StopSink PROVE NotificationsInv'
    <2>1. NotificationsTypeOK'
      BY <1>d DEF StopSink, NotificationsTypeOK, publishVars, targetVars, closeVars
    <2>2. CallsAtTargets'
      BY <1>d DEF StopSink, CallsAtTargets, publishVars, targetVars, closeVars
    <2>3. PhaseOfStop'
      BY <1>d DEF StopSink, NotificationsTypeOK, PhaseOfStop, Stopped, Readers, publishVars, targetVars, closeVars
    <2>4. PhaseOfWorkers'
      BY <1>d DEF StopSink, NotificationsTypeOK, PhaseOfStop, PhaseOfWorkers, PhaseOfSink, Stopped, PastShutdown, Readers, publishVars, targetVars, closeVars
    <2>5. PhaseOfSink'
      BY <1>d DEF StopSink, NotificationsTypeOK, PhaseOfSink, PhaseOfWorkers, PastShutdown, publishVars, targetVars, closeVars
    <2> QED BY <2>1, <2>2, <2>3, <2>4, <2>5 DEF NotificationsInv
  <1>e. ASSUME DrainSink PROVE NotificationsInv'
    <2>1. NotificationsTypeOK'
      BY <1>e DEF DrainSink, NotificationsTypeOK, publishVars, targetVars, closeVars
    <2>2. CallsAtTargets'
      BY <1>e DEF DrainSink, CallsAtTargets, publishVars, targetVars, closeVars
    <2>3. PhaseOfStop'
      BY <1>e DEF DrainSink, NotificationsTypeOK, PhaseOfStop, Stopped, Readers, publishVars, targetVars, closeVars
    <2>4. PhaseOfWorkers'
      BY <1>e DEF DrainSink, NotificationsTypeOK, PhaseOfStop, PhaseOfWorkers, PhaseOfSink, Stopped, PastShutdown, Readers, publishVars, targetVars, closeVars
    <2>5. PhaseOfSink'
      BY <1>e DEF DrainSink, NotificationsTypeOK, PhaseOfSink, PhaseOfWorkers, PastShutdown, publishVars, targetVars, closeVars
    <2> QED BY <2>1, <2>2, <2>3, <2>4, <2>5 DEF NotificationsInv
  <1>f. ASSUME WriteLine PROVE NotificationsInv'
    <2>s. /\ sink' \in [accepting : BOOLEAN, lines : 0 .. SinkDepth, done : BOOLEAN]
          /\ sink'.accepting = sink.accepting
      <3>1. sink \in [accepting : BOOLEAN, lines : 0 .. SinkDepth, done : BOOLEAN]
        BY DEF NotificationsTypeOK
      <3>2. CASE sink.lines > 0 /\ sink' = [sink EXCEPT !.lines = @ - 1]
        BY <3>1, <3>2
      <3>3. CASE sink' = [sink EXCEPT !.done = TRUE]
        BY <3>1, <3>3
      <3> QED BY <1>f, <3>2, <3>3 DEF WriteLine
    <2>1. NotificationsTypeOK'
      BY <1>f, <2>s DEF WriteLine, NotificationsTypeOK, publishVars, targetVars, closeVars
    <2>2. CallsAtTargets'
      BY <1>f, <2>s DEF WriteLine, CallsAtTargets, publishVars, targetVars, closeVars
    <2>3. PhaseOfStop'
      BY <1>f, <2>s DEF WriteLine, NotificationsTypeOK, PhaseOfStop, Stopped, Readers, publishVars, targetVars, closeVars
    <2>4. PhaseOfWorkers'
      BY <1>f, <2>s DEF WriteLine, NotificationsTypeOK, PhaseOfStop, PhaseOfWorkers, PhaseOfSink, Stopped, PastShutdown, Readers, publishVars, targetVars, closeVars
    <2>5. PhaseOfSink'
      BY <1>f, <2>s DEF WriteLine, NotificationsTypeOK, PhaseOfSink, PhaseOfWorkers, PastShutdown, publishVars, targetVars, closeVars
    <2> QED BY <2>1, <2>2, <2>3, <2>4, <2>5 DEF NotificationsInv
  <1>z. CASE UNCHANGED vars
    BY <1>z DEF vars, publishVars, targetVars, closeVars, NotificationsTypeOK, CallsAtTargets, PhaseOfStop, PhaseOfWorkers, PhaseOfSink, Stopped, PastShutdown, Readers
  <1> QED
    BY <1>1, <1>2, <1>3, <1>4, <1>5, <1>6, <1>7, <1>8, <1>9, <1>a, <1>b, <1>c, <1>d, <1>e, <1>f, <1>z DEF Next, PublisherStep, WorkerStep, CloserStep

(* The conjunction of types and phases is an invariant of the dispatcher.    *)
THEOREM NotificationsInvariant == Spec => []NotificationsInv
  <1>1. Init => NotificationsInv
    BY InitInv
  <1>2. NotificationsInv /\ [Next]_vars => NotificationsInv'
    BY StepInv
  <1> QED BY <1>1, <1>2, PTL DEF Spec

(* The variables of the dispatcher keep their types, and no queue exceeds    *)
(* its buffer.                                                              *)
THEOREM NotificationsTypeCorrect == Spec => []NotificationsTypeOK
  <1>1. NotificationsInv => NotificationsTypeOK
    BY DEF NotificationsInv
  <1> QED BY <1>1, NotificationsInvariant, PTL

(* TryPublish never sends on a channel that stop has closed: before Stop     *)
(* nothing is closed, and from Stop on there is no reader.                   *)
THEOREM NoSendOnClosedTheorem == Spec => []NoSendOnClosed
  <1>1. NotificationsInv => NoSendOnClosed
    BY DEF NotificationsInv, NotificationsTypeOK, PhaseOfStop, NoSendOnClosed
  <1> QED BY <1>1, NotificationsInvariant, PTL

(* A queued event is given up only after the deadline of Close, and never    *)
(* when Shutdown returned nil.                                               *)
THEOREM GivesUpTheorem == Spec => []GivesUpOnlyAfterDeadline
  <1>1. NotificationsInv => GivesUpOnlyAfterDeadline
    BY DEF NotificationsInv, PhaseOfWorkers, GivesUpOnlyAfterDeadline
  <1> QED BY <1>1, NotificationsInvariant, PTL

(* Until the deadline the sink accepts for as long as a worker may report.   *)
THEOREM SinkOutlivesTheorem == Spec => []SinkOutlivesWorkers
  <1>1. NotificationsInv => SinkOutlivesWorkers
    BY DEF NotificationsInv, PhaseOfWorkers, PhaseOfSink, SinkOutlivesWorkers
  <1> QED BY <1>1, NotificationsInvariant, PTL
-----------------------------------------------------------------------------
(* The order of the events of one publisher.  A target's line is what it was *)
(* given so far: the items sent and the items queued.                        *)
Ordered(l) == \A i, j \in 1 .. Len(l) : i < j /\ l[i].by = l[j].by => l[i].no < l[j].no
Before(l, p, n) == \A i \in 1 .. Len(l) : l[i].by = p => l[i].no < n
UpTo(l, n) == \A i \in 1 .. Len(l) : l[i].no <= n

Line(t) == sent[t] \o queue[t]

(* A publisher that has yet to offer its event to t is ahead of all its       *)
(* events in the line of t: numbers are issued in the order of the calls.     *)
OrderInv ==
    /\ \A p \in Publishers : call[p].no <= issued
    /\ \A t \in Targets :
          /\ Ordered(Line(t))
          /\ UpTo(Line(t), issued)
          /\ \A p \in Publishers :
                call[p].state = "queueing" /\ call[p].at <= t => Before(Line(t), p, call[p].no)

(* Appending an event of p that comes after all of p's events.              *)
LEMMA AppendToLine ==
  ASSUME NEW l \in Seq(Items), NEW p \in Publishers, NEW n \in Nat, NEW m \in Nat,
         Ordered(l), UpTo(l, m), Before(l, p, n), n <= m
  PROVE  LET a == Append(l, [by |-> p, no |-> n])
         IN  /\ Ordered(a) /\ UpTo(a, m)
             /\ \A q, k : q # p /\ Before(l, q, k) => Before(a, q, k)
  <1> DEFINE e == [by |-> p, no |-> n]
             a == Append(l, e)
  <1>1. e.by = p /\ e.no = n /\ e \in Items
    BY DEF Items
  <1>2. Len(a) = Len(l) + 1 /\ a[Len(l) + 1] = e /\ \A i \in 1 .. Len(l) : a[i] = l[i]
    BY <1>1
  <1>a. Len(l) \in Nat /\ \A i \in 1 .. Len(l) : l[i] \in Items
    OBVIOUS
  <1>3. Len(l) \in Nat /\ \A i \in 1 .. Len(l) : l[i].no \in Nat
    BY <1>a DEF Items
  <1> HIDE DEF e, a
  <1>4. Ordered(a)
    BY <1>1, <1>2, <1>3 DEF Ordered, Before
  <1>5. UpTo(a, m)
    BY <1>1, <1>2, <1>3 DEF UpTo
  <1>6. \A q, k : q # p /\ Before(l, q, k) => Before(a, q, k)
    BY <1>1, <1>2, <1>3 DEF Before
  <1> QED BY <1>4, <1>5, <1>6 DEF a, e

(* Handing the head of the queue to the sender leaves the line as it is.     *)
LEMMA SendFromLine ==
  ASSUME NEW s \in Seq(Items), NEW q \in Seq(Items), q # <<>>
  PROVE  Append(s, Head(q)) \o Tail(q) = s \o q
  OBVIOUS

(* Queueing an item appends it to the line.                                 *)
LEMMA QueueToLine ==
  ASSUME NEW s \in Seq(Items), NEW q \in Seq(Items), NEW e \in Items
  PROVE  s \o Append(q, e) = Append(s \o q, e)
  OBVIOUS

(* Giving up the head of the queue keeps the order of the others.           *)
LEMMA DropFromLine ==
  ASSUME NEW s \in Seq(Items), NEW q \in Seq(Items), q # <<>>, NEW m, Ordered(s \o q), UpTo(s \o q, m)
  PROVE  LET r == s \o Tail(q)
         IN  /\ Ordered(r) /\ UpTo(r, m)
             /\ \A p, k : Before(s \o q, p, k) => Before(r, p, k)
  <1> DEFINE r == s \o Tail(q)
             l == s \o q
  <1>1. Len(s) \in Nat /\ Len(q) \in Nat \ {0} /\ Len(l) = Len(s) + Len(q) /\ Len(r) = Len(s) + Len(q) - 1
    OBVIOUS
  <1>2. \A i \in 1 .. Len(r) : r[i] = IF i <= Len(s) THEN l[i] ELSE l[i + 1]
    OBVIOUS
  <1> HIDE DEF r, l
  <1>3. Ordered(l) /\ UpTo(l, m)
    BY DEF l
  <1>f. ASSUME NEW i \in 1 .. Len(r)
        PROVE  \E x \in 1 .. Len(l) : r[i] = l[x] /\ x = IF i <= Len(s) THEN i ELSE i + 1
    <2>1. CASE i <= Len(s)
      <3>1. i \in 1 .. Len(l) /\ r[i] = l[i]
        BY <1>1, <1>2, <1>f, <2>1
      <3> QED BY <2>1, <3>1
    <2>2. CASE ~(i <= Len(s))
      <3>1. i + 1 \in 1 .. Len(l) /\ r[i] = l[i + 1]
        BY <1>1, <1>2, <1>f, <2>2
      <3> QED BY <2>2, <3>1
    <2> QED BY <2>1, <2>2
  <1>o. Ordered(r)
    <2> SUFFICES ASSUME NEW i \in 1 .. Len(r), NEW j \in 1 .. Len(r), i < j, r[i].by = r[j].by
                 PROVE  r[i].no < r[j].no
      BY DEF Ordered
    <2>1. PICK x \in 1 .. Len(l) : r[i] = l[x] /\ x = IF i <= Len(s) THEN i ELSE i + 1
      BY <1>f
    <2>2. PICK y \in 1 .. Len(l) : r[j] = l[y] /\ y = IF j <= Len(s) THEN j ELSE j + 1
      BY <1>f
    <2>3. x < y
      BY <1>1, <2>1, <2>2
    <2> QED BY <1>3, <2>1, <2>2, <2>3 DEF Ordered
  <1>u. UpTo(r, m)
    BY <1>f, <1>3 DEF UpTo
  <1>4. Ordered(r) /\ UpTo(r, m)
    BY <1>o, <1>u
  <1>5. \A p, k : Before(l, p, k) => Before(r, p, k)
    BY <1>f DEF Before
  <1> QED BY <1>4, <1>5 DEF r, l

LEMMA OrderInit == Init => OrderInv
  <1> SUFFICES ASSUME Init PROVE OrderInv
    OBVIOUS
  <1>1. \A t \in Targets : Line(t) = <<>>
    BY DEF Init, Line
  <1>2. \A p \in Publishers : call[p].no <= issued
    BY DEF Init, Idle
  <1> QED BY <1>1, <1>2 DEF OrderInv, Ordered, UpTo, Before

(* A step that leaves the line of t and takes no publisher back.            *)
LEMMA OrderUntouched ==
  ASSUME OrderInv, sent' = sent, queue' = queue, issued' = issued,
         \A p \in Publishers : \/ call'[p] = call[p]
                               \/ /\ call'[p].state # "queueing" /\ call'[p].no <= issued
  PROVE  OrderInv'
  <1>1. \A t \in Targets : Line(t)' = Line(t)
    BY DEF Line
  <1> QED BY <1>1 DEF OrderInv, Ordered, UpTo, Before

(* Where NextTarget leaves the publisher that takes it, and all the others.  *)
LEMMA NextTargetMoves ==
  ASSUME NEW p \in Publishers, call \in [Publishers -> CallType], NextTarget(p)
  PROVE  /\ \A q \in Publishers : q # p => call'[q] = call[q]
         /\ \/ call'[p] = Idle
            \/ /\ call'[p].state = call[p].state /\ call'[p].no = call[p].no
               /\ call'[p].at = call[p].at + 1
  BY DEF NextTarget, CallType

LEMMA OrderStep == NotificationsInv /\ OrderInv /\ [Next]_vars => OrderInv'
  <1> SUFFICES ASSUME NotificationsInv, OrderInv, [Next]_vars PROVE OrderInv'
    OBVIOUS
  <1> USE DEF NotificationsInv
  <1>a. /\ \A t \in Targets : sent[t] \in Seq(Items) /\ queue[t] \in Seq(Items) /\ Line(t) \in Seq(Items)
        /\ issued \in Nat /\ call \in [Publishers -> CallType]
    <2>1. \A t \in Targets : sent[t] \in Seq(Items) /\ queue[t] \in Seq(Items)
      BY DEF NotificationsTypeOK
    <2>2. \A t \in Targets : Line(t) \in Seq(Items)
      BY <2>1 DEF Line
    <2>3. issued \in Nat /\ call \in [Publishers -> CallType]
      BY DEF NotificationsTypeOK
    <2> QED BY <2>1, <2>2, <2>3
  <1>b. \A t \in Targets : \A i \in 1 .. Len(Line(t)) : Line(t)[i].no \in Nat
    <2>1. \A t \in Targets : \A i \in 1 .. Len(Line(t)) : Line(t)[i] \in Items
      BY <1>a
    <2> QED BY <2>1 DEF Items
  <1>1. ASSUME NEW p \in Publishers, NEW valid \in BOOLEAN, TryPublish(p, valid) PROVE OrderInv'
    <2>1. issued' = issued + 1 /\ call'[p].no = issued + 1
          /\ \A q \in Publishers : q # p => call'[q] = call[q]
      BY <1>1, <1>a DEF TryPublish
    <2>2. \A t \in Targets : Line(t)' = Line(t)
      BY <1>1 DEF TryPublish, targetVars, Line
    <2>3. \A q \in Publishers : call[q].no \in Nat
      BY <1>a DEF CallType
    <2>4. \A q \in Publishers : call'[q].no <= issued'
      BY <1>a, <2>1, <2>3 DEF OrderInv
    <2>5. ASSUME NEW t \in Targets
          PROVE  Ordered(Line(t)) /\ UpTo(Line(t), issued') /\ Before(Line(t), p, issued + 1)
      BY <1>a, <1>b, <2>1 DEF OrderInv, UpTo, Before
    <2>6. ASSUME NEW t \in Targets, NEW q \in Publishers, call'[q].state = "queueing", call'[q].at <= t
          PROVE  Before(Line(t), q, call'[q].no)
      BY <2>1, <2>5, <2>6 DEF OrderInv
    <2> QED BY <2>2, <2>4, <2>5, <2>6 DEF OrderInv, Ordered, UpTo, Before
  <1>2. ASSUME NEW p \in Publishers, Queue(p) PROVE OrderInv'
    <2> DEFINE t0 == call[p].at
               e == [by |-> p, no |-> call[p].no]
    <2>1. t0 \in Targets /\ call[p].state = "queueing" /\ call[p].no \in Nat /\ issued' = issued /\ sent' = sent
      BY <1>2, <1>a DEF Queue, CallsAtTargets, CallType
    <2>2. /\ \A q \in Publishers : q # p => call'[q] = call[q]
          /\ \/ call'[p] = Idle
             \/ call'[p].state = "queueing" /\ call'[p].no = call[p].no /\ call'[p].at = t0 + 1
      BY <1>2, <1>a, <2>1, NextTargetMoves DEF Queue
    <2>3. \A q \in Publishers : call'[q].no <= issued'
      <3>1. call'[p].no = 0 \/ call'[p].no = call[p].no
        BY <2>2 DEF Idle
      <3> QED BY <1>a, <2>1, <2>2, <3>1 DEF OrderInv
    <2>4. queue' = queue \/ queue' = [queue EXCEPT ![t0] = Append(queue[t0], e)]
      BY <1>2 DEF Queue
    <2>e. e \in Items
      BY <2>1 DEF Items
    <2> HIDE DEF e
    <2>5. ASSUME NEW t \in Targets
          PROVE  Line(t)' = Line(t) \/ (t = t0 /\ Line(t)' = Append(Line(t), e))
      <3>1. CASE queue' = queue
        BY <2>1, <3>1 DEF Line
      <3>2. CASE queue' = [queue EXCEPT ![t0] = Append(queue[t0], e)]
        <4>1. queue \in [Targets -> Seq(Items)]
          BY DEF NotificationsTypeOK
        <4>2. t # t0 => queue'[t] = queue[t]
          BY <2>5, <3>2, <4>1
        <4>3. t = t0 => queue'[t] = Append(queue[t], e)
          BY <2>5, <3>2, <4>1
        <4>4. sent[t] \o Append(queue[t], e) = Append(sent[t] \o queue[t], e)
          BY <1>a, <2>5, <2>e, QueueToLine
        <4> QED BY <2>1, <4>2, <4>3, <4>4 DEF Line
      <3> QED BY <2>4, <3>1, <3>2
    <2>6. ASSUME NEW t \in Targets
          PROVE  /\ Ordered(Line(t)') /\ UpTo(Line(t)', issued)
                 /\ \A q \in Publishers : call'[q].state = "queueing" /\ call'[q].at <= t
                                              => Before(Line(t)', q, call'[q].no)
      <3>1. CASE Line(t)' = Line(t)
        <4>1. call'[p].state = "queueing" /\ call'[p].at <= t => call[p].at <= t /\ call'[p].no = call[p].no
          BY <2>1, <2>2, <2>6 DEF Idle
        <4>2. \A q \in Publishers : call'[q].state = "queueing" /\ call'[q].at <= t
                                       => Before(Line(t), q, call'[q].no)
          BY <2>1, <2>2, <2>6, <4>1 DEF OrderInv
        <4> QED BY <2>6, <3>1, <4>2 DEF OrderInv
      <3>2. CASE t = t0 /\ Line(t)' = Append(Line(t), e)
        <4>1. Before(Line(t), p, call[p].no) /\ Ordered(Line(t)) /\ UpTo(Line(t), issued) /\ call[p].no <= issued
          BY <2>1, <2>6, <3>2 DEF OrderInv
        <4>2. /\ Ordered(Append(Line(t), e)) /\ UpTo(Append(Line(t), e), issued)
              /\ \A q, k : q # p /\ Before(Line(t), q, k) => Before(Append(Line(t), e), q, k)
          BY <1>a, <2>1, <2>6, <4>1, AppendToLine DEF e
        <4>3. ~(call'[p].state = "queueing" /\ call'[p].at <= t)
          BY <2>1, <2>2, <2>6, <3>2 DEF Idle
        <4> QED BY <2>2, <2>6, <3>2, <4>2, <4>3 DEF OrderInv
      <3> QED BY <2>5, <2>6, <3>1, <3>2
    <2> QED BY <2>1, <2>3, <2>6 DEF OrderInv, Ordered, UpTo, Before
  <1>3. ASSUME NEW p \in Publishers, DropAll(p) PROVE OrderInv'
    <2>1. /\ \A q \in Publishers : q # p => call'[q] = call[q]
          /\ call'[p] = Idle \/ (call'[p].state # "queueing" /\ call'[p].no = call[p].no)
      BY <1>3, <1>a, NextTargetMoves DEF DropAll
    <2> QED BY <1>3, <1>a, <2>1, OrderUntouched DEF DropAll, Idle, OrderInv
  <1>4. ASSUME NEW t \in Targets, Receive(t) PROVE OrderInv'
    <2>1. /\ queue[t] # <<>> /\ queue' = [queue EXCEPT ![t] = Tail(queue[t])]
          /\ sent' = sent \/ sent' = [sent EXCEPT ![t] = Append(sent[t], Head(queue[t]))]
          /\ issued' = issued /\ call' = call
      BY <1>4 DEF Receive, publishVars
    <2>2. ASSUME NEW u \in Targets, u # t PROVE Line(u)' = Line(u)
      <3>1. queue \in [Targets -> Seq(Items)] /\ sent \in [Targets -> Seq(Items)]
        BY DEF NotificationsTypeOK
      <3>2. queue'[u] = queue[u] /\ sent'[u] = sent[u]
        BY <1>4, <2>1, <2>2, <3>1
      <3> QED BY <3>2 DEF Line
    <2>3. Line(t)' = Line(t) \/ Line(t)' = sent[t] \o Tail(queue[t])
      <3>1. queue \in [Targets -> Seq(Items)] /\ sent \in [Targets -> Seq(Items)]
        BY DEF NotificationsTypeOK
      <3>2. queue'[t] = Tail(queue[t]) /\ (sent'[t] = sent[t] \/ sent'[t] = Append(sent[t], Head(queue[t])))
        BY <1>4, <2>1, <3>1
      <3>3. Append(sent[t], Head(queue[t])) \o Tail(queue[t]) = sent[t] \o queue[t]
        BY <1>4, <1>a, <2>1, SendFromLine
      <3> QED BY <3>2, <3>3 DEF Line
    <2>4. ASSUME NEW u \in Targets
          PROVE  /\ Ordered(Line(u)') /\ UpTo(Line(u)', issued)
                 /\ \A q \in Publishers : call[q].state = "queueing" /\ call[q].at <= u
                                              => Before(Line(u)', q, call[q].no)
      <3>1. CASE Line(u)' = Line(u)
        BY <2>4, <3>1 DEF OrderInv
      <3>2. CASE u = t /\ Line(u)' = sent[t] \o Tail(queue[t])
        <4>1. Ordered(sent[t] \o queue[t]) /\ UpTo(sent[t] \o queue[t], issued)
          BY <1>4 DEF OrderInv, Line
        <4>2. /\ Ordered(sent[t] \o Tail(queue[t])) /\ UpTo(sent[t] \o Tail(queue[t]), issued)
              /\ \A q, k : Before(sent[t] \o queue[t], q, k) => Before(sent[t] \o Tail(queue[t]), q, k)
          BY <1>4, <1>a, <2>1, <4>1, DropFromLine
        <4>3. \A q \in Publishers : call[q].state = "queueing" /\ call[q].at <= u
                                       => Before(sent[t] \o queue[t], q, call[q].no)
          BY <2>4, <3>2 DEF OrderInv, Line
        <4> QED BY <3>2, <4>2, <4>3
      <3> QED BY <2>2, <2>3, <2>4, <3>1, <3>2
    <2> QED BY <2>1, <2>4 DEF OrderInv, Ordered, UpTo, Before
  <1>5. CASE sent' = sent /\ queue' = queue /\ issued' = issued /\ call' = call
    BY <1>5, OrderUntouched
  <1>6. ASSUME NEW t \in Targets, NEW err \in Errors, Send(t, err) \/ RecordResult(t) \/ WorkerReturns(t)
        PROVE  OrderInv'
    BY <1>6, <1>5 DEF Send, RecordResult, WorkerReturns, publishVars
  <1>7. CASE WorkersWaited \/ CloserStep \/ WriteLine \/ UNCHANGED vars
    BY <1>7, <1>5 DEF WorkersWaited, CloserStep, Close, Stop, Deadline, Shutdown, StopSink, DrainSink,
                      WriteLine, vars, publishVars, targetVars
  <1> QED
    BY <1>1, <1>2, <1>3, <1>4, <1>6, <1>7 DEF Next, PublisherStep, WorkerStep, Errors

(* A target gets the events of each publisher in the order of its calls and  *)
(* none of them twice, for any number of publishers, targets and events.      *)
THEOREM PublisherOrderTheorem == Spec => []PublisherOrderKept
  <1>1. Init => OrderInv
    BY OrderInit
  <1>2. NotificationsInv /\ OrderInv /\ [Next]_vars => OrderInv'
    BY OrderStep
  <1>3. OrderInv => PublisherOrderKept
    BY DEF OrderInv, Ordered, Line, PublisherOrderKept
  <1> QED BY <1>1, <1>2, <1>3, NotificationsInvariant, PTL DEF Spec
-----------------------------------------------------------------------------
(* The account of the events.  Ahead(t) are the publishers that have yet to   *)
(* offer their event to t; Held(t) counts the events t was offered.           *)
Ahead(t) == {p \in Publishers : call[p].at \in 1 .. t}
Weight(t) == IF worker[t].state \in {"send", "record"} THEN 1 ELSE 0
Held(t) == Len(queue[t]) + Weight(t) + settled[t] + TargetDrops(t)

(* A publisher outside TryPublish is ahead of no target.                    *)
IdleAtZero == \A p \in Publishers : call[p].state = "idle" => call[p].at = 0

AccountInv ==
    /\ IdleAtZero
    /\ \A t \in Targets : issued = Cardinality(Ahead(t)) + Held(t)

(* The parts of an account are numbers, and the publishers ahead are finite. *)
LEMMA AccountParts ==
  ASSUME NotificationsTypeOK, NEW t \in Targets
  PROVE  /\ Len(queue[t]) \in Nat /\ Weight(t) \in Nat /\ settled[t] \in Nat /\ TargetDrops(t) \in Nat
         /\ Held(t) \in Nat
         /\ IsFiniteSet(Ahead(t)) /\ Cardinality(Ahead(t)) \in Nat
         /\ issued \in Nat
  <1>1. queue[t] \in Seq(Items) /\ settled[t] \in Nat /\ dropped[t] \in [Reasons -> Nat]
    BY DEF NotificationsTypeOK
  <1>2. /\ dropped[t]["invalid"] \in Nat /\ dropped[t]["queueFull"] \in Nat
        /\ dropped[t]["shutdown"] \in Nat
    BY <1>1 DEF Reasons
  <1>3. TargetDrops(t) \in Nat /\ Weight(t) \in Nat /\ Len(queue[t]) \in Nat
    BY <1>1, <1>2 DEF TargetDrops, Weight
  <1>4. Held(t) \in Nat
    BY <1>1, <1>3 DEF Held
  <1>5. Ahead(t) \subseteq Publishers
    BY DEF Ahead
  <1>6. IsFiniteSet(Ahead(t)) /\ Cardinality(Ahead(t)) \in Nat
    BY <1>5, PublishersAssumption, FS_Subset, FS_CardinalityType
  <1>7. issued \in Nat
    BY DEF NotificationsTypeOK
  <1> QED BY <1>1, <1>3, <1>4, <1>6, <1>7

(* The sum of an account when its last part, or its last and no longer its   *)
(* first part, counts one more event.                                        *)
LEMMA OneMore ==
  ASSUME NEW a \in Nat, NEW b \in Nat, NEW c \in Nat, NEW d \in Nat
  PROVE  /\ a + b + c + (d + 1) = (a + b + c + d) + 1
         /\ (a - 1) + b + c + (d + 1) = a + b + c + d
  OBVIOUS

(* A drop adds one to the drops of its target and nothing to the others.     *)
LEMMA DropCounts ==
  ASSUME NotificationsTypeOK, NEW t \in Targets, NEW r \in Reasons, CountDrop(t, r)
  PROVE  /\ TargetDrops(t)' = TargetDrops(t) + 1
         /\ \A u \in Targets : u # t => TargetDrops(u)' = TargetDrops(u)
  <1>1. dropped \in [Targets -> [Reasons -> Nat]] /\ dropped[t] \in [Reasons -> Nat]
    BY DEF NotificationsTypeOK
  <1>2. /\ dropped'[t] = [dropped[t] EXCEPT ![r] = @ + 1]
        /\ \A u \in Targets : u # t => dropped'[u] = dropped[u]
    BY <1>1 DEF CountDrop
  <1>3. /\ dropped[t]["invalid"] \in Nat /\ dropped[t]["queueFull"] \in Nat
        /\ dropped[t]["shutdown"] \in Nat
    BY <1>1 DEF Reasons
  <1>4. TargetDrops(t)' = TargetDrops(t) + 1
    <2>1. CASE r = "invalid"
      BY <1>1, <1>2, <1>3, <2>1 DEF TargetDrops, Reasons
    <2>2. CASE r = "queueFull"
      BY <1>1, <1>2, <1>3, <2>2 DEF TargetDrops, Reasons
    <2>3. CASE r = "shutdown"
      BY <1>1, <1>2, <1>3, <2>3 DEF TargetDrops, Reasons
    <2> QED BY <2>1, <2>2, <2>3 DEF Reasons
  <1> QED BY <1>2, <1>4 DEF TargetDrops

(* The loop of TryPublish leaves the target it has dealt with, and keeps its  *)
(* place before all the others.                                              *)
LEMMA NextTargetAhead ==
  ASSUME NotificationsInv, AccountInv, NEW p \in Publishers, call[p].state # "idle", NextTarget(p)
  PROVE  /\ IdleAtZero'
         /\ \A t \in Targets : t # call[p].at => Ahead(t)' = Ahead(t)
         /\ \A t \in Targets : t = call[p].at =>
               Cardinality(Ahead(t)') = Cardinality(Ahead(t)) - 1
  <1>1. /\ call \in [Publishers -> CallType] /\ call[p] \in CallType /\ call[p].at \in Targets
        /\ NotificationsTypeOK
    BY DEF NotificationsInv, NotificationsTypeOK, CallsAtTargets
  <1>2. /\ \A q \in Publishers : q # p => call'[q] = call[q]
        /\ \/ call[p].at = TargetCount /\ call'[p] = Idle
           \/ /\ call[p].at # TargetCount
              /\ call'[p].state = call[p].state /\ call'[p].at = call[p].at + 1
    BY <1>1 DEF NextTarget, CallType
  <1>3. IdleAtZero'
    BY <1>2 DEF AccountInv, IdleAtZero, Idle
  <1>4. ASSUME NEW t \in Targets, t # call[p].at
        PROVE  Ahead(t)' = Ahead(t)
    <2>1. call'[p].at \in 1 .. t <=> call[p].at \in 1 .. t
      BY <1>1, <1>2, <1>4 DEF Idle
    <2> QED BY <1>2, <2>1 DEF Ahead
  <1>5. ASSUME NEW t \in Targets, t = call[p].at
        PROVE  Cardinality(Ahead(t)') = Cardinality(Ahead(t)) - 1
    <2>1. ~(call'[p].at \in 1 .. t) /\ call[p].at \in 1 .. t
      BY <1>1, <1>2, <1>5 DEF Idle
    <2>2. Ahead(t)' = Ahead(t) \ {p} /\ p \in Ahead(t)
      BY <1>2, <2>1 DEF Ahead
    <2>3. IsFiniteSet(Ahead(t))
      BY <1>1, AccountParts
    <2> QED BY <2>2, <2>3, FS_RemoveElement
  <1> QED BY <1>3, <1>4, <1>5

LEMMA AccountInit == Init => AccountInv
  <1> SUFFICES ASSUME Init PROVE AccountInv
    OBVIOUS
  <1>1. IdleAtZero
    BY DEF Init, IdleAtZero, Idle
  <1>2. ASSUME NEW t \in Targets PROVE issued = Cardinality(Ahead(t)) + Held(t)
    <2>1. Ahead(t) = {}
      BY DEF Init, Ahead, Idle
    <2>2. Cardinality(Ahead(t)) = 0
      BY <2>1, FS_EmptySet
    <2>3. queue[t] = <<>> /\ Weight(t) = 0 /\ settled[t] = 0 /\ TargetDrops(t) = 0
      BY DEF Init, Weight, TargetDrops, Reasons
    <2>4. Len(queue[t]) = 0
      BY <2>3
    <2>5. issued = 0
      BY DEF Init
    <2> QED BY <2>2, <2>3, <2>4, <2>5 DEF Held
  <1> QED BY <1>1, <1>2 DEF AccountInv

(* A step of the publisher p at its target moves one event from the           *)
(* publishers ahead to what that target holds.                               *)
LEMMA OfferAccounted ==
  ASSUME NotificationsInv, AccountInv, NEW p \in Publishers, call[p].state # "idle", NextTarget(p),
         issued' = issued,
         \A t \in Targets : t = call[p].at => Held(t)' = Held(t) + 1,
         \A t \in Targets : t # call[p].at => Held(t)' = Held(t)
  PROVE  AccountInv'
  <1>1. ASSUME NEW t \in Targets PROVE issued' = Cardinality(Ahead(t)') + Held(t)'
    <2>1. /\ issued = Cardinality(Ahead(t)) + Held(t)
          /\ Cardinality(Ahead(t)) \in Nat /\ Held(t) \in Nat
      BY AccountParts DEF AccountInv, NotificationsInv
    <2>2. CASE t = call[p].at
      BY <2>1, <2>2, NextTargetAhead
    <2>3. CASE t # call[p].at
      BY <2>1, <2>3, NextTargetAhead
    <2> QED BY <2>2, <2>3
  <1>2. IdleAtZero'
    BY NextTargetAhead
  <1> QED BY <1>1, <1>2 DEF AccountInv

(* A step that moves no publisher and changes what no target holds.          *)
LEMMA AccountKept ==
  ASSUME AccountInv, issued' = issued, call' = call, \A t \in Targets : Held(t)' = Held(t)
  PROVE  AccountInv'
  <1>1. \A t \in Targets : Ahead(t)' = Ahead(t)
    BY DEF Ahead
  <1> QED BY <1>1 DEF AccountInv, IdleAtZero

LEMMA AccountStep == NotificationsInv /\ AccountInv /\ [Next]_vars => AccountInv'
  <1> SUFFICES ASSUME NotificationsInv, AccountInv, [Next]_vars PROVE AccountInv'
    OBVIOUS
  <1>a. NotificationsTypeOK /\ CallsAtTargets
    BY DEF NotificationsInv
  <1>b. /\ queue \in [Targets -> Seq(Items)] /\ worker \in [Targets -> WorkerType]
        /\ settled \in [Targets -> Nat] /\ call \in [Publishers -> CallType]
    BY <1>a DEF NotificationsTypeOK
  <1>c. \A t \in Targets : /\ Len(queue[t]) \in Nat /\ Weight(t) \in Nat /\ settled[t] \in Nat
                           /\ TargetDrops(t) \in Nat /\ Held(t) \in Nat
    BY <1>a, AccountParts
  <1>1. ASSUME NEW p \in Publishers, NEW valid \in BOOLEAN, TryPublish(p, valid) PROVE AccountInv'
    <2>1. /\ issued' = issued + 1 /\ call'[p].at = 1 /\ call'[p].state # "idle"
          /\ \A q \in Publishers : q # p => call'[q] = call[q]
          /\ call[p].at = 0
      BY <1>1, <1>b DEF TryPublish, AccountInv, IdleAtZero
    <2>2. \A t \in Targets : Held(t)' = Held(t)
      BY <1>1 DEF TryPublish, targetVars, Held, Weight, TargetDrops
    <2>3. ASSUME NEW t \in Targets PROVE issued' = Cardinality(Ahead(t)') + Held(t)'
      <3>1. Ahead(t)' = Ahead(t) \cup {p} /\ p \notin Ahead(t)
        BY <2>1 DEF Ahead
      <3>2. Cardinality(Ahead(t)') = Cardinality(Ahead(t)) + 1
        BY <1>a, <3>1, AccountParts, FS_AddElement
      <3> QED BY <1>a, <2>1, <2>2, <3>2, AccountParts DEF AccountInv
    <2>4. IdleAtZero'
      BY <2>1 DEF AccountInv, IdleAtZero
    <2> QED BY <2>3, <2>4 DEF AccountInv
  <1>2. ASSUME NEW p \in Publishers, Queue(p) PROVE AccountInv'
    <2>1. call[p].at \in Targets /\ call[p].state # "idle"
      BY <1>2, <1>a DEF Queue, CallsAtTargets
    <2>2. PICK u \in Targets : u = call[p].at
      BY <2>1
    <2>3. worker' = worker /\ settled' = settled /\ issued' = issued /\ NextTarget(p)
      BY <1>2 DEF Queue
    <2>w. \A t \in Targets : Weight(t)' = Weight(t)
      BY <2>3 DEF Weight
    <2>4. CASE queue' = [queue EXCEPT ![u] = Append(@, [by |-> p, no |-> call[p].no])] /\ dropped' = dropped
      <3>1. [by |-> p, no |-> call[p].no] \in Items
        BY <1>b DEF Items, CallType
      <3>2. /\ \A t \in Targets : t # u => queue'[t] = queue[t]
            /\ queue'[u] = Append(queue[u], [by |-> p, no |-> call[p].no])
        BY <1>b, <2>4
      <3>3. Len(queue'[u]) = Len(queue[u]) + 1
        BY <1>b, <3>1, <3>2
      <3>4. \A t \in Targets : TargetDrops(t)' = TargetDrops(t)
        BY <2>4 DEF TargetDrops
      <3>n. Len(queue[u]) \in Nat /\ Weight(u) \in Nat /\ settled[u] \in Nat /\ TargetDrops(u) \in Nat
        BY <1>c
      <3>e. Weight(u)' = Weight(u) /\ settled'[u] = settled[u] /\ TargetDrops(u)' = TargetDrops(u)
        BY <1>c, <2>3, <2>w, <3>4
      <3>5. Held(u)' = Held(u) + 1
        BY <3>n, <3>e, <3>3 DEF Held
      <3>6. \A t \in Targets : t # u => Held(t)' = Held(t)
        BY <2>3, <2>w, <3>2, <3>4 DEF Held
      <3> QED BY <2>1, <2>2, <2>3, <3>5, <3>6, OfferAccounted
    <2>5. CASE CountDrop(u, "queueFull") /\ queue' = queue
      <3>1. "queueFull" \in Reasons
        BY DEF Reasons
      <3>2. /\ TargetDrops(u)' = TargetDrops(u) + 1
            /\ \A t \in Targets : t # u => TargetDrops(t)' = TargetDrops(t)
        BY <1>a, <2>5, <3>1, DropCounts
      <3>n. Len(queue[u]) \in Nat /\ Weight(u) \in Nat /\ settled[u] \in Nat /\ TargetDrops(u) \in Nat
        BY <1>c
      <3>e. /\ Weight(u)' = Weight(u) /\ settled'[u] = settled[u] /\ Len(queue'[u]) = Len(queue[u])
            /\ TargetDrops(u)' = TargetDrops(u) + 1
        BY <1>c, <2>3, <2>w, <2>5, <3>2
      <3>h. Held(u)' = Len(queue[u]) + Weight(u) + settled[u] + (TargetDrops(u) + 1)
        BY <3>e DEF Held
      <3>m. Held(u) = Len(queue[u]) + Weight(u) + settled[u] + TargetDrops(u)
        BY DEF Held
      <3>o. Len(queue[u]) + Weight(u) + settled[u] + (TargetDrops(u) + 1) = (Len(queue[u]) + Weight(u) + settled[u] + TargetDrops(u)) + 1
        BY <3>n, OneMore
      <3>3. Held(u)' = Held(u) + 1
        BY <3>h, <3>m, <3>o
      <3>4. \A t \in Targets : t # u => Held(t)' = Held(t)
        BY <2>3, <2>w, <2>5, <3>2 DEF Held
      <3> QED BY <2>1, <2>2, <2>3, <3>3, <3>4, OfferAccounted
    <2> QED BY <1>2, <2>2, <2>4, <2>5 DEF Queue
  <1>3. ASSUME NEW p \in Publishers, DropAll(p) PROVE AccountInv'
    <2>1. call[p].at \in Targets /\ call[p].state # "idle" /\ call[p].state \in Reasons
      BY <1>3, <1>a DEF DropAll, CallsAtTargets, Reasons
    <2>2. PICK u \in Targets : u = call[p].at
      BY <2>1
    <2>r. PICK r \in Reasons : r = call[p].state
      BY <2>1
    <2>3. /\ worker' = worker /\ settled' = settled /\ issued' = issued /\ queue' = queue
          /\ NextTarget(p) /\ CountDrop(u, r)
      BY <1>3, <2>2, <2>r DEF DropAll
    <2>4. \A t \in Targets : Weight(t)' = Weight(t)
      BY <2>3 DEF Weight
    <2>5. /\ TargetDrops(u)' = TargetDrops(u) + 1
          /\ \A t \in Targets : t # u => TargetDrops(t)' = TargetDrops(t)
      BY <1>a, <2>3, DropCounts
    <2>n. Len(queue[u]) \in Nat /\ Weight(u) \in Nat /\ settled[u] \in Nat /\ TargetDrops(u) \in Nat
      BY <1>c
    <2>e. /\ Weight(u)' = Weight(u) /\ settled'[u] = settled[u] /\ Len(queue'[u]) = Len(queue[u])
          /\ TargetDrops(u)' = TargetDrops(u) + 1
      BY <1>c, <2>3, <2>4, <2>5
    <2>h. Held(u)' = Len(queue[u]) + Weight(u) + settled[u] + (TargetDrops(u) + 1)
      BY <2>e DEF Held
    <2>m. Held(u) = Len(queue[u]) + Weight(u) + settled[u] + TargetDrops(u)
      BY DEF Held
    <2>o. Len(queue[u]) + Weight(u) + settled[u] + (TargetDrops(u) + 1) = (Len(queue[u]) + Weight(u) + settled[u] + TargetDrops(u)) + 1
      BY <2>n, OneMore
    <2>6. Held(u)' = Held(u) + 1
      BY <2>h, <2>m, <2>o
    <2>7. \A t \in Targets : t # u => Held(t)' = Held(t)
      BY <2>3, <2>4, <2>5 DEF Held
    <2> QED BY <2>1, <2>2, <2>3, <2>6, <2>7, OfferAccounted
  <1>4. ASSUME NEW t \in Targets, Receive(t) PROVE AccountInv'
    <2>1. /\ queue[t] # <<>> /\ worker[t].state = "receive" /\ settled' = settled
          /\ issued' = issued /\ call' = call
      BY <1>4 DEF Receive, publishVars
    <2>2. queue'[t] = Tail(queue[t]) /\ \A u \in Targets : u # t => queue'[u] = queue[u]
      BY <1>4, <1>b DEF Receive
    <2>3. Len(queue'[t]) = Len(queue[t]) - 1
      BY <1>b, <2>1, <2>2
    <2>4. CASE cancelled
      <3>1. CountDrop(t, "shutdown") /\ worker' = worker /\ "shutdown" \in Reasons
        BY <1>4, <2>4 DEF Receive, Reasons
      <3>2. /\ TargetDrops(t)' = TargetDrops(t) + 1
            /\ \A u \in Targets : u # t => TargetDrops(u)' = TargetDrops(u)
        BY <1>a, <3>1, DropCounts
      <3>3. \A u \in Targets : Weight(u)' = Weight(u)
        BY <3>1 DEF Weight
      <3>n. Len(queue[t]) \in Nat /\ Weight(t) \in Nat /\ settled[t] \in Nat /\ TargetDrops(t) \in Nat
        BY <1>c
      <3>e. Weight(t)' = Weight(t) /\ settled'[t] = settled[t] /\ TargetDrops(t)' = TargetDrops(t) + 1
        BY <1>c, <2>1, <3>3, <3>2
      <3>h. Held(t)' = (Len(queue[t]) - 1) + Weight(t) + settled[t] + (TargetDrops(t) + 1)
        BY <3>e, <2>3 DEF Held
      <3>m. Held(t) = Len(queue[t]) + Weight(t) + settled[t] + TargetDrops(t)
        BY DEF Held
      <3>p. PICK a \in Nat, b \in Nat, c \in Nat, d \in Nat :
                a = Len(queue[t]) /\ b = Weight(t) /\ c = settled[t] /\ d = TargetDrops(t)
        BY <3>n
      <3>o. (a - 1) + b + c + (d + 1) = a + b + c + d
        BY OneMore
      <3>4. Held(t)' = Held(t)
        BY <3>h, <3>m, <3>o, <3>p
      <3>5. \A u \in Targets : u # t => Held(u)' = Held(u)
        BY <2>1, <2>2, <3>2, <3>3 DEF Held
      <3> QED BY <2>1, <3>4, <3>5, AccountKept
    <2>5. CASE ~cancelled
      <3>1. /\ dropped' = dropped /\ worker'[t].state = "send"
            /\ \A u \in Targets : u # t => worker'[u] = worker[u]
        BY <1>4, <1>b, <2>5 DEF Receive
      <3>2. \A u \in Targets : TargetDrops(u)' = TargetDrops(u)
        BY <3>1 DEF TargetDrops
      <3>3. Weight(t) = 0 /\ Weight(t)' = 1 /\ \A u \in Targets : u # t => Weight(u)' = Weight(u)
        BY <2>1, <3>1 DEF Weight
      <3>4. Held(t)' = Held(t)
        BY <1>c, <2>1, <2>3, <3>2, <3>3 DEF Held
      <3>5. \A u \in Targets : u # t => Held(u)' = Held(u)
        BY <2>1, <2>2, <3>2, <3>3 DEF Held
      <3> QED BY <2>1, <3>4, <3>5, AccountKept
    <2> QED BY <2>4, <2>5
  <1>5. ASSUME NEW t \in Targets, NEW err \in Errors, Send(t, err) PROVE AccountInv'
    <2>1. /\ worker[t].state = "send" /\ worker'[t].state = "record"
          /\ \A u \in Targets : u # t => worker'[u] = worker[u]
          /\ queue' = queue /\ dropped' = dropped /\ settled' = settled /\ issued' = issued /\ call' = call
      BY <1>5, <1>b DEF Send, publishVars, WorkerType
    <2>2. \A u \in Targets : Weight(u)' = Weight(u) /\ TargetDrops(u)' = TargetDrops(u)
      BY <2>1 DEF Weight, TargetDrops
    <2> QED BY <2>1, <2>2, AccountKept DEF Held
  <1>6. ASSUME NEW t \in Targets, RecordResult(t) PROVE AccountInv'
    <2>1. /\ worker[t].state = "record" /\ worker'[t].state = "receive"
          /\ \A u \in Targets : u # t => worker'[u] = worker[u]
          /\ queue' = queue /\ issued' = issued /\ call' = call
      BY <1>6, <1>b DEF RecordResult, publishVars
    <2>2. Weight(t) = 1 /\ Weight(t)' = 0 /\ \A u \in Targets : u # t => Weight(u)' = Weight(u)
      BY <2>1 DEF Weight
    <2>3. CASE settled' = [settled EXCEPT ![t] = @ + 1] /\ dropped' = dropped
      <3>1. settled'[t] = settled[t] + 1 /\ \A u \in Targets : u # t => settled'[u] = settled[u]
        BY <1>b, <2>3
      <3>2. \A u \in Targets : TargetDrops(u)' = TargetDrops(u)
        BY <2>3 DEF TargetDrops
      <3>n. Len(queue[t]) \in Nat /\ Weight(t) \in Nat /\ settled[t] \in Nat /\ TargetDrops(t) \in Nat
        BY <1>c
      <3>e. TargetDrops(t)' = TargetDrops(t) /\ Len(queue'[t]) = Len(queue[t])
        BY <1>c, <2>1, <3>2
      <3>3. Held(t)' = Held(t)
        BY <3>n, <3>e, <2>2, <3>1 DEF Held
      <3>4. \A u \in Targets : u # t => Held(u)' = Held(u)
        BY <2>1, <2>2, <3>1, <3>2 DEF Held
      <3> QED BY <2>1, <3>3, <3>4, AccountKept
    <2>4. ASSUME NEW r \in Reasons, CountDrop(t, r), settled' = settled PROVE AccountInv'
      <3>1. /\ TargetDrops(t)' = TargetDrops(t) + 1
            /\ \A u \in Targets : u # t => TargetDrops(u)' = TargetDrops(u)
        BY <1>a, <2>4, DropCounts
      <3>n. Len(queue[t]) \in Nat /\ Weight(t) \in Nat /\ settled[t] \in Nat /\ TargetDrops(t) \in Nat
        BY <1>c
      <3>e. settled'[t] = settled[t] /\ Len(queue'[t]) = Len(queue[t]) /\ TargetDrops(t)' = TargetDrops(t) + 1
        BY <1>c, <2>1, <2>4, <3>1
      <3>2. Held(t)' = Held(t)
        BY <3>n, <3>e, <2>2 DEF Held
      <3>3. \A u \in Targets : u # t => Held(u)' = Held(u)
        BY <2>1, <2>2, <2>4, <3>1 DEF Held
      <3> QED BY <2>1, <3>2, <3>3, AccountKept
    <2>5. "shutdown" \in Reasons /\ "invalid" \in Reasons
      BY DEF Reasons
    <2> QED BY <1>6, <2>3, <2>4, <2>5 DEF RecordResult
  <1>7. ASSUME NEW t \in Targets, WorkerReturns(t) PROVE AccountInv'
    <2>1. /\ worker[t].state = "receive" /\ worker'[t].state = "done"
          /\ \A u \in Targets : u # t => worker'[u] = worker[u]
          /\ queue' = queue /\ dropped' = dropped /\ settled' = settled /\ issued' = issued /\ call' = call
      BY <1>7, <1>b DEF WorkerReturns, publishVars, WorkerType
    <2>2. \A u \in Targets : Weight(u)' = Weight(u) /\ TargetDrops(u)' = TargetDrops(u)
      BY <2>1 DEF Weight, TargetDrops
    <2> QED BY <2>1, <2>2, AccountKept DEF Held
  <1>8. CASE WorkersWaited \/ CloserStep \/ WriteLine \/ UNCHANGED vars
    <2>1. /\ queue' = queue /\ dropped' = dropped /\ settled' = settled /\ worker' = worker
          /\ issued' = issued /\ call' = call
      BY <1>8 DEF WorkersWaited, CloserStep, Close, Stop, Deadline, Shutdown, StopSink, DrainSink,
                  WriteLine, vars, publishVars, targetVars
    <2>2. \A u \in Targets : Weight(u)' = Weight(u) /\ TargetDrops(u)' = TargetDrops(u)
      BY <2>1 DEF Weight, TargetDrops
    <2> QED BY <2>1, <2>2, AccountKept DEF Held
  <1> QED
    BY <1>1, <1>2, <1>3, <1>4, <1>5, <1>6, <1>7, <1>8 DEF Next, PublisherStep, WorkerStep

(* Every event that TryPublish was called with is, for every target, exactly  *)
(* one of still to be offered, queued, with the sender, settled or counted by *)
(* DroppedEvents, for any number of publishers, targets, events and depths.   *)
THEOREM AccountedTheorem == Spec => []EveryEventAccounted
  <1>1. NotificationsInv /\ AccountInv => EveryEventAccounted
    <2> SUFFICES ASSUME NotificationsInv, AccountInv, NEW t \in Targets
                 PROVE  issued = Cardinality(Ahead(t)) + Len(queue[t]) + Weight(t) + settled[t] + TargetDrops(t)
      BY DEF EveryEventAccounted, Ahead, Weight
    <2>1. NotificationsTypeOK
      BY DEF NotificationsInv
    <2>2. /\ Len(queue[t]) \in Nat /\ Weight(t) \in Nat /\ settled[t] \in Nat /\ TargetDrops(t) \in Nat
          /\ Cardinality(Ahead(t)) \in Nat
      BY <2>1, AccountParts
    <2>3. issued = Cardinality(Ahead(t)) + Held(t)
      BY DEF AccountInv
    <2> QED BY <2>2, <2>3 DEF Held
  <1> QED BY <1>1, AccountInit, AccountStep, NotificationsInvariant, PTL DEF Spec
=============================================================================
