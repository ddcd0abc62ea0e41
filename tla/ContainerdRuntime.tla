------------------------- MODULE ContainerdRuntime -------------------------
(***************************************************************************)
(* The containerd plugin (src/plugins/runtime/containerd).  containerd knows   *)
(* no workloads: the plugin itself makes and removes the lease, the snapshot,  *)
(* the host files, the network namespace, the CNI network, the task and the     *)
(* metadata record, one request after the other, and undoes what it can when    *)
(* one of them fails.                                                       *)
(*                                                                         *)
(* The steps of a call are named after the backend method they are part of:     *)
(* mk.* Create, cl.* cleanupCreate, start.*, stop.*, rm.* Remove.              *)
(***************************************************************************)
EXTENDS Runtimes

(* workloadIdentifier: the name and the transaction determine the ID.          *)
TxId == 2

Subject == IF call.sub = "new" THEN TxId ELSE Predecessor

Containerd == plugin = "containerd"

Kept == UNCHANGED <<plugin, wire, marks, foreign>>

(* One request that changes the container to b: it succeeds, or its caller       *)
(* learns of a failure although it was done, or because it was not.  Left out: a  *)
(* record that containers.Create or containers.Update writes after its caller     *)
(* gave up.  Late are only the task requests (StartRun, Signal).                 *)
Try(b, done, failed) ==
    /\ Kept
    /\ \/ box' = b /\ done /\ Fine
       \/ box' \in {box, b} /\ failed /\ Fault

(* A request of the cleanup: whatever becomes of it, the cleanup goes on.         *)
TryCleanup(b, done) ==
    /\ UNCHANGED <<plugin, wire, foreign>>
    /\ done
    /\ \/ box' = b /\ Fine /\ marks' = marks
       \/ box' = box /\ Fault /\ marks' = [marks EXCEPT ![TxId] = @ \cup {"abandoned"}]

Refuse == Fine /\ Return("error") /\ Read

With(c, part)    == [box EXCEPT ![c].parts = @ \cup {part}]
Without(c, part) == [box EXCEPT ![c].parts = @ \ {part}]

(* checked: the server is still the one that was pinned, or nothing is known.     *)
Checked(a) == \/ Return(a) /\ Fine
              \/ Return("error") /\ Fault

-----------------------------------------------------------------------------
(* Reading                                                                 *)

(* decodeContainer: a managed record without its snapshot or its mounted          *)
(* namespace cannot be read.                                                 *)
Decodable(c) == box[c].owner # "none" => {"snapshot", "netns"} \subseteq box[c].parts

(* Workload: the record of an ID, decoded.                                    *)
WorkloadOf(c) == IF ~box[c].record THEN Missing ELSE Snapshot(c)

Readable(c) == box[c].record => Decodable(c)

NameAvailable(n, except) == Holders(n) \subseteq except

(* Candidates: the list of all records, of which one may have the name and one     *)
(* the labels of the transaction,                                            *)
ListCandidates ==
    /\ Containerd /\ At({"create", "start", "discard", "probe"}, "begin")
    /\ \/ FailRead
       \/ /\ IF Cardinality(Holders("app")) > 1 \/ Cardinality(Owned) > 1
             THEN Return("error")
             ELSE /\ call' = [call EXCEPT !.step = "decode",
                       !.named = IF Holders("app") = {} THEN Missing
                                 ELSE Snapshot(CHOOSE c \in Holders("app") : TRUE),
                       !.owned = IF Owned = {} THEN Missing
                                 ELSE Snapshot(CHOOSE c \in Owned : TRUE)]
                  /\ answer' = answer
          /\ Fine /\ Read

(* selectWorkloadCandidate                                                  *)
SelectCandidate == IF call.named.id # 0 THEN call.named ELSE call.owned

CandidatesConsistent ==
    /\ call.named.id # 0 /\ call.owned.id # 0 => call.named.id = call.owned.id
    /\ call.named.id # 0 /\ call.owned.id = 0 => call.named.owner = "none"

(* validEffectWorkload                                                     *)
ExactWorkload(s) == s.id # 0 /\ s.name = "app" /\ s.owner = "tx"

(* and each of them decoded: the lifecycle is read now, the labels were before.    *)
DecodeCandidates ==
    /\ Containerd /\ At({"create", "start", "discard", "probe"}, "decode")
    /\ \/ FailRead
       \/ /\ LET s == SelectCandidate
                 life == IF s.id = 0 THEN "none" ELSE Life(s.id) IN
             IF \/ \E c \in {call.named.id, call.owned.id} \ {0} :
                      ~box[c].record \/ ~Decodable(c)
                \/ ~CandidatesConsistent
             THEN Return("error")
             ELSE CASE call.op = "probe" ->
                           Return(IF s.id = 0 THEN "missing"
                                  ELSE IF s.owner = "tx" THEN life ELSE "other")
                    [] call.op = "start" ->
                           IF ExactWorkload(s) /\ life = "created"
                           THEN Continue("start.get") ELSE Return("error")
                    [] call.op = "discard" ->
                           IF ExactWorkload(s) THEN Continue("rm.get") ELSE Return("error")
                    [] call.op = "create" ->
                           IF s.id = 0 /\ ~box[TxId].record
                           THEN call' = [call EXCEPT !.step = "mk.lease",
                                                     !.owned.id = TxId] /\ answer' = answer
                           ELSE Return("error")
          /\ Fine /\ Read

(* ApplyWorkloadTransition: the predecessor has to be exactly what was recorded.   *)
ReadExisting ==
    /\ Containerd /\ At({"stop", "rename", "remove", "restart"}, "begin")
    /\ \/ FailRead
       \/ LET s == WorkloadOf(Predecessor) IN
          IF /\ Readable(Predecessor) /\ s.id # 0 /\ s.name = call.from
             /\ s.life = (IF call.op = "stop" THEN "running" ELSE "exited")
          THEN /\ Continue(CASE call.op = "stop" -> "stop.get" [] call.op = "rename" -> "rename"
                             [] call.op = "remove" -> "rm.get" [] OTHER -> "start.get")
               /\ Fine /\ Read
          ELSE Refuse

(* ProbeWorkloadTransition: probeExistingWorkload, or for a removal the record      *)
(* alone, whatever else of the workload is left.                             *)
ProbeExisting ==
    /\ Containerd /\ At({"probeStop", "probeRename"}, "begin")
    /\ \/ FailRead
       \/ /\ LET s == WorkloadOf(Predecessor) IN
             IF ~Readable(Predecessor) THEN Return("error")
             ELSE IF call.op = "probeRename" /\ s.id # 0
             THEN call' = [call EXCEPT !.step = "name", !.owned = s] /\ answer' = answer
             ELSE Return(IF s.id = 0 THEN "missing" ELSE s.life)
          /\ Fine /\ Read

(* Task lifecycle of a removal candidate: what can still be removed is "removing".   *)
RemovalLife == CASE box[Predecessor].task \in {"none", "created", "exited"} -> "removing"
                 [] OTHER -> box[Predecessor].task

(* probeRemovedWorkload, which ResumeIncompleteWorkloadTransition repeats.        *)
ProbeRemoved ==
    /\ Containerd /\ At({"probeRemove", "resume"}, "begin")
    /\ \/ FailRead
       \/ /\ IF box[Predecessor].record
             THEN IF call.op = "probeRemove" THEN Return(RemovalLife)
                  ELSE IF RemovalLife = "removing" /\ box[Predecessor].name = call.from
                       THEN Continue("rm.get") ELSE Return("error")
             ELSE IF call.op = "resume" THEN Return("error") ELSE Continue("name")
          /\ Fine /\ Read

(* readRemovalState and the name a rename was to free                           *)
ProbeName ==
    /\ Containerd /\ At({"probeRename", "probeRemove"}, "name")
    /\ \/ FailRead
       \/ /\ IF ~NameAvailable(call.from, {}) THEN Return("error")
             ELSE IF call.op = "probeRename" THEN Return(call.owned.life)
             ELSE Continue("complete")
          /\ Fine /\ Read

(* RemovalComplete: no snapshot, no network, no state directory, no namespace.      *)
RemovalComplete ==
    /\ Containerd /\ At({"probeRemove"}, "complete")
    /\ \/ FailRead
       \/ /\ Return(IF box[Predecessor].parts \cap {"snapshot", "network", "host", "netns"} = {}
                    THEN "missing" ELSE "error")
          /\ Fine /\ Read

ContainerdRead == \/ ListCandidates \/ DecodeCandidates \/ ReadExisting \/ ProbeExisting
                  \/ ProbeRemoved \/ ProbeName \/ RemovalComplete

-----------------------------------------------------------------------------
(* Create                                                                  *)

(* leases.Create: a lease that is there already is an error, and an error leaves    *)
(* without a cleanup.                                                       *)
CreateLease ==
    /\ Containerd /\ At({"create"}, "mk.lease")
    /\ \/ "lease" \in box[TxId].parts /\ Refuse
       \/ "lease" \notin box[TxId].parts /\ Fine /\ Kept
              /\ box' = [With(TxId, "lease") EXCEPT ![TxId].born = TRUE]
              /\ Continue("mk.snapshot")
       \/ /\ "lease" \notin box[TxId].parts /\ Fault /\ Return("error")
          /\ box' = [With(TxId, "lease") EXCEPT ![TxId].born = TRUE]
          /\ marks' = [marks EXCEPT ![TxId] = @ \cup {"abandoned"}]
          /\ UNCHANGED <<plugin, wire, foreign>>
       \/ FailRead

(* snapshots.Prepare, under the lease: if it fails only the lease is given up.       *)
PrepareSnapshot ==
    /\ Containerd /\ At({"create"}, "mk.snapshot")
    /\ IF "snapshot" \in box[TxId].parts
       THEN Continue("cl.lease") /\ Fine /\ Read
       ELSE Try(With(TxId, "snapshot"), Continue("mk.host"), Continue("cl.lease"))

HostFiles == [box EXCEPT ![TxId].parts = @ \cup {"host", "volume"}]

(* host.Prepare: the state directory may exist already, a volume may not.  When it    *)
(* fails it discards the volumes it made, unless that fails too; keep says that the   *)
(* cleanup will know the volumes.                                            *)
PrepareHost ==
    /\ Containerd /\ At({"create"}, "mk.host")
    /\ \/ /\ "volume" \notin box[TxId].parts
          /\ box' = HostFiles /\ Kept /\ Fine
          /\ call' = [call EXCEPT !.step = "mk.netns", !.keep = TRUE] /\ answer' = answer
       \/ /\ "volume" \in box[TxId].parts
          /\ box' = With(TxId, "host") /\ Kept /\ Fine /\ Continue("cl.record")
       \/ box' \in {box, With(TxId, "host")} /\ Kept /\ Fault /\ Continue("cl.record")
       \/ /\ "volume" \notin box[TxId].parts
          /\ box' = HostFiles /\ Fault /\ Continue("cl.record")
          /\ marks' = [marks EXCEPT ![TxId] = @ \cup {"abandoned"}]
          /\ UNCHANGED <<plugin, wire, foreign>>

(* EnsureNetworkNamespace                                                  *)
EnsureNetns == /\ Containerd /\ At({"create"}, "mk.netns")
               /\ Try(With(TxId, "netns"), Continue("mk.record"), Continue("cl.record"))

(* containers.Create: from now on the workload exists.                         *)
CreateRecord ==
    /\ Containerd /\ At({"create"}, "mk.record")
    /\ Try([box EXCEPT ![TxId] = [@ EXCEPT !.record = TRUE, !.name = "app", !.owner = "tx",
                                          !.task = "none", !.restart = FALSE]],
           Continue("mk.release"), Continue("cl.record"))

(* deleteLease                                                             *)
ReleaseLease ==
    /\ Containerd /\ At({"create"}, "mk.release")
    /\ \/ box' = Without(TxId, "lease") /\ Kept /\ Checked("ok")
       \/ box' \in {box, Without(TxId, "lease")} /\ Kept /\ Fault /\ Continue("cl.record")

(* cleanupCreate and rollbackCreate                                         *)
CleanupRecord ==
    /\ Containerd /\ At({"create"}, "cl.record")
    /\ TryCleanup([box EXCEPT ![TxId].record = FALSE, ![TxId].name = "none",
                              ![TxId].owner = "none"], Continue("cl.snapshot"))

CleanupSnapshot == /\ Containerd /\ At({"create"}, "cl.snapshot")
                   /\ TryCleanup(Without(TxId, "snapshot"), Continue("cl.netns"))

CleanupNetns == /\ Containerd /\ At({"create"}, "cl.netns")
                /\ TryCleanup(Without(TxId, "netns"), Continue("cl.host"))

NoHostFiles(c) == [box EXCEPT ![c].parts = @ \ {"host", "volume"}]

(* removeWorkloadState: the volumes if the cleanup knows them, and then the state     *)
(* directory.                                                               *)
CleanupHost ==
    /\ Containerd /\ At({"create"}, "cl.host")
    /\ \/ TryCleanup(IF call.keep THEN NoHostFiles(TxId) ELSE Without(TxId, "host"),
                     Continue("cl.lease"))
       \/ /\ call.keep /\ box' = Without(TxId, "volume") /\ Fault /\ Continue("cl.lease")
          /\ marks' = [marks EXCEPT ![TxId] = @ \cup {"abandoned"}]
          /\ UNCHANGED <<plugin, wire, foreign>>

CleanupLease == /\ Containerd /\ At({"create"}, "cl.lease")
                /\ TryCleanup(Without(TxId, "lease"), Return("error"))

CreateNext == \/ CreateLease \/ PrepareSnapshot \/ PrepareHost \/ EnsureNetns \/ CreateRecord
              \/ ReleaseLease \/ CleanupRecord \/ CleanupSnapshot \/ CleanupNetns
              \/ CleanupHost \/ CleanupLease

-----------------------------------------------------------------------------
(* Start                                                                   *)

Starting == {"start", "restart"}

(* A failed start ends with the rollback of the network, unless it was there        *)
(* before or the task may run after all.                                     *)
GiveUpStart == IF call.keep THEN Return("error") ELSE Continue("start.undo")

(* Workload, whose configuration only matches if a running task is connected.       *)
StartGet ==
    /\ Containerd /\ At(Starting, "start.get")
    /\ \/ FailRead
       \/ /\ box[Subject].record /\ Decodable(Subject)
          /\ box[Subject].task = "running" => "network" \in box[Subject].parts
          /\ Continue("start.net") /\ Fine /\ Read
       \/ /\ ~box[Subject].record \/ ~Decodable(Subject)
             \/ (box[Subject].task = "running" /\ "network" \notin box[Subject].parts)
          /\ Refuse

(* network.Absent and network.Ensure                                        *)
StartNetwork ==
    /\ Containerd /\ At(Starting, "start.net")
    /\ LET kept == "network" \in box[Subject].parts IN
       \/ /\ box' = With(Subject, "network") /\ Fine /\ Kept
          /\ call' = [call EXCEPT !.step = "start.look", !.keep = kept] /\ answer' = answer
       \/ /\ box' \in {box, With(Subject, "network")} /\ Fault /\ Kept
          /\ IF kept THEN Return("error")
             ELSE call' = [call EXCEPT !.step = "start.undo"] /\ answer' = answer

(* taskLifecycle                                                           *)
StartLook ==
    /\ Containerd /\ At(Starting, "start.look")
    /\ \/ Fault /\ Read /\ GiveUpStart
       \/ /\ Fine /\ Read
          /\ CASE box[Subject].task = "running" -> Continue("start.label")
               [] box[Subject].task = "paused" -> Return("error")
               [] box[Subject].task = "exited" -> Continue("start.clear")
               [] box[Subject].task = "created" -> Continue("start.run")
               [] OTHER -> Continue("start.make")

(* deleteTask of an exited task: a running one is refused.                       *)
StartClear ==
    /\ Containerd /\ At(Starting, "start.clear")
    /\ IF box[Subject].task \in {"running", "paused"}
       THEN GiveUpStart /\ Fine /\ Read
       ELSE Try([box EXCEPT ![Subject].task = "none"], Continue("start.make"), GiveUpStart)

(* createTask                                                              *)
StartMake ==
    /\ Containerd /\ At(Starting, "start.make")
    /\ IF ~box[Subject].record \/ ~Decodable(Subject) \/ box[Subject].task # "none"
       THEN GiveUpStart /\ Fine /\ Read
       ELSE Try([box EXCEPT ![Subject].task = "created"], Continue("start.run"), GiveUpStart)

Run(c) == [box EXCEPT ![c].task = "running"]

(* tasks.Start: after an error the task is looked at before the network goes.        *)
StartRun ==
    /\ Containerd /\ At(Starting, "start.run")
    /\ UNCHANGED <<plugin, foreign>>
    /\ \/ /\ box[Subject].task = "created" /\ box' = Run(Subject) /\ wire' = wire
          /\ marks' = [marks EXCEPT ![Subject] = @ \ {"stopped"}]
          /\ \/ Continue("start.label") /\ Fine
             \/ Continue("start.doubt") /\ Fault
       \/ /\ box[Subject].task # "created" /\ Continue("start.doubt") /\ Fine
          /\ UNCHANGED <<box, wire, marks>>
       \/ /\ Continue("start.doubt") /\ Fault
          /\ wire' \in {wire, wire \cup {[kind |-> "run", id |-> Subject, name |-> "none"]}}
          /\ UNCHANGED <<box, marks>>

(* Mutant: the rollback does not look at the task again. *)
StartDoubtBlind ==
    /\ Containerd /\ At(Starting, "start.doubt")
    /\ GiveUpStart /\ Fine /\ Read

(* startMayHaveTakenEffect                                                  *)
StartDoubt ==
    /\ Containerd /\ At(Starting, "start.doubt")
    /\ \/ Return("error") /\ Fault /\ Read
       \/ /\ Fine /\ Read
          /\ IF box[Subject].task \in {"none", "created"} THEN GiveUpStart ELSE Return("error")

(* The deferred network.Delete                                               *)
StartUndo == /\ Containerd /\ At(Starting, "start.undo")
             /\ Try(Without(Subject, "network"), Return("error"), Return("error"))

(* setRestartState: the monitor may restart it from now on.                      *)
StartLabel ==
    /\ Containerd /\ At(Starting, "start.label")
    /\ IF ~box[Subject].record THEN Refuse
       ELSE \/ box' = [box EXCEPT ![Subject].restart = TRUE] /\ Kept /\ Checked("ok")
            \/ /\ box' \in {box, [box EXCEPT ![Subject].restart = TRUE]}
               /\ Kept /\ Fault /\ Return("error")

StartNext == \/ StartGet \/ StartNetwork \/ StartLook \/ StartClear \/ StartMake \/ StartRun
             \/ StartDoubt \/ StartUndo \/ StartLabel

-----------------------------------------------------------------------------
(* Stop, of a stop transition or of a running workload that is discarded          *)

Stopping == {"stop", "discard"}

(* The stop is over: a discard goes on with the removal.                         *)
Stopped == /\ UNCHANGED <<plugin, box, wire, foreign>>
           /\ IF call.op = "discard"
              THEN Continue("rm.look") /\ Fine /\ marks' = marks
              ELSE \/ /\ Return("ok") /\ Fine
                      /\ marks' = [marks EXCEPT ![Subject] = @ \cup {"stopped"}]
                   \/ Return("error") /\ Fault /\ marks' = marks

StopGet ==
    /\ Containerd /\ At(Stopping, "stop.get")
    /\ \/ FailRead
       \/ IF box[Subject].record /\ Decodable(Subject)
          THEN Continue("stop.label") /\ Fine /\ Read
          ELSE Refuse

(* Mutant: a stop does not tell the restart monitor. *)
StopLabelSkipped ==
    /\ Containerd /\ At(Stopping, "stop.label")
    /\ Continue("stop.look") /\ Fine /\ Read

(* setRestartState: first the monitor is told not to restart it,                   *)
StopLabel ==
    /\ Containerd /\ At(Stopping, "stop.label")
    /\ IF ~box[Subject].record THEN Refuse
       ELSE Try([box EXCEPT ![Subject].restart = FALSE], Continue("stop.look"),
                Return("error"))

(* stopTask: then the task is stopped, if there is one that runs.                  *)
StopLook ==
    /\ Containerd /\ At(Stopping, "stop.look")
    /\ \/ FailRead
       \/ box[Subject].task \in {"none", "created", "exited"} /\ Stopped
       \/ /\ box[Subject].task \in {"running", "paused"} /\ Fine /\ Read
          /\ Continue(IF box[Subject].task = "paused" THEN "stop.resume" ELSE "stop.term")

StopResume ==
    /\ Containerd /\ At(Stopping, "stop.resume")
    /\ \/ box[Subject].task = "none" /\ Stopped
       \/ /\ box[Subject].task # "none"
          /\ Try([box EXCEPT ![Subject].task = IF @ = "paused" THEN "running" ELSE @],
                 Continue("stop.term"), Return("error"))

Halted(c) == [box EXCEPT ![c].task = IF @ = "running" THEN "exited" ELSE @]

(* A signal that is delivered, refused, lost or delivered later.                   *)
Signal(next, effects) ==
    /\ UNCHANGED <<plugin, marks, foreign>>
    /\ \/ box' \in effects /\ wire' = wire /\ Continue(next) /\ Fine
       \/ box' \in effects /\ wire' = wire /\ Return("error") /\ Fault
       \/ /\ box' = box /\ Return("error") /\ Fault
          /\ wire' \in {wire, wire \cup {[kind |-> "kill", id |-> Subject, name |-> "none"]}}

(* SIGTERM, which the process may ignore,                                     *)
StopTerm ==
    /\ Containerd /\ At(Stopping, "stop.term")
    /\ \/ box[Subject].task \in {"none", "exited"} /\ Stopped
       \/ /\ box[Subject].task \notin {"none", "exited"}
          /\ Signal("stop.wait", {box, Halted(Subject)})

(* Mutant: the wait after the signal has no end. *)
StopWaitForever ==
    /\ Containerd /\ At(Stopping, "stop.wait")
    /\ \/ FailRead
       \/ box[Subject].task \in {"none", "exited"} /\ Stopped

(* Wait until it exits or the time is over,                                    *)
StopWait ==
    /\ Containerd /\ At(Stopping, "stop.wait")
    /\ \/ FailRead
       \/ box[Subject].task \in {"none", "exited"} /\ Stopped
       \/ box[Subject].task \notin {"none", "exited"} /\ Continue("stop.kill") /\ Fine /\ Read

(* then SIGKILL, which it cannot,                                            *)
StopKill ==
    /\ Containerd /\ At(Stopping, "stop.kill")
    /\ \/ box[Subject].task \in {"none", "exited"} /\ Stopped
       \/ /\ box[Subject].task \notin {"none", "exited"}
          /\ Signal("stop.last", {Halted(Subject)})

(* and a second wait, which is the last.                                      *)
StopLast ==
    /\ Containerd /\ At(Stopping, "stop.last")
    /\ \/ FailRead
       \/ IF box[Subject].task \in {"none", "exited"} THEN Stopped ELSE Refuse

StopNext == \/ StopGet \/ StopLabel \/ StopLook \/ StopResume \/ StopTerm \/ StopWait
            \/ StopKill \/ StopLast

(* Rename: the name is free, and then the label is changed.                       *)
RenameAvailable ==
    /\ Containerd /\ At({"rename"}, "rename")
    /\ \/ FailRead
       \/ IF NameAvailable(call.to, {Predecessor})
          THEN Continue("rename.label") /\ Fine /\ Read ELSE Refuse

RenameLabel ==
    /\ Containerd /\ At({"rename"}, "rename.label")
    /\ IF ~box[Predecessor].record \/ ~Decodable(Predecessor) THEN Refuse
       ELSE \/ box' = [box EXCEPT ![Predecessor].name = call.to] /\ Kept /\ Checked("ok")
            \/ /\ box' \in {box, [box EXCEPT ![Predecessor].name = call.to]}
               /\ Kept /\ Fault /\ Return("error")

-----------------------------------------------------------------------------
(* Remove, of a remove transition, of its resumption or of a discard               *)

Removing == {"remove", "resume", "discard"}

(* Mutant: a discard of a running workload removes its record at once. *)
RemoveGetRecord ==
    /\ Containerd /\ At(Removing, "rm.get")
    /\ Fine /\ Read
    /\ Continue(IF call.op = "discard" /\ box[Subject].task \in {"running", "paused"}
                THEN "rm.record" ELSE "rm.look")

(* removableWorkload: the record says what there is to remove.                   *)
RemoveGet ==
    /\ Containerd /\ At(Removing, "rm.get")
    /\ \/ FailRead
       \/ ~box[Subject].record /\ Read /\ Checked("ok")
       \/ /\ box[Subject].record /\ Fine /\ Read
          /\ Continue(IF call.op = "discard" /\ box[Subject].task \in {"running", "paused"}
                      THEN "stop.get" ELSE "rm.look")

RemoveLook ==
    /\ Containerd /\ At(Removing, "rm.look")
    /\ \/ FailRead
       \/ box[Subject].task \in {"running", "paused"} /\ Refuse
       \/ /\ box[Subject].task \notin {"running", "paused"} /\ Fine /\ Read
          /\ Continue(IF box[Subject].task = "none" THEN "rm.network" ELSE "rm.task")

RemoveTask ==
    /\ Containerd /\ At(Removing, "rm.task")
    /\ IF box[Subject].task \in {"running", "paused"} THEN Refuse
       ELSE Try([box EXCEPT ![Subject].task = "none"], Continue("rm.network"), Return("error"))

RemovePart(step, part, next) ==
    /\ Containerd /\ At(Removing, step)
    /\ Try(Without(Subject, part), Continue(next), Return("error"))

NoRecord(c) == [box EXCEPT ![c].record = FALSE, ![c].owner = "none", ![c].name = "none"]

(* Mutant: removing the network takes the record with it. *)
RemoveNetworkAndRecord ==
    /\ Containerd /\ At(Removing, "rm.network")
    /\ Try([NoRecord(Subject) EXCEPT ![Subject].parts = @ \ {"network"}],
           Continue("rm.netns"), Return("error"))

RemoveNetwork == RemovePart("rm.network", "network", "rm.netns")
RemoveNetns == RemovePart("rm.netns", "netns", "rm.snapshot")
RemoveSnapshot == RemovePart("rm.snapshot", "snapshot", "rm.volume")
RemoveVolume == RemovePart("rm.volume", "volume", "rm.host")
RemoveHost == RemovePart("rm.host", "host", "rm.record")

(* containers.Delete: the record goes last.                                    *)
RemoveRecord ==
    /\ Containerd /\ At(Removing, "rm.record")
    /\ \/ box' = NoRecord(Subject) /\ Kept /\ Checked("ok")
       \/ box' \in {box, NoRecord(Subject)} /\ Kept /\ Fault /\ Return("error")

RemoveNext == \/ RemoveGet \/ RemoveLook \/ RemoveTask \/ RemoveNetwork \/ RemoveNetns
              \/ RemoveSnapshot \/ RemoveVolume \/ RemoveHost \/ RemoveRecord

-----------------------------------------------------------------------------
(* A task request is carried out after its caller gave up: runc needs the           *)
(* namespace of a task that starts.                                          *)
ContainerdDeliver ==
    /\ Containerd
    /\ \E r \in wire :
          LET starts == r.kind = "run" /\ box[r.id].task = "created" IN
          /\ wire' = wire \ {r}
          /\ box' = IF r.kind = "kill" THEN Halted(r.id)
                    ELSE IF starts THEN Run(r.id) ELSE box
          /\ marks' = [marks EXCEPT ![r.id] = IF starts THEN (@ \cup {"stray"}) \ {"stopped"}
                                              ELSE @]
    /\ UNCHANGED <<plugin, call, answer, faults, foreign>>

(* The garbage collector of containerd takes what no lease and no record holds.     *)
GarbageCollect ==
    /\ Containerd
    /\ "snapshot" \in box[TxId].parts /\ "lease" \notin box[TxId].parts
    /\ ~box[TxId].record
    /\ box' = Without(TxId, "snapshot")
    /\ UNCHANGED <<plugin, call, wire, answer, marks, faults, foreign>>

ContainerdNext == \/ ContainerdRead \/ CreateNext \/ StartNext \/ StopNext
                  \/ RenameAvailable \/ RenameLabel \/ RemoveNext
=============================================================================
