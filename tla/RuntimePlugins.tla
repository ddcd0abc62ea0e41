--------------------------- MODULE RuntimePlugins ---------------------------
(***************************************************************************)
(* The client of one operation, which talks through the plugin the operation   *)
(* selected: Docker, Podman or containerd, and the contract all of them keep.   *)
(***************************************************************************)
EXTENDS EngineRuntime, ContainerdRuntime

(* Set.Select and Set.plugin: a kind that is not linked is never opened.          *)
Select(kind) == kind \in Plugins

(* The calls of the application layer: only containerd can resume a removal.       *)
Ask == /\ Select(plugin)
       /\ \E op \in Operations \ {"idle"} : (op = "resume" => Containerd) /\ Begin(op)

ClientStep == DockerNext \/ PodmanNext \/ ContainerdNext

Step == \/ Ask \/ ClientStep \/ Crash
        \/ EngineDeliver \/ ContainerdDeliver \/ GarbageCollect
        \/ Environment

RuntimesNext == Step /\ Watch

RuntimesSpec == RuntimesInit /\ [][RuntimesNext]_vars

(* Each request of a call is answered, fails or runs into its deadline.             *)
RuntimesFairSpec == RuntimesSpec /\ WF_vars(ClientStep /\ Watch)

-----------------------------------------------------------------------------
(* Type correctness                                                        *)
RuntimesTypeOK ==
    /\ plugin \in Plugins
    /\ box \in [Ids -> BoxType]
    /\ call.op \in Operations /\ call.sub \in {"none", "old", "new"}
    /\ call.named \in SnapshotType /\ call.owned \in SnapshotType
    /\ call.keep \in BOOLEAN
    /\ wire \subseteq RequestType
    /\ marks \in [Ids -> SUBSET {"stopped", "stray", "revived", "abandoned"}]
    /\ faults \in 0 .. MaxFaults /\ foreign \in 0 .. MaxForeign

-----------------------------------------------------------------------------
(* Refinement                                                              *)

PendingOp(r) ==
    IF plugin = "containerd"
    THEN [op |-> IF r.kind = "kill" THEN (IF r.id = TxId THEN "discard" ELSE "stop")
                 ELSE (IF r.id = TxId THEN "start" ELSE "restart"),
          sub |-> IF r.id = TxId THEN "new" ELSE "old", late |-> TRUE]
    ELSE [op |-> IF r.kind = "start" /\ r.id = Predecessor THEN "restart" ELSE r.kind,
          sub |-> IF r.id = Predecessor THEN "old" ELSE "new", late |-> TRUE]

Mutating == {"create", "start", "stop", "rename", "remove", "restart", "discard"}

Pending == {PendingOp(r) : r \in wire}
           \cup (IF call.op \in Mutating THEN {[op |-> call.op, sub |-> call.sub, late |-> FALSE]}
                 ELSE IF call.op = "resume" THEN {[op |-> "remove", sub |-> "old", late |-> FALSE]} ELSE {})

(* The call as its caller knows it: a resumption is a removal.                    *)
Task == IF call.op = "idle"
        THEN [op |-> "idle", sub |-> "none", from |-> "none", to |-> "none"]
        ELSE [op |-> IF call.op = "resume" THEN "remove" ELSE call.op,
              sub |-> call.sub, from |-> call.from, to |-> call.to]

Contract == INSTANCE WorkloadContract WITH
    view <- View, free <- Free, open <- Pending, foreign <- foreign, seen <- seen,
    answer <- answer, task <- Task

(* Every plugin implements the contract of module WorkloadContract: whatever       *)
(* fails, is lost, comes late or is done by others in between, an answer was         *)
(* true at some moment of the call and a workload changes only as asked.            *)
ImplementsWorkloadContract == Contract!ContractSpec

(* What others own is never changed by the client or by a request of it: every       *)
(* request names the ID that was proved, not a name that may have moved on.           *)
ForeignUntouched ==
    [][\A c \in Ids : box[c].record /\ box[c].owner = "none" /\ foreign' = foreign =>
          box'[c] = box[c] \/ box'[c].task = "exited"]_vars

(* A running container is removed only by a discard: a removal is not forced, and      *)
(* one that finds a task running again gives up.  Only a task the restart monitor       *)
(* made out of nothing in the middle of a removal outlives its record.                 *)
RemovedWhileRunning ==
    \A c \in Ids : ~box[c].record /\ box[c].task \in {"running", "paused"} =>
        "revived" \in marks[c]

(* Parts of a workload without a record, which nothing will ever remove, are left         *)
(* only by an interrupted creation, never by a removal, wherever it was interrupted.       *)
OnlyCreationsLeak ==
    \A c \in Ids : ~box[c].record /\ box[c].parts \ {"snapshot"} # {} =>
        \/ "abandoned" \in marks[c]
        \/ call.op = "create" /\ c = TxId

(* A container that runs and was not started by a request nobody waited for has its        *)
(* network: a failed start takes it away only when the task does not run.                  *)
RunningIsConnected ==
    plugin = "containerd" =>
        \A c \in Ids : box[c].owner # "none" /\ box[c].task = "running" =>
            \/ "network" \in box[c].parts
            \/ marks[c] \cap {"stray", "revived"} # {}

(* A workload whose stop succeeded is not started again by a restart policy: the            *)
(* monitor is told before the task is killed.                                            *)
StopHolds ==
    \A c \in Ids : "stopped" \in marks[c] => box[c].task # "running"

(* Every call returns: each wait for an engine or a container has a deadline.                *)
CallsReturn == call.op # "idle" ~> call.op = "idle"

(* What holds of the containers after every step: their types, that nothing that runs      *)
(* is removed or without its network, and that only creations leak.                        *)
RuntimesInv == RuntimesTypeOK /\ RemovedWhileRunning /\ OnlyCreationsLeak /\ RunningIsConnected
=============================================================================
