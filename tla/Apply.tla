------------------------------- MODULE Apply -------------------------------
(***************************************************************************)
(* One service through bootstrap, adopt, upgrade and restore:              *)
(* src/internal/application over a container runtime that loses, refuses    *)
(* and delays requests, driven by a process that may die between any two    *)
(* steps and is run again.                                                 *)
(*                                                                         *)
(* The process holds the service lock of module ServiceLock, so it is alone;*)
(* every journal call is one step of module Journal.  Each kind of action   *)
(* occurs at most once in a transaction and in a fixed order, so the rows   *)
(* of journal_actions are a function of the kind.                           *)
(***************************************************************************)
EXTENDS Naturals, FiniteSets

CONSTANTS
    Scenarios,  \* what is deployed when the service is first applied
    Storages,   \* kinds of writable storage: "none", "shared" or "private"
    LateKinds,  \* the requests the runtime may carry out after the call failed
    Exits,      \* the containers that may exit by themselves
    Resumable,  \* the runtime can resume a removal it left incomplete
    MaxFaults,  \* bound on crashes, failed calls, late requests and exits
    MaxContent  \* bound on the versions of the stored content

ASSUME MaxFaultsAssumption == MaxFaults \in Nat
ASSUME MaxContentAssumption == MaxContent \in Nat \ {0}
ASSUME StoragesAssumption == Storages \subseteq {"none", "shared", "private"}
ASSUME ResumableAssumption == Resumable \in BOOLEAN

VARIABLES
    storage,    \* the writable storage of the service; the desired workload fixes it
    applied,    \* the applied_services row, as the desired workload sees it
    tx,         \* the unresolved or last transaction of the service
    row,        \* row[k]: the journal_actions row of kind k of that transaction
    pred,       \* the container that was deployed first
    repl,       \* the container labelled with the transaction
    image,      \* the desired image is present in the runtime
    late,       \* requests of the transaction whose effect is still to come
    stale,      \* the same of the transactions before it
    strayed,    \* those of them that changed the predecessor since the plan
    stray,      \* a container of an earlier transaction has the service's name
    data,       \* content of the predecessor's storage
    copy,       \* content of the replacement's own storage, 0 while empty
    inventoried,\* content named by the completed inventory row, 0 if none
    published,  \* content of the transaction's published backup, 0 if none
    at,         \* the program counter of the process, "idle" if none runs
    stage,      \* the kind of action it works on
    post,       \* the postcondition or transaction state it is about to write
    sources,    \* whose storage the observation showed: "none", "old" or "new"
    archive,    \* content of the archives it holds in memory, 0 if none
    faults      \* faults so far

durable    == <<storage, applied, tx, row, inventoried>>
containers == <<pred, repl, image>>
contents   == <<data, copy, published>>
earlier    == <<stale, strayed, stray>>
runtime    == <<containers, late, contents, earlier>>
process    == <<at, stage, post>>
memory     == <<sources, archive>>
vars       == <<durable, runtime, process, memory, faults>>

-----------------------------------------------------------------------------
StorageKinds == {"inventory", "backup", "restore"}
CoreKinds    == {"pull", "stop", "rename", "create", "start", "remove"} \cup StorageKinds
RestoreKinds == {"discard", "reverse_rename", "restore_start"}
ActionKinds  == CoreKinds \cup RestoreKinds

(***************************************************************************)
(* A row is absent, an intent, an effect of unknown outcome, or completed   *)
(* with one of three postcondition digests.                                *)
(***************************************************************************)
Digests   == {"satisfied", "unsatisfied", "missing"}
Pending   == {"intent", "unknown"}
RowStates == {"absent"} \cup Pending \cup Digests

Unresolved == {"active", "degraded"}
TxKinds    == {"none", "bootstrap", "adopt", "upgrade"}
TxStates   == Unresolved \cup {"none", "failed", "succeeded"}

Lifecycles == {"created", "running", "exited", "removing", "gone"}
Points     == {"idle", "bind", "image", "settle", "mark", "apply", "probe",
               "recover", "resume", "reprobe", "complete", "fail", "prove",
               "commit", "adopt", "restored", "capacity"}

NoRows == [k \in ActionKinds |-> "absent"]

ApplyTypeOK ==
    /\ storage \in Storages
    /\ applied \in {"none", "old", "adopted", "new"}
    /\ tx \in [kind : TxKinds, state : TxStates]
    /\ row \in [ActionKinds -> RowStates]
    /\ pred \in [name : {"service", "retained"}, life : Lifecycles]
    /\ repl \in Lifecycles
    /\ image \in BOOLEAN
    /\ late \subseteq ActionKinds /\ stale \subseteq ActionKinds /\ strayed \subseteq ActionKinds
    /\ stray \in BOOLEAN
    /\ data \in 1..MaxContent
    /\ {copy, inventoried, published, archive} \subseteq 0..MaxContent
    /\ sources \in {"none", "old", "new"}
    /\ at \in Points
    /\ stage \in ActionKinds \cup TxKinds
    /\ post \in Digests \cup {"none", "failed", "degraded"}
    /\ faults \in 0..MaxFaults

(* A service never deployed, one that runs unmanaged, or one applied before. *)
Init ==
    /\ storage \in Storages
    /\ \E s \in Scenarios :
          /\ applied = IF s = "upgrade" THEN "old" ELSE "none"
          /\ pred = [name |-> "service",
                     life |-> IF s = "bootstrap" THEN "gone" ELSE "running"]
    /\ tx = [kind |-> "none", state |-> "none"]
    /\ row = NoRows
    /\ repl = "gone"
    /\ image \in BOOLEAN
    /\ late = {} /\ stale = {} /\ strayed = {} /\ stray = FALSE
    /\ data = 1 /\ copy = 0 /\ published = 0
    /\ inventoried = 0
    /\ sources = "none" /\ archive = 0
    /\ at = "idle"
    /\ stage = "none"
    /\ post = "none"
    /\ faults = 0

-----------------------------------------------------------------------------
(* The container runtime, as the Docker plugin sees it.                      *)

Pred(name, life) == pred = [name |-> name, life |-> life]

(* ObserveWorkload and ProbeContainer by the service's container name. *)
PredNamed == pred.name = "service" /\ pred.life # "gone"
NameFree  == ~PredNamed /\ repl = "gone" /\ ~stray

(* backedStorageSources: the writable mounts of whichever container now has   *)
(* the service's name, and none when no container has it.                    *)
ObservedSources ==
    IF storage = "none" \/ NameFree THEN "none"
    ELSE IF PredNamed \/ storage = "shared" THEN "old" ELSE "new"

(* What GetWorkloadArchive reads from the replacement. *)
ReplContent == IF storage = "shared" THEN data ELSE copy

(***************************************************************************)
(* What Probe of each effect reports: a digest, an error ("conflict"), or   *)
(* for a removal under way "incomplete".                                    *)
(***************************************************************************)

(* probeWorkloadEffect looks for the service's name and for the transaction's *)
(* label: a container under the name without the label is a conflict.         *)
Labelled == IF PredNamed \/ stray THEN "conflict" ELSE repl

PullProbe == IF image THEN "satisfied" ELSE "missing"

CreateProbe ==
    CASE Labelled = "gone" -> "missing"
      [] Labelled = "created" -> "satisfied"
      [] OTHER -> "conflict"

StartProbe ==
    CASE Labelled = "gone" -> "missing"
      [] Labelled = "created" -> "unsatisfied"
      [] Labelled = "running" -> "satisfied"
      [] OTHER -> "conflict"

DiscardProbe ==
    CASE Labelled = "conflict" -> "conflict"
      [] Labelled = "gone" -> "satisfied"
      [] OTHER -> "unsatisfied"

(* ProbeWorkloadTransition answers a rename only once the old name is free:   *)
(* a rename that has not happened is an error, not an unsatisfied effect.     *)
TransitionProbe(k) ==
    CASE k = "stop" /\ Pred("service", "running") -> "unsatisfied"
      [] k = "stop" /\ Pred("service", "exited") -> "satisfied"
      [] k = "rename" /\ Pred("retained", "exited") /\ NameFree -> "satisfied"
      [] k = "reverse_rename" /\ Pred("service", "exited") -> "satisfied"
      [] k = "restore_start" /\ Pred("service", "exited") -> "unsatisfied"
      [] k = "restore_start" /\ Pred("service", "running") -> "satisfied"
      [] k = "remove" /\ pred.life = "gone" -> "satisfied"
      [] k = "remove" /\ Pred("retained", "exited") -> "unsatisfied"
      [] k = "remove" /\ Pred("retained", "removing") -> "incomplete"
      [] OTHER -> "conflict"

(* The inventory is a capture: it only needs the container. *)
InventoryProbe == IF pred.life = "gone" THEN "conflict" ELSE "satisfied"

BackupProbe == IF published = 0 THEN "unsatisfied" ELSE "satisfied"

(* The restored archives are read back and compared with the manifest. *)
RestoreProbe ==
    IF repl = "gone" THEN "conflict"
    ELSE IF ReplContent = published THEN "satisfied" ELSE "unsatisfied"

EffectProbe(k) ==
    CASE k = "pull" -> PullProbe
      [] k = "create" -> CreateProbe
      [] k = "start" -> StartProbe
      [] k = "discard" -> DiscardProbe
      [] k = "inventory" -> InventoryProbe
      [] k = "backup" -> BackupProbe
      [] k = "restore" -> RestoreProbe
      [] OTHER -> TransitionProbe(k)

(* Apply of each effect sends its request only after it has seen the state   *)
(* the effect starts from.                                                   *)
Requested(k) ==
    CASE k \in {"pull", "create", "inventory", "backup"} -> TRUE
      [] k = "restore" -> repl # "gone"
      [] k = "stop" -> Pred("service", "running")
      [] k = "rename" -> Pred("service", "exited")
      [] k = "start" -> repl = "created" /\ ~PredNamed
      [] k \in {"remove", "reverse_rename"} -> Pred("retained", "exited")
      [] k = "discard" -> repl # "gone" /\ ~PredNamed
      [] k = "restore_start" -> Pred("service", "exited")

(* The runtime carries out request k, or refuses it and changes nothing. *)
PredAfter(k) ==
    CASE k = "stop" /\ pred.life = "running" -> {[pred EXCEPT !.life = "exited"]}
      [] k = "restore_start" /\ pred.life = "exited" -> {[pred EXCEPT !.life = "running"]}
      [] k = "remove" /\ pred.life = "exited" ->
            {[pred EXCEPT !.life = "removing"], [pred EXCEPT !.life = "gone"]}
      [] k = "rename" /\ pred.life # "gone" -> {[pred EXCEPT !.name = "retained"]}
      [] k = "reverse_rename" /\ pred.life # "gone" /\ repl = "gone" /\ ~stray ->
            {[pred EXCEPT !.name = "service"]}
      [] OTHER -> {pred}

ReplAfter(k) ==
    CASE k = "create" /\ NameFree -> "created"
      [] k = "start" /\ repl \in {"created", "exited"} -> "running"
      [] k = "discard" -> "gone"
      [] OTHER -> repl

Perform(k) ==
    /\ pred' \in PredAfter(k)
    /\ repl' = ReplAfter(k)
    /\ image' = (image \/ k = "pull")
    /\ published' = IF k = "backup" /\ published = 0 THEN archive ELSE published
    /\ data' = IF k = "restore" /\ storage = "shared" THEN published ELSE data
    /\ copy' = CASE k = "restore" /\ storage = "private" /\ repl # "gone" -> published
                 [] k = "create" /\ NameFree -> 0
                 [] OTHER -> copy

Fault == faults < MaxFaults /\ faults' = faults + 1
Works == UNCHANGED faults

(* A request whose caller has given up on it is carried out after all. *)
LateEffect(k) ==
    /\ k \in late
    /\ Perform(k)
    /\ late' = late \ {k}
    /\ UNCHANGED <<durable, earlier, process, memory, faults>>

(***************************************************************************)
(* The same of a request of an earlier transaction, which failed.  Requests  *)
(* name containers by ID: the predecessor is still the same one, the          *)
(* replacement of that transaction is gone, and a create makes a container   *)
(* with the label of that transaction.  A rename is never among them: its    *)
(* row is not completed, nor its transaction, before it has happened.        *)
(***************************************************************************)
StaleEffect(k) ==
    /\ k \in stale
    /\ pred' \in PredAfter(k)
    /\ image' = (image \/ k = "pull")
    /\ stray' = (stray \/ (k = "create" /\ NameFree))
    /\ stale' = stale \ {k}
    /\ strayed' = IF pred' = pred THEN strayed ELSE strayed \cup {k}
    /\ UNCHANGED <<durable, repl, late, contents, process, memory, faults>>

(* The runtime finishes a removal on its own. *)
FinishRemoval ==
    /\ pred.life = "removing"
    /\ pred' = [pred EXCEPT !.life = "gone"]
    /\ UNCHANGED <<durable, repl, image, late, contents, earlier, process, memory, faults>>

(* The main process of a container ends. *)
ExitPredecessor ==
    /\ "pred" \in Exits /\ pred.life = "running"
    /\ Fault
    /\ pred' = [pred EXCEPT !.life = "exited"]
    /\ UNCHANGED <<durable, repl, image, late, contents, earlier, process, memory>>

ExitReplacement ==
    /\ "repl" \in Exits /\ repl = "running"
    /\ Fault
    /\ repl' = "exited"
    /\ UNCHANGED <<durable, pred, image, late, contents, earlier, process, memory>>

(* A running container writes to its storage. *)
WriteContent ==
    /\ storage # "none"
    /\ \/ /\ pred.life = "running" \/ (repl = "running" /\ storage = "shared")
          /\ data < MaxContent /\ data' = data + 1 /\ UNCHANGED copy
       \/ /\ repl = "running" /\ storage = "private"
          /\ copy < MaxContent /\ copy' = copy + 1 /\ UNCHANGED data
    /\ UNCHANGED <<durable, containers, late, published, earlier, process, memory, faults>>

-----------------------------------------------------------------------------
(* Control of the process.                                                   *)

Goto(point, kind, value) == at' = point /\ stage' = kind /\ post' = value
Return == Goto("idle", "none", "none") /\ sources' = "none" /\ archive' = 0
To(point, kind, value) == Goto(point, kind, value) /\ UNCHANGED memory

(* The process dies, is cancelled, or a journal call fails. *)
Crash ==
    /\ at # "idle"
    /\ Fault
    /\ Return
    /\ UNCHANGED <<durable, runtime>>

Copies == sources # "none"

(* The stages of runUpgrade in their order, those that copy storage only if   *)
(* there is any, then those of runRestore.                                    *)
StageAfter(k) ==
    CASE k = "pull" -> IF Copies THEN "inventory" ELSE "stop"
      [] k = "stop" -> IF Copies THEN "backup" ELSE "rename"
      [] k = "backup" -> "rename"
      [] k = "rename" -> "create"
      [] k = "create" -> IF Copies THEN "restore" ELSE "start"
      [] k = "restore" -> "start"
      [] k = "start" -> "remove"
      [] k = "discard" -> IF row["rename"] = "satisfied" THEN "reverse_rename" ELSE "restore_start"
      [] k = "reverse_rename" -> "restore_start"

(* Mutant: the replacement is started on the storage it was created with. *)
FollowingWithoutRestore(k) == IF k = "create" THEN "start" ELSE StageAfter(k)

(* Mutant: the predecessor is removed before the replacement is started. *)
FollowingRemoveFirst(k) == IF k = "create" THEN "remove" ELSE StageAfter(k)

(* The stage after k has been satisfied; runBootstrap copies nothing. *)
Following(k) ==
    CASE k = "pull" /\ tx.kind = "bootstrap" -> "create"
      [] k = "create" /\ tx.kind = "bootstrap" -> "start"
      [] OTHER -> StageAfter(k)

(* Mutant: an upgrade is proved and committed right after the start. *)
AdvanceWithoutRemove(k) ==
    CASE k \in {"start", "remove"} -> Goto("prove", "none", "none")
      [] k = "restore_start" -> Goto("restored", "none", "none")
      [] k = "inventory" -> Goto("capacity", "none", "none")
      [] OTHER -> Goto("settle", Following(k), "none")

(* What runs after a satisfied stage. *)
Advance(k) ==
    CASE k = "remove" \/ (k = "start" /\ tx.kind = "bootstrap") -> Goto("prove", "none", "none")
      [] k = "restore_start" -> Goto("restored", "none", "none")
      [] k = "inventory" -> Goto("capacity", "none", "none")
      [] OTHER -> Goto("settle", Following(k), "none")

(* Mutant: every failed stage ends the transaction as failed. *)
FailureAlwaysFailed(k) ==
    IF tx.kind # "upgrade" THEN Return ELSE To("fail", k, "failed")

(* Mutant: a failed stage of a restore ends the transaction too. *)
FailureOfRestore(k) ==
    IF tx.kind # "upgrade" THEN Return
    ELSE To("fail", k, IF k \in {"pull", "stop"} \cup RestoreKinds THEN "failed" ELSE "degraded")

(* What runUpgrade does about a stage that is proved not to have happened.   *)
(* runBootstrap and runRestore only return the error.                        *)
Failure(k) ==
    IF tx.kind # "upgrade" \/ tx.state = "degraded" THEN Return
    ELSE To("fail", k, IF k \in {"pull", "stop"} THEN "failed" ELSE "degraded")

-----------------------------------------------------------------------------
(* Binding a transaction: Prepare, the service lock, and Prepare again.      *)

(* The second Prepare without an unresolved transaction: classifyNewApply on *)
(* what ObserveWorkload shows.                                               *)
NewPlan ==
    CASE applied = "none" /\ NameFree -> "bootstrap"
      [] applied = "none" /\ Pred("service", "running") -> "adopt"
      [] applied = "old" /\ Pred("service", "running") -> "upgrade"
      [] OTHER -> "none"

Observe == sources' = ObservedSources /\ archive' = 0

(* From the plan on, what is still under way belongs to an earlier            *)
(* transaction.                                                              *)
Supersede ==
    /\ stale' = stale \cup late /\ late' = {} /\ strayed' = {}
    /\ UNCHANGED <<containers, contents, stray>>

(* Mutant: a new plan is made whether or not a transaction is unresolved.    *)
(* Only what is under way of one that has failed is then excused.            *)
PrepareUnresolved ==
    /\ at = "idle"
    /\ NewPlan # "none"
    /\ Goto("bind", NewPlan, "none") /\ Observe
    /\ IF tx.state \in Unresolved THEN UNCHANGED runtime ELSE Supersede
    /\ UNCHANGED <<durable, faults>>

Prepare ==
    /\ at = "idle" /\ tx.state \notin Unresolved
    /\ NewPlan # "none"
    /\ Goto("bind", NewPlan, "none") /\ Observe /\ Supersede
    /\ UNCHANGED <<durable, faults>>

(* bindPreparedTransaction: BeginTransaction with the prepared plan.  The     *)
(* rows and the backup directory of the new transaction are its own.         *)
Begin ==
    /\ at = "bind"
    /\ tx' = [kind |-> stage, state |-> "active"]
    /\ row' = NoRows /\ inventoried' = 0 /\ published' = 0 /\ copy' = 0
    /\ To(IF stage = "adopt" THEN "adopt" ELSE "image", "none", "none")
    /\ UNCHANGED <<storage, applied, containers, late, data, earlier, faults>>

Recorded(k)  == row[k] # "absent"
PendingKinds == {k \in ActionKinds : row[k] \in Pending}

(* The second Prepare of an active transaction.  A bootstrap without actions *)
(* still needs the name to be free (validBootstrapPlan).                     *)
Resume ==
    /\ at = "idle" /\ tx.state = "active"
    /\ tx.kind = "bootstrap" /\ row = NoRows => NameFree
    /\ tx.kind = "adopt" => Pred("service", "running")
    /\ Goto(IF tx.kind = "adopt" THEN "adopt" ELSE "image", "none", "none") /\ Observe
    /\ UNCHANGED <<durable, runtime, faults>>

(* Mutant: a predecessor that was removed does not hold back the restore. *)
RestoreAdmittedRemoved ==
    /\ PendingKinds \subseteq RestoreKinds
    /\ row["reverse_rename"] \in Pending => row["discard"] \in Digests
    /\ Recorded("backup") => published # 0
    /\ Recorded("inventory") => ObservedSources = "old"
    /\ row["stop"] = "satisfied"
    /\ Recorded("create") => row["rename"] = "satisfied"

(* prepareRestoreJourney: every core action completed and with the intent    *)
(* that the observation gives, the backup open, the predecessor stopped,     *)
(* renamed if a replacement may exist, and not removed.                      *)
RestoreAdmitted ==
    /\ PendingKinds \subseteq RestoreKinds
    /\ row["reverse_rename"] \in Pending => row["discard"] \in Digests
    /\ Recorded("backup") => published # 0
    /\ Recorded("inventory") => ObservedSources = "old"
    /\ row["stop"] = "satisfied"
    /\ Recorded("create") => row["rename"] = "satisfied"
    /\ row["remove"] # "satisfied"

FirstRestoreKind ==
    IF Recorded("create") THEN "discard"
    ELSE IF row["rename"] = "satisfied" THEN "reverse_rename" ELSE "restore_start"

(* The second Prepare of a degraded transaction, and runRestore. *)
Restore ==
    /\ at = "idle" /\ tx.state = "degraded"
    /\ RestoreAdmitted
    /\ Goto("settle", FirstRestoreKind, "none") /\ Observe
    /\ UNCHANGED <<durable, runtime, faults>>

(* settleUpgradeImage and settleBootstrapImage. *)
SettleImage ==
    /\ at = "image"
    /\ \/ /\ Recorded("pull") \/ (row = NoRows /\ ~image)
          /\ To("settle", "pull", "none") /\ Works
       \/ /\ ~Recorded("pull")
          /\ image \/ (tx.kind = "upgrade" /\ row # NoRows)
          /\ To("settle", Following("pull"), "none") /\ Works
       \/ /\ tx.kind = "bootstrap" /\ row # NoRows /\ ~Recorded("pull") /\ ~image
          /\ Return /\ Works
       \/ /\ ~Recorded("pull") /\ (tx.kind = "bootstrap" \/ row = NoRows)
          /\ Return /\ Fault
    /\ UNCHANGED <<durable, runtime>>

(* prepareBackupCapacity: an existing backup must match the inventory,        *)
(* otherwise there must be room for one.  Every error ends the transaction.  *)
PrepareBackupCapacity ==
    /\ at = "capacity"
    /\ \/ published \in {0, archive} /\ To("settle", "stop", "none") /\ Works
       \/ published \notin {0, archive} /\ To("fail", "stop", "failed") /\ Works
       \/ To("fail", "stop", "failed") /\ Fault
    /\ UNCHANGED <<durable, runtime>>

-----------------------------------------------------------------------------
(* runRuntimeEffect on the action of the current stage.                      *)

(* The recorded action at the cursor is the one the stage expects.  Its      *)
(* position and the mounts in its intent follow the storage just observed.   *)
IntentMatches ==
    CASE stage = "inventory" -> Recorded("inventory") => sources = "old"
      [] stage = "stop" -> Recorded("inventory") <=> Copies
      [] stage = "restore" -> published # 0
      [] OTHER -> TRUE

Settling == at = "settle" /\ IntentMatches

ConflictingIntent ==
    /\ at = "settle" /\ ~IntentMatches
    /\ Return
    /\ UNCHANGED <<durable, runtime, faults>>

(* Mutant: the effect is applied on the intent alone. *)
RecordActionIntentUnmarked ==
    /\ Settling /\ row[stage] \in {"absent", "intent"}
    /\ row' = [row EXCEPT ![stage] = "intent"]
    /\ To("apply", stage, "none")
    /\ UNCHANGED <<storage, applied, tx, inventoried, runtime, faults>>

(* RecordActionIntent, new or replayed, and the branch on the row's state. *)
RecordActionIntent ==
    /\ Settling /\ row[stage] \in {"absent", "intent"}
    /\ row' = [row EXCEPT ![stage] = "intent"]
    /\ To("mark", stage, "none")
    /\ UNCHANGED <<storage, applied, tx, inventoried, runtime, faults>>

RecoverUnknown ==
    /\ Settling /\ row[stage] = "unknown"
    /\ To("recover", stage, "none")
    /\ UNCHANGED <<durable, runtime, faults>>

(* Fence and MarkActionEffectOutcomeUnknown, before any request is sent. *)
MarkActionEffectOutcomeUnknown ==
    /\ at = "mark"
    /\ row' = [row EXCEPT ![stage] = "unknown"]
    /\ To("apply", stage, "none")
    /\ UNCHANGED <<storage, applied, tx, inventoried, runtime, faults>>

(* Apply: the request is carried out, is not sent or fails, or is given up   *)
(* and carried out later.  Its error does not change what follows.           *)
ApplyEffect ==
    /\ at = "apply"
    /\ \/ Requested(stage) /\ Perform(stage) /\ Works /\ UNCHANGED <<late, earlier>>
       \/ ~Requested(stage) /\ Works /\ UNCHANGED runtime
       \/ Requested(stage) /\ Fault /\ UNCHANGED runtime
       \/ /\ Requested(stage) /\ stage \in LateKinds /\ Fault
          /\ late' = late \cup {stage}
          /\ UNCHANGED <<containers, contents, earlier>>
    /\ To("probe", stage, "none")
    /\ UNCHANGED durable

(* A probe that answers: the inventory's probe is a capture of the archives. *)
Answered(value) ==
    /\ Goto("complete", stage, value) /\ Works
    /\ archive' = IF stage = "inventory" THEN data ELSE archive
    /\ UNCHANGED sources

(* Mutant: the effect is applied until its probe is satisfied. *)
ProbeEffectRetry ==
    /\ at = "probe"
    /\ \/ EffectProbe(stage) = "satisfied" /\ Answered("satisfied")
       \/ EffectProbe(stage) # "satisfied" /\ To("apply", stage, "none") /\ Works
       \/ Return /\ Fault
    /\ UNCHANGED <<durable, runtime>>

(* probeRuntimeEffect: without an answer the row stays unknown. *)
ProbeEffect ==
    /\ at = "probe"
    /\ \/ EffectProbe(stage) \in Digests /\ Answered(EffectProbe(stage))
       \/ EffectProbe(stage) = "incomplete" /\ To("resume", stage, "none") /\ Works
       \/ EffectProbe(stage) = "conflict" /\ Return /\ Works
       \/ Return /\ Fault
    /\ UNCHANGED <<durable, runtime>>

(* Mutant: an unknown effect is never sent a second time. *)
RecoverEffectOnce ==
    /\ at = "recover"
    /\ \/ EffectProbe(stage) = "satisfied" /\ Answered("satisfied")
       \/ EffectProbe(stage) # "satisfied" /\ Return /\ Works
       \/ Return /\ Fault
    /\ UNCHANGED <<durable, runtime>>

(* recoverRuntimeEffect: the effect is sent again only if it is proved absent. *)
RecoverEffect ==
    /\ at = "recover"
    /\ \/ EffectProbe(stage) = "satisfied" /\ Answered("satisfied")
       \/ EffectProbe(stage) = "incomplete" /\ To("resume", stage, "none") /\ Works
       \/ /\ EffectProbe(stage) \in Digests \ {"satisfied"}
          /\ To("apply", stage, "none") /\ Works
       \/ EffectProbe(stage) = "conflict" /\ Return /\ Works
       \/ Return /\ Fault
    /\ UNCHANGED <<durable, runtime>>

(* resumeIncomplete: only a runtime that can resume a removal does anything. *)
ResumeIncomplete ==
    /\ at = "resume"
    /\ \/ Resumable /\ pred' = [pred EXCEPT !.life = "gone"] /\ Works
       \/ ~Resumable /\ UNCHANGED pred /\ Works
       \/ Resumable /\ UNCHANGED pred /\ Fault
    /\ To("reprobe", stage, "none")
    /\ UNCHANGED <<durable, repl, image, late, contents, earlier>>

(* The probe after a resumed effect must be satisfied. *)
ProbeResumed ==
    /\ at = "reprobe"
    /\ \/ EffectProbe(stage) = "satisfied" /\ Answered("satisfied")
       \/ EffectProbe(stage) # "satisfied" /\ Return /\ Works
       \/ Return /\ Fault
    /\ UNCHANGED <<durable, runtime>>

(* CompleteAction, and what the stage makes of the postcondition. *)
CompleteAction ==
    /\ at = "complete"
    /\ row' = [row EXCEPT ![stage] = post]
    /\ inventoried' = IF stage = "inventory" THEN archive ELSE inventoried
    /\ IF post = "satisfied" THEN Advance(stage) /\ UNCHANGED memory ELSE Failure(stage)
    /\ UNCHANGED <<storage, applied, tx, runtime, faults>>

-----------------------------------------------------------------------------
(* Stages whose row was completed before the process was run again.          *)

Completed(kinds) == Settling /\ stage \in kinds /\ row[stage] \in Digests

Proceed(k) == Advance(k) /\ UNCHANGED memory /\ Works

(* completedTransitionResult and settleWorkloadDiscard trust the row. *)
SettleCompletedTransition ==
    /\ Completed({"stop", "rename", "remove"} \cup RestoreKinds)
    /\ \/ row[stage] = "satisfied" /\ Proceed(stage)
       \/ row[stage] # "satisfied" /\ Failure(stage) /\ Works
    /\ UNCHANGED <<durable, runtime>>

(* completedUpgradeImagePull and, for bootstrap, verifyCompletedRuntimeEffect. *)
SettleCompletedPull ==
    /\ Completed({"pull"})
    /\ \/ row["pull"] = "satisfied" /\ image /\ Proceed("pull")
       \/ row["pull"] = "satisfied" /\ ~image /\ Return /\ Works
       \/ row["pull"] = "missing" /\ Failure("pull") /\ Works
       \/ (row["pull"] = "satisfied" \/ tx.kind = "bootstrap") /\ Return /\ Fault
    /\ UNCHANGED <<durable, runtime>>

(* completedStorageInventory captures the archives again: they must be the   *)
(* recorded ones.                                                            *)
SettleCompletedInventory ==
    /\ Completed({"inventory"})
    /\ \/ /\ pred.life # "gone" /\ data = inventoried
          /\ Advance("inventory") /\ archive' = data /\ UNCHANGED sources /\ Works
       \/ (pred.life = "gone" \/ data # inventoried) /\ Return /\ Works
       \/ Return /\ Fault
    /\ UNCHANGED <<durable, runtime>>

(* completedWorkloadCreateResult reports the recorded digest together with   *)
(* whatever went wrong in verifyCompletedWorkloadCreate, so that a probe     *)
(* that merely failed counts as a failed stage.                              *)
SettleCompletedCreate ==
    /\ Completed({"create"})
    /\ \/ /\ row["create"] = "satisfied" /\ repl \in {"created", "running"} /\ ~PredNamed
          /\ Proceed("create")
       \/ /\ row["create"] # "satisfied" \/ repl \notin {"created", "running"} \/ PredNamed
          /\ Failure("create") /\ Works
       \/ row["create"] = "satisfied" /\ Failure("create") /\ Fault
    /\ UNCHANGED <<durable, runtime>>

(* completedStorageBackup, completedStorageRestore and                       *)
(* completedWorkloadStartResult: the probe must still give the recorded      *)
(* digest.                                                                   *)
SettleCompletedProbe ==
    /\ Completed({"backup", "restore", "start"})
    /\ \/ EffectProbe(stage) = row[stage] /\ row[stage] = "satisfied" /\ Proceed(stage)
       \/ EffectProbe(stage) = row[stage] /\ row[stage] # "satisfied" /\ Failure(stage) /\ Works
       \/ EffectProbe(stage) # row[stage] /\ Return /\ Works
       \/ Return /\ Fault
    /\ UNCHANGED <<durable, runtime>>

-----------------------------------------------------------------------------
(* How a transaction ends.                                                   *)

(* resolveUpgradeFailure, and the last write of completeRestore.             *)
(* SetTransactionState refuses while an action is pending.                   *)
SetTransactionState ==
    /\ at = "fail"
    /\ tx' = IF PendingKinds = {} THEN [tx EXCEPT !.state = post] ELSE tx
    /\ Return
    /\ UNCHANGED <<storage, applied, row, inventoried, runtime, faults>>

(* completeAppliedMutation: ProbeStartedWorkload, then CommitAppliedService. *)
ProveStarted ==
    /\ at = "prove"
    /\ \/ EffectProbe("start") = "satisfied" /\ To("commit", "none", "none") /\ Works
       \/ EffectProbe("start") # "satisfied" /\ Return /\ Works
       \/ Return /\ Fault
    /\ UNCHANGED <<durable, runtime>>

(* runAdopt observes the workload once more. *)
ProveAdopted ==
    /\ at = "adopt"
    /\ \/ Pred("service", "running") /\ To("commit", "none", "none") /\ Works
       \/ ~Pred("service", "running") /\ Return /\ Works
       \/ Return /\ Fault
    /\ UNCHANGED <<durable, runtime>>

CommitAppliedService ==
    /\ at = "commit"
    /\ applied' = IF tx.kind = "adopt" THEN "adopted" ELSE "new"
    /\ tx' = [tx EXCEPT !.state = "succeeded"]
    /\ Return
    /\ UNCHANGED <<storage, row, inventoried, runtime, faults>>

(* completeRestore: the restored predecessor is probed before the state ends. *)
ProveRestored ==
    /\ at = "restored"
    /\ \/ Pred("service", "running") /\ To("fail", "none", "failed") /\ Works
       \/ ~Pred("service", "running") /\ Return /\ Works
       \/ Return /\ Fault
    /\ UNCHANGED <<durable, runtime>>

-----------------------------------------------------------------------------
Bind == Prepare \/ Begin \/ Resume \/ Restore

Effect ==
    \/ ConflictingIntent \/ RecordActionIntent \/ RecoverUnknown
    \/ MarkActionEffectOutcomeUnknown \/ ApplyEffect \/ ProbeEffect \/ RecoverEffect
    \/ ResumeIncomplete \/ ProbeResumed \/ CompleteAction

Settle ==
    \/ SettleImage \/ PrepareBackupCapacity
    \/ SettleCompletedTransition \/ SettleCompletedPull \/ SettleCompletedInventory
    \/ SettleCompletedCreate \/ SettleCompletedProbe

Finish ==
    \/ SetTransactionState \/ ProveStarted \/ ProveAdopted
    \/ CommitAppliedService \/ ProveRestored

Step == Bind \/ Settle \/ Effect \/ Finish

Runtime ==
    \/ \E k \in ActionKinds : LateEffect(k) \/ StaleEffect(k)
    \/ FinishRemoval \/ ExitPredecessor \/ ExitReplacement \/ WriteContent

Next == Step \/ Crash \/ Runtime

Spec == Init /\ [][Next]_vars

(***************************************************************************)
(* The process takes its next step, an interrupted apply is run again       *)
(* (recovery.md; the supervised daemon does so by itself), and the runtime  *)
(* carries out what it accepted.  Nothing is assumed of crashes and faults  *)
(* but that they are finitely many.                                         *)
(***************************************************************************)
FairSpec ==
    /\ Spec
    /\ WF_vars(Step)
    /\ WF_vars(FinishRemoval)
    /\ \A k \in ActionKinds : WF_vars(LateEffect(k)) /\ WF_vars(StaleEffect(k))
-----------------------------------------------------------------------------
Sent(k) == row[k] \in {"unknown"} \cup Digests

(* An effect is explained by the journal, or by a request of an earlier       *)
(* transaction that changed the predecessor since this one was planned.       *)
Explained(k) == Sent(k) \/ k \in strayed

(* Whatever the runtime shows of a transaction, the journal explains: no      *)
(* trace of an effect, and no request under way, without a row that says it   *)
(* may have happened.  (applyRuntimeEffect marks before it applies.)  Only a  *)
(* stop or a removal may be that of an earlier, failed upgrade instead.       *)
JournalExplainsRuntime ==
    /\ \A k \in late : Sent(k)
    /\ repl # "gone" => Sent("create")
    /\ repl \in {"running", "exited"} => Sent("start")
    /\ pred.name = "retained" => Sent("rename")
    /\ published # 0 => Sent("backup")
    /\ tx.kind = "upgrade" =>
          /\ copy # 0 => Sent("restore")
          /\ pred.life = "exited" => Explained("stop")
          /\ pred.life \in {"removing", "gone"} => Explained("remove")

(* The predecessor and its replacement never run at the same time: upgrade    *)
(* stops before it starts, restore discards before it starts.  Only a start   *)
(* of the predecessor that an earlier, failed upgrade sent to restore it, and *)
(* that comes after the stop of this one, makes both run: nothing in the code *)
(* holds it back.                                                             *)
NeverBothRunning ==
    "restore_start" \notin strayed => ~(pred.life = "running" /\ repl = "running")

(* The predecessor is given up only after a probe proved the replacement      *)
(* running (the remove stage comes last), or by the removal an earlier,       *)
(* failed upgrade had sent, which comes after the stop of this one.           *)
RemovedAfterProof ==
    tx.kind = "upgrade" /\ pred.life \in {"removing", "gone"} /\ "remove" \notin strayed =>
        row["start"] = "satisfied"

(* A replacement with storage is not even asked to start before the backup    *)
(* was published and its storage was proved to hold it.  What was proved      *)
(* stays so until the start, unless the predecessor was started again by an   *)
(* earlier upgrade's request and writes to the storage they share.            *)
StartsOnRestoredContent ==
    tx.kind = "upgrade" /\ storage # "none" =>
        /\ Sent("start") => published # 0 /\ row["restore"] = "satisfied"
        /\ row["restore"] = "satisfied" /\ repl = "created" =>
               \/ ReplContent = published
               \/ storage = "shared" /\ "restore_start" \in strayed

(* Whatever fails, one of the two containers is left: restore gives up the    *)
(* replacement only while the predecessor is there (validateRestoreRemove).   *)
ServiceSurvives ==
    tx.kind = "upgrade" => pred.life \notin {"removing", "gone"} \/ repl # "gone"

(* A failed upgrade leaves the service as it was: the predecessor runs under  *)
(* its name and nothing of the replacement is left.                           *)
FailedMeansRestored ==
    tx.state = "failed" /\ late = {} /\ stale = {} =>
        Pred("service", "running") /\ repl = "gone" /\ ~stray

(* A committed transaction deployed what it promises, and nothing else.       *)
SucceededMeansDeployed ==
    tx.state = "succeeded" =>
        IF tx.kind = "adopt" THEN PredNamed /\ repl = "gone"
        ELSE pred.life = "gone" /\ repl \in {"running", "exited"} /\ ~stray

(* "Run `maniud apply photos.yaml` and let maniud continue the recorded       *)
(* operation": once the faults are over, every unresolved transaction ends.   *)
RecoveryEnds ==
    tx.state \in Unresolved ~> tx.state \notin Unresolved

(* Every apply returns, whatever it finds. *)
ApplyReturns == at # "idle" ~> at = "idle"

(* The states no apply leads out of, for a service without backed storage.    *)
Wedged ==
    \/ row["rename"] = "unknown" /\ pred.name = "service"
    \/ row["reverse_rename"] = "unknown" /\ pred.name = "retained"
    \/ \E k \in RestoreKinds : row[k] \in {"unsatisfied", "missing"}
    \/ tx.state = "degraded" /\ row["remove"] = "satisfied"
    \/ tx.kind = "upgrade" /\ repl = "exited" /\ PendingKinds \cap CoreKinds # {}
    \/ tx.kind = "bootstrap" /\ repl = "exited"
    \/ tx.kind = "bootstrap" /\ \E k \in CoreKinds : row[k] \in {"unsatisfied", "missing"}

(* Once the faults are over, every transaction of such a service ends, unless *)
(* it is in one of the listed states: whatever else interrupts an upgrade or  *)
(* a restore, running apply again finishes it.                                *)
EndsOrWedged ==
    tx.state \in Unresolved ~> (tx.state \notin Unresolved \/ Wedged)

(* The list is exact: a transaction found in one of those states stays        *)
(* unresolved however often apply is run again.                               *)
WedgedForGood ==
    [](at = "idle" /\ tx.state \in Unresolved /\ Wedged => [](tx.state \in Unresolved))

(* The list is complete and exact.                                            *)
WedgedIsExact == EndsOrWedged /\ WedgedForGood

(* What holds of the journal and the runtime together after every step: the   *)
(* types, that the journal explains the runtime, and that the predecessor is  *)
(* given up only after the proof of its replacement.                          *)
ApplyInv == ApplyTypeOK /\ JournalExplainsRuntime /\ RemovedAfterProof
=============================================================================
