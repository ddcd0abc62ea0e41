------------------------------ MODULE Journal ------------------------------
(***************************************************************************)
(* The durable state of maniud: the tables journal_transactions,            *)
(* journal_actions, applied_services and workload_backups of               *)
(* src/internal/store, and every operation that changes them, driven by     *)
(* processes that hold the locks of module ServiceLock, die at any moment   *)
(* and lose their locks to file replacement.                                *)
(*                                                                         *)
(* The clients are the most general ones the store accepts: every call with *)
(* every argument the store does not refuse.  A refused call returns        *)
(* ErrInvalidState and rolls back, so it is no step of the model.           *)
(***************************************************************************)
EXTENDS ServiceLock

CONSTANTS
    TxIds,      \* random transaction identifiers (TransactionID)
    Workloads,  \* runtime workload identifiers
    Plans,      \* what an action does: its kind and intent digest
    Digests,    \* postcondition digests
    Sequences   \* action sequence numbers

ASSUME NoneIsNoRow == None \notin TxIds \cup Workloads \cup Plans \cup Digests
ASSUME SequencesAssumption == Sequences \subseteq Nat \ {0}

VARIABLES
    tx,         \* tx[t]: the journal_transactions row of t, state "absent" if none
    action,     \* action[t][n]: the journal_actions row (t, n)
    applied,    \* applied[s]: the applied_services row of s, tx None if none
    index,      \* the transactions that have a workload_backups row
    disk,       \* the transactions whose complete manifest lies in backups/
    scan,       \* scan[p]: the manifests process p read under its index lock
    lastWrite   \* history: lastWrite[s] is the epoch of the last write for s

tables == <<tx, action, applied, index>>
vars == <<lockVars, tables, disk, scan, lastWrite>>

Kinds      == {"bootstrap", "adopt", "upgrade"}
Unresolved == {"active", "degraded"}
TxStates   == Unresolved \cup {"absent", "failed", "succeeded"}
ActionStates == {"absent", "intent", "effect_outcome_unknown", "completed"}

TxType == [state : TxStates, service : Services \cup {None},
           kind : Kinds \cup {None}, base : TxIds \cup {None},
           predecessor : Workloads \cup {None}]
ActionType == [state : ActionStates, plan : Plans \cup {None},
               postcondition : Digests \cup {None}]
AppliedType == [tx : TxIds \cup {None}, workload : Workloads \cup {None}]

NoTx      == [state |-> "absent", service |-> None, kind |-> None,
              base |-> None, predecessor |-> None]
NoAction  == [state |-> "absent", plan |-> None, postcondition |-> None]
NoApplied == [tx |-> None, workload |-> None]

(* The three values of an actions row, and the statements that write them. *)
NewIntent(plan)    == [state |-> "intent", plan |-> plan, postcondition |-> None]
Unknown(plan)      == [state |-> "effect_outcome_unknown", plan |-> plan,
                       postcondition |-> None]
Completed(plan, d) == [state |-> "completed", plan |-> plan, postcondition |-> d]

TypeOK ==
    /\ LockTypeOK
    /\ tx \in [TxIds -> TxType]
    /\ action \in [TxIds -> [Sequences -> ActionType]]
    /\ applied \in [Services -> AppliedType]
    /\ index \subseteq TxIds
    /\ disk \subseteq TxIds
    /\ scan \in [Processes -> SUBSET TxIds]
    /\ lastWrite \in [Services -> 0..MaxEpoch]

Init ==
    /\ LockInit
    /\ tx = [t \in TxIds |-> NoTx]
    /\ action = [t \in TxIds |-> [n \in Sequences |-> NoAction]]
    /\ applied = [s \in Services |-> NoApplied]
    /\ index = {}
    /\ disk = {}
    /\ scan = [p \in Processes |-> {}]
    /\ lastWrite = [s \in Services |-> 0]

-----------------------------------------------------------------------------
(* Rows of t that hold back the end of the transaction and its next action:  *)
(* the subquery "WHERE transaction_id = ? AND state != 'completed'".          *)
PendingActions(t) ==
    {n \in Sequences : action[t][n].state \in {"intent", "effect_outcome_unknown"}}

(* "transaction_id = ? AND service_id = ? AND state IN ('active', 'degraded')" *)
UnresolvedOf(t, s) == tx[t].service = s /\ tx[t].state \in Unresolved

(* Mutant: the mutation does not repeat the lease predicate.                  *)
FencedWriteUnproved(p) ==
    /\ session[p].stage = "open"
    /\ lastWrite' = [lastWrite EXCEPT ![session[p].service] = session[p].epoch]
    /\ UNCHANGED <<lockVars, disk, scan>>

(* withFencedWrite around one mutation, which supplies the rest of the step. *)
FencedWrite(p) ==
    /\ Fenced(p)
    /\ lastWrite' = [lastWrite EXCEPT ![session[p].service] = session[p].epoch]
    /\ UNCHANGED <<lockVars, disk, scan>>

(* validTransactionRelationship and validateTransactionBaseline. *)
BaselineMatches(s, kind, base, pred) ==
    \/ kind = "bootstrap" /\ applied[s].tx = None /\ base = None /\ pred = None
    \/ kind = "adopt" /\ applied[s].tx = None /\ base = None /\ pred # None
    \/ /\ kind = "upgrade" /\ base # None /\ pred # None
       /\ applied[s] = [tx |-> base, workload |-> pred]

(* BeginTransaction: the sole unresolved transaction of the locked service,   *)
(* under an identifier no row uses.                                           *)
BeginTransaction(p, t, kind, base, pred) ==
    LET s == session[p].service IN
    /\ FencedWrite(p)
    /\ tx[t].state = "absent"
    /\ BaselineMatches(s, kind, base, pred)
    /\ \A u \in TxIds : ~UnresolvedOf(u, s)
    /\ tx' = [tx EXCEPT ![t] = [state |-> "active", service |-> s, kind |-> kind,
                                base |-> base, predecessor |-> pred]]
    /\ UNCHANGED <<action, applied, index>>

(* Mutant: the transaction is settled although an effect is pending. *)
SetTransactionStatePending(p, t, state) ==
    /\ FencedWrite(p)
    /\ state \in {"degraded", "failed"}
    /\ tx[t].service = session[p].service
    /\ tx[t].state \in Unresolved \cup {state}
    /\ tx' = [tx EXCEPT ![t].state = state]
    /\ UNCHANGED <<action, applied, index>>

(* SetTransactionState to degraded or failed.  Repeating the call is accepted. *)
SetTransactionState(p, t, state) ==
    /\ FencedWrite(p)
    /\ state \in {"degraded", "failed"}
    /\ tx[t].service = session[p].service
    /\ tx[t].state \in Unresolved \cup {state}
    /\ PendingActions(t) = {}
    /\ tx' = [tx EXCEPT ![t].state = state]
    /\ UNCHANGED <<action, applied, index>>

(* RecordActionIntent: reuse the exact recorded plan of a sequence number, or  *)
(* insert a new intent when no other action of the transaction is unresolved. *)
RecordActionIntent(p, t, n, plan) ==
    /\ FencedWrite(p)
    /\ UnresolvedOf(t, session[p].service)
    /\ \/ /\ action[t][n].state # "absent"
          /\ action[t][n].plan = plan
          /\ UNCHANGED action
       \/ /\ action[t][n].state = "absent"
          /\ PendingActions(t) = {}
          /\ action' = [action EXCEPT ![t][n] = NewIntent(plan)]
    /\ UNCHANGED <<tx, applied, index>>

(* MarkActionEffectOutcomeUnknown: durable before the runtime is called. *)
MarkActionEffectOutcomeUnknown(p, t, n) ==
    /\ FencedWrite(p)
    /\ UnresolvedOf(t, session[p].service)
    /\ action[t][n].state \in {"intent", "effect_outcome_unknown"}
    /\ action' = [action EXCEPT ![t][n] = Unknown(action[t][n].plan)]
    /\ UNCHANGED <<tx, applied, index>>

(* Mutant: completing again replaces the recorded postcondition. *)
CompleteActionAgain(p, t, n, d) ==
    /\ FencedWrite(p)
    /\ UnresolvedOf(t, session[p].service)
    /\ action[t][n].state \in {"effect_outcome_unknown", "completed"}
    /\ action' = [action EXCEPT ![t][n] = Completed(action[t][n].plan, d)]
    /\ UNCHANGED <<tx, applied, index>>

(* CompleteAction: idempotent for the recorded postcondition only. *)
CompleteAction(p, t, n, d) ==
    /\ FencedWrite(p)
    /\ UnresolvedOf(t, session[p].service)
    /\ \/ action[t][n].state = "effect_outcome_unknown"
       \/ action[t][n].state = "completed" /\ action[t][n].postcondition = d
    /\ action' = [action EXCEPT ![t][n] = Completed(action[t][n].plan, d)]
    /\ UNCHANGED <<tx, applied, index>>

(* publishAppliedService: the baseline row a commit of t may write. *)
MayPublish(s, t, w) ==
    \/ tx[t].kind = "bootstrap" /\ applied[s].tx = None
    \/ tx[t].kind = "adopt" /\ applied[s].tx = None /\ w = tx[t].predecessor
    \/ /\ tx[t].kind = "upgrade"
       /\ applied[s] = [tx |-> tx[t].base, workload |-> tx[t].predecessor]

(* Mutant: a replay overwrites the applied row instead of comparing it. *)
CommitAppliedServiceReplay(p, t, w, backup) ==
    LET s == session[p].service IN
    /\ FencedWrite(p)
    /\ tx[t].service = s
    /\ \/ tx[t].state = "active" /\ MayPublish(s, t, w) /\ PendingActions(t) = {}
       \/ tx[t].state = "succeeded"
    /\ backup => tx[t].kind = "upgrade" /\ t \in disk
    /\ applied' = [applied EXCEPT ![s] = [tx |-> t, workload |-> w]]
    /\ index' = IF backup THEN index \cup {t} ELSE index
    /\ tx' = [tx EXCEPT ![t].state = "succeeded"]
    /\ UNCHANGED action

(* CommitAppliedService.  An upgrade that saved storage passes the locator of *)
(* the manifest it published (backup); a replay of a succeeded transaction    *)
(* compares and changes nothing, so it is no step here.                       *)
CommitAppliedService(p, t, w, backup) ==
    LET s == session[p].service IN
    /\ FencedWrite(p)
    /\ tx[t].service = s
    /\ tx[t].state = "active"
    /\ MayPublish(s, t, w)
    /\ backup => tx[t].kind = "upgrade" /\ t \in disk
    /\ PendingActions(t) = {}
    /\ applied' = [applied EXCEPT ![s] = [tx |-> t, workload |-> w]]
    /\ index' = IF backup THEN index \cup {t} ELSE index
    /\ tx' = [tx EXCEPT ![t].state = "succeeded"]
    /\ UNCHANGED action

-----------------------------------------------------------------------------
(* The manifest of an unresolved upgrade becomes visible in backups/ (the     *)
(* rename of partialPublication.commit).  The caller holds a ServiceLock it   *)
(* fenced some time ago: nothing re-checks it at the rename.                  *)
PublishBackup(p, t) ==
    /\ session[p].stage = "open"
    /\ tx[t].service = session[p].service
    /\ tx[t].kind = "upgrade"
    /\ tx[t].state # "succeeded"
    /\ disk' = disk \cup {t}
    /\ UNCHANGED <<lockVars, tables, scan, lastWrite>>

(* scanBackupRoot under the BackupIndexLock. *)
ScanBackupRoot(p) ==
    /\ session[p].stage = "indexing"
    /\ scan' = [scan EXCEPT ![p] = disk]
    /\ session' = [session EXCEPT ![p].stage = "scanned"]
    /\ UNCHANGED <<entry, opEntry, lease, tables, disk, lastWrite>>

(* Mutant: the operation lock is not validated before the rows are replaced. *)
ReplaceBackupIndexUnchecked(p) ==
    /\ session[p].stage = "scanned"
    /\ \A t \in scan[p] : tx[t].kind = "upgrade" /\ tx[t].state = "succeeded"
    /\ index' = scan[p]
    /\ UNCHANGED <<lockVars, tx, action, applied, disk, scan, lastWrite>>

(* ReplaceBackupIndex: delete every row, insert one per scanned manifest.     *)
(* One manifest that is not of a succeeded upgrade rolls everything back.     *)
ReplaceBackupIndex(p) ==
    /\ session[p].stage = "scanned"
    /\ OperationValid(p)
    /\ \A t \in scan[p] : tx[t].kind = "upgrade" /\ tx[t].state = "succeeded"
    /\ index' = scan[p]
    /\ UNCHANGED <<lockVars, tx, action, applied, disk, scan, lastWrite>>

JournalStep(p) ==
    \/ \E t \in TxIds, kind \in Kinds, base \in TxIds \cup {None},
          pred \in Workloads \cup {None} : BeginTransaction(p, t, kind, base, pred)
    \/ \E t \in TxIds, state \in {"degraded", "failed"} : SetTransactionState(p, t, state)
    \/ \E t \in TxIds, n \in Sequences, plan \in Plans : RecordActionIntent(p, t, n, plan)
    \/ \E t \in TxIds, n \in Sequences : MarkActionEffectOutcomeUnknown(p, t, n)
    \/ \E t \in TxIds, n \in Sequences, d \in Digests : CompleteAction(p, t, n, d)
    \/ \E t \in TxIds, w \in Workloads, backup \in BOOLEAN :
          CommitAppliedService(p, t, w, backup)
    \/ \E t \in TxIds : PublishBackup(p, t)
    \/ ScanBackupRoot(p)
    \/ ReplaceBackupIndex(p)

(* A lock step leaves the tables alone.  A scan is only read by the session   *)
(* that took it, so it is forgotten when the session ends.                    *)
Next ==
    \/ \E p \in Processes : JournalStep(p)
    \/ /\ LockNext
       /\ scan' = [p \in Processes |->
                     IF session'[p].stage = "scanned" THEN scan[p] ELSE {}]
       /\ UNCHANGED <<tables, disk, lastWrite>>

Spec == Init /\ [][Next]_vars

-----------------------------------------------------------------------------
(* What validateJournalRows demands when the database is next opened: a       *)
(* database that violates one part can never be opened again.                 *)

(* Foreign keys, CHECK constraints and the first subqueries: a row carries    *)
(* the relations of its kind, and only an existing row is named.              *)
RowsWellFormed ==
    \A t \in TxIds :
        /\ tx[t].state = "absent" =>
              tx[t] = NoTx /\ \A n \in Sequences : action[t][n].state = "absent"
        /\ tx[t].state # "absent" =>
              /\ tx[t].service \in Services
              /\ lease[tx[t].service].epoch > 0
              /\ \/ tx[t].kind = "bootstrap" /\ tx[t].base = None /\ tx[t].predecessor = None
                 \/ tx[t].kind = "adopt" /\ tx[t].base = None /\ tx[t].predecessor # None
                 \/ tx[t].kind = "upgrade" /\ tx[t].base # None /\ tx[t].predecessor # None
        /\ \A n \in Sequences :
              (action[t][n].state = "completed") <=> (action[t][n].postcondition # None)

(* An upgrade starts from a succeeded transaction of its own service. *)
BasesSucceeded ==
    \A t \in TxIds : tx[t].base # None =>
        tx[tx[t].base].state = "succeeded" /\ tx[tx[t].base].service = tx[t].service

(* The applied row names a succeeded transaction of its own service, and a    *)
(* service with a succeeded transaction has an applied row.                   *)
AppliedSucceeded ==
    \A s \in Services :
        /\ applied[s].tx # None =>
              /\ tx[applied[s].tx].state = "succeeded"
              /\ tx[applied[s].tx].service = s
              /\ applied[s].workload # None
        /\ \A t \in TxIds :
              tx[t].state = "succeeded" /\ tx[t].service = s => applied[s].tx # None

(* Only succeeded upgrades are in the backup index. *)
IndexOfUpgrades ==
    \A t \in index : tx[t].kind = "upgrade" /\ tx[t].state = "succeeded"

(* An unresolved transaction still starts from the current baseline. *)
UnresolvedOnBaseline ==
    \A t \in TxIds : tx[t].state \in Unresolved =>
        BaselineMatches(tx[t].service, tx[t].kind, tx[t].base, tx[t].predecessor)

(* A succeeded transaction is applied or was the base of a later one. *)
SucceededReachable ==
    \A t \in TxIds : tx[t].state = "succeeded" =>
        \/ applied[tx[t].service].tx = t
        \/ \E u \in TxIds : tx[u].base = t /\ tx[u].service = tx[t].service

(* The unique index journal_one_unresolved_transaction_per_service. *)
OneUnresolved ==
    \A t, u \in TxIds :
        /\ tx[t].state \in Unresolved /\ tx[u].state \in Unresolved
        /\ tx[t].service = tx[u].service
        => t = u

(* One unresolved effect per transaction, and none once it is terminal. *)
OnePendingAction ==
    \A t \in TxIds :
        /\ \A m, n \in PendingActions(t) : m = n
        /\ PendingActions(t) # {} => tx[t].state \in Unresolved

(* Every interleaving of writers, crashes, lock replacements and index        *)
(* rebuilds leaves a database the next process can open (validateJournalRows, *)
(* run by every openInitialized and by the read-only reader).                 *)
JournalValid ==
    /\ RowsWellFormed
    /\ BasesSucceeded
    /\ AppliedSucceeded
    /\ IndexOfUpgrades
    /\ UnresolvedOnBaseline
    /\ SucceededReachable
    /\ OneUnresolved
    /\ OnePendingAction

(* A writer that a later epoch has overtaken never changes a row again, even  *)
(* if it still holds the flock of a replaced lock file: the rows of a service *)
(* are written in epoch order (withFencedWrite).                              *)
EpochOrderedWrites ==
    [][\A s \in Services : lastWrite[s] <= lastWrite'[s]]_vars

(* Once a backup is in the index it stays there: a rebuild that scans the     *)
(* directory in one step and replaces the rows in another never drops the row *)
(* of an upgrade that commits in between (LockBackupIndex).                   *)
IndexKeepsBackups ==
    [][index \subseteq index']_vars

(* A settled fact is never rewritten: a terminal transaction keeps its row    *)
(* and its actions, and a completed action keeps its postcondition, whoever   *)
(* retries (SetTransactionState, CompleteAction, CommitAppliedService).       *)
SettledForGood ==
    [][\A t \in TxIds :
          /\ tx[t].state \in {"failed", "succeeded"} =>
                tx'[t] = tx[t] /\ action'[t] = action[t]
          /\ \A n \in Sequences :
                action[t][n].state = "completed" => action'[t][n] = action[t][n]]_vars

(* The baseline of a service moves only along base links: the next applied    *)
(* transaction is the first one, or an upgrade whose base is the transaction  *)
(* it replaces and whose predecessor is the workload it replaces.             *)
AppliedFollowsBase ==
    [][\A s \in Services : applied'[s] # applied[s] =>
          LET next == tx'[applied'[s].tx] IN
          /\ next.state = "succeeded"
          /\ next.base = applied[s].tx
          /\ next.kind = "upgrade" => next.predecessor = applied[s].workload]_vars

-----------------------------------------------------------------------------
(* The last write of a service was made under an epoch its lease row reached. *)
WritesUnderLease == \A s \in Services : lastWrite[s] <= lease[s].epoch

(* Every indexed backup is on disk, and a rebuild whose operation lock is      *)
(* still valid has read every indexed backup.                                 *)
ScanCoversIndex ==
    /\ index \subseteq disk
    /\ \A p \in Processes :
          /\ scan[p] \subseteq disk
          /\ session[p].stage = "scanned" /\ OperationValid(p) => index \subseteq scan[p]

(* The inductive invariant of the journal: the locks keep writers and index    *)
(* rebuilds apart, and the rows stay openable.                                *)
JournalInv ==
    /\ LockInv
    /\ TypeOK
    /\ JournalValid
    /\ WritesUnderLease
    /\ ScanCoversIndex
=============================================================================
