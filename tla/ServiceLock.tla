---------------------------- MODULE ServiceLock ----------------------------
(***************************************************************************)
(* Who may write the journal: the flocks and the SQLite writer lease of    *)
(* src/internal/store.                                                     *)
(*                                                                         *)
(* A process that wants to change one service holds, in this order,        *)
(*   1. a shared flock on "<db>.operations.lock"  (trySharedStateOperation) *)
(*   2. an exclusive flock on the service's lock file (ServiceLock.acquire) *)
(*   3. the writer lease row of the service, taken by advancing its epoch   *)
(*      (advanceWriterLease).                                              *)
(* A process that rebuilds the backup index holds the exclusive flock on    *)
(* "<db>.operations.lock" (LockBackupIndex).                               *)
(*                                                                         *)
(* A flock belongs to an inode, not to a name.  The directory entry of a    *)
(* lock file may be replaced by somebody else; the code defends itself by   *)
(* comparing the identity of the descriptor with the entry (Valid).  An     *)
(* inode is therefore modelled as the generation of its directory entry.    *)
(***************************************************************************)
EXTENDS Naturals, FiniteSets

CONSTANTS
    Processes,      \* the maniud processes (apply, daemon, doctor) and their goroutines
    Services,       \* project and service identities (serviceIdentity)
    Owners,         \* the random 16-byte lease owners; collisions are allowed
    None,           \* SQL NULL, and the absence of a value
    MaxEpoch,       \* math.MaxInt64, the last epoch advanceWriterLease grants
    MaxGeneration   \* bound on how often a lock file is replaced

ASSUME NoneAssumption == None \notin Services \cup Owners
ASSUME EpochAssumption == MaxEpoch \in Nat \ {0}
ASSUME GenerationAssumption == MaxGeneration \in Nat \ {0}

VARIABLES
    entry,      \* entry[s]: the inode now named by the lock file of service s
    opEntry,    \* the inode now named by "<db>.operations.lock"
    lease,      \* lease[s]: the writer_leases row of s; epoch 0 means no row yet
    session     \* session[p]: what process p holds

lockVars == <<entry, opEntry, lease, session>>

Generations == 1..MaxGeneration

(***************************************************************************)
(* The stages of a session, in the order openServiceLockWith reaches them.  *)
(* "closing" lies between releaseWriterLease and closeFilesystem.  The two  *)
(* stages of a BackupIndexLock are "indexing" and "scanned".                *)
(***************************************************************************)
HoldsFlock == {"flocked", "leased", "open", "closing"}
Indexing   == {"indexing", "scanned"}
Stages     == {"none", "shared"} \cup HoldsFlock \cup Indexing

NoSession == [stage |-> "none", service |-> None, gen |-> 0, opGen |-> 0,
              epoch |-> 0, owner |-> None]

(* What trySharedStateOperation and LockBackupIndex hand out on inode g. *)
SharedSession(s, g) == [stage |-> "shared", service |-> s, gen |-> 0, opGen |-> g,
                        epoch |-> 0, owner |-> None]
IndexSession(g) == [stage |-> "indexing", service |-> None, gen |-> 0, opGen |-> g,
                    epoch |-> 0, owner |-> None]

SessionType == [stage : Stages, service : Services \cup {None},
                gen : Generations \cup {0}, opGen : Generations \cup {0},
                epoch : 0..MaxEpoch, owner : Owners \cup {None}]

LeaseType == [epoch : 0..MaxEpoch, owner : Owners \cup {None}]

LockTypeOK ==
    /\ entry \in [Services -> Generations]
    /\ opEntry \in Generations
    /\ lease \in [Services -> LeaseType]
    /\ session \in [Processes -> SessionType]

LockInit ==
    /\ entry = [s \in Services |-> 1]
    /\ opEntry = 1
    /\ lease = [s \in Services |-> [epoch |-> 0, owner |-> None]]
    /\ session = [p \in Processes |-> NoSession]

-----------------------------------------------------------------------------
(* stateOperationLock.valid: the entry still names the locked inode. *)
OperationValid(p) == session[p].opGen = opEntry

(* ServiceLock.Valid: both lock files still name the locked inodes. *)
Valid(p) ==
    /\ OperationValid(p)
    /\ session[p].gen = entry[session[p].service]

(* The (epoch, owner) predicate every statement of a fenced write repeats. *)
LeaseHeld(p) ==
    /\ session[p].epoch > 0
    /\ lease[session[p].service].epoch = session[p].epoch
    /\ lease[session[p].service].owner = session[p].owner

(***************************************************************************)
(* withFencedWrite admits a write of p: filesystem capability and lease are *)
(* proved before the statement and again after it, in one BEGIN IMMEDIATE   *)
(* transaction, so a write is one step of the model.                        *)
(***************************************************************************)
Fenced(p) == session[p].stage = "open" /\ Valid(p) /\ LeaseHeld(p)

-----------------------------------------------------------------------------
(* trySharedStateOperation: LOCK_SH without waiting. *)
TrySharedStateOperation(p, s) ==
    /\ session[p].stage = "none"
    /\ \A q \in Processes :
          ~(session[q].stage \in Indexing /\ session[q].opGen = opEntry)
    /\ session' = [session EXCEPT ![p] = SharedSession(s, opEntry)]
    /\ UNCHANGED <<entry, opEntry, lease>>

(* openServiceLockFile and acquire: LOCK_EX without waiting on the inode the *)
(* entry names, then Valid.                                                  *)
AcquireServiceFlock(p) ==
    LET s == session[p].service IN
    /\ session[p].stage = "shared"
    /\ OperationValid(p)
    /\ \A q \in Processes : ~(/\ session[q].stage \in HoldsFlock
                              /\ session[q].service = s
                              /\ session[q].gen = entry[s])
    /\ session' = [session EXCEPT ![p].stage = "flocked", ![p].gen = entry[s]]
    /\ UNCHANGED <<entry, opEntry, lease>>

(* The error return of openServiceLockWith before the flock is held: another *)
(* owner holds it, or a lock file was replaced.                              *)
GiveUpServiceFlock(p) ==
    LET s == session[p].service IN
    /\ session[p].stage = "shared"
    /\ \/ ~OperationValid(p)
       \/ \E q \in Processes : /\ session[q].stage \in HoldsFlock
                               /\ session[q].service = s
                               /\ session[q].gen = entry[s]
    /\ session' = [session EXCEPT ![p] = NoSession]
    /\ UNCHANGED <<entry, opEntry, lease>>

(* Mutant: an existing row gets a new owner and keeps its epoch. *)
AcquireWriterLeaseSameEpoch(p, o) ==
    LET s == session[p].service
        next == IF lease[s].epoch = 0 THEN 1 ELSE lease[s].epoch IN
    /\ session[p].stage = "flocked"
    /\ lease' = [lease EXCEPT ![s] = [epoch |-> next, owner |-> o]]
    /\ session' = [session EXCEPT ![p].stage = "leased", ![p].epoch = next,
                                  ![p].owner = o]
    /\ UNCHANGED <<entry, opEntry>>

(* acquireWriterLease: INSERT epoch 1, or epoch + 1 while epoch < MaxInt64.  *)
(* Valid is not consulted between the flock and this statement.              *)
AcquireWriterLease(p, o) ==
    LET s == session[p].service
        next == lease[s].epoch + 1 IN
    /\ session[p].stage = "flocked"
    /\ lease[s].epoch < MaxEpoch
    /\ lease' = [lease EXCEPT ![s] = [epoch |-> next, owner |-> o]]
    /\ session' = [session EXCEPT ![p].stage = "leased", ![p].epoch = next,
                                  ![p].owner = o]
    /\ UNCHANGED <<entry, opEntry>>

(* acquireWriterLease at the last epoch: no row changes, the flocks are freed. *)
WriterLeaseExhausted(p) ==
    /\ session[p].stage = "flocked"
    /\ lease[session[p].service].epoch = MaxEpoch
    /\ session' = [session EXCEPT ![p] = NoSession]
    /\ UNCHANGED <<entry, opEntry, lease>>

(* The last check of openServiceLockWith: the lock is handed to the caller. *)
OpenServiceLock(p) ==
    /\ session[p].stage = "leased"
    /\ Valid(p)
    /\ session' = [session EXCEPT ![p].stage = "open"]
    /\ UNCHANGED <<entry, opEntry, lease>>

(* releaseWriterLease, from Close or from the failed last check of            *)
(* openServiceLockWith: owner = NULL if the row is still ours.  Close goes on *)
(* to the flocks whether or not the statement found its row.                  *)
ReleaseWriterLease(p) ==
    LET s == session[p].service IN
    /\ \/ session[p].stage = "open"
       \/ session[p].stage = "leased" /\ ~Valid(p)
    /\ lease' = IF LeaseHeld(p) THEN [lease EXCEPT ![s].owner = None] ELSE lease
    /\ session' = [session EXCEPT ![p].stage = "closing"]
    /\ UNCHANGED <<entry, opEntry>>

(* closeFilesystem: the service flock, then the operation flock. *)
CloseFilesystem(p) ==
    /\ session[p].stage = "closing"
    /\ session' = [session EXCEPT ![p] = NoSession]
    /\ UNCHANGED <<entry, opEntry, lease>>

(* LockBackupIndex: LOCK_EX on the operation file once nobody else holds it. *)
LockBackupIndex(p) ==
    /\ session[p].stage = "none"
    /\ \A q \in Processes :
          ~(session[q].stage # "none" /\ session[q].opGen = opEntry)
    /\ session' = [session EXCEPT ![p] = IndexSession(opEntry)]
    /\ UNCHANGED <<entry, opEntry, lease>>

(* BackupIndexLock.Close, reached from every return of rebuildBackupIndex. *)
CloseBackupIndex(p) ==
    /\ session[p].stage \in Indexing
    /\ session' = [session EXCEPT ![p] = NoSession]
    /\ UNCHANGED <<entry, opEntry, lease>>

(* The process dies.  The kernel frees its flocks; the lease row keeps its    *)
(* owner.                                                                     *)
Crash(p) ==
    /\ session[p].stage # "none"
    /\ session' = [session EXCEPT ![p] = NoSession]
    /\ UNCHANGED <<entry, opEntry, lease>>

(* Somebody replaces the lock file of a service, or the operation lock file,  *)
(* behind the program's back: the case Valid exists for.                      *)
ReplaceServiceEntry(s) ==
    /\ entry[s] < MaxGeneration
    /\ entry' = [entry EXCEPT ![s] = @ + 1]
    /\ UNCHANGED <<opEntry, lease, session>>

ReplaceOperationEntry ==
    /\ opEntry < MaxGeneration
    /\ opEntry' = opEntry + 1
    /\ UNCHANGED <<entry, lease, session>>

LockStep(p) ==
    \/ \E s \in Services : TrySharedStateOperation(p, s)
    \/ AcquireServiceFlock(p)
    \/ GiveUpServiceFlock(p)
    \/ \E o \in Owners : AcquireWriterLease(p, o)
    \/ WriterLeaseExhausted(p)
    \/ OpenServiceLock(p)
    \/ ReleaseWriterLease(p)
    \/ CloseFilesystem(p)
    \/ LockBackupIndex(p)
    \/ CloseBackupIndex(p)
    \/ Crash(p)

LockNext ==
    \/ \E p \in Processes : LockStep(p)
    \/ \E s \in Services : ReplaceServiceEntry(s)
    \/ ReplaceOperationEntry

LockSpec == LockInit /\ [][LockNext]_lockVars

-----------------------------------------------------------------------------
(* Two sessions never satisfy the lease predicate of one service together,    *)
(* not even when a lock file was replaced and two processes hold flocks on    *)
(* two inodes: the epoch alone keeps them apart, because owners may collide.  *)
(* (advanceWriterLease, proveWriterLease)                                     *)
OneLeaseHolder ==
    \A p, q \in Processes :
        /\ session[p].stage \in {"leased", "open"} /\ LeaseHeld(p)
        /\ session[q].stage \in {"leased", "open"} /\ LeaseHeld(q)
        /\ session[p].service = session[q].service
        => p = q

(* While the lock file of a service has not been replaced, whoever was handed *)
(* its ServiceLock owns its lease: nobody can advance the epoch under a live  *)
(* holder, so a fenced write can fail only after tampering.                   *)
LockHolderOwnsLease ==
    \A p \in Processes :
        /\ session[p].stage \in {"leased", "open"}
        /\ entry[session[p].service] = 1
        => LeaseHeld(p)

(* LockBackupIndex "prevents new writers from starting until the returned     *)
(* lock is closed": while its operation lock is valid nobody can pass the     *)
(* fence.                                                                     *)
IndexExcludesWriters ==
    \A p, q \in Processes :
        session[p].stage \in Indexing /\ OperationValid(p) => ~Fenced(q)

-----------------------------------------------------------------------------
(* What makes the three properties inductive.                                 *)

(* A session past trySharedStateOperation names its service; a flock is held  *)
(* on an inode the entry names or named before, and so is the operation lock. *)
SessionsNamed ==
    \A p \in Processes :
        /\ session[p].stage \in {"shared"} \cup HoldsFlock => session[p].service \in Services
        /\ session[p].stage \in HoldsFlock =>
              session[p].gen \in 1..entry[session[p].service]
        /\ session[p].opGen <= opEntry
        /\ session[p].stage \in {"leased", "open"} =>
              /\ session[p].owner \in Owners
              /\ session[p].epoch \in 1..lease[session[p].service].epoch

(* An exclusive flock has one holder per inode. *)
FlockExclusive ==
    \A p, q \in Processes :
        /\ session[p].stage \in HoldsFlock /\ session[q].stage \in HoldsFlock
        /\ session[p].service = session[q].service
        /\ session[p].gen = session[q].gen
        => p = q

(* Whoever holds the operation lock exclusively is alone on its inode. *)
OperationExclusive ==
    \A p, q \in Processes :
        /\ session[p].stage \in Indexing /\ session[q].stage # "none"
        /\ session[p].opGen = session[q].opGen
        => p = q

(* No epoch of a service is handed out twice. *)
EpochsDistinct ==
    \A p, q \in Processes :
        /\ session[p].stage \in {"leased", "open"} /\ session[q].stage \in {"leased", "open"}
        /\ session[p].service = session[q].service
        /\ session[p].epoch = session[q].epoch
        => p = q

(* The inductive invariant of the locking protocol: flocks exclude per inode, *)
(* epochs are handed out once, and a holder whose lock file was not replaced  *)
(* still owns the lease.                                                      *)
LockInv ==
    /\ LockTypeOK
    /\ SessionsNamed
    /\ FlockExclusive
    /\ OperationExclusive
    /\ EpochsDistinct
    /\ LockHolderOwnsLease
=============================================================================
