--------------------------- MODULE JournalProofs ---------------------------
(***************************************************************************)
(* Proofs about ServiceLock and Journal, for every number of processes,      *)
(* services, transactions, actions, epochs and file generations.             *)
(***************************************************************************)
EXTENDS Journal, TLAPS

-----------------------------------------------------------------------------
(* The empty session has the type of a session. *)
LEMMA NoSessionType == NoSession \in SessionType
BY EpochAssumption DEF NoSession, SessionType, Stages, HoldsFlock, Indexing

(* Every step of the locking protocol keeps the types of its variables. *)
LEMMA LockTypeStep == LockInv /\ [LockNext]_lockVars => LockTypeOK'
<1> SUFFICES ASSUME LockInv, [LockNext]_lockVars PROVE LockTypeOK'
    OBVIOUS
<1> USE EpochAssumption, GenerationAssumption
<1>a. LockTypeOK /\ SessionsNamed
    BY DEF LockInv
<1>0. CASE UNCHANGED lockVars
    BY <1>0, <1>a DEF LockTypeOK, lockVars
<1>1. ASSUME NEW p \in Processes, NEW s \in Services, TrySharedStateOperation(p, s)
      PROVE  LockTypeOK'
  <2>1. SharedSession(s, opEntry) \in SessionType
      BY <1>a DEF LockTypeOK, SharedSession, SessionType, Stages
  <2> QED
      BY <1>1, <1>a, <2>1 DEF LockTypeOK, TrySharedStateOperation
<1>2. ASSUME NEW p \in Processes, AcquireServiceFlock(p)
      PROVE  LockTypeOK'
  <2>1. session[p].service \in Services
      BY <1>2, <1>a DEF AcquireServiceFlock, SessionsNamed
  <2>2. entry[session[p].service] \in Generations
      BY <1>a, <2>1 DEF LockTypeOK
  <2>3. session'[p] \in SessionType
      BY <1>2, <1>a, <2>2 DEF LockTypeOK, AcquireServiceFlock, SessionType, Stages, HoldsFlock
  <2> QED
      BY <1>2, <1>a, <2>3 DEF LockTypeOK, AcquireServiceFlock
<1>3. ASSUME NEW p \in Processes,
             GiveUpServiceFlock(p) \/ WriterLeaseExhausted(p) \/ CloseFilesystem(p)
                \/ CloseBackupIndex(p) \/ Crash(p)
      PROVE  LockTypeOK'
    BY <1>3, <1>a, NoSessionType DEF LockTypeOK, GiveUpServiceFlock, WriterLeaseExhausted,
       CloseFilesystem, CloseBackupIndex, Crash
<1>4. ASSUME NEW p \in Processes, NEW o \in Owners, AcquireWriterLease(p, o)
      PROVE  LockTypeOK'
  <2>1. session[p].service \in Services
      BY <1>4, <1>a DEF AcquireWriterLease, SessionsNamed, HoldsFlock
  <2>2. lease[session[p].service].epoch + 1 \in 0..MaxEpoch
      BY <1>4, <1>a, <2>1 DEF AcquireWriterLease, LockTypeOK, LeaseType
  <2>3. session'[p] \in SessionType
      BY <1>4, <1>a, <2>2, ZenonT(60) DEF LockTypeOK, AcquireWriterLease, SessionType, Stages, HoldsFlock
  <2>4. lease'[session[p].service] \in LeaseType
      BY <1>4, <1>a, <2>1, <2>2 DEF LockTypeOK, AcquireWriterLease, LeaseType
  <2> QED
      BY <1>4, <1>a, <2>3, <2>4 DEF LockTypeOK, AcquireWriterLease
<1>5. ASSUME NEW p \in Processes, OpenServiceLock(p)
      PROVE  LockTypeOK'
    BY <1>5, <1>a DEF LockTypeOK, OpenServiceLock, SessionType, Stages, HoldsFlock
<1>6. ASSUME NEW p \in Processes, ReleaseWriterLease(p)
      PROVE  LockTypeOK'
    BY <1>6, <1>a, ZenonT(60) DEF LockTypeOK, ReleaseWriterLease, SessionType, LeaseType, Stages, HoldsFlock
<1>7. ASSUME NEW p \in Processes, LockBackupIndex(p)
      PROVE  LockTypeOK'
  <2>1. IndexSession(opEntry) \in SessionType
      BY <1>a DEF LockTypeOK, IndexSession, SessionType, Stages, Indexing
  <2> QED
      BY <1>7, <1>a, <2>1 DEF LockTypeOK, LockBackupIndex
<1>8. ASSUME NEW s \in Services, ReplaceServiceEntry(s)
      PROVE  LockTypeOK'
    BY <1>8, <1>a DEF LockTypeOK, ReplaceServiceEntry, Generations
<1>9. CASE ReplaceOperationEntry
    BY <1>9, <1>a DEF LockTypeOK, ReplaceOperationEntry, Generations
<1> QED
    BY <1>0, <1>1, <1>2, <1>3, <1>4, <1>5, <1>6, <1>7, <1>8, <1>9 DEF LockNext, LockStep

(* A session keeps naming its service and past inodes and epochs. *)
LEMMA SessionsNamedStep == LockInv /\ [LockNext]_lockVars => SessionsNamed'
<1> SUFFICES ASSUME LockInv, [LockNext]_lockVars PROVE SessionsNamed'
    OBVIOUS
<1> USE EpochAssumption, GenerationAssumption, NoneAssumption
<1> USE DEF LockTypeOK, SessionType, LeaseType, Stages, HoldsFlock, Indexing, Generations, SessionsNamed, Valid, OperationValid, LeaseHeld, EpochsDistinct
<1>a. /\ LockTypeOK /\ SessionsNamed /\ FlockExclusive
      /\ OperationExclusive /\ EpochsDistinct /\ LockHolderOwnsLease
    BY DEF LockInv
<1>0. CASE UNCHANGED lockVars
    BY <1>0, <1>a DEF lockVars
<1>1. ASSUME NEW p \in Processes, NEW s \in Services, TrySharedStateOperation(p, s)
      PROVE  SessionsNamed'
    BY <1>1, <1>a DEF SharedSession, TrySharedStateOperation
<1>2. ASSUME NEW p \in Processes, AcquireServiceFlock(p)
      PROVE  SessionsNamed'
    BY <1>2, <1>a DEF AcquireServiceFlock
<1>3. ASSUME NEW p \in Processes,
             GiveUpServiceFlock(p) \/ WriterLeaseExhausted(p) \/ CloseFilesystem(p)
                \/ CloseBackupIndex(p) \/ Crash(p)
      PROVE  SessionsNamed'
    BY <1>3, <1>a DEF NoSession, GiveUpServiceFlock, WriterLeaseExhausted,
       CloseFilesystem, CloseBackupIndex, Crash
<1>4. ASSUME NEW p \in Processes, NEW o \in Owners, AcquireWriterLease(p, o)
      PROVE  SessionsNamed'
    BY <1>4, <1>a DEF AcquireWriterLease
<1>5. ASSUME NEW p \in Processes, OpenServiceLock(p)
      PROVE  SessionsNamed'
    BY <1>5, <1>a DEF OpenServiceLock
<1>6. ASSUME NEW p \in Processes, ReleaseWriterLease(p)
      PROVE  SessionsNamed'
    BY <1>6, <1>a DEF ReleaseWriterLease
<1>7. ASSUME NEW p \in Processes, LockBackupIndex(p)
      PROVE  SessionsNamed'
    BY <1>7, <1>a DEF IndexSession, LockBackupIndex
<1>8. ASSUME NEW s \in Services, ReplaceServiceEntry(s)
      PROVE  SessionsNamed'
    BY <1>8, <1>a DEF ReplaceServiceEntry
<1>9. CASE ReplaceOperationEntry
    BY <1>9, <1>a DEF ReplaceOperationEntry
<1> QED
    BY <1>0, <1>1, <1>2, <1>3, <1>4, <1>5, <1>6, <1>7, <1>8, <1>9 DEF LockNext, LockStep

(* An exclusive flock keeps one holder per inode. *)
LEMMA FlockExclusiveStep == LockInv /\ [LockNext]_lockVars => FlockExclusive'
<1> SUFFICES ASSUME LockInv, [LockNext]_lockVars PROVE FlockExclusive'
    OBVIOUS
<1> USE EpochAssumption, GenerationAssumption, NoneAssumption
<1> USE DEF LockTypeOK, SessionType, LeaseType, Stages, HoldsFlock, Indexing, Generations, SessionsNamed, FlockExclusive
<1>a. /\ LockTypeOK /\ SessionsNamed /\ FlockExclusive
      /\ OperationExclusive /\ EpochsDistinct /\ LockHolderOwnsLease
    BY DEF LockInv
<1>0. CASE UNCHANGED lockVars
    BY <1>0, <1>a DEF lockVars
<1>1. ASSUME NEW p \in Processes, NEW s \in Services, TrySharedStateOperation(p, s)
      PROVE  FlockExclusive'
    BY <1>1, <1>a DEF SharedSession, TrySharedStateOperation
<1>2. ASSUME NEW p \in Processes, AcquireServiceFlock(p)
      PROVE  FlockExclusive'
    BY <1>2, <1>a DEF AcquireServiceFlock
<1>3. ASSUME NEW p \in Processes,
             GiveUpServiceFlock(p) \/ WriterLeaseExhausted(p) \/ CloseFilesystem(p)
                \/ CloseBackupIndex(p) \/ Crash(p)
      PROVE  FlockExclusive'
    BY <1>3, <1>a DEF NoSession, GiveUpServiceFlock, WriterLeaseExhausted,
       CloseFilesystem, CloseBackupIndex, Crash
<1>4. ASSUME NEW p \in Processes, NEW o \in Owners, AcquireWriterLease(p, o)
      PROVE  FlockExclusive'
    BY <1>4, <1>a DEF AcquireWriterLease
<1>5. ASSUME NEW p \in Processes, OpenServiceLock(p)
      PROVE  FlockExclusive'
    BY <1>5, <1>a DEF OpenServiceLock
<1>6. ASSUME NEW p \in Processes, ReleaseWriterLease(p)
      PROVE  FlockExclusive'
    BY <1>6, <1>a DEF ReleaseWriterLease
<1>7. ASSUME NEW p \in Processes, LockBackupIndex(p)
      PROVE  FlockExclusive'
    BY <1>7, <1>a DEF IndexSession, LockBackupIndex
<1>8. ASSUME NEW s \in Services, ReplaceServiceEntry(s)
      PROVE  FlockExclusive'
    BY <1>8, <1>a DEF ReplaceServiceEntry
<1>9. CASE ReplaceOperationEntry
    BY <1>9, <1>a DEF ReplaceOperationEntry
<1> QED
    BY <1>0, <1>1, <1>2, <1>3, <1>4, <1>5, <1>6, <1>7, <1>8, <1>9 DEF LockNext, LockStep

(* The exclusive operation lock keeps one holder per inode. *)
LEMMA OperationExclusiveStep == LockInv /\ [LockNext]_lockVars => OperationExclusive'
<1> SUFFICES ASSUME LockInv, [LockNext]_lockVars PROVE OperationExclusive'
    OBVIOUS
<1> USE EpochAssumption, GenerationAssumption, NoneAssumption
<1> USE DEF LockTypeOK, SessionType, LeaseType, Stages, HoldsFlock, Indexing, Generations, SessionsNamed, OperationExclusive
<1>a. /\ LockTypeOK /\ SessionsNamed /\ FlockExclusive
      /\ OperationExclusive /\ EpochsDistinct /\ LockHolderOwnsLease
    BY DEF LockInv
<1>0. CASE UNCHANGED lockVars
    BY <1>0, <1>a DEF lockVars
<1>1. ASSUME NEW p \in Processes, NEW s \in Services, TrySharedStateOperation(p, s)
      PROVE  OperationExclusive'
    BY <1>1, <1>a DEF SharedSession, TrySharedStateOperation
<1>2. ASSUME NEW p \in Processes, AcquireServiceFlock(p)
      PROVE  OperationExclusive'
    BY <1>2, <1>a DEF AcquireServiceFlock
<1>3. ASSUME NEW p \in Processes,
             GiveUpServiceFlock(p) \/ WriterLeaseExhausted(p) \/ CloseFilesystem(p)
                \/ CloseBackupIndex(p) \/ Crash(p)
      PROVE  OperationExclusive'
    BY <1>3, <1>a DEF NoSession, GiveUpServiceFlock, WriterLeaseExhausted,
       CloseFilesystem, CloseBackupIndex, Crash
<1>4. ASSUME NEW p \in Processes, NEW o \in Owners, AcquireWriterLease(p, o)
      PROVE  OperationExclusive'
    BY <1>4, <1>a DEF AcquireWriterLease
<1>5. ASSUME NEW p \in Processes, OpenServiceLock(p)
      PROVE  OperationExclusive'
    BY <1>5, <1>a DEF OpenServiceLock
<1>6. ASSUME NEW p \in Processes, ReleaseWriterLease(p)
      PROVE  OperationExclusive'
    BY <1>6, <1>a DEF ReleaseWriterLease
<1>7. ASSUME NEW p \in Processes, LockBackupIndex(p)
      PROVE  OperationExclusive'
    BY <1>7, <1>a DEF IndexSession, LockBackupIndex
<1>8. ASSUME NEW s \in Services, ReplaceServiceEntry(s)
      PROVE  OperationExclusive'
    BY <1>8, <1>a DEF ReplaceServiceEntry
<1>9. CASE ReplaceOperationEntry
    BY <1>9, <1>a DEF ReplaceOperationEntry
<1> QED
    BY <1>0, <1>1, <1>2, <1>3, <1>4, <1>5, <1>6, <1>7, <1>8, <1>9 DEF LockNext, LockStep

(* A lease is granted under an epoch above every earlier one. *)
LEMMA EpochsDistinctStep == LockInv /\ [LockNext]_lockVars => EpochsDistinct'
<1> SUFFICES ASSUME LockInv, [LockNext]_lockVars PROVE EpochsDistinct'
    OBVIOUS
<1> USE EpochAssumption, GenerationAssumption, NoneAssumption
<1> USE DEF LockTypeOK, SessionType, LeaseType, Stages, HoldsFlock, Indexing, Generations, SessionsNamed, EpochsDistinct
<1>a. /\ LockTypeOK /\ SessionsNamed /\ FlockExclusive
      /\ OperationExclusive /\ EpochsDistinct /\ LockHolderOwnsLease
    BY DEF LockInv
<1>0. CASE UNCHANGED lockVars
    BY <1>0, <1>a DEF lockVars
<1>1. ASSUME NEW p \in Processes, NEW s \in Services, TrySharedStateOperation(p, s)
      PROVE  EpochsDistinct'
    BY <1>1, <1>a DEF SharedSession, TrySharedStateOperation
<1>2. ASSUME NEW p \in Processes, AcquireServiceFlock(p)
      PROVE  EpochsDistinct'
    BY <1>2, <1>a DEF AcquireServiceFlock
<1>3. ASSUME NEW p \in Processes,
             GiveUpServiceFlock(p) \/ WriterLeaseExhausted(p) \/ CloseFilesystem(p)
                \/ CloseBackupIndex(p) \/ Crash(p)
      PROVE  EpochsDistinct'
    BY <1>3, <1>a DEF NoSession, GiveUpServiceFlock, WriterLeaseExhausted,
       CloseFilesystem, CloseBackupIndex, Crash
<1>4. ASSUME NEW p \in Processes, NEW o \in Owners, AcquireWriterLease(p, o)
      PROVE  EpochsDistinct'
    BY <1>4, <1>a DEF AcquireWriterLease
<1>5. ASSUME NEW p \in Processes, OpenServiceLock(p)
      PROVE  EpochsDistinct'
    BY <1>5, <1>a DEF OpenServiceLock
<1>6. ASSUME NEW p \in Processes, ReleaseWriterLease(p)
      PROVE  EpochsDistinct'
    BY <1>6, <1>a DEF ReleaseWriterLease
<1>7. ASSUME NEW p \in Processes, LockBackupIndex(p)
      PROVE  EpochsDistinct'
    BY <1>7, <1>a DEF IndexSession, LockBackupIndex
<1>8. ASSUME NEW s \in Services, ReplaceServiceEntry(s)
      PROVE  EpochsDistinct'
    BY <1>8, <1>a DEF ReplaceServiceEntry
<1>9. CASE ReplaceOperationEntry
    BY <1>9, <1>a DEF ReplaceOperationEntry
<1> QED
    BY <1>0, <1>1, <1>2, <1>3, <1>4, <1>5, <1>6, <1>7, <1>8, <1>9 DEF LockNext, LockStep

(* Nobody takes the lease of a live holder whose lock file was not replaced. *)
LEMMA HolderOwnsLeaseStep == LockInv /\ [LockNext]_lockVars => LockHolderOwnsLease'
<1> SUFFICES ASSUME LockInv, [LockNext]_lockVars PROVE LockHolderOwnsLease'
    OBVIOUS
<1> USE EpochAssumption, GenerationAssumption, NoneAssumption
<1> USE DEF LockTypeOK, SessionType, LeaseType, Stages, HoldsFlock, Indexing, Generations, SessionsNamed, FlockExclusive, LockHolderOwnsLease, LeaseHeld, Valid, OperationValid
<1>a. /\ LockTypeOK /\ SessionsNamed /\ FlockExclusive
      /\ OperationExclusive /\ EpochsDistinct /\ LockHolderOwnsLease
    BY DEF LockInv
<1>0. CASE UNCHANGED lockVars
    BY <1>0, <1>a DEF lockVars
<1>1. ASSUME NEW p \in Processes, NEW s \in Services, TrySharedStateOperation(p, s)
      PROVE  LockHolderOwnsLease'
    BY <1>1, <1>a DEF SharedSession, TrySharedStateOperation
<1>2. ASSUME NEW p \in Processes, AcquireServiceFlock(p)
      PROVE  LockHolderOwnsLease'
    BY <1>2, <1>a DEF AcquireServiceFlock
<1>3. ASSUME NEW p \in Processes,
             GiveUpServiceFlock(p) \/ WriterLeaseExhausted(p) \/ CloseFilesystem(p)
                \/ CloseBackupIndex(p) \/ Crash(p)
      PROVE  LockHolderOwnsLease'
    BY <1>3, <1>a DEF NoSession, GiveUpServiceFlock, WriterLeaseExhausted,
       CloseFilesystem, CloseBackupIndex, Crash
<1>4. ASSUME NEW p \in Processes, NEW o \in Owners, AcquireWriterLease(p, o)
      PROVE  LockHolderOwnsLease'
    BY <1>4, <1>a DEF AcquireWriterLease
<1>5. ASSUME NEW p \in Processes, OpenServiceLock(p)
      PROVE  LockHolderOwnsLease'
    BY <1>5, <1>a DEF OpenServiceLock
<1>6. ASSUME NEW p \in Processes, ReleaseWriterLease(p)
      PROVE  LockHolderOwnsLease'
    BY <1>6, <1>a DEF ReleaseWriterLease
<1>7. ASSUME NEW p \in Processes, LockBackupIndex(p)
      PROVE  LockHolderOwnsLease'
    BY <1>7, <1>a DEF IndexSession, LockBackupIndex
<1>8. ASSUME NEW s \in Services, ReplaceServiceEntry(s)
      PROVE  LockHolderOwnsLease'
    BY <1>8, <1>a DEF ReplaceServiceEntry
<1>9. CASE ReplaceOperationEntry
    BY <1>9, <1>a DEF ReplaceOperationEntry
<1> QED
    BY <1>0, <1>1, <1>2, <1>3, <1>4, <1>5, <1>6, <1>7, <1>8, <1>9 DEF LockNext, LockStep

(* Every step of the locking protocol preserves its inductive invariant. *)
LEMMA LockInvStep == LockInv /\ [LockNext]_lockVars => LockInv'
BY LockTypeStep, SessionsNamedStep, FlockExclusiveStep, OperationExclusiveStep,
   EpochsDistinctStep, HolderOwnsLeaseStep DEF LockInv

(* No session, no lease: the initial state satisfies the invariant. *)
LEMMA LockInvInit == LockInit => LockInv
<1> SUFFICES ASSUME LockInit PROVE LockInv
    OBVIOUS
<1> USE EpochAssumption, GenerationAssumption DEF LockInit
<1>1. LockTypeOK
    BY NoSessionType DEF LockTypeOK, LeaseType, Generations
<1>2. \A p \in Processes : session[p].stage = "none" /\ session[p].opGen = 0
    BY DEF NoSession
<1> QED
    BY <1>1, <1>2 DEF LockInv, SessionsNamed, FlockExclusive, OperationExclusive,
       EpochsDistinct, LockHolderOwnsLease, HoldsFlock, Indexing

(* LockInv is an invariant of the locking protocol alone, whatever the number *)
(* of processes, services, replaced lock files and crashes.                   *)
THEOREM LockInvariant == LockSpec => []LockInv
BY LockInvInit, LockInvStep, PTL DEF LockSpec

(* What LockInv means for the callers of openServiceLockWith: one lease       *)
(* holder per service, and no fenced writer beside a valid index lock.        *)
LEMMA LockInvSafe == LockInv => OneLeaseHolder /\ IndexExcludesWriters
<1> SUFFICES ASSUME LockInv PROVE OneLeaseHolder /\ IndexExcludesWriters
    OBVIOUS
<1>1. OneLeaseHolder
    BY DEF LockInv, EpochsDistinct, OneLeaseHolder, LeaseHeld
<1>2. IndexExcludesWriters
    BY DEF LockInv, OperationExclusive, IndexExcludesWriters, Fenced, Valid,
       OperationValid, Indexing
<1> QED
    BY <1>1, <1>2

(* At most one process satisfies the lease predicate of a service.            *)
THEOREM OneLeaseHolderTheorem == LockSpec => []OneLeaseHolder
BY LockInvariant, LockInvSafe, PTL

(* While the lock file is not replaced, the holder of a ServiceLock owns the  *)
(* lease.                                                                     *)
THEOREM LockHolderOwnsLeaseTheorem == LockSpec => []LockHolderOwnsLease
<1>1. LockInv => LockHolderOwnsLease
    BY DEF LockInv
<1> QED
    BY LockInvariant, <1>1, PTL

(* A valid BackupIndexLock excludes every writer that could pass the fence.   *)
THEOREM IndexExcludesWritersTheorem == LockSpec => []IndexExcludesWriters
BY LockInvariant, LockInvSafe, PTL

-----------------------------------------------------------------------------
(* What withFencedWrite knows when it runs its statement. *)
LEMMA FencedFacts ==
    ASSUME LockInv, NEW p \in Processes, Fenced(p)
    PROVE  /\ session[p].service \in Services
           /\ session[p].epoch = lease[session[p].service].epoch
           /\ session[p].epoch \in 1..MaxEpoch
           /\ \A q \in Processes : session[q].stage \in Indexing => ~OperationValid(q)
<1>1. session[p].stage = "open" /\ LeaseHeld(p)
    BY DEF Fenced
<1>2. session[p].service \in Services
    BY <1>1 DEF LockInv, SessionsNamed, HoldsFlock
<1>3. session[p].epoch \in 1..MaxEpoch
    BY <1>1, EpochAssumption DEF LockInv, LockTypeOK, SessionType, LeaseHeld
<1>4. \A q \in Processes : session[q].stage \in Indexing => ~OperationValid(q)
    BY LockInvSafe DEF IndexExcludesWriters
<1> QED
    BY <1>1, <1>2, <1>3, <1>4 DEF LeaseHeld

(* A step leaves the epoch of a lease row alone or advances it. *)
LEMMA EpochsAdvance ==
    ASSUME LockInv, [LockNext]_lockVars, NEW s \in Services
    PROVE  lease[s].epoch <= lease'[s].epoch
<1> USE DEF LockInv, LockTypeOK, LeaseType
<1>0. CASE UNCHANGED lockVars
    BY <1>0, EpochAssumption DEF lockVars
<1>1. CASE UNCHANGED lease
    BY <1>1, EpochAssumption
<1>2. ASSUME NEW p \in Processes, NEW o \in Owners, AcquireWriterLease(p, o)
      PROVE  lease[s].epoch <= lease'[s].epoch
    BY <1>2, EpochAssumption DEF AcquireWriterLease
<1>3. ASSUME NEW p \in Processes, ReleaseWriterLease(p)
      PROVE  lease[s].epoch <= lease'[s].epoch
    BY <1>3, EpochAssumption DEF ReleaseWriterLease
<1> QED
    BY <1>0, <1>1, <1>2, <1>3 DEF LockNext, LockStep, TrySharedStateOperation,
       AcquireServiceFlock, GiveUpServiceFlock, WriterLeaseExhausted, OpenServiceLock,
       CloseFilesystem, LockBackupIndex, CloseBackupIndex, Crash, ReplaceServiceEntry,
       ReplaceOperationEntry

(* scanBackupRoot moves an index session forward and takes no lock. *)
LEMMA ScanKeepsLocks ==
    ASSUME LockInv, NEW p \in Processes, ScanBackupRoot(p)
    PROVE  LockInv'
<1> USE DEF LockInv, ScanBackupRoot
<1>1. LockTypeOK'
    BY DEF LockTypeOK, SessionType, Stages, Indexing
<1>2. /\ \A q \in Processes \ {p} : session'[q] = session[q]
      /\ session'[p].stage = "scanned" /\ session[p].stage = "indexing"
      /\ session'[p].opGen = session[p].opGen
    BY DEF LockTypeOK, SessionType
<1>3. SessionsNamed'
    BY <1>2 DEF SessionsNamed, HoldsFlock
<1>4. FlockExclusive' /\ EpochsDistinct'
    BY <1>2 DEF FlockExclusive, EpochsDistinct, HoldsFlock
<1>5. OperationExclusive'
    BY <1>2 DEF OperationExclusive, Indexing
<1>6. LockHolderOwnsLease'
    BY <1>2 DEF LockHolderOwnsLease, LeaseHeld
<1> QED
    BY <1>1, <1>3, <1>4, <1>5, <1>6

(* Every step of the journal keeps the locking invariant. *)
LEMMA JournalLockStep == LockInv /\ [Next]_vars => LockInv'
<1> SUFFICES ASSUME LockInv, [Next]_vars PROVE LockInv'
    OBVIOUS
<1>1. CASE [LockNext]_lockVars
    BY <1>1, LockInvStep
<1>2. ASSUME NEW p \in Processes, ScanBackupRoot(p)
      PROVE  LockInv'
    BY <1>2, ScanKeepsLocks
<1>3. ASSUME NEW p \in Processes, JournalStep(p), ~ScanBackupRoot(p)
      PROVE  UNCHANGED lockVars
    BY <1>3 DEF JournalStep, BeginTransaction, SetTransactionState, RecordActionIntent,
       MarkActionEffectOutcomeUnknown, CompleteAction, CommitAppliedService, FencedWrite,
       PublishBackup, ReplaceBackupIndex
<1> QED
    BY <1>1, <1>2, <1>3 DEF Next, vars

(* The types of the journal's own variables. *)
JournalTypeOK ==
    /\ tx \in [TxIds -> TxType]
    /\ action \in [TxIds -> [Sequences -> ActionType]]
    /\ applied \in [Services -> AppliedType]
    /\ index \subseteq TxIds
    /\ disk \subseteq TxIds
    /\ scan \in [Processes -> SUBSET TxIds]
    /\ lastWrite \in [Services -> 0..MaxEpoch]

(* A fenced write keeps the types of the directory, the scans and lastWrite. *)
LEMMA FencedWriteType ==
    ASSUME JournalInv, NEW p \in Processes, FencedWrite(p)
    PROVE  /\ disk' \subseteq TxIds
           /\ scan' \in [Processes -> SUBSET TxIds]
           /\ lastWrite' \in [Services -> 0..MaxEpoch]
BY FencedFacts, EpochAssumption DEF JournalInv, TypeOK, FencedWrite

(* An actions row replaced by one of the right type keeps the table typed. *)
LEMMA ActionUpdate ==
    ASSUME TypeOK, NEW t \in TxIds, NEW n \in Sequences, NEW r \in ActionType
    PROVE  [action EXCEPT ![t][n] = r] \in [TxIds -> [Sequences -> ActionType]]
BY DEF TypeOK

(* The three statements on an actions row write rows of the right type. *)
LEMMA ActionRows ==
    /\ \A plan \in Plans : NewIntent(plan) \in ActionType
    /\ \A t \in TxIds, n \in Sequences : TypeOK => Unknown(action[t][n].plan) \in ActionType
    /\ \A t \in TxIds, n \in Sequences, d \in Digests :
          TypeOK => Completed(action[t][n].plan, d) \in ActionType
BY DEF TypeOK, ActionType, ActionStates, NewIntent, Unknown, Completed

(* Every step of the journal keeps the types of its variables. *)
LEMMA TypeStep == JournalInv /\ [Next]_vars => TypeOK'
<1> SUFFICES ASSUME JournalInv, [Next]_vars PROVE JournalTypeOK'
    BY JournalLockStep DEF JournalInv, LockInv, TypeOK, JournalTypeOK
<1>a. JournalTypeOK /\ LockInv
    BY DEF JournalInv, TypeOK, JournalTypeOK
<1>b. ASSUME NEW p \in Processes, Fenced(p)
      PROVE  session[p].service \in Services
    BY <1>a, <1>b, FencedFacts
<1> USE DEF JournalTypeOK
<1>0. CASE UNCHANGED vars
    BY <1>0, <1>a DEF vars, tables
<1>1. ASSUME NEW p \in Processes, NEW t \in TxIds, NEW kind \in Kinds,
             NEW base \in TxIds \cup {None}, NEW pred \in Workloads \cup {None},
             BeginTransaction(p, t, kind, base, pred)
      PROVE  JournalTypeOK'
  <2>1. FencedWrite(p) /\ session[p].service \in Services
      BY <1>1, <1>b DEF BeginTransaction, FencedWrite
  <2> QED
      BY <1>1, <1>a, <2>1, FencedWriteType DEF BeginTransaction, TxType, TxStates, Unresolved
<1>2. ASSUME NEW p \in Processes, NEW t \in TxIds, NEW state \in {"degraded", "failed"},
             SetTransactionState(p, t, state)
      PROVE  JournalTypeOK'
  <2>1. FencedWrite(p) /\ UNCHANGED <<action, applied, index>>
      BY <1>2 DEF SetTransactionState
  <2>2. tx' \in [TxIds -> TxType]
      BY <1>2, <1>a, ZenonT(60) DEF SetTransactionState, TxType, TxStates, Unresolved
  <2> QED
      BY <1>a, <2>1, <2>2, FencedWriteType
<1>3. ASSUME NEW p \in Processes, NEW t \in TxIds, NEW n \in Sequences, NEW plan \in Plans,
             RecordActionIntent(p, t, n, plan)
      PROVE  JournalTypeOK'
  <2>1. FencedWrite(p) /\ UNCHANGED <<tx, applied, index>>
      BY <1>3 DEF RecordActionIntent
  <2>2. action' \in [TxIds -> [Sequences -> ActionType]]
    <3>1. CASE UNCHANGED action
        BY <3>1, <1>a
    <3>2. CASE action' = [action EXCEPT ![t][n] = NewIntent(plan)]
        BY <3>2, <1>a, ActionRows, ActionUpdate DEF JournalInv
    <3> QED
        BY <1>3, <3>1, <3>2 DEF RecordActionIntent
  <2> QED
      BY <1>a, <2>1, <2>2, FencedWriteType
<1>4. ASSUME NEW p \in Processes, NEW t \in TxIds, NEW n \in Sequences,
             MarkActionEffectOutcomeUnknown(p, t, n)
      PROVE  JournalTypeOK'
  <2>1. FencedWrite(p) /\ UNCHANGED <<tx, applied, index>>
      BY <1>4 DEF MarkActionEffectOutcomeUnknown
  <2>2. action' \in [TxIds -> [Sequences -> ActionType]]
      BY <1>4, <1>a, ActionRows, ActionUpdate DEF MarkActionEffectOutcomeUnknown, JournalInv
  <2> QED
      BY <1>a, <2>1, <2>2, FencedWriteType
<1>5. ASSUME NEW p \in Processes, NEW t \in TxIds, NEW n \in Sequences, NEW d \in Digests,
             CompleteAction(p, t, n, d)
      PROVE  JournalTypeOK'
  <2>1. FencedWrite(p) /\ UNCHANGED <<tx, applied, index>>
      BY <1>5 DEF CompleteAction
  <2>2. action' \in [TxIds -> [Sequences -> ActionType]]
      BY <1>5, <1>a, ActionRows, ActionUpdate DEF CompleteAction, JournalInv
  <2> QED
      BY <1>a, <2>1, <2>2, FencedWriteType
<1>6. ASSUME NEW p \in Processes, NEW t \in TxIds, NEW w \in Workloads, NEW backup \in BOOLEAN,
             CommitAppliedService(p, t, w, backup)
      PROVE  JournalTypeOK'
  <2>1. FencedWrite(p) /\ session[p].service \in Services
      BY <1>6, <1>b DEF CommitAppliedService, FencedWrite
  <2>2. tx' \in [TxIds -> TxType]
      BY <1>6, <1>a, ZenonT(60) DEF CommitAppliedService, TxType, TxStates, Unresolved
  <2>3. applied' \in [Services -> AppliedType]
      BY <1>6, <1>a DEF CommitAppliedService, AppliedType
  <2>4. index' \subseteq TxIds /\ UNCHANGED action
      BY <1>6, <1>a DEF CommitAppliedService
  <2> QED
      BY <1>a, <2>1, <2>2, <2>3, <2>4, FencedWriteType
<1>7. ASSUME NEW p \in Processes, NEW t \in TxIds, PublishBackup(p, t)
      PROVE  JournalTypeOK'
    BY <1>7, <1>a DEF PublishBackup, tables
<1>8. ASSUME NEW p \in Processes, ScanBackupRoot(p) \/ ReplaceBackupIndex(p)
      PROVE  JournalTypeOK'
    BY <1>8, <1>a DEF ScanBackupRoot, ReplaceBackupIndex, tables
<1>9. CASE /\ scan' = [p \in Processes |->
                         IF session'[p].stage = "scanned" THEN scan[p] ELSE {}]
           /\ UNCHANGED <<tables, disk, lastWrite>>
    BY <1>9, <1>a DEF tables
<1> QED
    BY <1>0, <1>1, <1>2, <1>3, <1>4, <1>5, <1>6, <1>7, <1>8, <1>9 DEF Next, JournalStep

-----------------------------------------------------------------------------
(* A step that leaves the tables alone keeps the rows valid: only a lease row *)
(* may change, and its epoch does not go back.                                *)
LEMMA ValidUnchanged ==
    ASSUME JournalInv, [Next]_vars, UNCHANGED tables,
           \A s \in Services : lease[s].epoch <= lease'[s].epoch
    PROVE  JournalValid'
<1> USE DEF tables
<1>a. JournalValid /\ TypeOK /\ TypeOK'
    BY TypeStep DEF JournalInv
<1>1. RowsWellFormed'
  <2>1. \A s \in Services : lease[s].epoch > 0 => lease'[s].epoch > 0
      BY <1>a, EpochAssumption DEF TypeOK, LockTypeOK, LeaseType
  <2> QED
      BY <1>a, <2>1 DEF JournalValid, RowsWellFormed
<1>2. BasesSucceeded' /\ AppliedSucceeded' /\ IndexOfUpgrades'
    BY <1>a DEF JournalValid, BasesSucceeded, AppliedSucceeded, IndexOfUpgrades
<1>3. UnresolvedOnBaseline' /\ SucceededReachable'
    BY <1>a DEF JournalValid, UnresolvedOnBaseline, BaselineMatches, SucceededReachable
<1>4. OneUnresolved' /\ OnePendingAction'
    BY <1>a DEF JournalValid, OneUnresolved, OnePendingAction, PendingActions
<1> QED
    BY <1>1, <1>2, <1>3, <1>4 DEF JournalValid

(* A write to one actions row of an unresolved transaction keeps the rows     *)
(* valid when the row stays well formed and no second effect becomes pending. *)
LEMMA ValidActionWrite ==
    ASSUME JournalInv, NEW t \in TxIds, NEW n \in Sequences, NEW r \in ActionType,
           tx[t].state \in Unresolved, r.state # "absent",
           (r.state = "completed") <=> (r.postcondition # None),
           PendingActions(t) \subseteq {n},
           action' = [action EXCEPT ![t][n] = r],
           UNCHANGED <<tx, applied, index, lease>>
    PROVE  JournalValid'
<1>a. JournalValid /\ TypeOK
    BY DEF JournalInv
<1>b. /\ \A u \in TxIds, m \in Sequences :
            action'[u][m] = IF u = t /\ m = n THEN r ELSE action[u][m]
      /\ tx[t].state # "absent"
    BY <1>a DEF TypeOK, Unresolved
<1>1. RowsWellFormed'
    BY <1>a, <1>b DEF JournalValid, RowsWellFormed
<1>2. BasesSucceeded' /\ AppliedSucceeded' /\ IndexOfUpgrades'
    BY <1>a DEF JournalValid, BasesSucceeded, AppliedSucceeded, IndexOfUpgrades
<1>3. UnresolvedOnBaseline' /\ SucceededReachable' /\ OneUnresolved'
    BY <1>a DEF JournalValid, UnresolvedOnBaseline, BaselineMatches, SucceededReachable,
       OneUnresolved
<1>4. OnePendingAction'
  <2>1. PendingActions(t)' \subseteq {n}
      BY <1>b DEF PendingActions
  <2>2. \A u \in TxIds \ {t} : PendingActions(u)' = PendingActions(u)
      BY <1>b DEF PendingActions
  <2> QED
      BY <1>a, <2>1, <2>2 DEF JournalValid, OnePendingAction
<1> QED
    BY <1>1, <1>2, <1>3, <1>4 DEF JournalValid

(* BeginTransaction keeps the rows valid. *)
LEMMA ValidBegin ==
    ASSUME JournalInv, NEW p \in Processes, NEW t \in TxIds, NEW kind \in Kinds,
           NEW base \in TxIds \cup {None}, NEW pred \in Workloads \cup {None},
           BeginTransaction(p, t, kind, base, pred)
    PROVE  JournalValid'
<1> DEFINE s == session[p].service
           row == [state |-> "active", service |-> s, kind |-> kind,
                   base |-> base, predecessor |-> pred]
<1>a. JournalValid /\ TypeOK /\ LockInv
    BY DEF JournalInv
<1>b. /\ Fenced(p)
      /\ tx[t].state = "absent" /\ tx[t] = NoTx
      /\ BaselineMatches(s, kind, base, pred)
      /\ \A u \in TxIds : ~UnresolvedOf(u, s)
      /\ UNCHANGED <<action, applied, index, lease>>
    BY <1>a DEF BeginTransaction, FencedWrite, lockVars, JournalValid, RowsWellFormed
<1>c. s \in Services /\ lease[s].epoch > 0
    BY <1>a, <1>b, FencedFacts, EpochAssumption
<1>d. /\ tx'[t] = row
      /\ \A u \in TxIds \ {t} : tx'[u] = tx[u]
    BY <1>a DEF BeginTransaction, TypeOK
<1>e. base # t
  <2>1. base # None => base = applied[s].tx /\ applied[s].tx # None
      BY <1>b DEF BaselineMatches
  <2>2. applied[s].tx # None => tx[applied[s].tx].state = "succeeded"
      BY <1>a, <1>c DEF JournalValid, AppliedSucceeded
  <2> QED
      BY <1>b, <2>1, <2>2, NoneIsNoRow
<1> HIDE DEF s, row
<1>f. /\ row.state = "active" /\ row.service = s /\ row.kind = kind
      /\ row.base = base /\ row.predecessor = pred
    BY DEF row
<1>1. RowsWellFormed'
    BY <1>a, <1>b, <1>c, <1>d, <1>f DEF JournalValid, RowsWellFormed, BaselineMatches
<1>2. BasesSucceeded'
  <2>1. base # None => tx[base].state = "succeeded" /\ tx[base].service = s
      BY <1>a, <1>b, <1>c, NoneIsNoRow DEF BaselineMatches, JournalValid, AppliedSucceeded
  <2>2. \A u \in TxIds \ {t} : tx[u].base # t
      BY <1>a, <1>b, NoneIsNoRow DEF JournalValid, BasesSucceeded, NoTx
  <2> QED
      BY <1>a, <1>d, <1>e, <1>f, <2>1, <2>2 DEF JournalValid, BasesSucceeded, TypeOK, TxType
<1>3. AppliedSucceeded'
  <2>1. \A r \in Services : applied[r].tx # None => applied[r].tx \in TxIds \ {t}
      BY <1>a, <1>b DEF JournalValid, AppliedSucceeded, TypeOK, AppliedType
  <2> QED
      BY <1>a, <1>b, <1>d, <1>f, <2>1 DEF JournalValid, AppliedSucceeded
<1>4. IndexOfUpgrades'
    BY <1>a, <1>b, <1>d DEF JournalValid, IndexOfUpgrades, TypeOK
<1>5. UnresolvedOnBaseline'
    BY <1>a, <1>b, <1>d, <1>f DEF JournalValid, UnresolvedOnBaseline, BaselineMatches
<1>6. SucceededReachable'
  <2> SUFFICES ASSUME NEW u \in TxIds, tx'[u].state = "succeeded"
               PROVE  \/ applied'[tx'[u].service].tx = u
                      \/ \E v \in TxIds : tx'[v].base = u /\ tx'[v].service = tx'[u].service
      BY DEF SucceededReachable
  <2>1. u # t /\ tx'[u] = tx[u]
      BY <1>d, <1>f
  <2>2. CASE applied[tx[u].service].tx = u
      BY <1>b, <2>1, <2>2
  <2>3. ASSUME NEW v \in TxIds, tx[v].base = u, tx[v].service = tx[u].service
        PROVE  \E x \in TxIds : tx'[x].base = u /\ tx'[x].service = tx'[u].service
    <3>1. v # t
        BY <1>b, <2>3, NoneIsNoRow DEF NoTx
    <3> QED
        BY <1>d, <2>1, <2>3, <3>1
  <2> QED
      BY <1>a, <2>1, <2>2, <2>3 DEF JournalValid, SucceededReachable
<1>7. OneUnresolved'
    BY <1>a, <1>b, <1>d, <1>f DEF JournalValid, OneUnresolved, UnresolvedOf
<1>8. OnePendingAction'
    BY <1>a, <1>b, <1>d, <1>f DEF JournalValid, OnePendingAction, RowsWellFormed,
       PendingActions, Unresolved
<1> QED
    BY <1>1, <1>2, <1>3, <1>4, <1>5, <1>6, <1>7, <1>8 DEF JournalValid

(* SetTransactionState keeps the rows valid. *)
LEMMA ValidSetState ==
    ASSUME JournalInv, NEW p \in Processes, NEW t \in TxIds,
           NEW state \in {"degraded", "failed"}, SetTransactionState(p, t, state)
    PROVE  JournalValid'
<1>a. JournalValid /\ TypeOK
    BY DEF JournalInv
<1>b. /\ tx[t].state \in Unresolved \cup {state}
      /\ PendingActions(t) = {}
      /\ UNCHANGED <<action, applied, index, lease>>
    BY DEF SetTransactionState, FencedWrite, lockVars
<1>c. /\ \A u \in TxIds \ {t} : tx'[u] = tx[u]
      /\ tx'[t].state = state /\ tx'[t].service = tx[t].service /\ tx'[t].kind = tx[t].kind
      /\ tx'[t].base = tx[t].base /\ tx'[t].predecessor = tx[t].predecessor
    BY <1>a DEF SetTransactionState, TypeOK, TxType
<1>d. /\ tx[t].state # "absent" /\ tx[t].state # "succeeded"
      /\ state # "absent" /\ state # "succeeded" /\ (state = "failed" \/ state \in Unresolved)
      /\ "failed" \notin Unresolved
    BY <1>b DEF Unresolved
<1>e. state \in Unresolved => tx[t].state \in Unresolved
    BY <1>b, <1>d
<1>1. RowsWellFormed'
    BY <1>a, <1>b, <1>c, <1>d DEF JournalValid, RowsWellFormed
<1>2. BasesSucceeded'
  <2> SUFFICES ASSUME NEW u \in TxIds, tx'[u].base # None
               PROVE  tx'[tx'[u].base].state = "succeeded"
                      /\ tx'[tx'[u].base].service = tx'[u].service
      BY DEF BasesSucceeded
  <2>1. tx'[u].base = tx[u].base /\ tx'[u].service = tx[u].service /\ tx[u].base \in TxIds
      BY <1>a, <1>c DEF TypeOK, TxType
  <2>2. tx[tx[u].base].state = "succeeded" /\ tx[tx[u].base].service = tx[u].service
      BY <1>a, <2>1 DEF JournalValid, BasesSucceeded
  <2> QED
      BY <1>c, <1>d, <2>1, <2>2
<1>3. AppliedSucceeded'
  <2>1. \A r \in Services : applied[r].tx # None => applied[r].tx \in TxIds \ {t}
      BY <1>a, <1>d DEF JournalValid, AppliedSucceeded, TypeOK, AppliedType
  <2> QED
      BY <1>a, <1>b, <1>c, <1>d, <2>1 DEF JournalValid, AppliedSucceeded
<1>4. IndexOfUpgrades'
    BY <1>a, <1>b, <1>c, <1>d DEF JournalValid, IndexOfUpgrades, TypeOK
<1>5. UnresolvedOnBaseline'
    BY <1>a, <1>b, <1>c, <1>e DEF JournalValid, UnresolvedOnBaseline, BaselineMatches
<1>6. SucceededReachable'
    BY <1>a, <1>b, <1>c, <1>d DEF JournalValid, SucceededReachable
<1>7. OneUnresolved'
    BY <1>a, <1>c, <1>e DEF JournalValid, OneUnresolved
<1>8. OnePendingAction'
    BY <1>a, <1>b, <1>c DEF JournalValid, OnePendingAction, PendingActions
<1> QED
    BY <1>1, <1>2, <1>3, <1>4, <1>5, <1>6, <1>7, <1>8 DEF JournalValid

(* CommitAppliedService keeps the rows valid: the baseline moves, and no      *)
(* other unresolved transaction started from the old one.                     *)
LEMMA ValidCommit ==
    ASSUME JournalInv, NEW p \in Processes, NEW t \in TxIds, NEW w \in Workloads,
           NEW backup \in BOOLEAN, CommitAppliedService(p, t, w, backup)
    PROVE  JournalValid'
<1> DEFINE s == session[p].service
<1>a. JournalValid /\ TypeOK /\ LockInv
    BY DEF JournalInv
<1>b. /\ Fenced(p) /\ tx[t].service = s /\ tx[t].state = "active"
      /\ MayPublish(s, t, w) /\ PendingActions(t) = {}
      /\ UNCHANGED <<action, lease>>
      /\ index' \subseteq index \cup {t}
      /\ t \in index' => t \in index \/ tx[t].kind = "upgrade"
    BY DEF CommitAppliedService, FencedWrite, lockVars
<1>c. s \in Services
    BY <1>a, <1>b, FencedFacts
<1>d. /\ \A u \in TxIds \ {t} : tx'[u] = tx[u]
      /\ tx'[t].state = "succeeded" /\ tx'[t].service = s /\ tx'[t].kind = tx[t].kind
      /\ tx'[t].base = tx[t].base /\ tx'[t].predecessor = tx[t].predecessor
    BY <1>a, <1>b DEF CommitAppliedService, TypeOK, TxType
<1>e. /\ applied'[s].tx = t /\ applied'[s].workload = w
      /\ \A r \in Services \ {s} : applied'[r] = applied[r]
    BY <1>a, <1>c DEF CommitAppliedService, TypeOK
<1>f. \A u \in TxIds \ {t} : tx[u].service = s => tx[u].state \notin Unresolved
    BY <1>a, <1>b DEF JournalValid, OneUnresolved, Unresolved
<1> HIDE DEF s
<1>1. RowsWellFormed'
    BY <1>a, <1>b, <1>c, <1>d DEF JournalValid, RowsWellFormed
<1>2. BasesSucceeded'
  <2> SUFFICES ASSUME NEW u \in TxIds, tx'[u].base # None
               PROVE  tx'[tx'[u].base].state = "succeeded"
                      /\ tx'[tx'[u].base].service = tx'[u].service
      BY DEF BasesSucceeded
  <2>1. tx'[u].base = tx[u].base /\ tx'[u].service = tx[u].service /\ tx[u].base \in TxIds
      BY <1>a, <1>b, <1>d DEF TypeOK, TxType
  <2>2. tx[tx[u].base].state = "succeeded" /\ tx[tx[u].base].service = tx[u].service
      BY <1>a, <2>1 DEF JournalValid, BasesSucceeded
  <2> QED
      BY <1>b, <1>d, <2>1, <2>2
<1>3. AppliedSucceeded'
  <2>1. w # None /\ t # None
      BY NoneIsNoRow
  <2>2. \A r \in Services \ {s} : applied[r].tx # None => applied[r].tx \in TxIds \ {t}
      BY <1>a, <1>b, <1>c DEF JournalValid, AppliedSucceeded, TypeOK, AppliedType
  <2> QED
      BY <1>a, <1>b, <1>c, <1>d, <1>e, <2>1, <2>2 DEF JournalValid, AppliedSucceeded
<1>4. IndexOfUpgrades'
    BY <1>a, <1>b, <1>d DEF JournalValid, IndexOfUpgrades, TypeOK
<1>5. UnresolvedOnBaseline'
  <2> SUFFICES ASSUME NEW u \in TxIds, tx'[u].state \in Unresolved
               PROVE  BaselineMatches(tx[u].service, tx[u].kind, tx[u].base, tx[u].predecessor)'
      BY <1>d DEF UnresolvedOnBaseline, Unresolved
  <2>1. u # t /\ tx'[u] = tx[u] /\ tx[u].service # s
      BY <1>d, <1>f DEF Unresolved
  <2>2. tx[u].service \in Services
      BY <1>a, <2>1 DEF JournalValid, RowsWellFormed, Unresolved
  <2> QED
      BY <1>a, <1>e, <2>1, <2>2 DEF JournalValid, UnresolvedOnBaseline, BaselineMatches
<1>6. SucceededReachable'
  <2> SUFFICES ASSUME NEW u \in TxIds, tx'[u].state = "succeeded"
               PROVE  \/ applied'[tx'[u].service].tx = u
                      \/ \E v \in TxIds : tx'[v].base = u /\ tx'[v].service = tx'[u].service
      BY DEF SucceededReachable
  <2>1. CASE u = t
      BY <1>d, <1>e, <2>1
  <2>2. CASE u # t /\ applied[tx[u].service].tx = u
    <3>1. tx[u].service \in Services /\ tx'[u] = tx[u]
        BY <1>a, <1>d, <2>2 DEF JournalValid, RowsWellFormed
    <3>2. CASE tx[u].service # s
        BY <1>e, <2>2, <3>1, <3>2
    <3>3. CASE tx[u].service = s
      <4>1. tx[t].base = u
          BY <1>b, <2>2, <3>3, NoneIsNoRow DEF MayPublish
      <4> QED
          BY <1>d, <3>1, <3>3, <4>1
    <3> QED
        BY <3>2, <3>3
  <2>3. CASE u # t /\ \E v \in TxIds : tx[v].base = u /\ tx[v].service = tx[u].service
      BY <1>b, <1>d, <2>3
  <2> QED
      BY <1>a, <1>d, <2>1, <2>2, <2>3 DEF JournalValid, SucceededReachable
<1>7. OneUnresolved'
    BY <1>a, <1>d DEF JournalValid, OneUnresolved, Unresolved
<1>8. OnePendingAction'
    BY <1>a, <1>b, <1>d DEF JournalValid, OnePendingAction, PendingActions
<1> QED
    BY <1>1, <1>2, <1>3, <1>4, <1>5, <1>6, <1>7, <1>8 DEF JournalValid

(* Every step keeps the rows valid. *)
LEMMA ValidStep == JournalInv /\ [Next]_vars => JournalValid'
<1> SUFFICES ASSUME JournalInv, [Next]_vars PROVE JournalValid'
    OBVIOUS
<1>a. JournalValid /\ TypeOK /\ LockInv
    BY DEF JournalInv
<1>b. \A s \in Services : lease[s].epoch <= lease[s].epoch
    BY <1>a, EpochAssumption DEF TypeOK, LockTypeOK, LeaseType
<1>0. CASE UNCHANGED vars
    BY <1>0, <1>b, ValidUnchanged DEF vars, lockVars
<1>1. ASSUME NEW p \in Processes, NEW t \in TxIds, NEW n \in Sequences, NEW plan \in Plans,
             RecordActionIntent(p, t, n, plan)
      PROVE  JournalValid'
  <2>1. CASE UNCHANGED action
      BY <1>1, <1>b, <2>1, ValidUnchanged DEF RecordActionIntent, FencedWrite, lockVars, tables
  <2>2. CASE action' = [action EXCEPT ![t][n] = NewIntent(plan)] /\ PendingActions(t) = {}
    <3>1. /\ NewIntent(plan) \in ActionType
          /\ NewIntent(plan).state = "intent" /\ NewIntent(plan).postcondition = None
        BY ActionRows DEF NewIntent
    <3>2. tx[t].state \in Unresolved /\ UNCHANGED <<tx, applied, index, lease>>
        BY <1>1 DEF RecordActionIntent, UnresolvedOf, FencedWrite, lockVars
    <3> QED
        BY <2>2, <3>1, <3>2, ValidActionWrite
  <2> QED
      BY <1>1, <2>1, <2>2 DEF RecordActionIntent
<1>2. ASSUME NEW p \in Processes, NEW t \in TxIds, NEW n \in Sequences,
             MarkActionEffectOutcomeUnknown(p, t, n)
      PROVE  JournalValid'
  <2> DEFINE r == Unknown(action[t][n].plan)
  <2>1. /\ r \in ActionType
        /\ r.state = "effect_outcome_unknown" /\ r.postcondition = None
      BY <1>a, ActionRows DEF Unknown
  <2>2. /\ tx[t].state \in Unresolved
        /\ action' = [action EXCEPT ![t][n] = r]
        /\ UNCHANGED <<tx, applied, index, lease>>
      BY <1>2 DEF MarkActionEffectOutcomeUnknown, UnresolvedOf, FencedWrite, lockVars
  <2>3. PendingActions(t) \subseteq {n}
      BY <1>2, <1>a DEF MarkActionEffectOutcomeUnknown, JournalValid, OnePendingAction,
         PendingActions
  <2> HIDE DEF r
  <2> QED
      BY <2>1, <2>2, <2>3, ValidActionWrite
<1>3. ASSUME NEW p \in Processes, NEW t \in TxIds, NEW n \in Sequences, NEW d \in Digests,
             CompleteAction(p, t, n, d)
      PROVE  JournalValid'
  <2> DEFINE r == Completed(action[t][n].plan, d)
  <2>1. r \in ActionType /\ r.state = "completed" /\ r.postcondition # None
      BY <1>a, ActionRows, NoneIsNoRow DEF Completed
  <2>2. /\ tx[t].state \in Unresolved
        /\ action' = [action EXCEPT ![t][n] = r]
        /\ UNCHANGED <<tx, applied, index, lease>>
      BY <1>3 DEF CompleteAction, UnresolvedOf, FencedWrite, lockVars
  <2>3. CASE action[t][n].state = "effect_outcome_unknown"
    <3>1. PendingActions(t) \subseteq {n}
        BY <1>a, <2>3 DEF JournalValid, OnePendingAction, PendingActions
    <3> HIDE DEF r
    <3> QED
        BY <2>1, <2>2, <3>1, ValidActionWrite
  <2>4. CASE action[t][n].state = "completed" /\ action[t][n].postcondition = d
    <3>1. r = action[t][n]
        BY <1>a, <2>4 DEF TypeOK, ActionType, Completed
    <3>2. action' = action
        BY <1>a, <2>2, <3>1 DEF TypeOK
    <3> HIDE DEF r
    <3> QED
        BY <1>b, <2>2, <3>2, ValidUnchanged DEF tables
  <2> QED
      BY <1>3, <2>3, <2>4 DEF CompleteAction
<1>4. ASSUME NEW p \in Processes, ReplaceBackupIndex(p)
      PROVE  JournalValid'
  <2>1. IndexOfUpgrades'
      BY <1>4 DEF ReplaceBackupIndex, IndexOfUpgrades
  <2>2. RowsWellFormed' /\ BasesSucceeded' /\ AppliedSucceeded'
      BY <1>4, <1>a DEF ReplaceBackupIndex, lockVars, JournalValid, RowsWellFormed,
         BasesSucceeded, AppliedSucceeded
  <2>3. UnresolvedOnBaseline' /\ SucceededReachable'
      BY <1>4, <1>a DEF ReplaceBackupIndex, JournalValid, UnresolvedOnBaseline,
         BaselineMatches, SucceededReachable
  <2>4. OneUnresolved' /\ OnePendingAction'
      BY <1>4, <1>a DEF ReplaceBackupIndex, JournalValid, OneUnresolved, OnePendingAction,
         PendingActions
  <2> QED
      BY <2>1, <2>2, <2>3, <2>4 DEF JournalValid
<1>5. ASSUME NEW p \in Processes, ScanBackupRoot(p) \/ \E t \in TxIds : PublishBackup(p, t)
      PROVE  JournalValid'
    BY <1>5, <1>b, ValidUnchanged DEF ScanBackupRoot, PublishBackup, lockVars
<1>6. CASE LockNext /\ UNCHANGED tables
    BY <1>6, <1>a, EpochsAdvance, ValidUnchanged
<1> QED
    BY <1>0, <1>1, <1>2, <1>3, <1>4, <1>5, <1>6, ValidBegin, ValidSetState, ValidCommit
    DEF Next, JournalStep

(* The last write of a service stays below the epoch of its lease, and writes *)
(* come in epoch order.                                                       *)
LEMMA WriteStep ==
    ASSUME JournalInv, [Next]_vars
    PROVE  WritesUnderLease' /\ \A s \in Services : lastWrite[s] <= lastWrite'[s]
<1>a. WritesUnderLease /\ TypeOK /\ LockInv
    BY DEF JournalInv
<1>b. /\ \A s \in Services : lastWrite[s] \in Nat /\ lease[s].epoch \in Nat
      /\ lastWrite \in [Services -> Nat]
    BY <1>a, EpochAssumption DEF TypeOK, LockTypeOK, LeaseType
<1>1. CASE UNCHANGED <<lease, lastWrite>>
    BY <1>1, <1>a, <1>b DEF WritesUnderLease
<1>2. CASE LockNext /\ UNCHANGED lastWrite
  <2>1. TypeOK'
      BY TypeStep
  <2>2. \A s \in Services : lease'[s].epoch \in Nat /\ lease[s].epoch <= lease'[s].epoch
      BY <1>2, <1>a, <2>1, EpochsAdvance, EpochAssumption DEF TypeOK, LockTypeOK, LeaseType
  <2> QED
      BY <1>2, <1>a, <1>b, <2>2 DEF WritesUnderLease
<1>3. ASSUME NEW p \in Processes, FencedWrite(p)
      PROVE  WritesUnderLease' /\ \A s \in Services : lastWrite[s] <= lastWrite'[s]
  <2>1. /\ session[p].service \in Services
        /\ session[p].epoch = lease[session[p].service].epoch
      BY <1>3, <1>a, FencedFacts DEF FencedWrite
  <2>2. /\ UNCHANGED lease
        /\ lastWrite' = [lastWrite EXCEPT ![session[p].service] = session[p].epoch]
      BY <1>3 DEF FencedWrite, lockVars
  <2> QED
      BY <1>a, <1>b, <2>1, <2>2 DEF WritesUnderLease
<1>4. ASSUME NEW p \in Processes, JournalStep(p)
      PROVE  FencedWrite(p) \/ UNCHANGED <<lease, lastWrite>>
  <2>1. CASE ScanBackupRoot(p) \/ ReplaceBackupIndex(p) \/ \E t \in TxIds : PublishBackup(p, t)
      BY <2>1 DEF ScanBackupRoot, ReplaceBackupIndex, PublishBackup, lockVars
  <2> QED
      BY <1>4, <2>1 DEF JournalStep, BeginTransaction, SetTransactionState, RecordActionIntent,
         MarkActionEffectOutcomeUnknown, CompleteAction, CommitAppliedService
<1>5. CASE UNCHANGED vars
    BY <1>5, <1>1 DEF vars, lockVars
<1> QED
    BY <1>1, <1>2, <1>3, <1>4, <1>5 DEF Next

(* A lock step hands out no scan and revives no operation lock. *)
LEMMA LockStepScans ==
    ASSUME LockInv, LockNext, NEW p \in Processes,
           session'[p].stage = "scanned", OperationValid(p)'
    PROVE  session[p].stage = "scanned" /\ OperationValid(p)
<1> USE DEF LockInv, LockTypeOK, SessionType, SessionsNamed, OperationValid, Generations
<1>1. ASSUME NEW q \in Processes, LockStep(q)
      PROVE  session[p].stage = "scanned" /\ OperationValid(p)
  <2>1. CASE \E s \in Services : TrySharedStateOperation(q, s)
      BY <2>1 DEF TrySharedStateOperation, SharedSession
  <2>2. CASE AcquireServiceFlock(q) \/ OpenServiceLock(q) \/ ReleaseWriterLease(q)
      BY <2>2 DEF AcquireServiceFlock, OpenServiceLock, ReleaseWriterLease
  <2>3. CASE \E o \in Owners : AcquireWriterLease(q, o)
      BY <2>3 DEF AcquireWriterLease
  <2>4. CASE GiveUpServiceFlock(q) \/ WriterLeaseExhausted(q) \/ CloseFilesystem(q)
             \/ CloseBackupIndex(q) \/ Crash(q)
      BY <2>4 DEF GiveUpServiceFlock, WriterLeaseExhausted, CloseFilesystem,
         CloseBackupIndex, Crash, NoSession
  <2>5. CASE LockBackupIndex(q)
      BY <2>5 DEF LockBackupIndex, IndexSession
  <2> QED
      BY <1>1, <2>1, <2>2, <2>3, <2>4, <2>5 DEF LockStep
<1>2. ASSUME NEW s \in Services, ReplaceServiceEntry(s)
      PROVE  session[p].stage = "scanned" /\ OperationValid(p)
    BY <1>2 DEF ReplaceServiceEntry
<1>3. CASE ReplaceOperationEntry
    BY <1>3, GenerationAssumption DEF ReplaceOperationEntry
<1> QED
    BY <1>1, <1>2, <1>3 DEF LockNext

(* A rebuild keeps seeing every indexed backup while its lock is valid, and   *)
(* no step removes a row of the index.                                        *)
LEMMA ScanStep ==
    ASSUME JournalInv, [Next]_vars
    PROVE  ScanCoversIndex' /\ index \subseteq index'
<1>a. ScanCoversIndex /\ TypeOK /\ LockInv
    BY DEF JournalInv
<1>1. CASE UNCHANGED <<session, opEntry, index, scan>> /\ disk \subseteq disk'
    BY <1>1, <1>a DEF ScanCoversIndex, OperationValid
<1>2. ASSUME LockNext,
             scan' = [p \in Processes |->
                        IF session'[p].stage = "scanned" THEN scan[p] ELSE {}],
             UNCHANGED <<tables, disk, lastWrite>>
      PROVE  ScanCoversIndex' /\ index \subseteq index'
  <2>1. \A p \in Processes : scan'[p] \subseteq disk
      BY <1>2, <1>a DEF ScanCoversIndex
  <2>2. ASSUME NEW p \in Processes, session'[p].stage = "scanned", OperationValid(p)'
        PROVE  index' \subseteq scan'[p]
    <3>1. session[p].stage = "scanned" /\ OperationValid(p)
        BY <1>2, <1>a, <2>2, LockStepScans
    <3> QED
        BY <1>2, <1>a, <2>2, <3>1 DEF ScanCoversIndex, tables
  <2>3. index' = index /\ disk' = disk
      BY <1>2 DEF tables
  <2> QED
      BY <1>a, <2>1, <2>2, <2>3 DEF ScanCoversIndex
<1>3. ASSUME NEW p \in Processes, ScanBackupRoot(p)
      PROVE  ScanCoversIndex' /\ index \subseteq index'
  <2>1. /\ scan'[p] = disk /\ \A q \in Processes \ {p} : scan'[q] = scan[q]
        /\ \A q \in Processes : session'[q].opGen = session[q].opGen
        /\ \A q \in Processes \ {p} : session'[q].stage = session[q].stage
        /\ UNCHANGED <<opEntry, index, disk>>
      BY <1>3, <1>a DEF ScanBackupRoot, tables, TypeOK, LockTypeOK, SessionType
  <2> QED
      BY <1>a, <2>1 DEF ScanCoversIndex, OperationValid
<1>4. ASSUME NEW p \in Processes, ReplaceBackupIndex(p)
      PROVE  ScanCoversIndex' /\ index \subseteq index'
  <2>1. /\ session[p].stage = "scanned" /\ OperationValid(p) /\ index' = scan[p]
        /\ UNCHANGED <<session, opEntry, disk, scan>>
      BY <1>4 DEF ReplaceBackupIndex, lockVars
  <2>2. \A q \in Processes : session[q].stage = "scanned" /\ OperationValid(q) => q = p
      BY <1>a, <2>1 DEF LockInv, OperationExclusive, OperationValid, Indexing
  <2> QED
      BY <1>a, <2>1, <2>2 DEF ScanCoversIndex, OperationValid
<1>5. ASSUME NEW p \in Processes, NEW t \in TxIds, NEW w \in Workloads, NEW backup \in BOOLEAN,
             CommitAppliedService(p, t, w, backup)
      PROVE  ScanCoversIndex' /\ index \subseteq index'
  <2>1. /\ Fenced(p) /\ UNCHANGED <<session, opEntry, disk, scan>>
        /\ index \subseteq index' /\ index' \subseteq disk
      BY <1>5, <1>a DEF CommitAppliedService, FencedWrite, lockVars, ScanCoversIndex
  <2>2. \A q \in Processes : session[q].stage = "scanned" => ~OperationValid(q)
      BY <1>a, <2>1, FencedFacts DEF Indexing
  <2> QED
      BY <1>a, <2>1, <2>2 DEF ScanCoversIndex, OperationValid
<1> QED
    BY <1>1, <1>2, <1>3, <1>4, <1>5 DEF Next, JournalStep, vars, tables, lockVars, FencedWrite,
       BeginTransaction, SetTransactionState, RecordActionIntent,
       MarkActionEffectOutcomeUnknown, CompleteAction, PublishBackup

-----------------------------------------------------------------------------
(* An empty database satisfies the inductive invariant. *)
LEMMA JournalInvInit == Init => JournalInv
<1> SUFFICES ASSUME Init PROVE JournalInv
    OBVIOUS
<1> USE DEF Init
<1>1. LockInv
    BY LockInvInit
<1>2. TypeOK
    BY <1>1, EpochAssumption DEF LockInv, TypeOK, TxType, TxStates, ActionType, ActionStates,
       AppliedType, NoTx, NoAction, NoApplied
<1>3. /\ \A t \in TxIds : tx[t] = NoTx /\ tx[t].state = "absent" /\ tx[t].base = None
                            /\ tx[t].service = None
      /\ \A t \in TxIds, n \in Sequences :
            action[t][n].state = "absent" /\ action[t][n].postcondition = None
      /\ \A s \in Services : applied[s].tx = None
      /\ index = {}
    BY DEF NoTx, NoAction, NoApplied
<1>4. JournalValid
    BY <1>3 DEF JournalValid, RowsWellFormed, BasesSucceeded, AppliedSucceeded, IndexOfUpgrades,
       UnresolvedOnBaseline, SucceededReachable, OneUnresolved, OnePendingAction,
       PendingActions, Unresolved
<1>5. WritesUnderLease
    BY <1>2, EpochAssumption DEF WritesUnderLease, TypeOK, LockTypeOK, LeaseType
<1>6. ScanCoversIndex
    BY <1>3 DEF ScanCoversIndex
<1> QED
    BY <1>1, <1>2, <1>4, <1>5, <1>6 DEF JournalInv

(* Every step of the journal preserves its inductive invariant. *)
LEMMA JournalInvStep == JournalInv /\ [Next]_vars => JournalInv'
<1>1. JournalInv => LockInv
    BY DEF JournalInv
<1> QED
    BY <1>1, JournalLockStep, TypeStep, ValidStep, WriteStep, ScanStep DEF JournalInv

(* JournalInv is an invariant of the journal under crashes, replaced lock     *)
(* files, concurrent writers and index rebuilds.                              *)
THEOREM JournalInvariant == Spec => []JournalInv
BY JournalInvInit, JournalInvStep, PTL DEF Spec

(* The variables keep their types. *)
THEOREM TypeCorrect == Spec => []TypeOK
<1>1. JournalInv => TypeOK
    BY DEF JournalInv
<1> QED
    BY JournalInvariant, <1>1, PTL

(* The database can always be opened again: every condition of                *)
(* validateJournalRows holds after every write of every process.              *)
THEOREM JournalStaysValid == Spec => []JournalValid
<1>1. JournalInv => JournalValid
    BY DEF JournalInv
<1> QED
    BY JournalInvariant, <1>1, PTL

(* The writes of a service are made in epoch order: a process whose lease was *)
(* taken over never changes a row again.                                      *)
THEOREM WritesInEpochOrder == Spec => EpochOrderedWrites
<1>1. JournalInv /\ [Next]_vars => [\A s \in Services : lastWrite[s] <= lastWrite'[s]]_vars
    BY WriteStep
<1> QED
    BY JournalInvariant, <1>1, PTL DEF Spec, EpochOrderedWrites

(* No index rebuild drops the row of a committed backup. *)
THEOREM BackupsStayIndexed == Spec => IndexKeepsBackups
<1>1. JournalInv /\ [Next]_vars => [index \subseteq index']_vars
    BY ScanStep
<1> QED
    BY JournalInvariant, <1>1, PTL DEF Spec, IndexKeepsBackups

(* One step moves the baseline of a service only along a base link. *)
LEMMA AppliedStep ==
    ASSUME JournalInv, [Next]_vars, NEW s \in Services, applied'[s] # applied[s]
    PROVE  LET next == tx'[applied'[s].tx] IN
           /\ next.state = "succeeded"
           /\ next.base = applied[s].tx
           /\ next.kind = "upgrade" => next.predecessor = applied[s].workload
<1>a. JournalValid /\ TypeOK /\ LockInv
    BY DEF JournalInv
<1>1. PICK p \in Processes, t \in TxIds, w \in Workloads, backup \in BOOLEAN :
         CommitAppliedService(p, t, w, backup)
    BY DEF Next, JournalStep, vars, tables, BeginTransaction, SetTransactionState,
       RecordActionIntent, MarkActionEffectOutcomeUnknown, CompleteAction, PublishBackup,
       ScanBackupRoot, ReplaceBackupIndex
<1>2. /\ session[p].service \in Services
      /\ tx[t].service = session[p].service /\ tx[t].state = "active"
      /\ MayPublish(session[p].service, t, w)
    BY <1>1, <1>a, FencedFacts DEF CommitAppliedService, FencedWrite
<1>3. s = session[p].service /\ applied'[s].tx = t
    BY <1>1, <1>2, <1>a DEF CommitAppliedService, TypeOK
<1>4. /\ tx'[t].state = "succeeded" /\ tx'[t].base = tx[t].base
      /\ tx'[t].kind = tx[t].kind /\ tx'[t].predecessor = tx[t].predecessor
    BY <1>1, <1>a DEF CommitAppliedService, TypeOK, TxType
<1>5. /\ tx[t].base = applied[s].tx
      /\ tx[t].kind = "upgrade" => tx[t].predecessor = applied[s].workload
    BY <1>a, <1>2, <1>3 DEF MayPublish, JournalValid, RowsWellFormed
<1> QED
    BY <1>3, <1>4, <1>5

(* The baseline of every service moves only along base links. *)
THEOREM BaselineMovesAlongBases == Spec => AppliedFollowsBase
<1>1. JournalInv /\ [Next]_vars =>
        [\A s \in Services : applied'[s] # applied[s] =>
            LET next == tx'[applied'[s].tx] IN
            /\ next.state = "succeeded"
            /\ next.base = applied[s].tx
            /\ next.kind = "upgrade" => next.predecessor = applied[s].workload]_vars
    BY AppliedStep
<1> QED
    BY JournalInvariant, <1>1, PTL DEF Spec, AppliedFollowsBase

(* One step rewrites no terminal transaction and no completed action. *)
LEMMA SettledStep ==
    ASSUME JournalInv, [Next]_vars, NEW t \in TxIds
    PROVE  /\ tx[t].state \in {"failed", "succeeded"} =>
                 tx'[t] = tx[t] /\ action'[t] = action[t]
           /\ \A n \in Sequences :
                 action[t][n].state = "completed" => action'[t][n] = action[t][n]
<1>a. TypeOK
    BY DEF JournalInv
<1> DEFINE Settled == /\ tx[t].state \in {"failed", "succeeded"} =>
                             tx'[t] = tx[t] /\ action'[t] = action[t]
                      /\ \A n \in Sequences :
                             action[t][n].state = "completed" => action'[t][n] = action[t][n]
<1>0. CASE UNCHANGED <<tx, action>>
    BY <1>0
<1>1. ASSUME NEW p \in Processes, NEW u \in TxIds, NEW kind \in Kinds,
             NEW base \in TxIds \cup {None}, NEW pred \in Workloads \cup {None},
             BeginTransaction(p, u, kind, base, pred)
      PROVE  Settled
    BY <1>1, <1>a DEF BeginTransaction, TypeOK
<1>2. ASSUME NEW p \in Processes, NEW u \in TxIds, NEW state \in {"degraded", "failed"},
             SetTransactionState(p, u, state)
      PROVE  Settled
  <2>1. CASE u # t
      BY <1>2, <1>a, <2>1 DEF SetTransactionState, TypeOK
  <2>2. CASE u = t /\ tx[t].state \notin {"failed", "succeeded"}
      BY <1>2, <1>a, <2>2 DEF SetTransactionState, TypeOK
  <2>3. CASE u = t /\ tx[t].state \in {"failed", "succeeded"}
    <3>1. tx[t].state = state
        BY <1>2, <2>3 DEF SetTransactionState, Unresolved
    <3>2. tx' = [tx EXCEPT ![t].state = tx[t].state] /\ UNCHANGED action
        BY <1>2, <2>3, <3>1 DEF SetTransactionState
    <3> QED
        BY <1>a, <3>2 DEF TypeOK, TxType
  <2> QED
      BY <2>1, <2>2, <2>3
<1>3. ASSUME NEW p \in Processes, NEW u \in TxIds, NEW m \in Sequences, NEW plan \in Plans,
             RecordActionIntent(p, u, m, plan)
      PROVE  Settled
    BY <1>3, <1>a DEF RecordActionIntent, UnresolvedOf, Unresolved, TypeOK
<1>4. ASSUME NEW p \in Processes, NEW u \in TxIds, NEW m \in Sequences,
             MarkActionEffectOutcomeUnknown(p, u, m)
      PROVE  Settled
    BY <1>4, <1>a DEF MarkActionEffectOutcomeUnknown, UnresolvedOf, Unresolved, TypeOK
<1>5. ASSUME NEW p \in Processes, NEW u \in TxIds, NEW m \in Sequences, NEW d \in Digests,
             CompleteAction(p, u, m, d)
      PROVE  Settled
  <2>1. /\ tx[u].state \in Unresolved /\ UNCHANGED tx
        /\ action' = [action EXCEPT ![u][m] = Completed(action[u][m].plan, d)]
      BY <1>5 DEF CompleteAction, UnresolvedOf
  <2>2. action[u][m].state = "completed" => Completed(action[u][m].plan, d) = action[u][m]
      BY <1>5, <1>a DEF CompleteAction, TypeOK, ActionType, Completed
  <2> QED
      BY <1>a, <2>1, <2>2 DEF TypeOK, Unresolved
<1>6. ASSUME NEW p \in Processes, NEW u \in TxIds, NEW w \in Workloads, NEW backup \in BOOLEAN,
             CommitAppliedService(p, u, w, backup)
      PROVE  Settled
    BY <1>6, <1>a DEF CommitAppliedService, TypeOK
<1> QED
    BY <1>0, <1>1, <1>2, <1>3, <1>4, <1>5, <1>6 DEF Next, JournalStep, vars, tables,
       PublishBackup, ScanBackupRoot, ReplaceBackupIndex

(* Terminal transactions and completed actions are settled for good. *)
THEOREM SettledTheorem == Spec => SettledForGood
<1>1. JournalInv /\ [Next]_vars =>
        [\A t \in TxIds :
            /\ tx[t].state \in {"failed", "succeeded"} =>
                  tx'[t] = tx[t] /\ action'[t] = action[t]
            /\ \A n \in Sequences :
                  action[t][n].state = "completed" => action'[t][n] = action[t][n]]_vars
    BY SettledStep
<1> QED
    BY JournalInvariant, <1>1, PTL DEF Spec, SettledForGood
=============================================================================
