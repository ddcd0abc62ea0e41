-------------------------- MODULE StateFilesProofs --------------------------
(***************************************************************************)
(* Safety of the files of the state database, for any number of stores,     *)
(* readers, opens, transactions and crashes.                                *)
(*                                                                         *)
(* The argument rests on two locks.  The startup lock is exclusive from the   *)
(* moment a store may create a file until it has checked them all again, and   *)
(* a Reader holds it shared while it reads: no store is inside Open beside     *)
(* another, nor beside a Reader.  A connection keeps the sidecars in place:    *)
(* only the close of the last one removes them, and no connection is made       *)
(* while that goes on.                                                      *)
(***************************************************************************)
EXTENDS StateFiles, TLAPS

(* Where Open holds the startup lock, and where it has a connection.         *)
LockedPoints    == {"database", "log", "shared", "anchored", "connect", "schema",
                    "create", "verify"}
ConnectedPoints == {"schema", "create", "verify", "open"}

(* A process is at a point of its own program.                              *)
PointsOK ==
    /\ \A w \in Writers : pc[w] \in WriterPoints
    /\ \A r \in Readers : pc[r] \in ReaderPoints

(* flock: an exclusive holder is alone, and the points at which it is held.    *)
StartupLock ==
    /\ \A x, y \in Processes : flock[x] = "exclusive" /\ y # x => flock[y] = "none"
    /\ \A w \in Writers : pc[w] \in LockedPoints => flock[w] = "exclusive"
    /\ \A r \in Readers : pc[r] \in {"files", "begin", "open"} => flock[r] = "shared"

(* Who has a connection, and that the sidecars stay while somebody has one.    *)
Connections ==
    /\ \A w \in Writers : w \in conn <=> pc[w] \in ConnectedPoints
    /\ \A r \in Readers : r \in conn => pc[r] = "open" /\ Sidecars(r)
    /\ conn # {} => /\ wal # Absent /\ shm # Absent
                    /\ \A w \in Writers : pc[w] # "shmGone"

(* A Reader identified both sidecars or none.                               *)
ReaderKnowsBoth ==
    \A r \in Readers : pc[r] \in {"begin", "open"} =>
        (known[r][1] = Absent <=> known[r][2] = Absent)

(* Without a log, and once it is being removed, the database file has all.     *)
LogIsStored ==
    (wal = Absent \/ \E w \in Writers : pc[w] = "shmGone") => stored = version

(* A store about to create the schema still finds none.                     *)
CreatesOnEmpty == \A w \in Writers : pc[w] = "create" => schema = "empty"

(* The inductive invariant.                                                 *)
StateFilesInv ==
    /\ FilesTypeOK
    /\ PointsOK
    /\ StartupLock
    /\ Connections
    /\ ReaderKnowsBoth
    /\ LogIsStored
    /\ CreatesOnEmpty
    /\ OpenStoreIsAnchored
    /\ ImmutableReaderIsCurrent

USE BoundsAssumption, InodeAssumption, ProcessAssumption
    DEF Absent, Processes, WriterPoints, ReaderPoints, LockedPoints, ConnectedPoints,
        entries, sqlite, process, bounds, Goto, Release, NewInodes

(* stateAnchor.close keeps the types of what it changes.                    *)
LEMMA ReleaseTyped ==
  ASSUME FilesTypeOK, NEW x \in Processes, Release(x) \/ UNCHANGED <<flock, known>>
  PROVE  /\ flock' \in [Processes -> {"none", "shared", "exclusive"}]
         /\ known' \in [Processes -> (Inodes \cup {Absent}) \X (Inodes \cup {Absent})]
  BY DEF FilesTypeOK

(* Nobody has touched a file, and nobody is inside a call.                   *)
LEMMA FilesInitInv == FilesInit => StateFilesInv
  <1> SUFFICES ASSUME FilesInit PROVE StateFilesInv
    OBVIOUS
  <1>1. FilesTypeOK
    <2>1. known \in [Processes -> (Inodes \cup {Absent}) \X (Inodes \cup {Absent})]
      BY DEF FilesInit
    <2>2. /\ pc \in [Processes -> WriterPoints \cup ReaderPoints]
          /\ flock \in [Processes -> {"none", "shared", "exclusive"}]
          /\ count \in [Writers -> {"none", "empty", "ready"}]
          /\ seen \in [Readers -> 0 .. MaxCommits]
      BY DEF FilesInit
    <2>3. /\ lockFile \in BOOLEAN /\ database \in BOOLEAN /\ conn \subseteq Processes
          /\ wal \in Inodes \cup {Absent} /\ shm \in Inodes \cup {Absent}
          /\ schema \in {"empty", "ready"}
      BY DEF FilesInit
    <2>4. /\ version \in 0 .. MaxCommits /\ stored \in 0 .. version
          /\ opens \in 0 .. MaxOpens /\ crashes \in 0 .. MaxCrashes
      BY DEF FilesInit
    <2> QED BY <2>1, <2>2, <2>3, <2>4 DEF FilesTypeOK
  <1>2. PointsOK /\ StartupLock /\ Connections /\ ReaderKnowsBoth /\ LogIsStored
    BY DEF FilesInit, PointsOK, StartupLock, Connections, ReaderKnowsBoth, LogIsStored, Sidecars
  <1>3. CreatesOnEmpty /\ OpenStoreIsAnchored /\ ImmutableReaderIsCurrent
    BY DEF FilesInit, CreatesOnEmpty, OpenStoreIsAnchored, ImmutableReaderIsCurrent
  <1> QED BY <1>1, <1>2, <1>3 DEF StateFilesInv

(* Every step of every process keeps the inductive invariant.               *)
LEMMA FilesStepInv == StateFilesInv /\ [FilesNext]_vars => StateFilesInv'
  <1> SUFFICES ASSUME StateFilesInv, [FilesNext]_vars
               PROVE  StateFilesInv'
    OBVIOUS
  <1>a. FilesTypeOK /\ PointsOK /\ StartupLock /\ Connections /\ ReaderKnowsBoth /\ LogIsStored
    BY DEF StateFilesInv
  <1>b. CreatesOnEmpty /\ OpenStoreIsAnchored /\ ImmutableReaderIsCurrent
    BY DEF StateFilesInv

  <1>1. ASSUME NEW w \in Writers, OpenStore(w) PROVE StateFilesInv'
    <2>1. FilesTypeOK'
      BY <1>1, <1>a DEF OpenStore, FilesTypeOK
    <2>2. PointsOK' /\ StartupLock' /\ ReaderKnowsBoth' /\ CreatesOnEmpty'
      BY <1>1, <1>a, <1>b DEF OpenStore, FilesTypeOK, PointsOK, StartupLock, ReaderKnowsBoth,
             CreatesOnEmpty
    <2>3. Connections' /\ LogIsStored' /\ OpenStoreIsAnchored' /\ ImmutableReaderIsCurrent'
      BY <1>1, <1>a, <1>b DEF OpenStore, FilesTypeOK, PointsOK, StartupLock, OpenStoreIsAnchored,
             ReaderKnowsBoth, Connections, Sidecars, LogIsStored, AnchorValid,
             ImmutableReaderIsCurrent
    <2> QED BY <2>1, <2>2, <2>3 DEF StateFilesInv
  <1>2. ASSUME NEW w \in Writers, OpenLockFile(w) PROVE StateFilesInv'
    <2>1. FilesTypeOK'
      BY <1>2, <1>a DEF OpenLockFile, FilesTypeOK
    <2>2. PointsOK' /\ StartupLock' /\ ReaderKnowsBoth' /\ CreatesOnEmpty'
      BY <1>2, <1>a, <1>b DEF OpenLockFile, FilesTypeOK, PointsOK, StartupLock, ReaderKnowsBoth,
             CreatesOnEmpty
    <2>3. Connections' /\ LogIsStored' /\ OpenStoreIsAnchored' /\ ImmutableReaderIsCurrent'
      BY <1>2, <1>a, <1>b DEF OpenLockFile, FilesTypeOK, PointsOK, StartupLock,
             OpenStoreIsAnchored, ReaderKnowsBoth, Connections, Sidecars, LogIsStored,
             AnchorValid, ImmutableReaderIsCurrent
    <2> QED BY <2>1, <2>2, <2>3 DEF StateFilesInv
  <1>3. ASSUME NEW w \in Writers, WaitForLock(w) PROVE StateFilesInv'
    <2>1. FilesTypeOK'
      BY <1>3, <1>a DEF WaitForLock, FilesTypeOK
    <2>2. PointsOK' /\ StartupLock' /\ ReaderKnowsBoth' /\ CreatesOnEmpty'
      BY <1>3, <1>a, <1>b DEF WaitForLock, FilesTypeOK, PointsOK, StartupLock, ReaderKnowsBoth,
             CreatesOnEmpty
    <2>3. Connections' /\ LogIsStored' /\ OpenStoreIsAnchored' /\ ImmutableReaderIsCurrent'
      BY <1>3, <1>a, <1>b DEF WaitForLock, FilesTypeOK, PointsOK, StartupLock,
             OpenStoreIsAnchored, ReaderKnowsBoth, Connections, Sidecars, LogIsStored,
             AnchorValid, ImmutableReaderIsCurrent
    <2> QED BY <2>1, <2>2, <2>3 DEF StateFilesInv
  <1>4. ASSUME NEW w \in Writers, OpenDatabaseFile(w) PROVE StateFilesInv'
    <2>1. FilesTypeOK'
      BY <1>4, <1>a DEF OpenDatabaseFile, FilesTypeOK
    <2>2. PointsOK' /\ StartupLock' /\ ReaderKnowsBoth' /\ CreatesOnEmpty'
      BY <1>4, <1>a, <1>b DEF OpenDatabaseFile, FilesTypeOK, PointsOK, StartupLock,
             ReaderKnowsBoth, CreatesOnEmpty
    <2>3. Connections' /\ LogIsStored' /\ OpenStoreIsAnchored' /\ ImmutableReaderIsCurrent'
      BY <1>4, <1>a, <1>b DEF OpenDatabaseFile, FilesTypeOK, PointsOK, StartupLock,
             OpenStoreIsAnchored, ReaderKnowsBoth, Connections, Sidecars, LogIsStored,
             AnchorValid, ImmutableReaderIsCurrent
    <2> QED BY <2>1, <2>2, <2>3 DEF StateFilesInv
  <1>5. ASSUME NEW w \in Writers, OpenLogFile(w) PROVE StateFilesInv'
    <2>1. FilesTypeOK'
      BY <1>5, <1>a DEF OpenLogFile, FilesTypeOK
    <2>2. PointsOK' /\ StartupLock' /\ ReaderKnowsBoth' /\ CreatesOnEmpty'
      BY <1>5, <1>a, <1>b DEF OpenLogFile, FilesTypeOK, PointsOK, StartupLock, ReaderKnowsBoth,
             CreatesOnEmpty
    <2>3. Connections' /\ LogIsStored' /\ OpenStoreIsAnchored' /\ ImmutableReaderIsCurrent'
      BY <1>5, <1>a, <1>b DEF OpenLogFile, FilesTypeOK, PointsOK, StartupLock,
             OpenStoreIsAnchored, ReaderKnowsBoth, Connections, Sidecars, LogIsStored,
             AnchorValid, ImmutableReaderIsCurrent
    <2> QED BY <2>1, <2>2, <2>3 DEF StateFilesInv
  <1>6. ASSUME NEW w \in Writers, OpenSharedFile(w) PROVE StateFilesInv'
    <2>1. FilesTypeOK'
      BY <1>6, <1>a DEF OpenSharedFile, FilesTypeOK
    <2>2. PointsOK' /\ StartupLock' /\ ReaderKnowsBoth' /\ CreatesOnEmpty'
      BY <1>6, <1>a, <1>b DEF OpenSharedFile, FilesTypeOK, PointsOK, StartupLock,
             ReaderKnowsBoth, CreatesOnEmpty
    <2>3. Connections' /\ LogIsStored' /\ OpenStoreIsAnchored' /\ ImmutableReaderIsCurrent'
      BY <1>6, <1>a, <1>b DEF OpenSharedFile, FilesTypeOK, PointsOK, StartupLock,
             OpenStoreIsAnchored, ReaderKnowsBoth, Connections, Sidecars, LogIsStored,
             AnchorValid, ImmutableReaderIsCurrent
    <2> QED BY <2>1, <2>2, <2>3 DEF StateFilesInv
  <1>7. ASSUME NEW w \in Writers, Anchor(w) PROVE StateFilesInv'
    <2>1. FilesTypeOK'
      <3>1. /\ flock' \in [Processes -> {"none", "shared", "exclusive"}]
            /\ known' \in [Processes -> (Inodes \cup {Absent}) \X (Inodes \cup {Absent})]
        <4>1. Release(w) \/ UNCHANGED <<flock, known>>
          BY <1>7 DEF Anchor
        <4> QED BY <4>1, <1>a, ReleaseTyped
      <3>2. pc' \in [Processes -> WriterPoints \cup ReaderPoints]
        BY <1>7, <1>a DEF Anchor, FilesTypeOK
      <3> QED BY <1>7, <1>a, <3>1, <3>2 DEF Anchor, FilesTypeOK
    <2>2. PointsOK' /\ StartupLock' /\ ReaderKnowsBoth' /\ CreatesOnEmpty'
      BY <1>7, <1>a, <1>b DEF Anchor, AnchorValid, FilesTypeOK, PointsOK, StartupLock,
             ReaderKnowsBoth, CreatesOnEmpty
    <2>3. Connections' /\ LogIsStored' /\ OpenStoreIsAnchored' /\ ImmutableReaderIsCurrent'
      BY <1>7, <1>a, <1>b DEF Anchor, AnchorValid, FilesTypeOK, PointsOK, StartupLock,
             OpenStoreIsAnchored, ReaderKnowsBoth, Connections, Sidecars, LogIsStored,
             ImmutableReaderIsCurrent
    <2> QED BY <2>1, <2>2, <2>3 DEF StateFilesInv
  <1>8. ASSUME NEW w \in Writers, Connect(w) PROVE StateFilesInv'
    <2>1. FilesTypeOK'
      BY <1>8, <1>a DEF Connect, FilesTypeOK
    <2>2. PointsOK' /\ StartupLock' /\ ReaderKnowsBoth' /\ CreatesOnEmpty'
      BY <1>8, <1>a, <1>b DEF Connect, FilesTypeOK, PointsOK, StartupLock, ReaderKnowsBoth,
             CreatesOnEmpty
    <2>3. Connections' /\ LogIsStored' /\ OpenStoreIsAnchored' /\ ImmutableReaderIsCurrent'
      BY <1>8, <1>a, <1>b DEF Connect, FilesTypeOK, PointsOK, StartupLock, OpenStoreIsAnchored,
             ReaderKnowsBoth, Connections, Sidecars, LogIsStored, AnchorValid,
             ImmutableReaderIsCurrent
    <2> QED BY <2>1, <2>2, <2>3 DEF StateFilesInv
  <1>9. ASSUME NEW w \in Writers, CountObjects(w) PROVE StateFilesInv'
    <2>1. FilesTypeOK'
      BY <1>9, <1>a DEF CountObjects, FilesTypeOK
    <2>2. PointsOK' /\ StartupLock' /\ ReaderKnowsBoth' /\ CreatesOnEmpty'
      BY <1>9, <1>a, <1>b DEF CountObjects, FilesTypeOK, PointsOK, StartupLock, ReaderKnowsBoth,
             CreatesOnEmpty
    <2>3. Connections' /\ LogIsStored' /\ OpenStoreIsAnchored' /\ ImmutableReaderIsCurrent'
      BY <1>9, <1>a, <1>b DEF CountObjects, FilesTypeOK, PointsOK, StartupLock,
             OpenStoreIsAnchored, ReaderKnowsBoth, Connections, Sidecars, LogIsStored,
             AnchorValid, ImmutableReaderIsCurrent
    <2> QED BY <2>1, <2>2, <2>3 DEF StateFilesInv
  <1>10. ASSUME NEW w \in Writers, InitializeSchema(w) PROVE StateFilesInv'
    <2>1. FilesTypeOK'
      BY <1>10, <1>a DEF InitializeSchema, FilesTypeOK
    <2>2. PointsOK' /\ StartupLock' /\ ReaderKnowsBoth' /\ CreatesOnEmpty'
      BY <1>10, <1>a, <1>b DEF InitializeSchema, FilesTypeOK, PointsOK, StartupLock,
             ReaderKnowsBoth, CreatesOnEmpty
    <2>3. Connections' /\ LogIsStored' /\ OpenStoreIsAnchored' /\ ImmutableReaderIsCurrent'
      BY <1>10, <1>a, <1>b DEF InitializeSchema, FilesTypeOK, PointsOK, StartupLock,
             OpenStoreIsAnchored, ReaderKnowsBoth, Connections, Sidecars, LogIsStored,
             AnchorValid, ImmutableReaderIsCurrent
    <2> QED BY <2>1, <2>2, <2>3 DEF StateFilesInv
  <1>11. ASSUME NEW w \in Writers, FinishOpen(w) PROVE StateFilesInv'
    <2>1. FilesTypeOK'
      BY <1>11, <1>a DEF FinishOpen, AnchorValid, FilesTypeOK
    <2>2. PointsOK' /\ StartupLock' /\ ReaderKnowsBoth' /\ CreatesOnEmpty'
      BY <1>11, <1>a, <1>b DEF FinishOpen, AnchorValid, FilesTypeOK, PointsOK, StartupLock,
             ReaderKnowsBoth, CreatesOnEmpty
    <2>3. Connections' /\ LogIsStored' /\ OpenStoreIsAnchored' /\ ImmutableReaderIsCurrent'
      BY <1>11, <1>a, <1>b DEF FinishOpen, AnchorValid, FilesTypeOK, PointsOK, StartupLock,
             OpenStoreIsAnchored, ReaderKnowsBoth, Connections, Sidecars, LogIsStored,
             ImmutableReaderIsCurrent
    <2> QED BY <2>1, <2>2, <2>3 DEF StateFilesInv
  <1>12. ASSUME NEW w \in Writers, CommitWrite(w) PROVE StateFilesInv'
    <2>1. FilesTypeOK'
      BY <1>12, <1>a DEF CommitWrite, FilesTypeOK
    <2>2. PointsOK' /\ StartupLock' /\ ReaderKnowsBoth' /\ CreatesOnEmpty'
      BY <1>12, <1>a, <1>b DEF CommitWrite, FilesTypeOK, PointsOK, StartupLock, ReaderKnowsBoth,
             CreatesOnEmpty
    <2>3. Connections' /\ LogIsStored' /\ OpenStoreIsAnchored' /\ ImmutableReaderIsCurrent'
      BY <1>12, <1>a, <1>b DEF CommitWrite, FilesTypeOK, PointsOK, StartupLock,
             OpenStoreIsAnchored, ReaderKnowsBoth, Connections, Sidecars, LogIsStored,
             AnchorValid, ImmutableReaderIsCurrent
    <2> QED BY <2>1, <2>2, <2>3 DEF StateFilesInv
  <1>13. ASSUME NEW w \in Writers, CloseDatabase(w) PROVE StateFilesInv'
    <2>1. FilesTypeOK'
      <3>1. /\ flock' \in [Processes -> {"none", "shared", "exclusive"}]
            /\ known' \in [Processes -> (Inodes \cup {Absent}) \X (Inodes \cup {Absent})]
        <4>1. Release(w) \/ UNCHANGED <<flock, known>>
          BY <1>13 DEF CloseDatabase
        <4> QED BY <4>1, <1>a, ReleaseTyped
      <3>2. pc' \in [Processes -> WriterPoints \cup ReaderPoints]
        BY <1>13, <1>a DEF CloseDatabase, FilesTypeOK
      <3> QED BY <1>13, <1>a, <3>1, <3>2 DEF CloseDatabase, FilesTypeOK
    <2>2. PointsOK'
      BY <1>13, <1>a DEF CloseDatabase, AnchorValid, FilesTypeOK, PointsOK
    <2>3. StartupLock'
      BY <1>13, <1>a DEF CloseDatabase, AnchorValid, FilesTypeOK, PointsOK, StartupLock
    <2>4. Connections'
      BY <1>13, <1>a, <1>b DEF CloseDatabase, AnchorValid, FilesTypeOK, PointsOK, StartupLock,
             OpenStoreIsAnchored, ReaderKnowsBoth, Connections, Sidecars
    <2>5. ReaderKnowsBoth'
      BY <1>13, <1>a DEF CloseDatabase, AnchorValid, FilesTypeOK, PointsOK, ReaderKnowsBoth
    <2>6. LogIsStored'
      BY <1>13, <1>a, <1>b DEF CloseDatabase, AnchorValid, FilesTypeOK, Connections, PointsOK,
             OpenStoreIsAnchored, LogIsStored
    <2>7. CreatesOnEmpty'
      BY <1>13, <1>a, <1>b DEF CloseDatabase, AnchorValid, FilesTypeOK, StartupLock, PointsOK,
             CreatesOnEmpty
    <2>8. OpenStoreIsAnchored'
      BY <1>13, <1>a, <1>b DEF CloseDatabase, AnchorValid, FilesTypeOK, Connections, PointsOK,
             OpenStoreIsAnchored
    <2>9. ImmutableReaderIsCurrent'
      BY <1>13, <1>a, <1>b DEF CloseDatabase, AnchorValid, FilesTypeOK, PointsOK, StartupLock,
             Connections, LogIsStored, OpenStoreIsAnchored, ImmutableReaderIsCurrent, Sidecars
    <2> QED BY <2>1, <2>2, <2>3, <2>4, <2>5, <2>6, <2>7, <2>8, <2>9 DEF StateFilesInv
  <1>14. ASSUME NEW w \in Writers, RemoveLog(w) PROVE StateFilesInv'
    <2>1. FilesTypeOK'
      BY <1>14, <1>a DEF RemoveLog, FilesTypeOK
    <2>2. PointsOK' /\ StartupLock' /\ ReaderKnowsBoth' /\ CreatesOnEmpty'
      BY <1>14, <1>a, <1>b DEF RemoveLog, FilesTypeOK, PointsOK, StartupLock, ReaderKnowsBoth,
             CreatesOnEmpty
    <2>3. Connections' /\ LogIsStored' /\ OpenStoreIsAnchored' /\ ImmutableReaderIsCurrent'
      BY <1>14, <1>a, <1>b DEF RemoveLog, FilesTypeOK, PointsOK, StartupLock, OpenStoreIsAnchored,
             ReaderKnowsBoth, Connections, Sidecars, LogIsStored, AnchorValid,
             ImmutableReaderIsCurrent
    <2> QED BY <2>1, <2>2, <2>3 DEF StateFilesInv
  <1>15. ASSUME NEW r \in Readers, OpenReader(r) PROVE StateFilesInv'
    <2>1. FilesTypeOK'
      BY <1>15, <1>a DEF OpenReader, FilesTypeOK
    <2>2. PointsOK' /\ StartupLock' /\ ReaderKnowsBoth' /\ CreatesOnEmpty'
      BY <1>15, <1>a, <1>b DEF OpenReader, FilesTypeOK, PointsOK, StartupLock, ReaderKnowsBoth,
             CreatesOnEmpty
    <2>3. Connections' /\ LogIsStored' /\ OpenStoreIsAnchored' /\ ImmutableReaderIsCurrent'
      BY <1>15, <1>a, <1>b DEF OpenReader, FilesTypeOK, PointsOK, StartupLock,
             OpenStoreIsAnchored, ReaderKnowsBoth, Connections, Sidecars, LogIsStored,
             AnchorValid, ImmutableReaderIsCurrent
    <2> QED BY <2>1, <2>2, <2>3 DEF StateFilesInv
  <1>16. ASSUME NEW r \in Readers, OpenExistingLock(r) PROVE StateFilesInv'
    <2>1. FilesTypeOK'
      BY <1>16, <1>a DEF OpenExistingLock, FilesTypeOK
    <2>2. PointsOK' /\ StartupLock' /\ ReaderKnowsBoth' /\ CreatesOnEmpty'
      BY <1>16, <1>a, <1>b DEF OpenExistingLock, FilesTypeOK, PointsOK, StartupLock,
             ReaderKnowsBoth, CreatesOnEmpty
    <2>3. Connections' /\ LogIsStored' /\ OpenStoreIsAnchored' /\ ImmutableReaderIsCurrent'
      BY <1>16, <1>a, <1>b DEF OpenExistingLock, FilesTypeOK, PointsOK, StartupLock,
             OpenStoreIsAnchored, ReaderKnowsBoth, Connections, Sidecars, LogIsStored,
             AnchorValid, ImmutableReaderIsCurrent
    <2> QED BY <2>1, <2>2, <2>3 DEF StateFilesInv
  <1>17. ASSUME NEW r \in Readers, WaitForSharedLock(r) PROVE StateFilesInv'
    <2>1. FilesTypeOK'
      BY <1>17, <1>a DEF WaitForSharedLock, FilesTypeOK
    <2>2. PointsOK' /\ StartupLock' /\ ReaderKnowsBoth' /\ CreatesOnEmpty'
      BY <1>17, <1>a, <1>b DEF WaitForSharedLock, FilesTypeOK, PointsOK, StartupLock,
             ReaderKnowsBoth, CreatesOnEmpty
    <2>3. Connections' /\ LogIsStored' /\ OpenStoreIsAnchored' /\ ImmutableReaderIsCurrent'
      BY <1>17, <1>a, <1>b DEF WaitForSharedLock, FilesTypeOK, PointsOK, StartupLock,
             OpenStoreIsAnchored, ReaderKnowsBoth, Connections, Sidecars, LogIsStored,
             AnchorValid, ImmutableReaderIsCurrent
    <2> QED BY <2>1, <2>2, <2>3 DEF StateFilesInv
  <1>18. ASSUME NEW r \in Readers, OpenReaderDatabase(r) PROVE StateFilesInv'
    <2>1. FilesTypeOK'
      <3>1. /\ flock' \in [Processes -> {"none", "shared", "exclusive"}]
            /\ known' \in [Processes -> (Inodes \cup {Absent}) \X (Inodes \cup {Absent})]
        <4>1. CASE Release(r)
          BY <4>1, <1>a, ReleaseTyped
        <4>2. CASE ~Release(r)
          BY <4>2, <1>18, <1>a DEF OpenReaderDatabase, FilesTypeOK
        <4> QED BY <4>1, <4>2
      <3>2. pc' \in [Processes -> WriterPoints \cup ReaderPoints]
        BY <1>18, <1>a DEF OpenReaderDatabase, FilesTypeOK
      <3> QED BY <1>18, <1>a, <3>1, <3>2 DEF OpenReaderDatabase, FilesTypeOK
    <2>2. PointsOK'
      BY <1>18, <1>a DEF OpenReaderDatabase, FilesTypeOK, PointsOK
    <2>3. StartupLock'
      BY <1>18, <1>a DEF OpenReaderDatabase, FilesTypeOK, PointsOK, StartupLock
    <2>4. Connections'
      BY <1>18, <1>a, <1>b DEF OpenReaderDatabase, FilesTypeOK, PointsOK, StartupLock,
             OpenStoreIsAnchored, ReaderKnowsBoth, Connections, Sidecars
    <2>5. ReaderKnowsBoth'
      BY <1>18, <1>a DEF OpenReaderDatabase, FilesTypeOK, PointsOK, ReaderKnowsBoth
    <2>6. LogIsStored'
      BY <1>18, <1>a, <1>b DEF OpenReaderDatabase, FilesTypeOK, Connections, PointsOK,
             OpenStoreIsAnchored, LogIsStored
    <2>7. CreatesOnEmpty'
      BY <1>18, <1>a, <1>b DEF OpenReaderDatabase, FilesTypeOK, StartupLock, PointsOK,
             CreatesOnEmpty
    <2>8. OpenStoreIsAnchored'
      BY <1>18, <1>a, <1>b DEF OpenReaderDatabase, FilesTypeOK, Connections, PointsOK,
             OpenStoreIsAnchored, AnchorValid
    <2>9. ImmutableReaderIsCurrent'
      BY <1>18, <1>a, <1>b DEF OpenReaderDatabase, FilesTypeOK, PointsOK, StartupLock,
             Connections, LogIsStored, OpenStoreIsAnchored, ImmutableReaderIsCurrent, Sidecars
    <2> QED BY <2>1, <2>2, <2>3, <2>4, <2>5, <2>6, <2>7, <2>8, <2>9 DEF StateFilesInv
  <1>19. ASSUME NEW r \in Readers, BeginSnapshot(r) PROVE StateFilesInv'
    <2>1. FilesTypeOK'
      <3>1. /\ flock' \in [Processes -> {"none", "shared", "exclusive"}]
            /\ known' \in [Processes -> (Inodes \cup {Absent}) \X (Inodes \cup {Absent})]
        <4>1. CASE Release(r)
          BY <4>1, <1>a, ReleaseTyped
        <4>2. CASE ~Release(r)
          BY <4>2, <1>19, <1>a DEF BeginSnapshot, FilesTypeOK
        <4> QED BY <4>1, <4>2
      <3>2. pc' \in [Processes -> WriterPoints \cup ReaderPoints]
        BY <1>19, <1>a DEF BeginSnapshot, FilesTypeOK
      <3> QED BY <1>19, <1>a, <3>1, <3>2 DEF BeginSnapshot, FilesTypeOK
    <2>2. PointsOK'
      BY <1>19, <1>a DEF BeginSnapshot, ReaderValid, AnchorValid, Sidecars, FilesTypeOK,
             PointsOK
    <2>3. StartupLock'
      <3>1. CASE Release(r) /\ Goto(r, "idle")
        BY <1>19, <1>a, <3>1 DEF FilesTypeOK, StartupLock
      <3>2. CASE UNCHANGED flock /\ Goto(r, "open")
        BY <1>19, <1>a, <3>2 DEF BeginSnapshot, FilesTypeOK, StartupLock
      <3> QED BY <1>19, <3>1, <3>2 DEF BeginSnapshot
    <2>4. Connections'
      BY <1>19, <1>a, <1>b DEF BeginSnapshot, ReaderValid, AnchorValid, Sidecars, FilesTypeOK,
             PointsOK, StartupLock, OpenStoreIsAnchored, ReaderKnowsBoth, Connections
    <2>5. ReaderKnowsBoth'
      BY <1>19, <1>a DEF BeginSnapshot, ReaderValid, AnchorValid, Sidecars, FilesTypeOK,
             PointsOK, ReaderKnowsBoth
    <2>6. LogIsStored'
      BY <1>19, <1>a, <1>b DEF BeginSnapshot, ReaderValid, AnchorValid, Sidecars, FilesTypeOK,
             Connections, PointsOK, OpenStoreIsAnchored, LogIsStored
    <2>7. CreatesOnEmpty'
      BY <1>19, <1>a, <1>b DEF BeginSnapshot, ReaderValid, AnchorValid, Sidecars, FilesTypeOK,
             StartupLock, PointsOK, CreatesOnEmpty
    <2>8. OpenStoreIsAnchored'
      BY <1>19, <1>a, <1>b DEF BeginSnapshot, ReaderValid, AnchorValid, Sidecars, FilesTypeOK,
             Connections, PointsOK, OpenStoreIsAnchored
    <2>9. ImmutableReaderIsCurrent'
      BY <1>19, <1>a, <1>b DEF BeginSnapshot, ReaderValid, AnchorValid, Sidecars, FilesTypeOK,
             PointsOK, StartupLock, Connections, LogIsStored, OpenStoreIsAnchored,
             ImmutableReaderIsCurrent
    <2> QED BY <2>1, <2>2, <2>3, <2>4, <2>5, <2>6, <2>7, <2>8, <2>9 DEF StateFilesInv
  <1>20. ASSUME NEW r \in Readers, CloseReader(r) PROVE StateFilesInv'
    <2>1. FilesTypeOK'
      BY <1>20, <1>a DEF CloseReader, FilesTypeOK
    <2>2. PointsOK' /\ StartupLock' /\ ReaderKnowsBoth' /\ CreatesOnEmpty'
      BY <1>20, <1>a, <1>b DEF CloseReader, FilesTypeOK, PointsOK, StartupLock, ReaderKnowsBoth,
             CreatesOnEmpty
    <2>3. Connections' /\ LogIsStored' /\ OpenStoreIsAnchored' /\ ImmutableReaderIsCurrent'
      BY <1>20, <1>a, <1>b DEF CloseReader, FilesTypeOK, PointsOK, StartupLock,
             OpenStoreIsAnchored, ReaderKnowsBoth, Connections, Sidecars, LogIsStored,
             AnchorValid, ImmutableReaderIsCurrent
    <2> QED BY <2>1, <2>2, <2>3 DEF StateFilesInv
  <1>21. ASSUME NEW x \in Processes, LockTimeout(x) PROVE StateFilesInv'
    <2>1. FilesTypeOK'
      BY <1>21, <1>a DEF LockTimeout, FilesTypeOK
    <2>2. PointsOK' /\ StartupLock' /\ ReaderKnowsBoth' /\ CreatesOnEmpty'
      BY <1>21, <1>a, <1>b DEF LockTimeout, FilesTypeOK, PointsOK, StartupLock, ReaderKnowsBoth,
             CreatesOnEmpty
    <2>3. Connections' /\ LogIsStored' /\ OpenStoreIsAnchored' /\ ImmutableReaderIsCurrent'
      BY <1>21, <1>a, <1>b DEF LockTimeout, FilesTypeOK, PointsOK, StartupLock,
             OpenStoreIsAnchored, ReaderKnowsBoth, Connections, Sidecars, LogIsStored,
             AnchorValid, ImmutableReaderIsCurrent
    <2> QED BY <2>1, <2>2, <2>3 DEF StateFilesInv
  <1>22. ASSUME NEW x \in Processes, Crash(x) PROVE StateFilesInv'
    <2>1. FilesTypeOK'
      BY <1>22, <1>a DEF Crash, FilesTypeOK
    <2>2. PointsOK'
      BY <1>22, <1>a DEF Crash, FilesTypeOK, PointsOK
    <2>3. StartupLock'
      BY <1>22, <1>a DEF Crash, FilesTypeOK, PointsOK, StartupLock
    <2>4. Connections'
      BY <1>22, <1>a, <1>b DEF Crash, FilesTypeOK, PointsOK, StartupLock, OpenStoreIsAnchored,
             ReaderKnowsBoth, Connections, Sidecars
    <2>5. ReaderKnowsBoth'
      BY <1>22, <1>a DEF Crash, FilesTypeOK, PointsOK, ReaderKnowsBoth
    <2>6. LogIsStored'
      BY <1>22, <1>a, <1>b DEF Crash, FilesTypeOK, Connections, PointsOK, OpenStoreIsAnchored,
             LogIsStored
    <2>7. CreatesOnEmpty'
      BY <1>22, <1>a, <1>b DEF Crash, FilesTypeOK, StartupLock, PointsOK, CreatesOnEmpty
    <2>8. OpenStoreIsAnchored'
      BY <1>22, <1>a, <1>b DEF Crash, FilesTypeOK, Connections, PointsOK, OpenStoreIsAnchored,
             AnchorValid
    <2>9. ImmutableReaderIsCurrent'
      BY <1>22, <1>a, <1>b DEF Crash, FilesTypeOK, PointsOK, StartupLock, Connections,
             LogIsStored, OpenStoreIsAnchored, ImmutableReaderIsCurrent, Sidecars
    <2> QED BY <2>1, <2>2, <2>3, <2>4, <2>5, <2>6, <2>7, <2>8, <2>9 DEF StateFilesInv
  <1>23. CASE UNCHANGED vars
    BY <1>23, <1>a, <1>b DEF vars, StateFilesInv, FilesTypeOK, PointsOK, StartupLock,
       Connections, ReaderKnowsBoth, LogIsStored, CreatesOnEmpty, OpenStoreIsAnchored,
       ImmutableReaderIsCurrent, Sidecars, AnchorValid
  <1> QED
    BY <1>1, <1>2, <1>3, <1>4, <1>5, <1>6, <1>7, <1>8, <1>9, <1>10, <1>11,
       <1>12, <1>13, <1>14, <1>15, <1>16, <1>17, <1>18, <1>19, <1>20, <1>21, <1>22, <1>23
    DEF FilesNext, OpenSteps, ReaderSteps

(* The inductive invariant holds in every state of every behaviour.          *)
THEOREM StateFilesInvariant == FilesSpec => []StateFilesInv
  BY FilesInitInv, FilesStepInv, PTL DEF FilesSpec

(* Whatever opens, closes and dies, and in whatever order: the variables keep  *)
(* their types, an open store writes to the sidecars it identified under its    *)
(* own connection, and a store that counted no object is the only one that       *)
(* makes the schema.                                                        *)
THEOREM FilesTheorem == FilesSpec => []FilesInv
  <1>1. StateFilesInv => FilesInv
    BY DEF StateFilesInv, FilesInv, CreatesOnEmpty, SchemaMadeOnce
  <1> QED BY <1>1, StateFilesInvariant, PTL

(* A Reader that reads the database file alone reads what was last committed,   *)
(* and no store can connect before it is closed.                             *)
THEOREM ImmutableReaderTheorem == FilesSpec => []ImmutableReaderIsCurrent
  <1>1. StateFilesInv => ImmutableReaderIsCurrent
    BY DEF StateFilesInv
  <1> QED BY <1>1, StateFilesInvariant, PTL

(* What a step may do to the sidecars while a store is connected: nothing.      *)
SidecarsPinned ==
    \A w \in Writers : w \in conn /\ w \in conn' => wal' = wal /\ shm' = shm

(* No step of any process, the crash of another one included, removes or        *)
(* replaces a sidecar while a store has its connection.                       *)
THEOREM SidecarsPinnedTheorem == FilesSpec => [][SidecarsPinned]_vars
  <1>1. StateFilesInv /\ [FilesNext]_vars => [SidecarsPinned]_vars
    <2> SUFFICES ASSUME StateFilesInv, FilesNext PROVE SidecarsPinned
      BY DEF vars
    <2>a. Connections
      BY DEF StateFilesInv
    <2>1. ASSUME NEW v \in Writers,
                 OpenStore(v) \/ OpenSteps(v) \/ CommitWrite(v) \/ RemoveLog(v)
          PROVE  SidecarsPinned
      BY <2>1, <2>a DEF SidecarsPinned, Connections, OpenStore, OpenSteps, OpenLockFile, WaitForLock,
         LockTimeout, OpenDatabaseFile, OpenLogFile, OpenSharedFile, Anchor, Connect, CountObjects,
         InitializeSchema, FinishOpen, CommitWrite, RemoveLog
    <2>2. ASSUME NEW v \in Writers, CloseDatabase(v) PROVE SidecarsPinned
      BY <2>2, <2>a DEF SidecarsPinned, Connections, CloseDatabase
    <2>3. ASSUME NEW r \in Readers, OpenReader(r) \/ ReaderSteps(r) \/ CloseReader(r)
          PROVE  SidecarsPinned
      BY <2>3 DEF SidecarsPinned, OpenReader, ReaderSteps, OpenExistingLock, WaitForSharedLock,
         LockTimeout, OpenReaderDatabase, BeginSnapshot, CloseReader
    <2>4. ASSUME NEW x \in Processes, Crash(x) PROVE SidecarsPinned
      BY <2>4 DEF SidecarsPinned, Crash
    <2> QED BY <2>1, <2>2, <2>3, <2>4 DEF FilesNext
  <1> QED BY <1>1, StateFilesInvariant, PTL DEF FilesSpec
=============================================================================
