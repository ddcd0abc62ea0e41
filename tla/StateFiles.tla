----------------------------- MODULE StateFiles -----------------------------
(***************************************************************************)
(* The files of the state database: Open and Close of Store                 *)
(* (src/internal/store/store.go, files_unix.go, schema.go) and of Reader     *)
(* (reader_unix.go), each call cut where another process can see the files.  *)
(*                                                                         *)
(* Open holds the startup lock exclusively while it creates and identifies   *)
(* the database and its two sidecars, connects and makes the schema; it      *)
(* keeps no lock afterwards.  A Reader holds the startup lock shared for its  *)
(* whole life, creates nothing, and reads the database file alone, as         *)
(* immutable, when there are no sidecars.  SQLite (external) makes missing    *)
(* sidecars when it connects, and on the close of the last connection copies  *)
(* the log into the database and removes first the shared memory and then the *)
(* log.                                                                    *)
(*                                                                         *)
(* A file is known by its inode number, which the kernel may use again.       *)
(***************************************************************************)
EXTENDS Naturals, FiniteSets

CONSTANTS
    Writers,    \* processes that open the Store
    Readers,    \* processes that open a Reader
    Inodes,     \* inode numbers of the sidecars
    MaxOpens,   \* bound on the calls of Open and OpenReader
    MaxCommits, \* bound on the transactions committed
    MaxCrashes  \* bound on the processes that die

ASSUME BoundsAssumption == MaxOpens \in Nat /\ MaxCommits \in Nat /\ MaxCrashes \in Nat
ASSUME InodeAssumption == Inodes \subseteq Nat \ {0}
ASSUME ProcessAssumption == Writers \cap Readers = {}

Absent    == 0
Processes == Writers \cup Readers

VARIABLES
    lockFile,   \* the startup lock file exists
    database,   \* the database file exists
    wal,        \* inode of the log, Absent if none
    shm,        \* inode of the shared memory, Absent if none
    schema,     \* the tables of the database: "empty" or "ready"
    version,    \* transactions committed
    stored,     \* transactions of them that are in the database file itself
    pc,         \* pc[x]: where process x stands
    flock,      \* flock[x]: what x holds of the startup lock
    known,      \* known[x]: the sidecars x identified, <<wal, shm>>
    conn,       \* the processes with an SQLite connection
    count,      \* count[w]: the schema objects w counted, "none" before
    seen,       \* seen[r]: the version r reads
    opens,      \* calls of Open and OpenReader so far
    crashes     \* processes that died so far

entries == <<lockFile, database, wal, shm>>
sqlite  == <<schema, version, stored>>
process == <<pc, flock, known, conn, count, seen>>
bounds  == <<opens, crashes>>
vars    == <<entries, sqlite, process, bounds>>

WriterPoints == {"idle", "lock", "wait", "database", "log", "shared", "anchored",
                 "connect", "schema", "create", "verify", "open", "shmGone"}
ReaderPoints == {"idle", "lock", "wait", "files", "begin", "open", "empty"}

FilesTypeOK ==
    /\ lockFile \in BOOLEAN /\ database \in BOOLEAN
    /\ wal \in Inodes \cup {Absent} /\ shm \in Inodes \cup {Absent}
    /\ schema \in {"empty", "ready"}
    /\ version \in 0 .. MaxCommits /\ stored \in 0 .. version
    /\ pc \in [Processes -> WriterPoints \cup ReaderPoints]
    /\ flock \in [Processes -> {"none", "shared", "exclusive"}]
    /\ known \in [Processes -> (Inodes \cup {Absent}) \X (Inodes \cup {Absent})]
    /\ conn \subseteq Processes
    /\ count \in [Writers -> {"none", "empty", "ready"}]
    /\ seen \in [Readers -> 0 .. MaxCommits]
    /\ opens \in 0 .. MaxOpens /\ crashes \in 0 .. MaxCrashes

FilesInit ==
    /\ lockFile = FALSE /\ database = FALSE
    /\ wal = Absent /\ shm = Absent
    /\ schema = "empty" /\ version = 0 /\ stored = 0
    /\ pc = [x \in Processes |-> "idle"]
    /\ flock = [x \in Processes |-> "none"]
    /\ known = [x \in Processes |-> <<Absent, Absent>>]
    /\ conn = {}
    /\ count = [w \in Writers |-> "none"]
    /\ seen = [r \in Readers |-> 0]
    /\ opens = 0 /\ crashes = 0

-----------------------------------------------------------------------------
Goto(x, point) == pc' = [pc EXCEPT ![x] = point]

(* The number of a new file: one no file has now.                            *)
NewInodes == Inodes \ {wal, shm}

(* stateAnchor.valid: the entries are the files that were identified.         *)
AnchorValid(x) == lockFile /\ database /\ known[x] = <<wal, shm>>

(* stateAnchor.readerValid: with no sidecars identified there must be none.    *)
ReaderValid(r) == flock[r] = "shared" /\ AnchorValid(r)

Sidecars(r) == known[r] # <<Absent, Absent>>

(* stateAnchor.close, and the connections closed with it                     *)
Release(x) == /\ flock' = [flock EXCEPT ![x] = "none"]
              /\ known' = [known EXCEPT ![x] = <<Absent, Absent>>]

(***************************************************************************)
(* Open                                                                    *)
(***************************************************************************)
OpenStore(w) ==
    /\ pc[w] = "idle"
    /\ opens < MaxOpens
    /\ opens' = opens + 1
    /\ Goto(w, "lock")
    /\ UNCHANGED <<entries, sqlite, flock, known, conn, count, seen, crashes>>

(* openLock makes the lock file unless it exists.                           *)
OpenLockFile(w) ==
    /\ pc[w] = "lock"
    /\ lockFile' = TRUE
    /\ Goto(w, "wait")
    /\ UNCHANGED <<database, wal, shm, sqlite, flock, known, conn, count, seen, bounds>>

(* Mutant: the startup lock is not exclusive.                                *)
WaitForLockShared(w) ==
    /\ pc[w] = "wait"
    /\ flock' = [flock EXCEPT ![w] = "exclusive"]
    /\ Goto(w, "database")
    /\ UNCHANGED <<entries, sqlite, known, conn, count, seen, bounds>>

(* waitForLock tries until the lock is free or its second is over.            *)
WaitForLock(w) ==
    /\ pc[w] = "wait"
    /\ \A x \in Processes : flock[x] = "none"
    /\ flock' = [flock EXCEPT ![w] = "exclusive"]
    /\ Goto(w, "database")
    /\ UNCHANGED <<entries, sqlite, known, conn, count, seen, bounds>>

(* Mutant: waiting goes on after the second is over.                         *)
LockTimeoutNever(x) ==
    /\ pc[x] = "wait"
    /\ \E y \in Processes \ {x} : flock[y] # "none"
    /\ UNCHANGED vars

LockTimeout(x) ==
    /\ pc[x] = "wait"
    /\ \E y \in Processes \ {x} : flock[y] # "none"
    /\ Goto(x, "idle")
    /\ UNCHANGED <<entries, sqlite, flock, known, conn, count, seen, bounds>>

(* openDatabase: three files, one after the other, made unless they exist.     *)
OpenDatabaseFile(w) ==
    /\ pc[w] = "database"
    /\ database' = TRUE
    /\ Goto(w, "log")
    /\ UNCHANGED <<lockFile, wal, shm, sqlite, flock, known, conn, count, seen, bounds>>

OpenLogFile(w) ==
    /\ pc[w] = "log"
    /\ wal' \in IF wal = Absent THEN NewInodes ELSE {wal}
    /\ known' = [known EXCEPT ![w][1] = wal']
    /\ Goto(w, "shared")
    /\ UNCHANGED <<lockFile, database, shm, sqlite, flock, conn, count, seen, bounds>>

OpenSharedFile(w) ==
    /\ pc[w] = "shared"
    /\ shm' \in IF shm = Absent THEN NewInodes ELSE {shm}
    /\ known' = [known EXCEPT ![w][2] = shm']
    /\ Goto(w, "anchored")
    /\ UNCHANGED <<lockFile, database, wal, sqlite, flock, conn, count, seen, bounds>>

(* openStateAnchor ends with a check of every entry.                         *)
Anchor(w) ==
    /\ pc[w] = "anchored"
    /\ \/ AnchorValid(w) /\ Goto(w, "connect") /\ UNCHANGED <<flock, known>>
       \/ ~AnchorValid(w) /\ Goto(w, "idle") /\ Release(w)
    /\ UNCHANGED <<entries, sqlite, conn, count, seen, bounds>>

(* ready: SQLite makes the sidecars that have gone since.  It waits for a       *)
(* closing connection, which holds the database exclusively.                  *)
Connect(w) ==
    /\ pc[w] = "connect"
    /\ \A v \in Writers : pc[v] # "shmGone"
    /\ wal' \in IF wal = Absent THEN NewInodes ELSE {wal}
    /\ shm' \in IF shm = Absent THEN NewInodes \ {wal'} ELSE {shm}
    /\ conn' = conn \cup {w}
    /\ Goto(w, "schema")
    /\ UNCHANGED <<lockFile, database, sqlite, flock, known, count, seen, bounds>>

(* ensureInitialSchema counts the objects, and makes or validates them.        *)
CountObjects(w) ==
    /\ pc[w] = "schema"
    /\ count' = [count EXCEPT ![w] = schema]
    /\ Goto(w, IF schema = "empty" THEN "create" ELSE "verify")
    /\ UNCHANGED <<entries, sqlite, flock, known, conn, seen, bounds>>

InitializeSchema(w) ==
    /\ pc[w] = "create"
    /\ schema' = "ready"
    /\ Goto(w, "verify")
    /\ UNCHANGED <<entries, version, stored, flock, known, conn, count, seen, bounds>>

(* Mutant: the entries are not checked again after the schema.               *)
FinishOpenUnchecked(w) ==
    /\ pc[w] = "verify"
    /\ flock' = [flock EXCEPT ![w] = "none"]
    /\ count' = [count EXCEPT ![w] = "none"]
    /\ Goto(w, "open")
    /\ UNCHANGED <<entries, sqlite, known, conn, seen, bounds>>

(* finishOpen checks the entries once more and lets the startup lock go.       *)
FinishOpen(w) ==
    /\ pc[w] = "verify"
    /\ AnchorValid(w)
    /\ flock' = [flock EXCEPT ![w] = "none"]
    /\ count' = [count EXCEPT ![w] = "none"]
    /\ Goto(w, "open")
    /\ UNCHANGED <<entries, sqlite, known, conn, seen, bounds>>

(* A fenced write of module Journal.                                        *)
CommitWrite(w) ==
    /\ pc[w] = "open"
    /\ version < MaxCommits
    /\ version' = version + 1
    /\ UNCHANGED <<entries, schema, stored, process, bounds>>

(***************************************************************************)
(* Store.Close, and finishOpen when ready, ensureInitialSchema or unlock fails *)
(* or the entries are not the identified ones: the connections first.  The     *)
(* last one in the system copies the log and removes the shared memory, and     *)
(* the log in a step of its own.                                            *)
(***************************************************************************)
CloseDatabase(w) ==
    /\ pc[w] \in {"connect", "schema", "create", "verify", "open"}
    /\ conn' = conn \ {w}
    /\ count' = [count EXCEPT ![w] = "none"]
    /\ IF conn = {w}
       THEN /\ stored' = version
            /\ shm' = Absent
            /\ Goto(w, "shmGone")
            /\ UNCHANGED <<flock, known>>
       ELSE Goto(w, "idle") /\ Release(w) /\ UNCHANGED <<stored, shm>>
    /\ UNCHANGED <<lockFile, database, wal, schema, version, seen, bounds>>

RemoveLog(w) ==
    /\ pc[w] = "shmGone"
    /\ wal' = Absent
    /\ Goto(w, "idle")
    /\ Release(w)
    /\ UNCHANGED <<lockFile, database, shm, sqlite, conn, count, seen, bounds>>

(***************************************************************************)
(* OpenReader: without a lock file there must be no state at all, and the     *)
(* Reader is empty; it fails when only one sidecar is there.                 *)
(***************************************************************************)
OpenReader(r) ==
    /\ pc[r] = "idle"
    /\ opens < MaxOpens
    /\ opens' = opens + 1
    /\ Goto(r, "lock")
    /\ UNCHANGED <<entries, sqlite, flock, known, conn, count, seen, crashes>>

OpenExistingLock(r) ==
    /\ pc[r] = "lock"
    /\ Goto(r, IF lockFile THEN "wait"
               ELSE IF database \/ wal # Absent \/ shm # Absent THEN "idle"
               ELSE "empty")
    /\ UNCHANGED <<entries, sqlite, flock, known, conn, count, seen, bounds>>

(* Mutant: a Reader does not wait for the store that is being opened.         *)
WaitForSharedLockNot(r) ==
    /\ pc[r] = "wait"
    /\ flock' = [flock EXCEPT ![r] = "shared"]
    /\ Goto(r, "files")
    /\ UNCHANGED <<entries, sqlite, known, conn, count, seen, bounds>>

WaitForSharedLock(r) ==
    /\ pc[r] = "wait"
    /\ \A x \in Processes : flock[x] # "exclusive"
    /\ flock' = [flock EXCEPT ![r] = "shared"]
    /\ Goto(r, "files")
    /\ UNCHANGED <<entries, sqlite, known, conn, count, seen, bounds>>

OpenReaderDatabase(r) ==
    /\ pc[r] = "files"
    /\ \/ /\ database /\ (wal = Absent <=> shm = Absent)
          /\ known' = [known EXCEPT ![r] = <<wal, shm>>]
          /\ Goto(r, "begin")
          /\ UNCHANGED flock
       \/ /\ ~(database /\ (wal = Absent <=> shm = Absent))
          /\ Goto(r, "idle")
          /\ Release(r)
    /\ UNCHANGED <<entries, sqlite, conn, count, seen, bounds>>

(* finishOpenReader: a snapshot of the log and the database, or of the          *)
(* database file alone; refused unless the entries and the schema are valid.   *)
BeginSnapshot(r) ==
    /\ pc[r] = "begin"
    /\ Sidecars(r) => \A v \in Writers : pc[v] # "shmGone"
    /\ \/ /\ ReaderValid(r) /\ schema = "ready"
          /\ seen' = [seen EXCEPT ![r] = IF Sidecars(r) THEN version ELSE stored]
          /\ conn' = IF Sidecars(r) THEN conn \cup {r} ELSE conn
          /\ Goto(r, "open")
          /\ UNCHANGED <<flock, known>>
       \/ /\ ~(ReaderValid(r) /\ schema = "ready")
          /\ Goto(r, "idle")
          /\ Release(r)
          /\ UNCHANGED <<seen, conn>>
    /\ UNCHANGED <<entries, sqlite, count, bounds>>

(* Reader.Close; a read-only connection leaves the sidecars where they are.     *)
CloseReader(r) ==
    /\ pc[r] \in {"open", "empty"}
    /\ conn' = conn \ {r}
    /\ seen' = [seen EXCEPT ![r] = 0]
    /\ Goto(r, "idle")
    /\ Release(r)
    /\ UNCHANGED <<entries, sqlite, count, bounds>>

-----------------------------------------------------------------------------
(* A process dies: the kernel drops its lock and connection, the files stay.    *)
Crash(x) ==
    /\ crashes < MaxCrashes
    /\ pc[x] # "idle"
    /\ crashes' = crashes + 1
    /\ conn' = conn \ {x}
    /\ Goto(x, "idle")
    /\ Release(x)
    /\ count' = [w \in Writers |-> IF w = x THEN "none" ELSE count[w]]
    /\ seen' = [r \in Readers |-> IF r = x THEN 0 ELSE seen[r]]
    /\ UNCHANGED <<entries, sqlite, opens>>

OpenSteps(w) == \/ OpenLockFile(w) \/ WaitForLock(w) \/ LockTimeout(w)
                \/ OpenDatabaseFile(w) \/ OpenLogFile(w) \/ OpenSharedFile(w)
                \/ Anchor(w) \/ Connect(w) \/ CountObjects(w)
                \/ InitializeSchema(w) \/ FinishOpen(w)
ReaderSteps(r) == \/ OpenExistingLock(r) \/ WaitForSharedLock(r) \/ LockTimeout(r)
                  \/ OpenReaderDatabase(r) \/ BeginSnapshot(r)

FilesNext ==
    \/ \E w \in Writers : \/ OpenStore(w) \/ OpenSteps(w) \/ CommitWrite(w)
                          \/ CloseDatabase(w) \/ RemoveLog(w)
    \/ \E r \in Readers : OpenReader(r) \/ ReaderSteps(r) \/ CloseReader(r)
    \/ \E x \in Processes : Crash(x)

FilesSpec == FilesInit /\ [][FilesNext]_vars

(***************************************************************************)
(* The calls in progress go on, and the closing of connections too; nothing   *)
(* makes a process open, write or close.                                    *)
(***************************************************************************)
FilesFairSpec ==
    /\ FilesSpec
    /\ \A w \in Writers :
          /\ WF_vars(OpenSteps(w))
          /\ WF_vars(pc[w] = "verify" /\ CloseDatabase(w))
          /\ WF_vars(RemoveLog(w))
    /\ \A r \in Readers : WF_vars(ReaderSteps(r))

-----------------------------------------------------------------------------
(* While a Reader reads the database file alone nobody writes: it was current   *)
(* when the Reader opened it, stays so, and no store has a connection.          *)
ImmutableReaderIsCurrent ==
    \A r \in Readers : pc[r] = "open" /\ ~Sidecars(r) =>
        seen[r] = version /\ conn \cap Writers = {}

(* An open store writes to the sidecars it identified: no other close, and no   *)
(* other open, has removed or replaced them.                                *)
OpenStoreIsAnchored == \A w \in Writers : pc[w] = "open" => AnchorValid(w) /\ w \in conn

(* The schema is made once: a store that counted no object is the only one      *)
(* that could make any.                                                    *)
SchemaMadeOnce == \A w \in Writers : count[w] = "empty" /\ pc[w] = "create" => schema = "empty"

(* Open and OpenReader return although a Reader may keep the startup lock for   *)
(* ever: waitForFileLock gives up.                                         *)
OpenReturns ==
    /\ \A w \in Writers : pc[w] = "lock" ~> pc[w] \in {"open", "idle"}
    /\ \A r \in Readers : pc[r] = "lock" ~> pc[r] \in {"open", "empty", "idle"}

(* What holds of the files after every step: their types, that an open store   *)
(* is anchored to the files it identified, and that one store makes the schema. *)
FilesInv == FilesTypeOK /\ OpenStoreIsAnchored /\ SchemaMadeOnce
=============================================================================
