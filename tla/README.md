# maniud in TLA+

maniud deploys one Compose service per file to Docker, Podman or containerd.  It
bootstraps a missing workload, adopts an unmanaged one, and upgrades a managed
one by stopping, renaming, recreating and removing containers, with a backup of
writable storage in between.  Every step goes through a SQLite journal so that a
process that dies is continued by the next one.  A daemon does the same for every
commit of a Git branch.  This directory holds the specifications of the program,
the TLC configurations that check them, and TLAPS proofs.

Run `tlc -config <cfg> <MC module>` here for the runs listed below, and
`tlapm <module>` for each of the proof modules: `JournalProofs`,
`StateFilesProofs`, `ApplyProofs`, `PublicationProofs`, `GitOpsProofs`,
`NotificationsProofs`, `RuntimesProofs`, `ImagesProofs`.

## 1. Inventory

| Component | Source | State | Operations | Modelled in |
|---|---|---|---|---|
| Service lock, writer lease | `internal/store/{service_lock,operation_lock,writer_lease,writer_fence}_unix.go` | flocks on two files, `writer_leases` rows | lock, lease, fence, release, close | `ServiceLock` |
| State journal | `internal/store/{journal_*,applied_service,backup_index*}_unix.go` | four tables | begin, set state, record, mark, complete, commit, reindex | `Journal` |
| Database files, schema | `internal/store/{store,schema,files_unix,reader_unix}.go` | lock file, database, log, shared memory | open, make the schema, read, close | `StateFiles` |
| Apply | `internal/application` | the process's position in a journey | plan, bind, effects, bootstrap, adopt, upgrade, restore | `Apply` |
| Backup publication | `internal/backup/{publish,open,filesystem}_unix.go` | partial and complete directories | stage, sync, rename, verify, open | `Publication`, contract `BackupSlot` |
| Docker and Podman plugins | `plugins/runtime/{docker,podman}` | containers and images of an engine | create, start, stop, rename, remove, discard, probe; pull, save | `EngineRuntime`, `RuntimeImages` |
| containerd plugin | `plugins/runtime/containerd` | lease, snapshot, state directory, volumes, namespace, network, task, record | the same, part by part | `ContainerdRuntime`, `Registry` |
| GitOps daemon | `internal/cli/{daemon*,gitops*,git_*,interrupt}.go` | checkout, registration, daemon lease, cycle | init, start, stop, recover, fetch, fast-forward, apply | `DaemonControl`, `GitOps` |
| Notifications | `internal/notification`, `internal/cli/notification_*.go` | a bounded queue and a worker per target, a diagnostic sink | publish, send, record, stop, drain | `Notifications` |
| Registry client | `internal/registry` | none | resolve index, manifest, config | `Registry` |
| Image archives | `internal/imagearchive` | a file read in passes, a spool | select, cross-check, verify | `ImageArchive` |
| Command line | `internal/cli` | none | `gen`, `apply`, `doctor --reindex-backups` | `Images`, `GitOps`, `Journal` |
| Compose, containerconfig, custombuild, domain | several | none | parse, normalise, digest | not modelled |

How they interact.  `apply` (or the daemon) prepares a plan from the Compose
file, the journal and one observation of the runtime, takes the `ServiceLock`,
prepares again under it, begins or resumes a transaction, and runs its stages.
Each stage is one effect: *record the intent, mark the outcome unknown, send the
request, probe, complete*, each a fenced write or a runtime call.  The runtime
plugins turn a request into one or several calls of an engine; the backup stage
publishes a directory.  `doctor` rebuilds the backup index under the exclusive
operation lock.  Both publish events to the notification dispatcher, which must
never hold them up, and close it before the process ends.

```
          GitOps --extends--> DaemonControl
             | an apply is one step
           Apply  --relies on--> WorkloadContract <--implemented by-- RuntimePlugins
             |                                             (EngineRuntime, ContainerdRuntime,
             |                                              both over Runtimes)
             | writes                 relies on--> BackupSlot <--implemented by-- Publication
          Journal --extends--> ServiceLock
             | lives in
         StateFiles

     Images --> RuntimeImages --> ImageArchive --> Registry          Notifications
```

What is hard here: processes that die between any two steps; requests that time
out and are carried out later; probes that fail; rows completed by a process that
no longer exists; lock files replaced under a holder; files that are renamed
before they are on disk; tags, names, files and checkouts that others move while
they are read; and that every interrupted transaction should still come to an
end.  `PROJECT.json` lists these under `hazards`, each at its line.

What makes each part correct: at most one writer per service, in epoch order;
tables that the next open accepts; a runtime the journal always explains; a
predecessor that is never given up before its replacement is proved; a failed
transaction that left the service as it was; recovery that ends; a backup that
is whole or absent; plugins whose answers were true; one commit applied or none;
one image taken for one image; notifications that are delivered or counted, and
that nobody waits for.

## 2. Modules

### ServiceLock
`session[p]` is what a process holds, in the stages of `openServiceLockWith`
(`shared`, `flocked`, `leased`, `open`, `closing`) or of `LockBackupIndex`
(`indexing`, `scanned`).  A flock belongs to an inode: `entry[s]` and `opEntry`
count the replacements of a lock file, and `Valid` compares.  `lease[s]` is the
`writer_leases` row.  One action per system call or statement that another
process can come between.  `Crash` frees the flocks and leaves the lease's owner.
Owners are random in the code and may collide in the model.  A replaced lock
file never gets its old inode back.

### Journal
Extends `ServiceLock` by the four tables, the backup directory (`disk`) and the
rebuild's scan.  Every mutation is `FencedWrite` plus the statement: SQLite's
`BEGIN IMMEDIATE` makes fence and statement one step.  The client is the most
general one, so the results hold for any program over the store.  Calls the
store refuses roll back and are no steps.  `lastWrite` is a history variable.
`PublishBackup` is not fenced, as in the code.

### StateFiles
The lock file, the database and its two sidecars, each call of `Open`, `Close`,
`OpenReader` and `Reader.Close` cut where another process can see the files.  A
store holds the startup lock only while it opens, a Reader for its whole life.
`known[x]` is the pair of inodes a process identified, `version` and `stored`
tell what was committed from what is in the database file itself.  SQLite is
external: it makes missing sidecars when it connects, and the last close copies
the log into the database and removes the shared memory, then the log.  Inode
numbers are used again.

### Apply
One service, one process at a time (the lock of `ServiceLock` makes it alone),
any number of runs of it.  Durable state: the applied row, the transaction, the
row of each action kind, the backup.  A row is `absent`, `intent`, `unknown` or
completed with what its postcondition digest says: `satisfied`, `unsatisfied`
(seen in the state before) or `missing`.  Runtime state: the predecessor `pred`
(by name and lifecycle), the replacement `repl` (found by the transaction's
label), the image, and `late`, the requests whose caller has given up.  When a new
transaction is planned, what is still late becomes `stale` (`Supersede`): a request
of a failed upgrade names the predecessor by ID, and nothing in the code keeps it
from arriving in the next one.  `strayed` are the kinds of those that have changed
the predecessor since the plan, `stray` is a container that such a create made.
Process: program counter `at`, the `stage`, what it is about to write (`post`), the
storage it observed and the archives it holds in memory.

`EffectProbe`, `Requested`, `PredAfter` and `ReplAfter` are the Docker plugin:
what a probe answers, what a request needs to be sent, what it changes.
`Following`, `Advance` and `Failure` are the stage lists of `runUpgrade`,
`runBootstrap` and `runRestore` and their error paths.  The five `SettleCompleted…`
actions are what a later run makes of a row that is already completed: trusting
it, probing again, or capturing the archives again.

Storage is `none`, `shared` (the replacement mounts the predecessor's volume) or
`private` (its own); its content is a version number, so that a backup can be
compared with what was in the volume when it was taken.

Abstractions: intent digests are compared by the storage they were computed
from; all mounts of a service are one content, so a partly restored storage is
just not the backup; images are registry images; `late` and `stale` are sets, so
requests of one kind that are under way late count as one.

### Publication and BackupSlot
`Publication` is `Publish` and `Open` system call by system call: the root, a
private directory of a random name, the archives and then the manifest, an fsync
of each file and of the directory, `renameat2` without replacement, an fsync of
the root, the verification of a name that was taken, and the cleanup.  Beside
what processes see, every entry has the *set* of states a power loss could leave
it in; an fsync makes the set smaller, and `PowerLoss` chooses.  Publishers may
die, calls may fail, and others may replace or chmod the root or spoil a file.
Two publishers of one transaction exist when a lock file was replaced.  The entry
of a root is `saved`, `open` while its maker has yet to force it to disk, or
`orphaned` when the maker died or failed before; who finds the root there does not
force it again.  `Shapes` are the classes of manifests that
`matchingBackupPublication` takes for each other (same base transaction, as many
archives).

`BackupSlot` is the promise: the place is empty or holds one complete backup, the
first one wins, and a publisher is told its backup is there only when it is.
`ImplementsBackupSlot` is the refinement, with `slot` mapped to what a reader of
the root would find.

### Runtimes, EngineRuntime, ContainerdRuntime, RuntimePlugins, WorkloadContract
`Runtimes` is the host: three container identities with name, owner, lifecycle
and parts, one client in one call, `wire` with the requests that are carried out
after their caller gave up, restart policies, exits, and the hands of others.
`EngineRuntime` is Docker and Podman, where a call is a few HTTP requests:
inspect by name, inspect by label, act on the identity found.
`ContainerdRuntime` is containerd, where the plugin makes and removes lease,
snapshot, state directory, volumes, namespace, network, task and record itself
(`mk.*`, `cl.*`, `start.*`, `stop.*`, `rm.*` are the steps of the backend methods).
Every workload has a volume, which a creation refuses to find and its cleanup
removes only if the creation made it; the state directory may be there before.
`wire` is a set: any number of requests may be late, equal ones count as one.  With
containerd only `tasks.Start` and `tasks.Kill` are carried out late; a late
`containers.Create` or `containers.Update` is left out.
`RuntimePlugins` puts them behind one client that makes any call at any time.
`marks` are history variables that say why a property makes an exception.

`WorkloadContract` is what `Apply` relies on: a workload changes only as an
unsettled request asks for, by itself, or by foreign hands; a success has had
its effect; an answer of a probe was true at some moment of it.
`ImplementsWorkloadContract` is the refinement: several requests per call, with
anything in between, implement the one-step calls of the contract.

### DaemonControl and GitOps
`DaemonControl` is `daemon start` and `daemon stop` around the flock and the
process ID in `daemon.lock`, with SIGUSR1, SIGINT and SIGTERM at every point of a
process's life.  `GitOps` extends it by the checkout, its registration, the
remote branch, and per service the deployed version and the unresolved
transaction with its maker.  One cycle: capture the commit, recover its
unresolved transactions, fetch, fast-forward, capture again, apply every file.
`gitops init` reads the checkout, looks at it a second time (`ProveCheckout`) and
registers the commit it read first.  A reconcile reads the list of service files
once and then one file after the other.  A merge may move HEAD although the worktree
turns out not to be clean afterwards.
People push, pull, edit the worktree and apply by hand.  git is external: a
commit is an ancestor of another when every set of commits that is closed under
parents and has the second has the first.  An apply is one or two steps
(interrupted or not), its inside is `Apply`.

### Registry, ImageArchive, RuntimeImages, Images
Content is addressed by digest: a digest stands for its bytes and `Document[d]`
is what they say.  `Registry` resolves a reference to one platform's image,
document by document, from a registry or from containerd's records and content
store.  `ImageArchive` analyses a Docker archive: selection, the checks between
`manifest.json`, config, layers and `index.json`, and the identity checks around
the passes.  `RuntimeImages` is pull, probe and save of Docker (either image
store), Podman and containerd, the user lookup and the spool.  `Images` is the
commands over them and what others do meanwhile.  An image has two names, the
pinned and the tagged one: `held` says that during the current probe the runtime
had the whole image under one of them at one moment, `lacked` which of the names
have failed to lead to it at some moment.  What others do to containerd's content
store during a command is to take documents out of it; that they add some is left
out.  Analysed archives are of one of the two
supported platforms, which differ in nothing else.

### Notifications
`call[p]` is where a publisher stands in `TryPublish` (in the loop that queues,
or in `dropAll`, and at which target), `queue`, `closed` and `worker` are a
target's channel and goroutine, `closer` is where `processNotifications.Close`
stands.  The publishers in the queueing loop are the readers of the mutex;
`stopWaits` lasts from the call of `Lock` to `Unlock`, during which `TryRLock`
fails.  `Send` and `RecordResult` are two steps, because the context may be
cancelled in between.  `sent`, `settled` and `cut` are history variables.  The
deliveries are attempted once: the code has no retry.  The commands publish from
one goroutine; the model allows several, as the `EventSink` contract does.

Operators marked *Mutant* are deliberately wrong forms of the definition that
follows them; `PROJECT.json` names the property each one breaks.

## 3. Runs

| Run | Bounds | Checks |
|---|---|---|
| `journal_rows` | 1 process that reopens once, 2 transactions, 2 actions, 2 workloads, 2 digests | `JournalValid`, `AppliedFollowsBase`, `SettledForGood` |
| `journal_fence` | 2 processes, 3 epochs, 2 inodes per lock file, 2 transactions | `OneLeaseHolder`, `EpochOrderedWrites`, `IndexKeepsBackups` |
| `apply_faults` | all scenarios, no storage, 6 faults, every request but stop may be late | `ApplyInv` (types, `JournalExplainsRuntime`, `RemovedAfterProof`), `FailedMeansRestored`, `SucceededMeansDeployed` |
| `apply_storage` | upgrade, all storages, 3 versions of the content, 5 faults, every request may be late, both containers may exit | `StartsOnRestoredContent`, `NeverBothRunning` |
| `apply_recovery` | all scenarios, no storage, 5 faults, fairness | `ServiceSurvives`, `WedgedIsExact`, `ApplyReturns` |
| `apply_rename` | upgrade, one fault, fairness | `RecoveryEnds`, which fails |
| `publication` | 2 publishers, 2 manifests, 1 archive, 3 directories, 2 roots, 1 failed call, 1 disaster | `PublicationInv` (types, `FinalSurvivesWhole`, `LeftoversExplained`), `PublishedIsDurable`, `ImplementsBackupSlot` |
| `state_files` | 2 stores, 1 Reader, 3 inodes, 5 opens, 2 commits, 1 crash, fairness | `FilesInv` (types, `OpenStoreIsAnchored`, `SchemaMadeOnce`), `ImmutableReaderIsCurrent`, `OpenReturns` |
| `runtimes` | each plugin, predecessor and replacement, 1 fault, 1 foreign change, fairness | `RuntimesInv` (types, `RemovedWhileRunning`, `OnlyCreationsLeak`, `RunningIsConnected`), `StopHolds`, `ImplementsWorkloadContract`, `ForeignUntouched`, `CallsReturn` |
| `gitops` | 4 commits, 2 services, 2 daemon processes, 1 push, 1 fault, fairness | `GitOpsInv` (types, `RegisteredIsWhole`, `OpenIsAtHead`, `StoppedIsTrue`), `AppliesOneGoodCommit`, `StopKillsNoHolder`, `StopHonoured`, `Converges` |
| `images` | 4 runtimes, 2 moves of a tag, name, blob or file, 1 failed answer, fairness | `ImagesInv` (types, `ResolvedIsOneImage`), `AnalysisIsOneImage`, `AnswersAreProved`, `UserIsOfTheImage`, `CommandsReturn` |
| `notifications` | 2 publishers, 2 events, 2 targets of which one never has to answer, buffers of 1, fairness | `NoSendOnClosed`, `EveryEventAccounted`, `PublisherOrderKept`, `NobodyWaits`, `TargetsIsolated` |

**Bounds.**  Two processes suffice to interleave, and a replaced lock file lets
one overtake the other.  Two transactions give a base and an upgrade of it, or a
failed and a fresh one.  A fault of `Apply` is a crash, a failed call, a late
request or an exit; six are enough to break an upgrade, break its restore, and
break the run after that; five are enough for an upgrade that fails with a
restore's start under way and a second one that this start meets.  Two publishers of a backup with one archive have
every order of stage, rename and verification; a third directory is the retry
after a crash.  The two manifests of that run do not match each other; the proofs
are for any `Shapes`.  Five opens let a store open, close and open again beside another
store and a Reader, so that an inode number is used twice.  With one fault and
one foreign change a runtime call meets each failure at each of its requests,
with every rename, removal or restart in between; the client goes on calling for
ever, so what one fault leaves is met by every later call.  The commits are an
empty root, one service, two services, and a forced push beside the last with a
file that does not load.  The origin starts at
any of them and moves once, so that a daemon meets a push while it recovers,
captures or merges.  Two moves change a
tag and change it back.  The documents of `images` have an index of two platforms,
one that lists a manifest twice, one whose entry lies about its platform, and
manifests that are tagged themselves.  Two events fill a buffer of one and overtake each other
if anything can.

**Exceptions the properties make**, each because the code cannot do better or
does not:
`FailedMeansRestored` needs the absence of a late stop: a stop that timed out is
probed as not having happened, the transaction fails, and the stop arrives.
`ServiceSurvives` needs the absence of a late remove, for the same reason.
`NeverBothRunning`, `RemovedAfterProof`, `JournalExplainsRuntime` and the second half
of `StartsOnRestoredContent` except what a request of an *earlier, failed* upgrade
does to the predecessor in this one: its restore's start, its removal, its stop.
`PublishedIsDurable` says of the root that it is on disk unless its maker, another
publisher, died, failed or is still on the way.  The
predecessor exiting by itself is left out of `apply_faults` because the journal
does not claim to explain it.  `RunningIsConnected` leaves out a task started by
a late request or by the restart monitor, `RemovedWhileRunning` a task the
monitor made in the middle of a removal.  `OpenIsAtHead` speaks of transactions
a daemon left and of a checkout nobody moved by hand.  `Converges` speaks of a
daemon that keeps running.  `OkMeansHeld` leaves out a `gen` that never asks the
runtime: of an archive, or on containerd when no user is needed.

Deadlock is checked in the two journal runs.  Elsewhere the system may stop: a
settled service has nothing to do, a dispatcher is closed, the bounds on opens,
pushes and directories are used up, and a refusal that writes nothing is no step.

**Fairness.**  `Apply`: the process takes its next step and an interrupted apply
is run again (the daemon restarts its cycle; `docs/recovery.md` asks the operator
to), the runtime finishes what it accepted; crashes and faults are finitely many.
`Notifications`: a goroutine that can run does (`TryPublish`, `Close`, the workers
of `Responsive` targets, whose requests carry a timeout of 5 s) and the deadline
of `Close` passes; nothing is assumed of the other targets or of the writer of
stderr.  `StateFiles`: calls in progress go on; no process has to open, write or
close, so a Reader may keep the startup lock for ever.  `RuntimePlugins`: every
request is answered, fails or meets its deadline.  `GitOps`: a daemon goes on,
because each command it waits for has a timeout, and an apply by hand ends.
`Images`: a command goes on, because requests have deadlines and files are
finite; nothing is assumed of a pull stream.  All of it is weak fairness of the
program's own steps.

### What the code does differently from what is written

`apply_rename` checks one disagreement: a rename that was marked and not carried
out can be neither probed nor repeated, because its probe is an error while the
old name is in use.  One crash between the mark and the request blocks the
service for good, although `docs/recovery.md` says to run `apply` again.

`Wedged` lists every state without storage that no apply leads out of.
`WedgedIsExact` shows that the list is complete and that none of its states is
ever left, within the bounds and without late requests (a late start can revive
an exited replacement).

The following were met while modelling.  They are part of the models, or are
left out where it says so, and no run is about them alone.

*Apply.*
* A probe that fails while a completed create is verified degrades the upgrade,
  because the recorded digest is returned with the error (`bootstrap.go:365`);
  `docs/recovery.md:22` says that maniud stops and preserves the operation.
* An upgrade resumed after its stop repeats the capacity check; an error there
  fails the transaction with the predecessor stopped (`storage_capacity.go:30`).
* Archives are captured before the stop, so the backup may miss what the workload
  wrote in between (`storage_inventory.go:131`; `publish_unix.go:22`).
* An upgrade degraded because its backup was not published cannot be restored,
  because restore demands that backup (`restore.go:418`).
* A request of an upgrade that has failed may arrive in the next one.  A restore's
  start that was given up on starts the predecessor beside the new replacement, and
  writes to a shared volume after the proof of its content; a removal takes the
  predecessor before the replacement is proved; a create makes a container with the
  label of a transaction that nobody continues (`mutation.go:113` looks at the
  journal alone).
* An adopted workload has no ownership labels, so its archives cannot be read and
  it cannot be upgraded when it has writable storage; not in the model.

*Backups and files.*
* `Open`, and the probe of the backup effect, acknowledge a backup whose publisher
  died before the fsync of the root; a power loss can take it back
  (`open_unix.go:22`).
* `Publish` forces the entry of the backup root to disk only in the call that made
  the root (`filesystem_unix.go:82`).  If that publisher dies or fails before the
  fsync, or is still on its way to it, another one returns a backup that a power loss
  may take with the whole root; `publish_unix.go:29` promises that it is durably
  complete.  Without that case, what `Publish` returned is durable.
* `Open` reports a root that is not private as absent, where its comment promises
  to fail closed (`open_unix.go:19`).
* `Open` of the store answers `ErrInvalidState` when the last `Close` of another
  process removes the sidecars it has just identified (`store.go:66`); a second
  try succeeds.

*Runtimes.*
* A containerd start whose answer was lost is carried out after the network was
  taken away; the probe reports the container as started
  (`workload_effect.go:80`).
* A creation that was interrupted leaves a lease, a snapshot or volumes that
  make later creations fail (`workload_create.go:70`, `workload_mount.go:52`).
* A discard, or a restart, interrupted between its parts leaves a workload that
  every later call answers with `ErrProtocol` (`workload_task.go:69`).
* The restart monitor may start a task while it is removed.
* A creation whose record cannot be deleted again removes the snapshot and the
  namespace nevertheless (`workload_create.go:255`), which takes two failures: the
  workload then counts as being removed, which the contract permits.

*GitOps.*
* A failed fetch counts as an invalid repository, which is not retryable, and ends
  the daemon (`git_process.go`, `daemon.go:146`).
* `daemon stop` holds the lease while it probes it; a daemon started at that
  moment reports that one is running.  The process ID of a dead daemon stays in
  the file until the next one writes its own.
* A stop request during the wait between two cycles is honoured after one more
  cycle.
* An apply or a pull by hand between recovery and fast-forward leaves a
  transaction the daemon cannot continue.
* A change of the checkout that is undone before the second look at HEAD is not
  noticed, two `gitops init` at once share the temporary file of the registration,
  and a directory left by an init that died is not reused; the first two are not
  in the model.

*Images.*
* Podman refuses for good an image whose platform manifest is named by two indexes
  (`podman/image.go:162`); Docker's classic store cannot prove a multi-platform
  reference, because it keeps only the index digest or only the manifest.
* A pull stream cut at a frame boundary ends cleanly; only the probe after it
  tells.
* A file rewritten within one change time, with its size and inode kept, is not
  noticed; not in the model.
* A killed process leaves its spool.
* containerd's two names are looked up one after the other.  If the image moves from
  one to the other in between, the probe says missing although the image was always
  there under one of them; each name was without it at some moment.
* The image proved for a tag may be another one by the time the container is made.

## 4. Proofs

`JournalProofs` proves, for every value of the constants that satisfies the
modules' assumptions (`None` is no other value, the bounds are positive naturals):

* `LockInvariant`: `LockSpec => []LockInv`; from it `OneLeaseHolderTheorem`,
  `LockHolderOwnsLeaseTheorem`, `IndexExcludesWritersTheorem`;
* `JournalInvariant`: `Spec => []JournalInv`; from it `TypeCorrect`,
  `JournalStaysValid`, and the action properties `WritesInEpochOrder`,
  `BackupsStayIndexed`, `BaselineMovesAlongBases`, `SettledTheorem`.

The argument.  `OneLeaseHolder` alone is not inductive: that two holders differ
in epoch needs that an epoch is handed out once (`EpochsDistinct`), which needs
that no session is ahead of its lease row (`SessionsNamed`).
`LockHolderOwnsLease` needs that a flock has one holder per inode
(`FlockExclusive`), because only a flock holder can advance the epoch; and
`IndexExcludesWriters` the same of the operation lock (`OperationExclusive`).
`JournalValid` needs `LockInv` for the fence, and is otherwise close to
inductive because it is what the store's predicates maintain together:
`UnresolvedOnBaseline` is kept by a commit only because `OneUnresolved` says
there is no other unresolved transaction on the same baseline.
`IndexKeepsBackups` needs `ScanCoversIndex`: while a rebuild's operation lock is
valid nobody can commit, so what it scanned still covers the index.
Every proof has one step per action and cites one lemma per conjunct.

`NotificationsProofs` proves, for any finite set of publishers and any targets,
events and positive buffer sizes, `NotificationsInvariant` and from it
`NotificationsTypeCorrect`, `NoSendOnClosedTheorem`, `GivesUpTheorem` and
`SinkOutlivesTheorem`.  The invariant follows the phases of `Close`: before `Stop`
nothing is closed, from `Stop` on there is no reader, a finished worker has an
empty closed channel, and a cancelled context means that all workers are finished
or the deadline has passed.  `PublisherOrderTheorem` adds `OrderInv`: a publisher
that has yet to offer its event to a target carries a higher number than all its
events there.  `AccountedTheorem` proves `EveryEventAccounted`: a publisher that
steps past a target leaves the finite set of those ahead of it, which gets smaller
by one, and what the target holds or has dropped gets larger by one.

`StateFilesProofs` proves, for any stores and Readers (a process is one or the
other: `ProcessAssumption`), `FilesTheorem`, `ImmutableReaderTheorem` and the
action property `SidecarsPinnedTheorem`.  The invariant `StateFilesInv` adds what
the two statements rest on: the startup lock excludes (`StartupLock`); a
connection means that both sidecars exist and that no close is between its two
removals (`Connections`); and without a log the database file has everything
(`LogIsStored`), which is why a Reader that found no sidecars may read it as
immutable: the lock it keeps lets no store connect.

`PublicationProofs` proves, for any finite set of publishers, any archives,
directories, roots, failures and disasters, `PublicationTheorem`,
`PublishedTheorem`, `FinalTheorem`, and the refinement `PublicationImplementsSlot`.
`PublicationIInv` says, for every point of `Publish`, what its directory may look
like after a power loss: before the fsync of the directory each closed file may be
missing (`StagedFiles`), from the rename on none may, and so a directory of the
final name has exactly one content on disk (`DirectoryOK`) and there is one per
root (`OneFinal`).  `PublishedTheorem` adds `RootsMade`: a root in use is saved, or
its maker did not get that far or is still at it.  The refinement is a step simulation: the initial states map to
an empty slot, the rename fills it, the disasters may empty or spoil it, a return
or a probe answers, and every other step is a stutter.  That publishers are
finitely many is used to count the leftovers a dead one may have made.

`ApplyProofs` proves about `Apply`, for any bounds, storages, late requests and
exits, `NeverBothRunningTheorem`, `StartsTheorem` and `SucceededTheorem`.  Three
more have a hypothesis on the constants, the one the run of the property has too
and the exceptions above explain: `ExplainedTheorem` that the predecessor does not
exit by itself, `SurvivesTheorem` that no removal is carried out late,
`FailedTheorem` (`Steady`) that there is no storage, no late stop and no such exit.
None of the properties is inductive.  `ApplyIInv` has two halves.  `Static` relates
the journal and the runtime: which rows may exist together (`TxOK`, `RowsOK`), that
whatever the runtime shows was at least marked as sent, or comes from an earlier
transaction (`ExplainedOK`), what may be left of such (`EarlierOK`: never a rename,
whose row is not completed before it has happened), who has the name (`NamesOK`), and what a completed row says of the containers for as long as no
later row undoes it (`LivesOK`, `StorageOK`).  `Moving` says what the process knows
at each of its points: `AnswerOK`, that the answer it is about to write is still
true, although late requests, exits and the other container's steps come between
the probe and the write; `SourcesOK`, what it observed of the storage.  The proof
goes action by action, with lemmas on what a probe answers and a request changes.

`GitOpsProofs` proves about `GitOps` over `DaemonControl`, for any commit graph,
services, daemons, pushes and faults, `GitOpsTheorem`, `OneGoodCommitTheorem`,
`OneDaemonPolls` and the action property `StopKillsNoHolderTheorem`.  It assumes
that services are listed once (`ServicesAssumption`; the file names of a
directory), that no commit precedes itself (`HistoryAssumption`; a commit names its
parent by hash), and that process IDs are no other values of the models
(`ProcessesAssumption`, `HandAssumption`).  `LeaseInv` ties the flock to the phases
of a daemon and says that the process ID in the file, and the one the stop command
read, belong to a daemon that listens or is already past its lease.  `RepoInv` is
what `gitops init` has done, and that the commit it read is behind HEAD until it is
registered.  `WorkInv` says of every reconcile where it stands in
its list, that the files it has read are those of its commit while HEAD has not
moved, and that what it has passed in its recovery has no transaction a
fast-forward would leave behind; with it `OpenInv`, that a daemon's transaction is
of the commit checked out, survives the fast-forward.  That ancestry is
antisymmetric is needed there: a checkout that is fast-forwarded both ways has not
moved.

`RuntimesProofs` proves about `RuntimePlugins`, for any linked plugins, any scopes
and any number of faults and foreign changes, `RuntimesTheorem`,
`StopHoldsTheorem` and the action property `ForeignUntouchedTheorem`.  The model has
three containers (`Ids`), which is no parameter.  The properties are not inductive,
because a plugin looks first and acts later.  `RuntimesIInv` has a part for all
containers (`BoxOK`: others own only what they made, what has no record has no task
the monitor did not make, a stopped workload is not to be restarted; `Connected`;
`LeakOK`), and one for the call in progress.  With containerd the latter says, step
by step, what is still true of the container: which parts a creation can have made
(`CreateCall`), that a start has its network and, if it found none, nothing runs on
it (`StartCall`), that the monitor was told before the task is signalled
(`StopCall`), that the parts a removal has passed are gone (`RemoveCall`).  With
Docker and Podman it says that the IDs the client and a late request hold are ours
(`EngineCall`, `RequestOK`), whoever has the name by now.  Each step of a containerd
call is a `SubjectStep`, which changes the call's container only; `BoxStep` covers
what happens to a container beside the call: exits, the monitor, others, late
requests, the garbage collector.  That a
`SubjectStep` preserves the invariant is proved once (`SubjectStepOK`); one lemma
per action shows that it is one.

The second half of `RuntimesProofs` is the refinement, `ContractTheorem`:
`RuntimesSpec => ImplementsWorkloadContract`, for all three plugins.  It needs more
than `RuntimesIInv`, because the contract is about what a call *answers*, and an
answer rests on requests made several steps before.  `ContractIInv` adds four things.
`Places`: which container may belong to whom, and that a record has lost its snapshot
or namespace only after its task, or with one the monitor made.  `NamesApart` and
`NamedApp`: an engine gives a name once, and the replacement has the name it was made
with until foreign hands rename it.  `EngineRead` and `ReadSoFar`: what the call holds
of an earlier read was true at some moment since it began, so it is in `seen`; what
was not read is not claimed.  `Finds`: which parts of its container each step of a
containerd call finds, without which a late start or a removal would show a workload
in a life the contract does not let it go to.  `ViewStep` then gives the contract's
view after one container changed (`LooksApart`: no two workloads of a subject look the
same), `EffectStep` and `WorldStep` turn that into a step of the contract, and `GoStep`
and `ReturnStep` add the call.  There is one lemma per request of a call, `ClientMove`
being what a containerd request has to show and `CarriedFor` what an engine does with
one, whether somebody still waits for it or not.  With two failures the model showed,
before the proof did, that a creation may leave its record without its snapshot; the
contract says so now (`Permits`).

`ImagesProofs` proves about `Images`, for any documents, archives, selectors, runtimes
and any number of moves and faults, `ResolutionTheorem`, `AnalysisTheorem`,
`AnswersTheorem` and `UserTheorem`.  The assumptions are about well-formed constants:
every digest has a document of one of the four kinds (`DocumentAssumption`), an archive
has its five fields and finitely many index entries (`ArchiveAssumption`).  The
invariant `ImagesIInv` says of a resolution that it holds one top digest its source
named, and that manifest, config and layers are functions of that digest (`LookInv`);
of an analysis that, as long as the identity it saw before it opened the file is the
file's identity now, all its passes read one content, and which checks that content has
passed (`JobInv`); of a probe that the history has noted what the runtime held or
lacked at each of its requests (`HistoryInv`, `ObservedInv`, `AbsenceInv`); of
containerd's probe, which reads a graph document by document, that once everything it
has yet to read is there, the image was whole when its record was read, because
content is only taken away during a command (`PresenceInv`); of the user lookup that what was read
from the saved image is the config's user whatever the name points to (`UserInv`).

`TypeCorrect`, `LockHolderOwnsLeaseTheorem`, `IndexExcludesWritersTheorem`,
`NotificationsTypeCorrect`, `GivesUpTheorem`, `SinkOutlivesTheorem`,
`SidecarsPinnedTheorem` and `OneDaemonPolls` state properties that no run repeats:
the proofs cover every instance.

Only model-checked: liveness (`WedgedIsExact`, `ApplyReturns`, `OpenReturns`,
`CallsReturn`, `StopHonoured`, `Converges`, `CommandsReturn`, `NobodyWaits`,
`TargetsIsolated`), because temporal reasoning with fairness is beyond the prover.
Every invariant, action property and refinement that a passing run checks is a theorem,
three of them with the hypotheses named above.

## 5. Not modelled

Left out for good: HTTP, SSH and endpoint negotiation, JSON and tar parsing,
Compose normalisation, the container configuration and its comparison, the
custom builder, reading `/etc/passwd` out of layers, diagnostics, rendering and
generated text, digests as bytes, capacity arithmetic.  They are sequential
conversions without protocol state; where another part depends on their result,
the model has the result (a file loads or not, a configuration matches or not,
two digests are equal or not).  Preparation of replacement bind directories and
the contents of evidence enter only through equality.
