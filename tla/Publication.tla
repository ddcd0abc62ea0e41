---------------------------- MODULE Publication ----------------------------
(***************************************************************************)
(* The publication of the backup of one transaction: Publish and Open of    *)
(* src/internal/backup, called by the backup effect of                      *)
(* src/internal/application/storage_backup.go.                              *)
(*                                                                         *)
(* A publisher stages the archives and then the manifest in a private        *)
(* directory of a random name, forces each file and the directory to disk,   *)
(* and renames the directory to the name of the transaction unless that name *)
(* is taken.  Beside what the processes see, the model keeps what a power    *)
(* loss may leave: every entry has the set of the states in which it could   *)
(* be found, and an fsync makes that set smaller.                           *)
(*                                                                         *)
(* A directory is known by its number, as the code knows it by device and     *)
(* inode; modes, owners and link counts are the Boolean "private".           *)
(***************************************************************************)
EXTENDS Naturals, FiniteSets

CONSTANTS
    Publishers,     \* processes: a service lock whose file is replaced admits two
    Manifests,      \* the manifests they offer: token, time and archive digests
    Shapes,         \* their classes of one base transaction and number of archives
    NoBackup,       \* not a manifest
    ArtifactCount,  \* archives of the backup
    MaxDirectories, \* bound on the runs of the effect, each with a directory
    MaxRoots,       \* bound on the directories the backup root path has named
    MaxFailures,    \* bound on failed system calls and refused streams
    MaxDisasters,   \* bound on crashes, power losses and foreign changes
    Disasters       \* the disasters that happen

ASSUME ArtifactAssumption == ArtifactCount \in Nat \ {0}
ASSUME BoundAssumption == /\ MaxDirectories \in Nat
                          /\ MaxRoots \in Nat \ {0}
                          /\ MaxFailures \in Nat
                          /\ MaxDisasters \in Nat
ASSUME PublisherAssumption == IsFiniteSet(Publishers)
ASSUME ManifestAssumption == NoBackup \notin Manifests
ASSUME ShapeAssumption == UNION Shapes = Manifests
ASSUME DisasterAssumption ==
    Disasters \subseteq {"crash", "power", "replace", "chmod", "spoil"}

(* The archives in the order of the manifest, then manifest.json.            *)
Files    == 1 .. ArtifactCount + 1
Manifest == ArtifactCount + 1

Directories == 1 .. MaxDirectories
Roots       == 1 .. MaxRoots

Names    == {"none", "partial", "final"}
Contents == {"none", "torn", "whole", "foreign"}

(* The entry of a root: its maker has yet to force it to disk, gave up or died   *)
(* before it did, or has done so.                                           *)
EntryStates == {"open", "orphaned", "saved"}

Points == {"idle", "open", "root", "parent", "capacity", "mkdir", "create", "write",
           "fsync", "sync", "rename", "settle", "verify", "clean", "rmdir", "probe"}

VARIABLES
    root,       \* the directory at the backup root path, 0 if none; is it private?
    rootSaved,  \* rootSaved[g]: the entry of root g is on disk, will be, or may never be
    dir,        \* dir[d]: the partial or published directory number d
    pc,         \* pc[p]: where publisher p stands
    anchor,     \* anchor[p]: the root directory p holds open
    own,        \* own[p]: the partial directory of p
    entries,    \* entries[p]: how many files p created in it
    offer,      \* offer[p]: the manifest p publishes
    odd,        \* odd[p]: the archive whose stream is not what was inventoried, or 0
    verdict,    \* verdict[p]: what Publish returns, "none" as long as it is open
    probed,     \* probed[p]: what the effect's probe saw after Publish
    begun,      \* how often the effect was run
    failures,   \* system calls that failed and streams that were refused
    disasters   \* what happened to the processes and their files

files   == <<root, rootSaved, dir>>
process == <<pc, anchor, own, entries>>
request == <<offer, odd, verdict, probed>>
bounds  == <<begun, failures, disasters>>
vars    == <<files, process, request, bounds>>

NoDirectory == [at |-> 0, name |-> "none", names |-> {"none"}, of |-> NoBackup,
                file |-> [f \in Files |-> "none"],
                saved |-> [f \in Files |-> {"none"}]]

DirectoryType == [at : Roots \cup {0}, name : Names, names : SUBSET Names,
                  of : Manifests \cup {NoBackup},
                  file : [Files -> Contents], saved : [Files -> SUBSET Contents]]

PublicationTypeOK ==
    /\ root \in [at : Roots \cup {0}, private : BOOLEAN]
    /\ rootSaved \in [Roots -> EntryStates]
    /\ dir \in [Directories -> DirectoryType]
    /\ pc \in [Publishers -> Points]
    /\ anchor \in [Publishers -> Roots \cup {0}]
    /\ own \in [Publishers -> Directories \cup {0}]
    /\ entries \in [Publishers -> Files \cup {0}]
    /\ offer \in [Publishers -> Manifests \cup {NoBackup}]
    /\ odd \in [Publishers -> 0 .. ArtifactCount]
    /\ verdict \in [Publishers -> {"none", "published", "verified", "conflict",
                                   "unknown", "error"}]
    /\ probed \in [Publishers -> {"none", "found", "absent", "invalid"}]
    /\ begun \in 0 .. MaxDirectories
    /\ failures \in 0 .. MaxFailures
    /\ disasters \in 0 .. MaxDisasters

PublicationInit ==
    /\ root = [at |-> 0, private |-> TRUE]
    /\ rootSaved = [g \in Roots |-> "open"]
    /\ dir = [d \in Directories |-> NoDirectory]
    /\ pc = [p \in Publishers |-> "idle"]
    /\ anchor = [p \in Publishers |-> 0]
    /\ own = [p \in Publishers |-> 0]
    /\ entries = [p \in Publishers |-> 0]
    /\ offer = [p \in Publishers |-> NoBackup]
    /\ odd = [p \in Publishers |-> 0]
    /\ verdict = [p \in Publishers |-> "none"]
    /\ probed = [p \in Publishers |-> "none"]
    /\ begun = 0
    /\ failures = 0
    /\ disasters = 0

-----------------------------------------------------------------------------
(* directoryAnchor.valid: the descriptor and the path still name one private  *)
(* directory.                                                              *)
RootValid(p) == anchor[p] # 0 /\ root = [at |-> anchor[p], private |-> TRUE]

(* partialPublication.valid, and fileValid for the file just written: nobody  *)
(* but its owner touches a partial directory.                               *)
PartialValid(p) == RootValid(p) /\ own[p] # 0 /\ dir[own[p]].name = "partial"

(* The directory of the transaction's name in root g.                       *)
Finals(g) == {d \in Directories : dir[d].name = "final" /\ dir[d].at = g}

(* publicationNamesMatch and publicationContentsMatch                       *)
Complete(d) == \A f \in Files : dir[d].file[f] = "whole"

(* Open: absence is answered for a root that is missing or not private too.  *)
OpenResult == IF root.at = 0 \/ ~root.private \/ Finals(root.at) = {} THEN "absent"
              ELSE IF \E d \in Finals(root.at) : Complete(d) THEN "found"
              ELSE "invalid"

(* A directory with file f, or with the entry of the directory itself, changed. *)
WithFile(d, f, content, saved) == [d EXCEPT !.file[f] = content, !.saved[f] = saved]
WithName(d, name) == [d EXCEPT !.name = name, !.names = @ \cup {name}]

Goto(p, point) == pc' = [pc EXCEPT ![p] = point]

Succeeds == UNCHANGED bounds

(* A system call fails, the context is cancelled or a stream is refused.      *)
Fails == /\ failures < MaxFailures
         /\ failures' = failures + 1
         /\ UNCHANGED <<begun, disasters>>

(* Publish returns verdict v; the effect then probes.                       *)
Return(p, v) == /\ verdict' = [verdict EXCEPT ![p] = v]
                /\ Goto(p, "probe")

(* Mutant: Publish returns without the deferred cleanup.                      *)
AbandonKeeps(p, v) == Return(p, v)

(* The deferred cleanup of a publication that was not published.             *)
Abandon(p, v) == /\ verdict' = [verdict EXCEPT ![p] = v]
                 /\ Goto(p, "clean")

-----------------------------------------------------------------------------
(***************************************************************************)
(* The backup effect is run with a manifest and the archives in memory.  The  *)
(* number of the partial directory it may make is set aside here; its name is *)
(* random in the code, so no two have the same.                             *)
(***************************************************************************)
Begin(p) ==
    /\ pc[p] = "idle"
    /\ begun < MaxDirectories
    /\ begun' = begun + 1
    /\ \E m \in Manifests, o \in 0 .. ArtifactCount :
          /\ offer' = [offer EXCEPT ![p] = m]
          /\ odd' = [odd EXCEPT ![p] = o]
    /\ own' = [own EXCEPT ![p] = begun + 1]
    /\ verdict' = [verdict EXCEPT ![p] = "none"]
    /\ probed' = [probed EXCEPT ![p] = "none"]
    /\ anchor' = [anchor EXCEPT ![p] = 0]
    /\ entries' = [entries EXCEPT ![p] = 0]
    /\ Goto(p, "open")
    /\ UNCHANGED <<files, failures, disasters>>

(* Open and matchingBackupPublication: what is found has to be a backup of the  *)
(* same base transaction and of as many archives.  The effect then takes its    *)
(* manifest over, which is of the same shape.                               *)
EffectOpens(p) ==
    IF OpenResult = "found" /\ ~\E d \in Finals(root.at), s \in Shapes : {offer[p], dir[d].of} \subseteq s
    THEN "invalid" ELSE OpenResult

(* storageBackupEffect.Apply: nothing to do if it finds the backup, an error if  *)
(* what it finds is not valid or does not match, otherwise Publish.          *)
OpenFirst(p) ==
    /\ pc[p] = "open"
    /\ CASE EffectOpens(p) = "absent"  -> Goto(p, "root") /\ UNCHANGED verdict
         [] EffectOpens(p) = "found"   -> Goto(p, "probe") /\ UNCHANGED verdict
         [] EffectOpens(p) = "invalid" -> Return(p, "error")
    /\ UNCHANGED <<files, anchor, own, entries, offer, odd, probed, bounds>>

(* The directories no path, entry or descriptor names.                       *)
FreshRoots == {g \in Roots : /\ g # root.at
                             /\ \A d \in Directories : dir[d].at # g
                             /\ \A q \in Publishers : anchor[q] # g}

(* openBackupRoot makes the directory unless it exists; it must be private.    *)
OpenRoot(p) ==
    /\ pc[p] = "root"
    /\ \/ /\ root.at = 0
          /\ FreshRoots # {}
          /\ LET g == CHOOSE g \in FreshRoots : TRUE
             IN  /\ root' = [at |-> g, private |-> TRUE]
                 /\ rootSaved' = [rootSaved EXCEPT ![g] = "open"]
                 /\ anchor' = [anchor EXCEPT ![p] = g]
          /\ Goto(p, "parent")
          /\ UNCHANGED verdict
       \/ /\ root.at # 0 /\ root.private
          /\ anchor' = [anchor EXCEPT ![p] = root.at]
          /\ Goto(p, "capacity")
          /\ UNCHANGED <<root, rootSaved, verdict>>
       \/ /\ root.at # 0 /\ ~root.private
          /\ Return(p, "error")
          /\ UNCHANGED <<root, rootSaved, anchor>>
    /\ Succeeds
    /\ UNCHANGED <<dir, own, entries, offer, odd, probed>>

(* openBackupRootWithSync: only the publisher that made the root forces its      *)
(* entry to disk.  If that fails, or it dies first, nobody else will.        *)
SyncParent(p) ==
    /\ pc[p] = "parent"
    /\ \/ /\ Succeeds
          /\ rootSaved' = [rootSaved EXCEPT ![anchor[p]] = "saved"]
          /\ IF RootValid(p) THEN Goto(p, "capacity") /\ UNCHANGED verdict
                             ELSE Return(p, "error")
       \/ /\ Fails
          /\ rootSaved' = [rootSaved EXCEPT ![anchor[p]] = "orphaned"]
          /\ Return(p, "error")
    /\ UNCHANGED <<root, dir, anchor, own, entries, offer, odd, probed>>

(* validatePublicationCapacity: enough room, or not.                        *)
CheckCapacity(p) ==
    /\ pc[p] = "capacity"
    /\ \/ Succeeds /\ Goto(p, "mkdir") /\ UNCHANGED verdict
       \/ Fails /\ Return(p, "error")
    /\ UNCHANGED <<files, anchor, own, entries, offer, odd, probed>>

(***************************************************************************)
(* createPartial: a directory of a new name, opened and compared with its     *)
(* entry.  After a failure the directory is removed again if that works.     *)
(***************************************************************************)
Partial(g, m) == [NoDirectory EXCEPT !.at = g, !.name = "partial",
                                     !.names = {"none", "partial"}, !.of = m]

CreatePartial(p) ==
    /\ pc[p] = "mkdir"
    /\ \/ /\ RootValid(p) /\ Succeeds
          /\ dir' = [dir EXCEPT ![own[p]] = Partial(anchor[p], offer[p])]
          /\ Goto(p, "create")
          /\ UNCHANGED verdict
       \/ /\ RootValid(p) /\ Fails
          /\ dir' \in {dir, [dir EXCEPT ![own[p]] = Partial(anchor[p], offer[p])]}
          /\ Return(p, "error")
       \/ /\ ~RootValid(p) /\ Succeeds
          /\ Return(p, "error")
          /\ UNCHANGED dir
    /\ UNCHANGED <<root, rootSaved, anchor, own, entries, offer, odd, probed>>

(* createFile: the next file, exclusively and empty.                        *)
CreateFile(p) ==
    /\ pc[p] = "create"
    /\ \/ /\ PartialValid(p) /\ Succeeds
          /\ entries' = [entries EXCEPT ![p] = @ + 1]
          /\ dir' = [dir EXCEPT ![own[p]] = WithFile(@, entries[p] + 1, "torn", {"none", "torn"})]
          /\ Goto(p, "write")
          /\ UNCHANGED verdict
       \/ /\ IF PartialValid(p) THEN Fails ELSE Succeeds
          /\ Abandon(p, "error")
          /\ UNCHANGED <<entries, dir>>
    /\ UNCHANGED <<root, rootSaved, anchor, own, offer, odd, probed>>

(* The archive is copied through Analyze and archiveLimitWriter, or the       *)
(* manifest is written; what was read has to be SameContent as inventoried.  *)
WriteFile(p) ==
    /\ pc[p] = "write"
    /\ \/ /\ entries[p] # odd[p] /\ Succeeds
          /\ dir' = [dir EXCEPT ![own[p]] =
                       WithFile(@, entries[p], "whole", {"none", "torn", "whole"})]
          /\ Goto(p, "fsync")
          /\ UNCHANGED verdict
       \/ /\ IF entries[p] # odd[p] THEN Fails ELSE Succeeds
          /\ Abandon(p, "error")
          /\ UNCHANGED dir
    /\ UNCHANGED <<root, rootSaved, anchor, own, entries, offer, odd, probed>>

(* The file is forced to disk, compared with its entry and closed.           *)
SyncFile(p) ==
    /\ pc[p] = "fsync"
    /\ \/ /\ PartialValid(p) /\ Succeeds
          /\ dir' = [dir EXCEPT ![own[p]] =
                       WithFile(@, entries[p], @.file[entries[p]], {"none", "whole"})]
          /\ Goto(p, IF entries[p] = Manifest THEN "sync" ELSE "create")
          /\ UNCHANGED verdict
       \/ /\ IF PartialValid(p) THEN Fails ELSE Succeeds
          /\ Abandon(p, "error")
          /\ UNCHANGED dir
    /\ UNCHANGED <<root, rootSaved, anchor, own, entries, offer, odd, probed>>

(* finishStage: the names of the files are forced to disk.                   *)
SavedNames(d) == [d EXCEPT !.saved = [f \in Files |-> d.saved[f] \ {"none"}]]

(* Mutant: the partial directory is not forced to disk before the rename.     *)
SyncPartialSkipped(p) ==
    /\ pc[p] = "sync"
    /\ PartialValid(p) /\ Succeeds
    /\ Goto(p, "rename")
    /\ UNCHANGED <<files, anchor, own, entries, request>>

SyncPartial(p) ==
    /\ pc[p] = "sync"
    /\ \/ /\ PartialValid(p) /\ Succeeds
          /\ dir' = [dir EXCEPT ![own[p]] = SavedNames(@)]
          /\ Goto(p, "rename")
          /\ UNCHANGED verdict
       \/ /\ IF PartialValid(p) THEN Fails ELSE Succeeds
          /\ Abandon(p, "error")
          /\ UNCHANGED dir
    /\ UNCHANGED <<root, rootSaved, anchor, own, entries, offer, odd, probed>>

(* commit: the rename goes through the descriptor, whatever is at the path.    *)
Rename(p) ==
    /\ pc[p] = "rename"
    /\ \/ /\ Finals(anchor[p]) = {} /\ Succeeds
          /\ dir' = [dir EXCEPT ![own[p]] = WithName(@, "final")]
          /\ Goto(p, "settle")
          /\ UNCHANGED verdict
       \/ /\ Finals(anchor[p]) # {} /\ Succeeds
          /\ Goto(p, "verify")
          /\ UNCHANGED <<dir, verdict>>
       \/ /\ Fails
          /\ Abandon(p, "error")
          /\ UNCHANGED dir
    /\ UNCHANGED <<root, rootSaved, anchor, own, entries, offer, odd, probed>>

(* An fsync of root g makes every name in it as durable as it is.             *)
Saved(g) == [d \in Directories |->
                IF dir[d].at = g THEN [dir[d] EXCEPT !.names = {dir[d].name}] ELSE dir[d]]

(* Mutant: the root is not forced to disk after the rename.                   *)
SettleUnsynced(p) ==
    /\ pc[p] = "settle"
    /\ Return(p, IF RootValid(p) THEN "published" ELSE "unknown")
    /\ UNCHANGED <<files, anchor, own, entries, offer, odd, probed, bounds>>

Settle(p) ==
    /\ pc[p] = "settle"
    /\ \/ /\ Succeeds
          /\ dir' = Saved(anchor[p])
          /\ Return(p, IF RootValid(p) THEN "published" ELSE "unknown")
       \/ /\ Fails
          /\ Return(p, "unknown")
          /\ UNCHANGED dir
    /\ UNCHANGED <<root, rootSaved, anchor, own, entries, offer, odd, probed>>

(* Mutant: any complete backup of the transaction is taken for the own one.   *)
VerifyExistingAny(p) ==
    /\ pc[p] = "verify"
    /\ Abandon(p, IF RootValid(p) /\ \E d \in Finals(anchor[p]) : Complete(d)
                  THEN "verified" ELSE "conflict")
    /\ UNCHANGED <<files, anchor, own, entries, offer, odd, probed, bounds>>

(* verifyExistingPublication: the same manifest, and every file matches it.    *)
VerifyExisting(p) ==
    /\ pc[p] = "verify"
    /\ \/ /\ Succeeds
          /\ Abandon(p, IF /\ RootValid(p)
                           /\ \E d \in Finals(anchor[p]) : Complete(d) /\ dir[d].of = offer[p]
                        THEN "verified" ELSE "conflict")
       \/ Fails /\ \E v \in {"conflict", "error"} : Abandon(p, v)
    /\ UNCHANGED <<files, anchor, own, entries, offer, odd, probed>>

(***************************************************************************)
(* cleanup: the files are removed in reverse, the directory is forced to      *)
(* disk and removed.  Anything in the way ends it, with an error, and leaves  *)
(* the rest.                                                              *)
(***************************************************************************)
Clean(p) ==
    /\ pc[p] = "clean"
    /\ \/ /\ PartialValid(p) /\ entries[p] > 0 /\ Succeeds
          /\ dir' = [dir EXCEPT ![own[p]] =
                       WithFile(@, entries[p], "none", @.saved[entries[p]] \cup {"none"})]
          /\ entries' = [entries EXCEPT ![p] = @ - 1]
          /\ UNCHANGED <<pc, verdict>>
       \/ /\ PartialValid(p) /\ entries[p] = 0 /\ Succeeds
          /\ dir' = [dir EXCEPT ![own[p]].saved = [f \in Files |-> {"none"}]]
          /\ Goto(p, "rmdir")
          /\ UNCHANGED <<entries, verdict>>
       \/ /\ IF PartialValid(p) THEN Fails ELSE Succeeds
          /\ Return(p, "error")
          /\ UNCHANGED <<dir, entries>>
    /\ UNCHANGED <<root, rootSaved, anchor, own, offer, odd, probed>>

RemoveDirectory(p) ==
    /\ pc[p] = "rmdir"
    /\ \/ /\ RootValid(p) /\ Succeeds
          /\ dir' = [Saved(anchor[p]) EXCEPT ![own[p]] = NoDirectory]
          /\ Return(p, verdict[p])
       \/ /\ RootValid(p) /\ Fails
          /\ dir' \in {dir, [dir EXCEPT ![own[p]] = WithName(@, "none")]}
          /\ Return(p, "error")
       \/ /\ ~RootValid(p) /\ Succeeds
          /\ Return(p, "error")
          /\ UNCHANGED dir
    /\ UNCHANGED <<root, rootSaved, anchor, own, entries, offer, odd, probed>>

(* storageBackupEffect.Probe decides what the journal is told.               *)
Probe(p) ==
    /\ pc[p] = "probe"
    /\ probed' = [probed EXCEPT ![p] = EffectOpens(p)]
    /\ Goto(p, "idle")
    /\ UNCHANGED <<files, anchor, own, entries, offer, odd, verdict, bounds>>

-----------------------------------------------------------------------------
Disaster(kind) == /\ kind \in Disasters
                  /\ disasters < MaxDisasters
                  /\ disasters' = disasters + 1
                  /\ UNCHANGED <<begun, failures>>

Dead(P) == /\ pc' = [p \in Publishers |-> IF p \in P THEN "idle" ELSE pc[p]]
           /\ anchor' = [p \in Publishers |-> IF p \in P THEN 0 ELSE anchor[p]]
           /\ own' = [p \in Publishers |-> IF p \in P THEN 0 ELSE own[p]]
           /\ entries' = [p \in Publishers |-> IF p \in P THEN 0 ELSE entries[p]]
           /\ offer' = [p \in Publishers |-> IF p \in P THEN NoBackup ELSE offer[p]]
           /\ odd' = [p \in Publishers |-> IF p \in P THEN 0 ELSE odd[p]]
           /\ verdict' = [p \in Publishers |-> IF p \in P THEN "none" ELSE verdict[p]]
           /\ probed' = [p \in Publishers |-> IF p \in P THEN "none" ELSE probed[p]]

(* The process dies; the files stay as they are.                            *)
Crash(p) == /\ Disaster("crash")
            /\ pc[p] # "idle"
            /\ Dead({p})
            /\ rootSaved' = [g \in Roots |-> IF pc[p] = "parent" /\ g = anchor[p] THEN "orphaned"
                                            ELSE rootSaved[g]]
            /\ UNCHANGED <<root, dir>>

(* Directory d as it is found, with a name n it may have had on disk.           *)
Remains(d, n, content) ==
    IF dir[d].at # root.at \/ n = "none" THEN NoDirectory
    ELSE [dir[d] EXCEPT
            !.name = n, !.names = {n},
            !.file = IF n = "final" THEN content ELSE NoDirectory.file,
            !.saved = IF n = "final" THEN [f \in Files |-> {content[f]}] ELSE NoDirectory.saved]

(* The machine stops: each entry is found in one of the states it may be in.  *)
(* What is in a partial directory is never read again, only that it exists.   *)
PowerLoss ==
    /\ Disaster("power")
    /\ Dead(Publishers)
    /\ \E kept \in BOOLEAN :
          /\ root.at # 0 /\ rootSaved[root.at] = "saved" => kept
          /\ root' = IF kept THEN root ELSE [root EXCEPT !.at = 0]
          /\ rootSaved' = [g \in Roots |-> IF kept /\ g = root.at THEN "saved" ELSE "open"]
          /\ \E name \in [Directories -> Names] :
                /\ \A d \in Directories : name[d] \in dir[d].names
                /\ \E content \in [Files -> Contents] :
                      /\ \A d \in Directories, f \in Files :
                            name[d] = "final" /\ dir[d].at = root.at =>
                                content[f] \in dir[d].saved[f]
                      /\ (\A d \in Directories : name[d] # "final" \/ dir[d].at # root.at)
                            => content = [f \in Files |-> "none"]
                      /\ dir' = [d \in Directories |->
                                    IF kept THEN Remains(d, name[d], content) ELSE NoDirectory]

(* Somebody puts another private directory at the path of the root.          *)
ReplaceRoot == /\ Disaster("replace")
               /\ root.at # 0
               /\ FreshRoots # {}
               /\ LET g == CHOOSE g \in FreshRoots : TRUE
                  IN  /\ root' = [at |-> g, private |-> TRUE]
                      /\ rootSaved' = [rootSaved EXCEPT ![g] = "saved"]
               /\ UNCHANGED <<dir, process, request>>

(* Somebody changes the mode of the root.                                   *)
ChmodRoot == /\ Disaster("chmod")
             /\ root.at # 0
             /\ root' = [root EXCEPT !.private = ~@]
             /\ UNCHANGED <<rootSaved, dir, process, request>>

(* Somebody changes a file of the published backup.                         *)
Spoil == /\ Disaster("spoil")
         /\ \E d \in Directories, f \in Files :
               /\ dir[d].name = "final"
               /\ dir' = [dir EXCEPT ![d] = WithFile(@, f, "foreign", {"foreign"})]
         /\ UNCHANGED <<root, rootSaved, process, request>>

Stage(p) == \/ Begin(p) \/ OpenFirst(p) \/ OpenRoot(p) \/ SyncParent(p)
            \/ CheckCapacity(p) \/ CreatePartial(p) \/ CreateFile(p) \/ WriteFile(p)
            \/ SyncFile(p) \/ SyncPartial(p)
Commit(p) == \/ Rename(p) \/ Settle(p) \/ VerifyExisting(p)
             \/ Clean(p) \/ RemoveDirectory(p) \/ Probe(p)

PublicationNext == \/ \E p \in Publishers : Stage(p) \/ Commit(p) \/ Crash(p)
                   \/ PowerLoss \/ ReplaceRoot \/ ChmodRoot \/ Spoil

PublicationSpec == PublicationInit /\ [][PublicationNext]_vars

-----------------------------------------------------------------------------
(* Whatever a power loss leaves under the name of the transaction, it is a    *)
(* complete backup: the name can reach the disk only after every file and its *)
(* entry did (finishStage before commit).                                  *)
FinalSurvivesWhole ==
    \A d \in Directories :
        "final" \in dir[d].names => \A f \in Files : dir[d].saved[f] \subseteq {"whole", "foreign"}

(* The entry of root g is on disk, unless the publisher other than p that made   *)
(* the root gave up or died before it forced it there, or has yet to.         *)
RootAccountedFor(p, g) ==
    \/ rootSaved[g] \in {"saved", "orphaned"}
    \/ \E q \in Publishers \ {p} : pc[q] = "parent" /\ anchor[q] = g

(* A publisher that is told "published" has the name and the content of its      *)
(* backup on disk in its root, until somebody spoils it.  The root itself is on   *)
(* disk too ("durably complete"), but for one gap: openBackupRootWithSync leaves  *)
(* that to whoever made the root, and whoever finds the directory there goes on   *)
(* without it.                                                             *)
PublishedIsDurable ==
    \A p \in Publishers : verdict[p] = "published" =>
        /\ dir[own[p]].names = {"final"}
        /\ \A f \in Files : dir[own[p]].saved[f] \subseteq {"whole", "foreign"}
        /\ RootAccountedFor(p, dir[own[p]].at)

(* Publish removes what it staged on every path on which no call failed and    *)
(* nobody interfered: each partial directory, which would stop scanBackupRoot, *)
(* belongs to a running publisher or to a failure.                          *)
LeftoversExplained ==
    Cardinality({d \in Directories : dir[d].name = "partial"}) <=
        Cardinality({p \in Publishers : pc[p] # "idle"}) + failures
            + disasters * Cardinality(Publishers)

(* The backup a reader would find, for the abstract specification.            *)
Slot == IF root.at # 0 /\ \E d \in Finals(root.at) : Complete(d)
        THEN dir[CHOOSE d \in Finals(root.at) : Complete(d)].of ELSE NoBackup

Contract == INSTANCE BackupSlot WITH slot <- Slot, answer <- verdict

(* Files, fsyncs, the rename and the verification implement BackupSlot: a      *)
(* backup appears whole in an empty place, is never replaced, and no publisher *)
(* is told of a success that cannot be read.                                *)
ImplementsBackupSlot == Contract!SlotSpec

(* What holds of the directories after every step: their types, that the final *)
(* name never covers half a backup, and that every leftover has its reason.    *)
PublicationInv == PublicationTypeOK /\ FinalSurvivesWhole /\ LeftoversExplained
=============================================================================
