------------------------- MODULE PublicationProofs -------------------------
(***************************************************************************)
(* Safety of the publication of a backup, and that it implements BackupSlot, *)
(* for any number of publishers, archives, directories, failures and          *)
(* disasters.                                                               *)
(*                                                                         *)
(* A partial directory has one owner, and what the owner's point in Publish    *)
(* says of its files is what the fsyncs before it made durable; the name of     *)
(* the transaction is given once all of them are.  A directory of that name     *)
(* has therefore one possible content, and there is one of them per root.       *)
(***************************************************************************)
EXTENDS Publication, FiniteSetTheorems, TLAPS

(* Before createPartial, with a partial directory, and with an open root.     *)
EarlyPoints   == {"open", "root", "parent", "capacity", "mkdir"}
PartialPoints == {"create", "write", "fsync", "sync", "rename", "verify", "clean", "rmdir"}
AnchorPoints  == {"parent", "capacity", "mkdir", "settle"} \cup PartialPoints
OpenPoints    == (EarlyPoints \cup PartialPoints \cup {"settle"}) \ {"clean", "rmdir"}

(* No two publishers have one directory, and the next number is free.        *)
Numbers ==
    /\ \A p \in Publishers : own[p] <= begun
    /\ \A p, q \in Publishers : own[p] = own[q] /\ own[p] # 0 => p = q
    /\ \A d \in Directories : d > begun => dir[d] = NoDirectory

(* What a publisher that has not answered yet asks for.                      *)
Request(p) ==
    /\ pc[p] \in OpenPoints => offer[p] \in Manifests /\ verdict[p] = "none"
    /\ pc[p] \in {"clean", "rmdir"} => verdict[p] \in {"verified", "conflict", "error"}
    /\ pc[p] \in AnchorPoints => anchor[p] # 0
    /\ pc[p] # "idle" \/ verdict[p] = "published" => own[p] # 0

(* The directory of a publisher, as its point in Publish has it.             *)
Staged(p) ==
    /\ pc[p] \in EarlyPoints => dir[own[p]] = NoDirectory /\ entries[p] = 0
    /\ pc[p] \in PartialPoints => dir[own[p]].name = "partial"
    /\ pc[p] \in PartialPoints \cup {"settle"} =>
           dir[own[p]].at = anchor[p] /\ dir[own[p]].of = offer[p]
    /\ pc[p] = "settle" => dir[own[p]].name = "final"

(* The files of it: the ones that are closed may only be missing after a power  *)
(* loss, and none may once the directory is forced to disk.                   *)
Whole(d, f) == dir[d].file[f] = "whole" /\ dir[d].saved[f] = {"none", "whole"}

StagedFiles(p) ==
    /\ pc[p] = "create" => /\ entries[p] < Manifest
                           /\ \A f \in Files : f <= entries[p] => Whole(own[p], f)
    /\ pc[p] \in {"write", "fsync"} =>
           /\ entries[p] # 0
           /\ \A f \in Files : f < entries[p] => Whole(own[p], f)
    /\ pc[p] = "fsync" => dir[own[p]].file[entries[p]] = "whole"
    /\ pc[p] = "sync" => \A f \in Files : Whole(own[p], f)
    /\ pc[p] = "rename" => \A f \in Files : /\ dir[own[p]].file[f] = "whole"
                                            /\ dir[own[p]].saved[f] = {"whole"}

(* PublishedIsDurable, for one publisher                                    *)
Durable(p) == verdict[p] = "published" =>
    /\ dir[own[p]].names = {"final"}
    /\ \A f \in Files : dir[own[p]].saved[f] \subseteq {"whole", "foreign"}

PublisherOK(p) == Request(p) /\ Staged(p) /\ StagedFiles(p) /\ Durable(p)

(* A directory of the transaction's name: what it may be after a power loss.   *)
DirectoryOK(d) ==
    /\ dir[d].name \in dir[d].names
    /\ "final" \in dir[d].names => dir[d].name = "final"
    /\ dir[d].name = "final" =>
           /\ dir[d].at # 0 /\ dir[d].of \in Manifests
           /\ \A f \in Files : /\ dir[d].file[f] \in {"whole", "foreign"}
                               /\ dir[d].saved[f] = {dir[d].file[f]}
           /\ ~Complete(d) => disasters > 0

OneFinal == \A d, e \in Directories :
    dir[d].name = "final" /\ dir[e].name = "final" /\ dir[d].at = dir[e].at => d = e

(* The inductive invariant.                                                 *)
PublicationIInv ==
    /\ PublicationTypeOK
    /\ Numbers
    /\ \A p \in Publishers : PublisherOK(p)
    /\ \A d \in Directories : DirectoryOK(d)
    /\ OneFinal

USE ArtifactAssumption, BoundAssumption, ManifestAssumption
    DEF Files, Manifest, Directories, Roots, Names, Contents, Points

-----------------------------------------------------------------------------
(* Directories and what is done to them.                                    *)

LEMMA NoDirectoryType == NoDirectory \in DirectoryType
  BY DEF NoDirectory, DirectoryType

(* The fields of a directory.                                               *)
LEMMA Fields ==
  ASSUME NEW r \in DirectoryType
  PROVE  /\ r.at \in Roots \cup {0} /\ r.name \in Names /\ r.names \in SUBSET Names
         /\ r.of \in Manifests \cup {NoBackup}
         /\ r.file \in [Files -> Contents] /\ r.saved \in [Files -> SUBSET Contents]
  BY DEF DirectoryType

(* Directories with the same fields are the same.                            *)
LEMMA SameFields ==
  ASSUME NEW r \in DirectoryType, NEW s \in DirectoryType,
         r.at = s.at, r.name = s.name, r.names = s.names, r.of = s.of,
         r.file = s.file, r.saved = s.saved
  PROVE  r = s
  BY DEF DirectoryType

(* A change of one file leaves the entry of the directory as it is.          *)
LEMMA WithFileFields ==
  ASSUME NEW r \in DirectoryType, NEW f \in Files, NEW c \in Contents, NEW S \in SUBSET Contents
  PROVE  /\ WithFile(r, f, c, S) \in DirectoryType
         /\ WithFile(r, f, c, S).at = r.at /\ WithFile(r, f, c, S).name = r.name
         /\ WithFile(r, f, c, S).names = r.names /\ WithFile(r, f, c, S).of = r.of
         /\ WithFile(r, f, c, S).file[f] = c /\ WithFile(r, f, c, S).saved[f] = S
         /\ \A g \in Files \ {f} : /\ WithFile(r, f, c, S).file[g] = r.file[g]
                                   /\ WithFile(r, f, c, S).saved[g] = r.saved[g]
  BY DEF WithFile, DirectoryType

(* A change of the entry leaves the files as they are.                       *)
LEMMA WithNameFields ==
  ASSUME NEW r \in DirectoryType, NEW n \in Names
  PROVE  /\ WithName(r, n) \in DirectoryType
         /\ WithName(r, n).at = r.at /\ WithName(r, n).name = n
         /\ WithName(r, n).names = r.names \cup {n} /\ WithName(r, n).of = r.of
         /\ WithName(r, n).file = r.file /\ WithName(r, n).saved = r.saved
  BY DEF WithName, DirectoryType

(* The directory that mkdir makes.                                          *)
LEMMA PartialFields ==
  ASSUME NEW g \in Roots, NEW m \in Manifests
  PROVE  /\ Partial(g, m) \in DirectoryType
         /\ Partial(g, m).at = g /\ Partial(g, m).name = "partial"
         /\ Partial(g, m).names = {"none", "partial"} /\ Partial(g, m).of = m
  BY DEF Partial, NoDirectory, DirectoryType

LEMMA SavedNamesFields ==
  ASSUME NEW r \in DirectoryType
  PROVE  /\ SavedNames(r) \in DirectoryType
         /\ SavedNames(r).at = r.at /\ SavedNames(r).name = r.name
         /\ SavedNames(r).names = r.names /\ SavedNames(r).of = r.of
         /\ SavedNames(r).file = r.file
         /\ SavedNames(r).saved = [f \in Files |-> r.saved[f] \ {"none"}]
  BY DEF SavedNames, DirectoryType

(* Kept: what a step of a publisher does to a directory that is not its own;    *)
(* an fsync of the root may settle its name.                                 *)
Kept(d) == /\ dir'[d].at = dir[d].at /\ dir'[d].name = dir[d].name /\ dir'[d].of = dir[d].of
           /\ dir'[d].file = dir[d].file /\ dir'[d].saved = dir[d].saved
           /\ dir'[d].names \in {dir[d].names, {dir[d].name}}
           /\ dir[d] = NoDirectory => dir'[d] = NoDirectory

LEMMA SavedKeeps ==
  ASSUME PublicationTypeOK, NEW g \in Roots \cup {0}
  PROVE  /\ Saved(g) \in [Directories -> DirectoryType]
         /\ \A d \in Directories :
               /\ Saved(g)[d].at = dir[d].at /\ Saved(g)[d].name = dir[d].name
               /\ Saved(g)[d].of = dir[d].of /\ Saved(g)[d].file = dir[d].file
               /\ Saved(g)[d].saved = dir[d].saved
               /\ Saved(g)[d].names \in {dir[d].names, {dir[d].name}}
               /\ dir[d].at = g => Saved(g)[d].names = {dir[d].name}
               /\ dir[d] = NoDirectory => Saved(g)[d] = NoDirectory
  <1>1. dir \in [Directories -> DirectoryType]
    BY DEF PublicationTypeOK
  <1>2. ASSUME NEW r \in DirectoryType
        PROVE  /\ [r EXCEPT !.names = {r.name}] \in DirectoryType
               /\ [r EXCEPT !.names = {r.name}].at = r.at
               /\ [r EXCEPT !.names = {r.name}].name = r.name
               /\ [r EXCEPT !.names = {r.name}].of = r.of
               /\ [r EXCEPT !.names = {r.name}].file = r.file
               /\ [r EXCEPT !.names = {r.name}].saved = r.saved
               /\ [r EXCEPT !.names = {r.name}].names = {r.name}
    BY <1>2 DEF DirectoryType
  <1>3. [NoDirectory EXCEPT !.names = {NoDirectory.name}] = NoDirectory
    <2>1. NoDirectory.names = {NoDirectory.name}
      BY DEF NoDirectory
    <2> DEFINE r == [NoDirectory EXCEPT !.names = {NoDirectory.name}]
    <2>2. /\ r \in DirectoryType /\ r.at = NoDirectory.at /\ r.name = NoDirectory.name
          /\ r.of = NoDirectory.of /\ r.file = NoDirectory.file
          /\ r.saved = NoDirectory.saved /\ r.names = NoDirectory.names
      BY <1>2, <2>1, NoDirectoryType
    <2> HIDE DEF r
    <2>3. r = NoDirectory
      BY <2>2, NoDirectoryType, SameFields
    <2> QED BY <2>3 DEF r
  <1> QED BY <1>1, <1>2, <1>3 DEF Saved

-----------------------------------------------------------------------------
(* What a step of one publisher leaves alone.                               *)

(* The variables of publisher q are as they were.                            *)
Same(q) == /\ pc'[q] = pc[q] /\ anchor'[q] = anchor[q] /\ own'[q] = own[q]
           /\ entries'[q] = entries[q] /\ offer'[q] = offer[q] /\ verdict'[q] = verdict[q]

LEMMA PublisherKept ==
  ASSUME PublicationTypeOK, NEW q \in Publishers, PublisherOK(q), Same(q),
         own[q] # 0 => Kept(own[q]) /\ DirectoryOK(own[q])
  PROVE  PublisherOK(q)'
  <1>1. CASE own[q] = 0
    <2>1. pc[q] = "idle" /\ verdict[q] # "published"
      BY <1>1 DEF PublisherOK, Request
    <2> QED BY <1>1, <2>1 DEF Same, PublisherOK, Request, Staged, StagedFiles, Durable,
               EarlyPoints, PartialPoints, AnchorPoints, OpenPoints
  <1>2. CASE own[q] # 0
    <2>1. Request(q)'
      BY DEF PublisherOK, Request, Same
    <2>2. Staged(q)'
      BY <1>2 DEF PublisherOK, Staged, Same, Kept
    <2>3. StagedFiles(q)'
      BY <1>2 DEF PublisherOK, StagedFiles, Whole, Same, Kept
    <2>4. Durable(q)'
      BY <1>2 DEF PublisherOK, Durable, Same, Kept, DirectoryOK
    <2> QED BY <2>1, <2>2, <2>3, <2>4 DEF PublisherOK
  <1> QED BY <1>1, <1>2

LEMMA DirectoryKept ==
  ASSUME PublicationTypeOK, NEW d \in Directories, DirectoryOK(d), Kept(d),
         disasters' \in Nat, disasters' >= disasters
  PROVE  DirectoryOK(d)'
  BY DEF PublicationTypeOK, DirectoryOK, Kept, Complete

(* A step of publisher p, with what it says of p and of the directory of p.     *)
OneStep(p) ==
    /\ own' = own /\ begun' = begun /\ disasters' = disasters
    /\ \A q \in Publishers \ {p} : Same(q)
    /\ \A d \in Directories \ {own[p]} : Kept(d)

LEMMA OneStepKeeps ==
  ASSUME PublicationIInv, PublicationTypeOK', NEW p \in Publishers, OneStep(p),
         NEW o \in Directories, o = own[p], PublisherOK(p)', DirectoryOK(o)',
         dir'[o].name = "final" =>
             \A d \in Directories \ {o} : dir[d].name = "final" => dir[d].at # dir'[o].at
  PROVE  PublicationIInv'
  <1>a. /\ PublicationTypeOK /\ Numbers /\ OneFinal
        /\ \A q \in Publishers : PublisherOK(q)
        /\ \A d \in Directories : DirectoryOK(d)
    BY DEF PublicationIInv
  <1>b. own[p] \in Directories /\ own[p] <= begun
    BY <1>a DEF PublicationTypeOK, Numbers
  <1>1. Numbers'
    BY <1>a, <1>b DEF Numbers, OneStep, Kept, PublicationTypeOK
  <1>2. \A q \in Publishers : PublisherOK(q)'
    <2> SUFFICES ASSUME NEW q \in Publishers, q # p PROVE PublisherOK(q)'
      OBVIOUS
    <2>1. own[q] # 0 => own[q] \in Directories \ {own[p]}
      BY <1>a DEF Numbers, PublicationTypeOK
    <2> QED BY <1>a, <2>1, PublisherKept DEF OneStep
  <1>3. \A d \in Directories : DirectoryOK(d)'
    <2> SUFFICES ASSUME NEW d \in Directories, d # o PROVE DirectoryOK(d)'
      OBVIOUS
    <2>1. disasters' \in Nat /\ disasters' >= disasters
      BY <1>a DEF OneStep, PublicationTypeOK
    <2> QED BY <1>a, <2>1, DirectoryKept DEF OneStep
  <1>4. OneFinal'
    BY <1>a, <1>b DEF OneFinal, OneStep, Kept
  <1> QED BY <1>1, <1>2, <1>3, <1>4 DEF PublicationIInv

(* The same without a change of the directories.                             *)
LEMMA SameDirectories ==
  ASSUME PublicationIInv, PublicationTypeOK', NEW p \in Publishers, UNCHANGED dir,
         own' = own, begun' = begun, disasters' = disasters,
         \A q \in Publishers \ {p} : Same(q), PublisherOK(p)'
  PROVE  PublicationIInv'
  <1>a. /\ PublicationTypeOK /\ Numbers /\ OneFinal
        /\ \A q \in Publishers : PublisherOK(q)
        /\ \A d \in Directories : DirectoryOK(d)
    BY DEF PublicationIInv
  <1>b. \A d : Kept(d)
    BY DEF Kept
  <1>1. Numbers' /\ OneFinal'
    BY <1>a DEF Numbers, OneFinal
  <1>2. \A q \in Publishers : PublisherOK(q)'
    <2> SUFFICES ASSUME NEW q \in Publishers, q # p PROVE PublisherOK(q)'
      OBVIOUS
    <2>1. own[q] # 0 => own[q] \in Directories
      BY <1>a DEF PublicationTypeOK
    <2> QED BY <1>a, <1>b, <2>1, PublisherKept
  <1>3. \A d \in Directories : DirectoryOK(d)'
    BY <1>a DEF DirectoryOK, Complete
  <1> QED BY <1>1, <1>2, <1>3 DEF PublicationIInv

Verdicts == {"none", "published", "verified", "conflict", "unknown", "error"}

(* The program counter and the verdict of one publisher.                     *)
LEMMA Moved ==
  ASSUME PublicationTypeOK, NEW p \in Publishers, NEW point \in Points, Goto(p, point)
  PROVE  /\ pc' \in [Publishers -> Points] /\ pc'[p] = point
         /\ \A q \in Publishers \ {p} : pc'[q] = pc[q]
  BY DEF PublicationTypeOK, Goto

LEMMA Told ==
  ASSUME PublicationTypeOK, NEW p \in Publishers, NEW v \in Verdicts,
         verdict' = [verdict EXCEPT ![p] = v]
  PROVE  /\ verdict' \in [Publishers -> Verdicts] /\ verdict'[p] = v
         /\ \A q \in Publishers \ {p} : verdict'[q] = verdict[q]
  BY DEF PublicationTypeOK, Verdicts

(* A system call that succeeds or fails counts no run and no disaster.         *)
LEMMA Called ==
  ASSUME PublicationTypeOK, Succeeds \/ Fails
  PROVE  begun' = begun /\ disasters' = disasters /\ failures' \in 0 .. MaxFailures
  BY DEF PublicationTypeOK, Succeeds, Fails, bounds

(* Publish returns, or starts its cleanup, with the files as they are.         *)
LEMMA Answered ==
  ASSUME PublicationIInv, NEW p \in Publishers, Succeeds \/ Fails,
         NEW v \in {"verified", "conflict", "unknown", "error"}, NEW point \in {"probe", "clean"},
         Goto(p, point), verdict' = [verdict EXCEPT ![p] = v],
         UNCHANGED <<root, dir, anchor, own, entries, offer, odd, probed>>,
         rootSaved' \in [Roots -> EntryStates], pc[p] # "idle",
         point = "clean" => pc[p] \in PartialPoints /\ v # "unknown"
  PROVE  PublicationIInv'
  <1>a. PublicationTypeOK /\ PublisherOK(p)
    BY DEF PublicationIInv
  <1>1. /\ pc' \in [Publishers -> Points] /\ pc'[p] = point
        /\ \A q \in Publishers \ {p} : pc'[q] = pc[q]
    BY <1>a, Moved
  <1>2. /\ verdict' \in [Publishers -> Verdicts] /\ verdict'[p] = v
        /\ \A q \in Publishers \ {p} : verdict'[q] = verdict[q]
    BY <1>a, Told DEF Verdicts
  <1>3. begun' = begun /\ disasters' = disasters /\ failures' \in 0 .. MaxFailures
    BY <1>a, Called
  <1>4. PublicationTypeOK'
    BY <1>a, <1>1, <1>2, <1>3 DEF PublicationTypeOK, Verdicts
  <1>5. PublisherOK(p)'
    BY <1>a, <1>1, <1>2 DEF PublisherOK, Request, Staged, StagedFiles, Durable, EarlyPoints,
       PartialPoints, AnchorPoints, OpenPoints
  <1>6. \A q \in Publishers \ {p} : Same(q)
    BY <1>1, <1>2 DEF Same
  <1> QED BY <1>3, <1>4, <1>5, <1>6, SameDirectories

(* Publish goes on, with the files as they are.                              *)
LEMMA Passed ==
  ASSUME PublicationIInv, NEW p \in Publishers, Succeeds,
         NEW point \in Points, Goto(p, point), NEW g \in Roots \cup {0},
         anchor' = [anchor EXCEPT ![p] = g],
         UNCHANGED <<dir, own, entries, offer, odd, verdict, probed>>,
         root' \in [at : Roots \cup {0}, private : BOOLEAN], rootSaved' \in [Roots -> EntryStates],
         point \in AnchorPoints => g # 0,
         \/ pc[p] \in EarlyPoints /\ point \in EarlyPoints \cup {"probe"}
         \/ pc[p] = "rename" /\ point = "verify" /\ g = anchor[p]
  PROVE  PublicationIInv'
  <1>a. PublicationTypeOK /\ PublisherOK(p)
    BY DEF PublicationIInv
  <1>1. /\ pc' \in [Publishers -> Points] /\ pc'[p] = point
        /\ \A q \in Publishers \ {p} : pc'[q] = pc[q]
    BY <1>a, Moved
  <1>2. /\ anchor' \in [Publishers -> Roots \cup {0}] /\ anchor'[p] = g
        /\ \A q \in Publishers \ {p} : anchor'[q] = anchor[q]
    BY <1>a DEF PublicationTypeOK
  <1>3. begun' = begun /\ disasters' = disasters /\ failures' \in 0 .. MaxFailures
    BY <1>a, Called
  <1>4. PublicationTypeOK'
    BY <1>a, <1>1, <1>2, <1>3 DEF PublicationTypeOK
  <1>5. PublisherOK(p)'
    <2>1. Request(p)'
      BY <1>a, <1>1, <1>2 DEF PublisherOK, Request, EarlyPoints, PartialPoints, AnchorPoints, OpenPoints
    <2>2. Staged(p)'
      BY <1>a, <1>1, <1>2 DEF PublisherOK, Staged, EarlyPoints, PartialPoints
    <2>3. StagedFiles(p)' /\ Durable(p)'
      BY <1>a, <1>1 DEF PublisherOK, Request, StagedFiles, Durable, EarlyPoints, OpenPoints
    <2> QED BY <2>1, <2>2, <2>3 DEF PublisherOK
  <1>6. \A q \in Publishers \ {p} : Same(q)
    BY <1>1, <1>2 DEF Same
  <1> QED BY <1>3, <1>4, <1>5, <1>6, SameDirectories

(* A publisher goes to a point, tells v, has created e files and has changed    *)
(* its own directory o to D.                                                *)
Puts(p, point, v, e, o, D) ==
    /\ Goto(p, point)
    /\ verdict' = [verdict EXCEPT ![p] = v]
    /\ entries' = [entries EXCEPT ![p] = e]
    /\ dir' = [dir EXCEPT ![o] = D]
    /\ UNCHANGED <<root, rootSaved, anchor, own, offer, odd, probed>>

LEMMA Changed ==
  ASSUME PublicationIInv, NEW p \in Publishers, Succeeds \/ Fails,
         NEW point \in Points, NEW v \in Verdicts, NEW e \in Files \cup {0},
         NEW o \in Directories, o = own[p], NEW D \in DirectoryType, Puts(p, point, v, e, o, D)
  PROVE  /\ PublicationTypeOK' /\ OneStep(p)
         /\ pc'[p] = point /\ verdict'[p] = v /\ entries'[p] = e /\ dir'[o] = D
  <1>a. PublicationTypeOK
    BY DEF PublicationIInv
  <1>1. /\ pc' \in [Publishers -> Points] /\ pc'[p] = point
        /\ \A q \in Publishers \ {p} : pc'[q] = pc[q]
    BY <1>a, Moved DEF Puts
  <1>2. /\ verdict' \in [Publishers -> Verdicts] /\ verdict'[p] = v
        /\ \A q \in Publishers \ {p} : verdict'[q] = verdict[q]
    BY <1>a, Told DEF Puts
  <1>3. /\ entries' \in [Publishers -> Files \cup {0}] /\ entries'[p] = e
        /\ \A q \in Publishers \ {p} : entries'[q] = entries[q]
    BY <1>a DEF PublicationTypeOK, Puts
  <1>4. /\ dir' \in [Directories -> DirectoryType] /\ dir'[o] = D
        /\ \A d \in Directories \ {o} : dir'[d] = dir[d]
    BY <1>a DEF PublicationTypeOK, Puts
  <1>5. begun' = begun /\ disasters' = disasters /\ failures' \in 0 .. MaxFailures
    BY <1>a, Called
  <1>6. PublicationTypeOK'
    BY <1>a, <1>1, <1>2, <1>3, <1>4, <1>5 DEF PublicationTypeOK, Verdicts, Puts
  <1>7. OneStep(p)
    BY <1>1, <1>2, <1>3, <1>4, <1>5 DEF OneStep, Same, Kept, Puts
  <1> QED BY <1>1, <1>2, <1>3, <1>4, <1>6, <1>7

(* A verdict or a counter that stays, as an update with the value it has.      *)
LEMMA Stays ==
  ASSUME PublicationTypeOK, NEW p \in Publishers
  PROVE  /\ verdict = [verdict EXCEPT ![p] = verdict[p]] /\ verdict[p] \in Verdicts
         /\ entries = [entries EXCEPT ![p] = entries[p]] /\ entries[p] \in Files \cup {0}
         /\ anchor = [anchor EXCEPT ![p] = anchor[p]] /\ anchor[p] \in Roots \cup {0}
  BY DEF PublicationTypeOK, Verdicts

-----------------------------------------------------------------------------
(* The steps of Publish, one lemma each.                                    *)

USE DEF files, process, request, bounds

LEMMA BeginKeeps ==
  ASSUME PublicationIInv, NEW p \in Publishers, Begin(p)
  PROVE  PublicationIInv'
  <1>a. /\ PublicationTypeOK /\ Numbers /\ OneFinal
        /\ \A q \in Publishers : PublisherOK(q)
        /\ \A d \in Directories : DirectoryOK(d)
    BY DEF PublicationIInv
  <1>1. PICK m \in Manifests, k \in 0 .. ArtifactCount :
            offer' = [offer EXCEPT ![p] = m] /\ odd' = [odd EXCEPT ![p] = k]
    BY DEF Begin
  <1>2. begun + 1 \in Directories /\ begun \in Nat
    BY <1>a DEF Begin, PublicationTypeOK
  <1>3. PublicationTypeOK'
    <2>1. /\ offer' \in [Publishers -> Manifests \cup {NoBackup}]
          /\ odd' \in [Publishers -> 0 .. ArtifactCount]
      BY <1>a, <1>1 DEF PublicationTypeOK
    <2>2. pc' \in [Publishers -> Points]
      BY <1>a, Moved DEF Begin
    <2>3. /\ own' \in [Publishers -> Directories \cup {0}]
          /\ anchor' \in [Publishers -> Roots \cup {0}]
          /\ entries' \in [Publishers -> Files \cup {0}]
          /\ begun' \in 0 .. MaxDirectories
      BY <1>a, <1>2 DEF Begin, PublicationTypeOK
    <2>4. /\ verdict' \in [Publishers -> Verdicts]
          /\ probed' \in [Publishers -> {"none", "found", "absent", "invalid"}]
      BY <1>a DEF Begin, PublicationTypeOK, Verdicts
    <2> QED BY <1>a, <2>1, <2>2, <2>3, <2>4 DEF Begin, PublicationTypeOK, Verdicts
  <1>4. /\ pc'[p] = "open" /\ own'[p] = begun + 1 /\ verdict'[p] = "none" /\ entries'[p] = 0
        /\ offer'[p] = m
        /\ \A q \in Publishers \ {p} : Same(q)
    BY <1>a, <1>1 DEF Begin, PublicationTypeOK, Goto, Same
  <1>5. UNCHANGED <<dir, disasters>> /\ begun' = begun + 1
    BY DEF Begin
  <1>6. Numbers'
    <2>1. \A q \in Publishers : own'[q] <= begun'
      <3> TAKE q \in Publishers
      <3>1. own[q] \in Nat /\ own[q] <= begun
        BY <1>a DEF Numbers, PublicationTypeOK
      <3>2. own'[q] = begun + 1 \/ own'[q] = own[q]
        BY <1>4 DEF Same
      <3> QED BY <1>2, <1>5, <3>1, <3>2
    <2>2. \A q, r \in Publishers : own'[q] = own'[r] /\ own'[q] # 0 => q = r
      BY <1>a, <1>2, <1>4 DEF Numbers, PublicationTypeOK, Same
    <2>3. \A d \in Directories : d > begun' => dir'[d] = NoDirectory
      BY <1>a, <1>2, <1>5 DEF Numbers
    <2> QED BY <2>1, <2>2, <2>3 DEF Numbers
  <1>7. PublisherOK(p)'
    <2>1. dir'[begun + 1] = NoDirectory
      BY <1>a, <1>2, <1>5 DEF Numbers
    <2> QED BY <1>2, <1>4, <2>1 DEF PublisherOK, Request, Staged, StagedFiles, Durable, EarlyPoints,
               PartialPoints, AnchorPoints, OpenPoints
  <1>8. \A q \in Publishers \ {p} : PublisherOK(q)'
    <2> TAKE q \in Publishers \ {p}
    <2>1. own[q] # 0 => own[q] \in Directories
      BY <1>a DEF PublicationTypeOK
    <2>2. own[q] # 0 => Kept(own[q])
      BY <1>5 DEF Kept
    <2> QED BY <1>a, <1>4, <2>1, <2>2, PublisherKept
  <1>9. OneFinal' /\ \A d \in Directories : DirectoryOK(d)'
    BY <1>a, <1>5 DEF OneFinal, DirectoryOK, Complete
  <1> QED BY <1>3, <1>6, <1>7, <1>8, <1>9 DEF PublicationIInv

LEMMA OpenFirstKeeps ==
  ASSUME PublicationIInv, NEW p \in Publishers, OpenFirst(p)
  PROVE  PublicationIInv'
  <1>a. PublicationTypeOK
    BY DEF PublicationIInv
  <1>1. /\ pc[p] = "open" /\ Succeeds /\ rootSaved' = rootSaved
        /\ UNCHANGED <<root, dir, anchor, own, entries, offer, odd, probed>>
    BY DEF OpenFirst, Succeeds
  <1>2. \/ (Goto(p, "root") \/ Goto(p, "probe")) /\ verdict' = verdict
        \/ Goto(p, "probe") /\ verdict' = [verdict EXCEPT ![p] = "error"]
    BY DEF OpenFirst, Return, EffectOpens, OpenResult
  <1>3. PICK g \in Roots \cup {0} : anchor' = [anchor EXCEPT ![p] = g]
    BY <1>a, <1>1, Stays
  <1>5. /\ root' \in [at : Roots \cup {0}, private : BOOLEAN] /\ rootSaved' \in [Roots -> EntryStates]
        /\ pc[p] \in EarlyPoints
    BY <1>a, <1>1 DEF PublicationTypeOK, EarlyPoints
  <1>6. CASE Goto(p, "root") /\ verdict' = verdict
    <2>1. "root" \in Points /\ "root" \in EarlyPoints /\ "root" \notin AnchorPoints
      BY DEF EarlyPoints, PartialPoints, AnchorPoints
    <2> QED BY <1>1, <1>3, <1>5, <1>6, <2>1, Passed
  <1>7. CASE Goto(p, "probe") /\ verdict' = verdict
    <2>1. "probe" \in Points /\ "probe" \notin AnchorPoints
      BY DEF PartialPoints, AnchorPoints
    <2> QED BY <1>1, <1>3, <1>5, <1>7, <2>1, Passed
  <1>4. CASE Goto(p, "probe") /\ verdict' = [verdict EXCEPT ![p] = "error"]
    BY <1>a, <1>1, <1>4, Answered DEF PublicationTypeOK
  <1> QED BY <1>2, <1>4, <1>6, <1>7

LEMMA OpenRootKeeps ==
  ASSUME PublicationIInv, NEW p \in Publishers, OpenRoot(p)
  PROVE  PublicationIInv'
  <1>a. PublicationTypeOK
    BY DEF PublicationIInv
  <1>1. pc[p] = "root" /\ Succeeds /\ UNCHANGED <<dir, own, entries, offer, odd, probed>>
    BY DEF OpenRoot
  <1>2. CASE FreshRoots # {} /\ Goto(p, "parent") /\ verdict' = verdict /\ root.at = 0
    <2> DEFINE g == CHOOSE g \in FreshRoots : TRUE
    <2>1. g \in Roots \cup {0} /\ g # 0
      BY <1>2 DEF FreshRoots
    <2> HIDE DEF g
    <2>2. /\ root' = [at |-> g, private |-> TRUE]
          /\ rootSaved' = [rootSaved EXCEPT ![g] = "open"]
          /\ anchor' = [anchor EXCEPT ![p] = g]
      BY <1>2 DEF OpenRoot, g
    <2>3. /\ root' \in [at : Roots \cup {0}, private : BOOLEAN]
          /\ rootSaved' \in [Roots -> EntryStates]
      BY <1>a, <2>1, <2>2 DEF PublicationTypeOK, EntryStates
    <2>4. pc[p] \in EarlyPoints /\ "parent" \in EarlyPoints /\ "parent" \in Points
      BY <1>1 DEF EarlyPoints
    <2> QED BY <1>1, <1>2, <2>1, <2>2, <2>3, <2>4, Passed
  <1>3. CASE /\ root.at # 0 /\ anchor' = [anchor EXCEPT ![p] = root.at] /\ Goto(p, "capacity")
             /\ UNCHANGED <<root, rootSaved, verdict>>
    <2>1. root.at \in Roots
      BY <1>a, <1>3 DEF PublicationTypeOK
    <2> QED BY <1>a, <1>1, <1>3, <2>1, Passed DEF EarlyPoints, PublicationTypeOK
  <1>4. CASE Return(p, "error") /\ UNCHANGED <<root, rootSaved, anchor>>
    BY <1>a, <1>1, <1>4, Answered DEF PublicationTypeOK, Return
  <1> QED BY <1>2, <1>3, <1>4 DEF OpenRoot

LEMMA SyncParentKeeps ==
  ASSUME PublicationIInv, NEW p \in Publishers, SyncParent(p)
  PROVE  PublicationIInv'
  <1>a. PublicationTypeOK /\ PublisherOK(p)
    BY DEF PublicationIInv
  <1>1. pc[p] = "parent" /\ UNCHANGED <<root, dir, anchor, own, entries, offer, odd, probed>>
    BY DEF SyncParent
  <1>2. anchor[p] # 0 /\ anchor[p] \in Roots
    BY <1>a, <1>1 DEF PublisherOK, Request, AnchorPoints, PublicationTypeOK
  <1>3. rootSaved' \in [Roots -> EntryStates] /\ root' \in [at : Roots \cup {0}, private : BOOLEAN]
    BY <1>a, <1>2 DEF SyncParent, PublicationTypeOK, EntryStates
  <1>4. CASE Succeeds /\ Goto(p, "capacity") /\ verdict' = verdict
    <2>1. anchor' = [anchor EXCEPT ![p] = anchor[p]]
      BY <1>a, <1>1, Stays
    <2> QED BY <1>1, <1>2, <1>3, <1>4, <2>1, Passed DEF EarlyPoints
  <1>5. CASE (Succeeds \/ Fails) /\ Return(p, "error")
    BY <1>1, <1>3, <1>5, Answered DEF Return
  <1> QED BY <1>4, <1>5 DEF SyncParent

LEMMA CheckCapacityKeeps ==
  ASSUME PublicationIInv, NEW p \in Publishers, CheckCapacity(p)
  PROVE  PublicationIInv'
  <1>a. PublicationTypeOK /\ PublisherOK(p)
    BY DEF PublicationIInv
  <1>1. /\ pc[p] = "capacity"
        /\ UNCHANGED <<root, rootSaved, dir, anchor, own, entries, offer, odd, probed>>
    BY DEF CheckCapacity
  <1>2. rootSaved' \in [Roots -> EntryStates] /\ root' \in [at : Roots \cup {0}, private : BOOLEAN]
    BY <1>a, <1>1 DEF PublicationTypeOK
  <1>3. CASE Succeeds /\ Goto(p, "mkdir") /\ verdict' = verdict
    <2>1. anchor' = [anchor EXCEPT ![p] = anchor[p]] /\ anchor[p] \in Roots \cup {0}
      BY <1>a, <1>1, Stays
    <2>2. anchor[p] # 0
      BY <1>a, <1>1 DEF PublisherOK, Request, AnchorPoints
    <2> QED BY <1>1, <1>2, <1>3, <2>1, <2>2, Passed DEF EarlyPoints
  <1>4. CASE Fails /\ Return(p, "error")
    BY <1>1, <1>2, <1>4, Answered DEF Return
  <1> QED BY <1>3, <1>4 DEF CheckCapacity

HIDE DEF Points, Files, Contents

(* The points, the verdicts and the numbers of files that the steps name.      *)
LEMMA Members ==
  /\ \A point \in {"create", "write", "fsync", "sync", "rename", "settle", "verify", "clean",
                   "rmdir", "probe", "idle"} : point \in Points
  /\ \A v \in {"none", "published", "verified", "conflict", "unknown", "error"} : v \in Verdicts
  /\ 0 \in Files \cup {0} /\ \A f \in Files : f \in Files \cup {0} /\ f \in Nat /\ f # 0
  BY DEF Points, Verdicts, Files

(* The directory of a publisher that is inside Publish.                      *)
LEMMA OwnDirectory ==
  ASSUME PublicationIInv, NEW p \in Publishers, pc[p] # "idle"
  PROVE  own[p] \in Directories /\ dir[own[p]] \in DirectoryType
  BY DEF PublicationIInv, PublicationTypeOK, PublisherOK, Request

(* A directory that is not final promises nothing.                           *)
LEMMA NotFinalOK ==
  ASSUME NEW d, dir[d].name # "final", "final" \notin dir[d].names, dir[d].name \in dir[d].names
  PROVE  DirectoryOK(d)
  BY DEF DirectoryOK

(* The points at which a publisher may leave a partial directory behind.      *)
LEMMA CreatePartialKeeps ==
  ASSUME PublicationIInv, NEW p \in Publishers, CreatePartial(p)
  PROVE  PublicationIInv'
  <1>a. PublicationTypeOK /\ PublisherOK(p)
    BY DEF PublicationIInv
  <1>1. pc[p] = "mkdir" /\ UNCHANGED <<root, rootSaved, anchor, own, entries, offer, odd, probed>>
    BY DEF CreatePartial
  <1>b. PICK o \in Directories : o = own[p] /\ dir[o] \in DirectoryType
    BY <1>1, OwnDirectory
  <1> DEFINE D == Partial(anchor[p], offer[p])
  <1>2. offer[p] \in Manifests /\ entries[p] = 0 /\ anchor[p] \in Roots
    BY <1>a, <1>1 DEF PublisherOK, Request, Staged, PublicationTypeOK, EarlyPoints,
       PartialPoints, AnchorPoints, OpenPoints
  <1>3. /\ D \in DirectoryType /\ D.at = anchor[p] /\ D.name = "partial"
        /\ D.names = {"none", "partial"} /\ D.of = offer[p]
    BY <1>2, PartialFields
  <1> HIDE DEF D
  <1>4. entries' = [entries EXCEPT ![p] = 0]
    BY <1>a, <1>1, <1>2, Stays
  <1>5. ASSUME dir' = [dir EXCEPT ![o] = D], Succeeds, Goto(p, "create"), verdict' = verdict
        PROVE  PublicationIInv'
    <2>1. verdict' = [verdict EXCEPT ![p] = "none"]
      BY <1>a, <1>1, <1>5, Stays DEF PublisherOK, Request, EarlyPoints, OpenPoints
    <2>2. /\ PublicationTypeOK' /\ OneStep(p)
          /\ pc'[p] = "create" /\ verdict'[p] = "none" /\ entries'[p] = 0 /\ dir'[o] = D
      <3>1. "create" \in Points /\ "none" \in Verdicts /\ 0 \in Files \cup {0}
        BY Members
      <3>2. Puts(p, "create", "none", 0, o, D)
        BY <1>1, <1>4, <1>5, <2>1 DEF Puts
      <3> QED BY <1>b, <1>3, <1>5, <3>1, <3>2, Changed
    <2>3. PublisherOK(p)'
      BY <1>b, <1>1, <1>2, <1>3, <2>2 DEF PublisherOK, Request, Staged, StagedFiles, Durable, EarlyPoints,
         PartialPoints, AnchorPoints, OpenPoints, Files
    <2>4. DirectoryOK(o)'
      BY <1>b, <1>1, <1>3, <2>2 DEF DirectoryOK
    <2> QED BY <1>b, <1>2, <1>3, <2>2, <2>3, <2>4, OneStepKeeps
  <1>6. ASSUME dir' = [dir EXCEPT ![o] = D], Fails, Return(p, "error")
        PROVE  PublicationIInv'
    <2>1. /\ PublicationTypeOK' /\ OneStep(p)
          /\ pc'[p] = "probe" /\ verdict'[p] = "error" /\ entries'[p] = 0 /\ dir'[o] = D
      <3>1. "probe" \in Points /\ "error" \in Verdicts /\ 0 \in Files \cup {0}
        BY Members
      <3>2. Puts(p, "probe", "error", 0, o, D)
        BY <1>1, <1>4, <1>6 DEF Puts, Return
      <3> QED BY <1>b, <1>3, <1>6, <3>1, <3>2, Changed
    <2>2. PublisherOK(p)'
      BY <1>b, <1>1, <1>2, <1>3, <2>1 DEF PublisherOK, Request, Staged, StagedFiles, Durable, EarlyPoints,
         PartialPoints, AnchorPoints, OpenPoints
    <2>3. DirectoryOK(o)'
      BY <1>b, <1>1, <1>3, <2>1 DEF DirectoryOK
    <2> QED BY <1>b, <1>2, <1>3, <2>1, <2>2, <2>3, OneStepKeeps
  <1>7. ASSUME (Succeeds \/ Fails), Return(p, "error"), dir' = dir
        PROVE  PublicationIInv'
    BY <1>a, <1>1, <1>7, Answered DEF Return, PublicationTypeOK
  <1> QED BY <1>b, <1>5, <1>6, <1>7 DEF CreatePartial, D

(* The file that is created, written and forced to disk.                     *)
LEMMA CreateFileKeeps ==
  ASSUME PublicationIInv, NEW p \in Publishers, CreateFile(p)
  PROVE  PublicationIInv'
  <1>a. PublicationTypeOK /\ PublisherOK(p)
    BY DEF PublicationIInv
  <1>1. pc[p] = "create" /\ UNCHANGED <<root, rootSaved, anchor, own, offer, odd, probed>>
    BY DEF CreateFile
  <1>2. PICK o \in Directories : o = own[p] /\ dir[o] \in DirectoryType
    BY <1>1, OwnDirectory
  <1> DEFINE f == entries[p] + 1
             D == WithFile(dir[o], f, "torn", {"none", "torn"})
  <1>3. f \in Files /\ entries[p] \in Nat
    BY <1>a, <1>1 DEF PublisherOK, StagedFiles, PublicationTypeOK, Files
  <1>4. /\ D \in DirectoryType /\ D.at = dir[o].at /\ D.name = dir[o].name
        /\ D.names = dir[o].names /\ D.of = dir[o].of
        /\ \A g \in Files \ {f} : D.file[g] = dir[o].file[g] /\ D.saved[g] = dir[o].saved[g]
    BY <1>2, <1>3, WithFileFields DEF Contents
  <1>5. ASSUME Succeeds, entries' = [entries EXCEPT ![p] = f], dir' = [dir EXCEPT ![o] = D],
               Goto(p, "write"), verdict' = verdict
        PROVE  PublicationIInv'
    <2> HIDE DEF D
    <2>1. verdict' = [verdict EXCEPT ![p] = "none"]
      BY <1>a, <1>1, <1>5, Stays DEF PublisherOK, Request, PartialPoints, OpenPoints
    <2>2. /\ PublicationTypeOK' /\ OneStep(p)
          /\ pc'[p] = "write" /\ verdict'[p] = "none" /\ entries'[p] = f /\ dir'[o] = D
      <3>1. "write" \in Points /\ "none" \in Verdicts /\ f \in Files \cup {0}
        BY <1>3, Members
      <3>2. Puts(p, "write", "none", f, o, D)
        BY <1>1, <1>5, <2>1 DEF Puts
      <3> QED BY <1>2, <1>4, <1>5, <3>1, <3>2, Changed
    <2>3. dir[o].name = "partial" /\ DirectoryOK(o)
      BY <1>a, <1>1, <1>2 DEF PublisherOK, Staged, PartialPoints, PublicationIInv
    <2>4. PublisherOK(p)'
      <3>1. Request(p)' /\ Staged(p)' /\ Durable(p)'
        BY <1>a, <1>1, <1>2, <1>4, <2>2, <2>3 DEF PublisherOK, Request, Staged, Durable, EarlyPoints,
           PartialPoints, AnchorPoints, OpenPoints
      <3>2. StagedFiles(p)'
        BY <1>a, <1>1, <1>2, <1>3, <1>4, <2>2 DEF PublisherOK, StagedFiles, Whole, Files
      <3> QED BY <3>1, <3>2 DEF PublisherOK
    <2>5. DirectoryOK(o)'
      BY <1>1, <1>2, <1>4, <2>2, <2>3 DEF DirectoryOK
    <2> QED BY <1>2, <1>4, <2>2, <2>3, <2>4, <2>5, OneStepKeeps
  <1>6. ASSUME (Succeeds \/ Fails), Abandon(p, "error"), UNCHANGED <<entries, dir>>
        PROVE  PublicationIInv'
    BY <1>a, <1>1, <1>6, Answered DEF Abandon, PublicationTypeOK, PartialPoints
  <1> QED BY <1>2, <1>5, <1>6 DEF CreateFile

LEMMA WriteFileKeeps ==
  ASSUME PublicationIInv, NEW p \in Publishers, WriteFile(p)
  PROVE  PublicationIInv'
  <1>a. PublicationTypeOK /\ PublisherOK(p)
    BY DEF PublicationIInv
  <1>1. pc[p] = "write" /\ UNCHANGED <<root, rootSaved, anchor, own, entries, offer, odd, probed>>
    BY DEF WriteFile
  <1>2. PICK o \in Directories : o = own[p] /\ dir[o] \in DirectoryType
    BY <1>1, OwnDirectory
  <1> DEFINE f == entries[p]
             D == WithFile(dir[o], f, "whole", {"none", "torn", "whole"})
  <1>3. f \in Files
    BY <1>a, <1>1 DEF PublisherOK, StagedFiles, PublicationTypeOK
  <1>4. /\ D \in DirectoryType /\ D.at = dir[o].at /\ D.name = dir[o].name
        /\ D.names = dir[o].names /\ D.of = dir[o].of /\ D.file[f] = "whole"
        /\ \A g \in Files \ {f} : D.file[g] = dir[o].file[g] /\ D.saved[g] = dir[o].saved[g]
    BY <1>2, <1>3, WithFileFields DEF Contents
  <1>5. ASSUME Succeeds, dir' = [dir EXCEPT ![o] = D], Goto(p, "fsync"), verdict' = verdict
        PROVE  PublicationIInv'
    <2> HIDE DEF D
    <2>1. verdict' = [verdict EXCEPT ![p] = "none"] /\ entries' = [entries EXCEPT ![p] = f]
      BY <1>a, <1>1, <1>5, Stays DEF PublisherOK, Request, PartialPoints, OpenPoints
    <2>2. /\ PublicationTypeOK' /\ OneStep(p)
          /\ pc'[p] = "fsync" /\ verdict'[p] = "none" /\ entries'[p] = f /\ dir'[o] = D
      <3>1. "fsync" \in Points /\ "none" \in Verdicts /\ f \in Files \cup {0}
        BY <1>3, Members
      <3>2. Puts(p, "fsync", "none", f, o, D)
        BY <1>1, <1>5, <2>1 DEF Puts
      <3> QED BY <1>2, <1>4, <1>5, <3>1, <3>2, Changed
    <2>3. dir[o].name = "partial" /\ DirectoryOK(o)
      BY <1>a, <1>1, <1>2 DEF PublisherOK, Staged, PartialPoints, PublicationIInv
    <2>4. PublisherOK(p)'
      <3>1. Request(p)' /\ Staged(p)' /\ Durable(p)'
        BY <1>a, <1>1, <1>2, <1>4, <2>2, <2>3 DEF PublisherOK, Request, Staged, Durable, EarlyPoints,
           PartialPoints, AnchorPoints, OpenPoints
      <3>2. StagedFiles(p)'
        BY <1>a, <1>1, <1>2, <1>3, <1>4, <2>2 DEF PublisherOK, StagedFiles, Whole, Files
      <3> QED BY <3>1, <3>2 DEF PublisherOK
    <2>5. DirectoryOK(o)'
      BY <1>1, <1>2, <1>4, <2>2, <2>3 DEF DirectoryOK
    <2> QED BY <1>2, <1>4, <2>2, <2>3, <2>4, <2>5, OneStepKeeps
  <1>6. ASSUME (Succeeds \/ Fails), Abandon(p, "error"), dir' = dir
        PROVE  PublicationIInv'
    BY <1>a, <1>1, <1>6, Answered DEF Abandon, PublicationTypeOK, PartialPoints
  <1> QED BY <1>2, <1>5, <1>6 DEF WriteFile

LEMMA SyncFileKeeps ==
  ASSUME PublicationIInv, NEW p \in Publishers, SyncFile(p)
  PROVE  PublicationIInv'
  <1>a. PublicationTypeOK /\ PublisherOK(p)
    BY DEF PublicationIInv
  <1>1. pc[p] = "fsync" /\ UNCHANGED <<root, rootSaved, anchor, own, entries, offer, odd, probed>>
    BY DEF SyncFile
  <1>2. PICK o \in Directories : o = own[p] /\ dir[o] \in DirectoryType
    BY <1>1, OwnDirectory
  <1> DEFINE f == entries[p]
             D == WithFile(dir[o], f, dir[o].file[f], {"none", "whole"})
             point == IF f = Manifest THEN "sync" ELSE "create"
  <1>3. f \in Files /\ dir[o].file[f] = "whole"
    BY <1>a, <1>1, <1>2 DEF PublisherOK, StagedFiles, PublicationTypeOK
  <1>4. /\ D \in DirectoryType /\ D.at = dir[o].at /\ D.name = dir[o].name
        /\ D.names = dir[o].names /\ D.of = dir[o].of
        /\ D.file[f] = "whole" /\ D.saved[f] = {"none", "whole"}
        /\ \A g \in Files \ {f} : D.file[g] = dir[o].file[g] /\ D.saved[g] = dir[o].saved[g]
    BY <1>2, <1>3, WithFileFields DEF Contents
  <1>5. ASSUME Succeeds, dir' = [dir EXCEPT ![o] = D], Goto(p, point), verdict' = verdict
        PROVE  PublicationIInv'
    <2> HIDE DEF D
    <2>1. verdict' = [verdict EXCEPT ![p] = "none"] /\ entries' = [entries EXCEPT ![p] = f]
      BY <1>a, <1>1, <1>5, Stays DEF PublisherOK, Request, PartialPoints, OpenPoints
    <2>2. /\ PublicationTypeOK' /\ OneStep(p)
          /\ pc'[p] = point /\ verdict'[p] = "none" /\ entries'[p] = f /\ dir'[o] = D
      <3>1. point \in Points /\ "none" \in Verdicts /\ f \in Files \cup {0}
        BY <1>3, Members
      <3>2. Puts(p, point, "none", f, o, D)
        BY <1>1, <1>5, <2>1 DEF Puts
      <3> HIDE DEF point
      <3> QED BY <1>2, <1>4, <1>5, <3>1, <3>2, Changed
    <2>3. dir[o].name = "partial" /\ DirectoryOK(o)
      BY <1>a, <1>1, <1>2 DEF PublisherOK, Staged, PartialPoints, PublicationIInv
    <2>4. PublisherOK(p)'
      <3>1. Request(p)' /\ Staged(p)' /\ Durable(p)'
        BY <1>a, <1>1, <1>2, <1>4, <2>2, <2>3 DEF PublisherOK, Request, Staged, Durable, EarlyPoints,
           PartialPoints, AnchorPoints, OpenPoints
      <3>2. \A g \in Files : g <= f => D.file[g] = "whole" /\ D.saved[g] = {"none", "whole"}
        BY <1>a, <1>1, <1>2, <1>3, <1>4 DEF PublisherOK, StagedFiles, Whole, Files
      <3>3. StagedFiles(p)'
        BY <1>1, <1>2, <1>3, <2>2, <3>2 DEF StagedFiles, Whole, Files
      <3> QED BY <3>1, <3>3 DEF PublisherOK
    <2>5. DirectoryOK(o)'
      BY <1>1, <1>2, <1>4, <2>2, <2>3 DEF DirectoryOK
    <2> QED BY <1>2, <1>4, <2>2, <2>3, <2>4, <2>5, OneStepKeeps
  <1>6. ASSUME (Succeeds \/ Fails), Abandon(p, "error"), dir' = dir
        PROVE  PublicationIInv'
    BY <1>a, <1>1, <1>6, Answered DEF Abandon, PublicationTypeOK, PartialPoints
  <1> QED BY <1>2, <1>5, <1>6 DEF SyncFile

LEMMA SyncPartialKeeps ==
  ASSUME PublicationIInv, NEW p \in Publishers, SyncPartial(p)
  PROVE  PublicationIInv'
  <1>a. PublicationTypeOK /\ PublisherOK(p)
    BY DEF PublicationIInv
  <1>1. pc[p] = "sync" /\ UNCHANGED <<root, rootSaved, anchor, own, entries, offer, odd, probed>>
    BY DEF SyncPartial
  <1>2. PICK o \in Directories : o = own[p] /\ dir[o] \in DirectoryType
    BY <1>1, OwnDirectory
  <1> DEFINE D == SavedNames(dir[o])
  <1>4. /\ D \in DirectoryType /\ D.at = dir[o].at /\ D.name = dir[o].name
        /\ D.names = dir[o].names /\ D.of = dir[o].of /\ D.file = dir[o].file
        /\ D.saved = [f \in Files |-> dir[o].saved[f] \ {"none"}]
    BY <1>2, SavedNamesFields
  <1>5. ASSUME Succeeds, dir' = [dir EXCEPT ![o] = D], Goto(p, "rename"), verdict' = verdict
        PROVE  PublicationIInv'
    <2> HIDE DEF D
    <2>1. verdict' = [verdict EXCEPT ![p] = "none"] /\ entries' = [entries EXCEPT ![p] = entries[p]]
      BY <1>a, <1>1, <1>5, Stays DEF PublisherOK, Request, PartialPoints, OpenPoints
    <2>2. /\ PublicationTypeOK' /\ OneStep(p)
          /\ pc'[p] = "rename" /\ verdict'[p] = "none" /\ dir'[o] = D
      <3>1. "rename" \in Points /\ "none" \in Verdicts /\ entries[p] \in Files \cup {0}
        BY <1>a, Members, Stays
      <3>2. Puts(p, "rename", "none", entries[p], o, D)
        BY <1>1, <1>5, <2>1 DEF Puts
      <3> QED BY <1>2, <1>4, <1>5, <3>1, <3>2, Changed
    <2>3. dir[o].name = "partial" /\ DirectoryOK(o)
      BY <1>a, <1>1, <1>2 DEF PublisherOK, Staged, PartialPoints, PublicationIInv
    <2>4. PublisherOK(p)'
      <3>1. Request(p)' /\ Staged(p)' /\ Durable(p)'
        BY <1>a, <1>1, <1>2, <1>4, <2>2, <2>3 DEF PublisherOK, Request, Staged, Durable, EarlyPoints,
           PartialPoints, AnchorPoints, OpenPoints
      <3>2. \A f \in Files : D.file[f] = "whole" /\ D.saved[f] = {"whole"}
        BY <1>a, <1>1, <1>2, <1>4 DEF PublisherOK, StagedFiles, Whole
      <3>3. StagedFiles(p)'
        BY <1>1, <1>2, <2>2, <3>2 DEF StagedFiles
      <3> QED BY <3>1, <3>3 DEF PublisherOK
    <2>5. DirectoryOK(o)'
      BY <1>1, <1>2, <1>4, <2>2, <2>3 DEF DirectoryOK
    <2> QED BY <1>2, <1>4, <2>2, <2>3, <2>4, <2>5, OneStepKeeps
  <1>6. ASSUME (Succeeds \/ Fails), Abandon(p, "error"), dir' = dir
        PROVE  PublicationIInv'
    BY <1>a, <1>1, <1>6, Answered DEF Abandon, PublicationTypeOK, PartialPoints
  <1> QED BY <1>2, <1>5, <1>6 DEF SyncPartial

(* The transaction gets its backup: the name is given to a whole directory.    *)
LEMMA RenameKeeps ==
  ASSUME PublicationIInv, NEW p \in Publishers, Rename(p)
  PROVE  PublicationIInv'
  <1>a. PublicationTypeOK /\ PublisherOK(p)
    BY DEF PublicationIInv
  <1>1. pc[p] = "rename" /\ UNCHANGED <<root, rootSaved, anchor, own, entries, offer, odd, probed>>
    BY DEF Rename
  <1>2. PICK o \in Directories : o = own[p] /\ dir[o] \in DirectoryType
    BY <1>1, OwnDirectory
  <1> DEFINE D == WithName(dir[o], "final")
  <1>4. /\ D \in DirectoryType /\ D.at = dir[o].at /\ D.name = "final"
        /\ D.names = dir[o].names \cup {"final"} /\ D.of = dir[o].of
        /\ D.file = dir[o].file /\ D.saved = dir[o].saved
    BY <1>2, WithNameFields
  <1>5. ASSUME Succeeds, dir' = [dir EXCEPT ![o] = D], Goto(p, "settle"), verdict' = verdict,
               Finals(anchor[p]) = {}
        PROVE  PublicationIInv'
    <2> HIDE DEF D
    <2>1. verdict' = [verdict EXCEPT ![p] = "none"] /\ entries' = [entries EXCEPT ![p] = entries[p]]
      BY <1>a, <1>1, <1>5, Stays DEF PublisherOK, Request, PartialPoints, OpenPoints
    <2>2. /\ PublicationTypeOK' /\ OneStep(p)
          /\ pc'[p] = "settle" /\ verdict'[p] = "none" /\ dir'[o] = D
      <3>1. "settle" \in Points /\ "none" \in Verdicts /\ entries[p] \in Files \cup {0}
        BY <1>a, Members, Stays
      <3>2. Puts(p, "settle", "none", entries[p], o, D)
        BY <1>1, <1>5, <2>1 DEF Puts
      <3> QED BY <1>2, <1>4, <1>5, <3>1, <3>2, Changed
    <2>3. /\ dir[o].at = anchor[p] /\ dir[o].of = offer[p] /\ offer[p] \in Manifests
          /\ anchor[p] # 0
          /\ \A f \in Files : dir[o].file[f] = "whole" /\ dir[o].saved[f] = {"whole"}
      BY <1>a, <1>1, <1>2 DEF PublisherOK, Request, Staged, StagedFiles, PartialPoints, AnchorPoints,
         OpenPoints
    <2>4. PublisherOK(p)'
      BY <1>1, <1>2, <1>4, <2>2, <2>3 DEF PublisherOK, Request, Staged, StagedFiles, Durable,
         EarlyPoints, PartialPoints, AnchorPoints, OpenPoints
    <2>5. DirectoryOK(o)'
      BY <1>1, <1>2, <1>4, <2>2, <2>3 DEF DirectoryOK, Complete
    <2>6. \A d \in Directories \ {o} : dir[d].name = "final" => dir[d].at # dir'[o].at
      BY <1>4, <1>5, <2>2, <2>3 DEF Finals
    <2> QED BY <1>2, <2>2, <2>4, <2>5, <2>6, OneStepKeeps
  <1>6. ASSUME Succeeds, Goto(p, "verify"), UNCHANGED <<dir, verdict>>
        PROVE  PublicationIInv'
    <2>1. anchor' = [anchor EXCEPT ![p] = anchor[p]] /\ anchor[p] \in Roots \cup {0}
      BY <1>a, <1>1, Stays
    <2>2. anchor[p] # 0 /\ "verify" \in Points
      BY <1>a, <1>1, Members DEF PublisherOK, Request, AnchorPoints, PartialPoints
    <2>3. rootSaved' \in [Roots -> EntryStates] /\ root' \in [at : Roots \cup {0}, private : BOOLEAN]
      BY <1>a, <1>1 DEF PublicationTypeOK
    <2> QED BY <1>1, <1>6, <2>1, <2>2, <2>3, Passed
  <1>7. ASSUME Fails, Abandon(p, "error"), dir' = dir
        PROVE  PublicationIInv'
    BY <1>a, <1>1, <1>7, Answered DEF Abandon, PublicationTypeOK, PartialPoints
  <1> QED BY <1>2, <1>5, <1>6, <1>7 DEF Rename

LEMMA VerifyExistingKeeps ==
  ASSUME PublicationIInv, NEW p \in Publishers, VerifyExisting(p)
  PROVE  PublicationIInv'
  <1>a. PublicationTypeOK
    BY DEF PublicationIInv
  <1>1. /\ pc[p] = "verify" /\ (Succeeds \/ Fails)
        /\ UNCHANGED <<root, rootSaved, dir, anchor, own, entries, offer, odd, probed>>
    BY DEF VerifyExisting
  <1>2. PICK v \in {"verified", "conflict", "error"} : Abandon(p, v)
    BY DEF VerifyExisting
  <1>3. v \in {"verified", "conflict", "unknown", "error"} /\ v # "unknown"
    BY <1>2
  <1>4. rootSaved' \in [Roots -> EntryStates] /\ pc[p] \in PartialPoints /\ pc[p] # "idle"
    BY <1>a, <1>1 DEF PublicationTypeOK, PartialPoints
  <1> QED BY <1>1, <1>2, <1>3, <1>4, Answered DEF Abandon

(* cleanup of the staged files                                              *)
LEMMA CleanKeeps ==
  ASSUME PublicationIInv, NEW p \in Publishers, Clean(p)
  PROVE  PublicationIInv'
  <1>a. PublicationTypeOK /\ PublisherOK(p)
    BY DEF PublicationIInv
  <1>1. pc[p] = "clean" /\ UNCHANGED <<root, rootSaved, anchor, own, offer, odd, probed>>
    BY DEF Clean
  <1>2. PICK o \in Directories : o = own[p] /\ dir[o] \in DirectoryType
    BY <1>1, OwnDirectory
  <1>3. dir[o].name = "partial" /\ DirectoryOK(o)
    BY <1>a, <1>1, <1>2 DEF PublisherOK, Staged, PartialPoints, PublicationIInv
  <1>b. verdict = [verdict EXCEPT ![p] = verdict[p]] /\ verdict[p] \in Verdicts
    BY <1>a, Stays
  <1>4. ASSUME NEW D \in DirectoryType, NEW e \in Files \cup {0}, NEW point \in {"clean", "rmdir"},
               D.at = dir[o].at, D.name = dir[o].name, D.names = dir[o].names, D.of = dir[o].of,
               Succeeds, dir' = [dir EXCEPT ![o] = D], Goto(p, point),
               entries' = [entries EXCEPT ![p] = e], verdict' = verdict
        PROVE  PublicationIInv'
    <2>1. point \in Points
      BY <1>4, Members
    <2>2. Puts(p, point, verdict[p], e, o, D)
      BY <1>b, <1>1, <1>4 DEF Puts
    <2>3. /\ PublicationTypeOK' /\ OneStep(p)
          /\ pc'[p] = point /\ verdict'[p] = verdict[p] /\ dir'[o] = D
      BY <1>b, <1>2, <1>4, <2>1, <2>2, Changed
    <2>4. PublisherOK(p)'
      BY <1>a, <1>1, <1>2, <1>3, <1>4, <2>3 DEF PublisherOK, Request, Staged, StagedFiles, Durable,
         EarlyPoints, PartialPoints, AnchorPoints, OpenPoints
    <2>5. DirectoryOK(o)'
      BY <1>1, <1>2, <1>3, <1>4, <2>3 DEF DirectoryOK
    <2> QED BY <1>2, <1>3, <1>4, <2>3, <2>4, <2>5, OneStepKeeps
  <1>5. ASSUME Succeeds, entries[p] > 0, UNCHANGED <<pc, verdict>>,
               dir' = [dir EXCEPT ![o] =
                   WithFile(dir[o], entries[p], "none", dir[o].saved[entries[p]] \cup {"none"})],
               entries' = [entries EXCEPT ![p] = entries[p] - 1]
        PROVE  PublicationIInv'
    <2> DEFINE D == WithFile(dir[o], entries[p], "none", dir[o].saved[entries[p]] \cup {"none"})
    <2>1. entries[p] \in Files
      BY <1>a, <1>5, Stays
    <2>2. dir[o].saved[entries[p]] \cup {"none"} \in SUBSET Contents /\ "none" \in Contents
      BY <1>2, <2>1, Fields DEF Contents
    <2>3. /\ D \in DirectoryType /\ D.at = dir[o].at /\ D.name = dir[o].name
          /\ D.names = dir[o].names /\ D.of = dir[o].of
      BY <1>2, <2>1, <2>2, WithFileFields
    <2>4. entries[p] - 1 \in Files \cup {0}
      BY <2>1 DEF Files
    <2>5. Goto(p, "clean")
      BY <1>a, <1>1, <1>5 DEF Goto, PublicationTypeOK
    <2> HIDE DEF D
    <2>6. dir' = [dir EXCEPT ![o] = D]
      BY <1>5 DEF D
    <2> QED BY <1>4, <1>5, <2>3, <2>4, <2>5, <2>6
  <1>6. ASSUME Succeeds, Goto(p, "rmdir"), UNCHANGED <<entries, verdict>>,
               dir' = [dir EXCEPT ![o].saved = [f \in Files |-> {"none"}]]
        PROVE  PublicationIInv'
    <2> DEFINE D == [dir[o] EXCEPT !.saved = [f \in Files |-> {"none"}]]
    <2>1. /\ D \in DirectoryType /\ D.at = dir[o].at /\ D.name = dir[o].name
          /\ D.names = dir[o].names /\ D.of = dir[o].of
      BY <1>2 DEF DirectoryType, Contents
    <2>2. dir' = [dir EXCEPT ![o] = D]
      BY <1>6
    <2>3. entries' = [entries EXCEPT ![p] = entries[p]] /\ entries[p] \in Files \cup {0}
      BY <1>a, <1>6, Stays
    <2> HIDE DEF D
    <2> QED BY <1>4, <1>6, <2>1, <2>2, <2>3
  <1>7. ASSUME (Succeeds \/ Fails), Return(p, "error"), UNCHANGED <<dir, entries>>
        PROVE  PublicationIInv'
    BY <1>a, <1>1, <1>7, Answered DEF Return, PublicationTypeOK
  <1> QED BY <1>2, <1>5, <1>6, <1>7 DEF Clean

(* An fsync of the root leaves all but the own directory as they are.          *)
LEMMA RootSynced ==
  ASSUME PublicationIInv, NEW p \in Publishers, Succeeds, NEW v \in Verdicts, Return(p, v),
         NEW o \in Directories, o = own[p],
         dir' \in [Directories -> DirectoryType],
         \A d \in Directories \ {o} : dir'[d] = Saved(anchor[p])[d],
         UNCHANGED <<root, rootSaved, anchor, own, entries, offer, odd, probed>>
  PROVE  PublicationTypeOK' /\ OneStep(p) /\ pc'[p] = "probe" /\ verdict'[p] = v
  <1>a. PublicationTypeOK
    BY DEF PublicationIInv
  <1>1. /\ pc' \in [Publishers -> Points] /\ pc'[p] = "probe"
        /\ \A q \in Publishers \ {p} : pc'[q] = pc[q]
    <2>1. Goto(p, "probe") /\ "probe" \in Points
      BY Members DEF Return
    <2> QED BY <1>a, <2>1, Moved
  <1>2. /\ verdict' \in [Publishers -> Verdicts] /\ verdict'[p] = v
        /\ \A q \in Publishers \ {p} : verdict'[q] = verdict[q]
    BY <1>a, Told DEF Return
  <1>3. begun' = begun /\ disasters' = disasters /\ failures' \in 0 .. MaxFailures
    BY <1>a, Called
  <1>4. PublicationTypeOK'
    BY <1>a, <1>1, <1>2, <1>3 DEF PublicationTypeOK, Verdicts
  <1>5. \A d \in Directories \ {o} : Kept(d)
    <2>1. anchor[p] \in Roots \cup {0}
      BY <1>a DEF PublicationTypeOK
    <2> TAKE d \in Directories \ {o}
    <2> DEFINE r == Saved(anchor[p])[d]
    <2>2. /\ r.at = dir[d].at /\ r.name = dir[d].name /\ r.of = dir[d].of
          /\ r.file = dir[d].file /\ r.saved = dir[d].saved
          /\ r.names \in {dir[d].names, {dir[d].name}}
          /\ dir[d] = NoDirectory => r = NoDirectory
      BY <1>a, <2>1, SavedKeeps
    <2>3. dir'[d] = r
      OBVIOUS
    <2> HIDE DEF r
    <2> QED BY <2>2, <2>3 DEF Kept
  <1>6. \A q \in Publishers \ {p} : Same(q)
    BY <1>1, <1>2 DEF Same
  <1>7. OneStep(p)
    BY <1>3, <1>5, <1>6 DEF OneStep
  <1> QED BY <1>1, <1>2, <1>4, <1>7

(* The verdict "published" comes with the fsync of the root.                 *)
LEMMA SettleKeeps ==
  ASSUME PublicationIInv, NEW p \in Publishers, Settle(p)
  PROVE  PublicationIInv'
  <1>a. PublicationTypeOK /\ PublisherOK(p) /\ OneFinal
    BY DEF PublicationIInv
  <1>1. pc[p] = "settle" /\ UNCHANGED <<root, rootSaved, anchor, own, entries, offer, odd, probed>>
    BY DEF Settle
  <1>2. PICK o \in Directories : o = own[p] /\ dir[o] \in DirectoryType
    BY <1>1, OwnDirectory
  <1>3. anchor[p] \in Roots \cup {0}
    BY <1>a DEF PublicationTypeOK
  <1>4. /\ dir[o].at = anchor[p] /\ dir[o].name = "final" /\ DirectoryOK(o)
    BY <1>a, <1>1, <1>2 DEF PublisherOK, Staged, PublicationIInv
  <1>5. ASSUME NEW v \in {"published", "unknown"}, Succeeds, dir' = Saved(anchor[p]), Return(p, v)
        PROVE  PublicationIInv'
    <2>1. /\ dir' \in [Directories -> DirectoryType]
          /\ dir'[o].at = dir[o].at /\ dir'[o].name = dir[o].name /\ dir'[o].of = dir[o].of
          /\ dir'[o].file = dir[o].file /\ dir'[o].saved = dir[o].saved
          /\ dir'[o].names = {"final"}
      BY <1>a, <1>2, <1>3, <1>4, <1>5, SavedKeeps
    <2>2. v \in Verdicts /\ \A d \in Directories \ {o} : dir'[d] = Saved(anchor[p])[d]
      BY <1>5 DEF Verdicts
    <2>3. PublicationTypeOK' /\ OneStep(p) /\ pc'[p] = "probe" /\ verdict'[p] = v
      BY <1>1, <1>2, <1>5, <2>1, <2>2, RootSynced
    <2>4. PublisherOK(p)'
      BY <1>1, <1>2, <1>4, <2>1, <2>3 DEF PublisherOK, Request, Staged, StagedFiles, Durable,
         EarlyPoints, PartialPoints, AnchorPoints, OpenPoints, DirectoryOK
    <2>5. disasters' = disasters
      BY <1>5 DEF Succeeds
    <2>6. DirectoryOK(o)'
      BY <1>1, <1>2, <1>4, <2>1, <2>5 DEF DirectoryOK, Complete
    <2>7. \A d \in Directories \ {o} : dir[d].name = "final" => dir[d].at # dir'[o].at
      BY <1>a, <1>2, <1>4, <2>1 DEF OneFinal
    <2> QED BY <1>2, <2>3, <2>4, <2>6, <2>7, OneStepKeeps
  <1>6. ASSUME Fails, Return(p, "unknown"), dir' = dir
        PROVE  PublicationIInv'
    BY <1>a, <1>1, <1>6, Answered DEF Return, PublicationTypeOK
  <1> QED BY <1>5, <1>6 DEF Settle

LEMMA RemoveDirectoryKeeps ==
  ASSUME PublicationIInv, NEW p \in Publishers, RemoveDirectory(p)
  PROVE  PublicationIInv'
  <1>a. PublicationTypeOK /\ PublisherOK(p)
    BY DEF PublicationIInv
  <1>1. pc[p] = "rmdir" /\ UNCHANGED <<root, rootSaved, anchor, own, entries, offer, odd, probed>>
    BY DEF RemoveDirectory
  <1>2. PICK o \in Directories : o = own[p] /\ dir[o] \in DirectoryType
    BY <1>1, OwnDirectory
  <1>3. /\ dir[o].name = "partial" /\ DirectoryOK(o) /\ anchor[p] \in Roots \cup {0}
        /\ verdict[p] \in Verdicts /\ verdict[p] # "published"
    BY <1>a, <1>1, <1>2 DEF PublisherOK, Request, Staged, PartialPoints, PublicationIInv,
       PublicationTypeOK, Verdicts
  <1>4. ASSUME Succeeds, dir' = [Saved(anchor[p]) EXCEPT ![o] = NoDirectory], Return(p, verdict[p])
        PROVE  PublicationIInv'
    <2>1. /\ dir' \in [Directories -> DirectoryType] /\ dir'[o] = NoDirectory
          /\ \A d \in Directories \ {o} : dir'[d] = Saved(anchor[p])[d]
      BY <1>a, <1>2, <1>3, <1>4, SavedKeeps, NoDirectoryType
    <2>2. PublicationTypeOK' /\ OneStep(p) /\ pc'[p] = "probe" /\ verdict'[p] = verdict[p]
      BY <1>1, <1>2, <1>3, <1>4, <2>1, RootSynced
    <2>3. PublisherOK(p)'
      BY <1>1, <1>2, <1>3, <2>2 DEF PublisherOK, Request, Staged, StagedFiles, Durable,
         EarlyPoints, PartialPoints, AnchorPoints, OpenPoints
    <2>4. DirectoryOK(o)' /\ dir'[o].name # "final"
      BY <2>1 DEF DirectoryOK, NoDirectory
    <2> QED BY <1>2, <2>2, <2>3, <2>4, OneStepKeeps
  <1>5. ASSUME Fails, dir' = [dir EXCEPT ![o] = WithName(dir[o], "none")], Return(p, "error")
        PROVE  PublicationIInv'
    <2> DEFINE D == WithName(dir[o], "none")
    <2>1. /\ D \in DirectoryType /\ D.name = "none" /\ D.names = dir[o].names \cup {"none"}
      BY <1>2, WithNameFields
    <2>2. Puts(p, "probe", "error", entries[p], o, D)
      BY <1>a, <1>1, <1>5, Stays DEF Puts, Return
    <2> HIDE DEF D
    <2>3. "probe" \in Points /\ "error" \in Verdicts /\ entries[p] \in Files \cup {0}
      BY <1>a, Members, Stays
    <2>4. /\ PublicationTypeOK' /\ OneStep(p)
          /\ pc'[p] = "probe" /\ verdict'[p] = "error" /\ dir'[o] = D
      BY <1>2, <1>5, <2>1, <2>2, <2>3, Changed
    <2>5. PublisherOK(p)'
      BY <1>1, <1>2, <2>4 DEF PublisherOK, Request, Staged, StagedFiles, Durable,
         EarlyPoints, PartialPoints, AnchorPoints, OpenPoints
    <2>6. DirectoryOK(o)' /\ dir'[o].name # "final"
      BY <1>3, <2>1, <2>4 DEF DirectoryOK
    <2> QED BY <1>2, <2>4, <2>5, <2>6, OneStepKeeps
  <1>6. ASSUME (Succeeds \/ Fails), Return(p, "error"), dir' = dir
        PROVE  PublicationIInv'
    BY <1>a, <1>1, <1>6, Answered DEF Return, PublicationTypeOK
  <1> QED BY <1>2, <1>4, <1>5, <1>6 DEF RemoveDirectory

LEMMA ProbeKeeps ==
  ASSUME PublicationIInv, NEW p \in Publishers, Probe(p)
  PROVE  PublicationIInv'
  <1>a. PublicationTypeOK /\ PublisherOK(p)
    BY DEF PublicationIInv
  <1>1. /\ pc[p] = "probe" /\ Goto(p, "idle")
        /\ UNCHANGED <<root, rootSaved, dir, anchor, own, entries, offer, odd, verdict>>
        /\ begun' = begun /\ failures' = failures /\ disasters' = disasters
    BY DEF Probe
  <1>2. "idle" \in Points
    BY Members
  <1>3. /\ pc' \in [Publishers -> Points] /\ pc'[p] = "idle"
        /\ \A q \in Publishers \ {p} : pc'[q] = pc[q]
    BY <1>a, <1>1, <1>2, Moved
  <1>4. probed' \in [Publishers -> {"none", "found", "absent", "invalid"}]
    BY <1>a DEF Probe, EffectOpens, OpenResult, PublicationTypeOK
  <1>5. PublicationTypeOK'
    BY <1>a, <1>1, <1>3, <1>4 DEF PublicationTypeOK
  <1>6. \A q \in Publishers \ {p} : Same(q)
    BY <1>1, <1>3 DEF Same
  <1>7. PublisherOK(p)'
    BY <1>a, <1>1, <1>3 DEF PublisherOK, Request, Staged, StagedFiles, Durable, EarlyPoints,
       PartialPoints, AnchorPoints, OpenPoints
  <1> QED BY <1>1, <1>5, <1>6, <1>7, SameDirectories

-----------------------------------------------------------------------------
(* The disasters.                                                           *)

(* A publisher that does nothing and was told nothing promises nothing.        *)
LEMMA IdleOK ==
  ASSUME NEW q, pc[q] = "idle", verdict[q] = "none"
  PROVE  PublisherOK(q)
  BY DEF PublisherOK, Request, Staged, StagedFiles, Durable, EarlyPoints, PartialPoints,
     AnchorPoints, OpenPoints

LEMMA DeadTyped ==
  ASSUME PublicationTypeOK, NEW P \in SUBSET Publishers, Dead(P), NEW kind, Disaster(kind)
  PROVE  /\ pc' \in [Publishers -> Points]
         /\ anchor' \in [Publishers -> Roots \cup {0}]
         /\ own' \in [Publishers -> Directories \cup {0}]
         /\ entries' \in [Publishers -> Files \cup {0}]
         /\ offer' \in [Publishers -> Manifests \cup {NoBackup}]
         /\ odd' \in [Publishers -> 0 .. ArtifactCount]
         /\ verdict' \in [Publishers -> Verdicts]
         /\ probed' \in [Publishers -> {"none", "found", "absent", "invalid"}]
         /\ begun' = begun /\ begun' \in 0 .. MaxDirectories /\ failures' \in 0 .. MaxFailures
         /\ disasters' \in 0 .. MaxDisasters /\ disasters' = disasters + 1
  <1>1. pc' \in [Publishers -> Points]
    BY Members DEF Dead, PublicationTypeOK
  <1>2. /\ anchor' \in [Publishers -> Roots \cup {0}]
        /\ own' \in [Publishers -> Directories \cup {0}]
        /\ entries' \in [Publishers -> Files \cup {0}]
    BY DEF Dead, PublicationTypeOK
  <1>3. /\ offer' \in [Publishers -> Manifests \cup {NoBackup}]
        /\ odd' \in [Publishers -> 0 .. ArtifactCount]
    BY DEF Dead, PublicationTypeOK
  <1>4. /\ verdict' \in [Publishers -> Verdicts]
        /\ probed' \in [Publishers -> {"none", "found", "absent", "invalid"}]
    BY DEF Dead, PublicationTypeOK, Verdicts
  <1>5. /\ begun' = begun /\ begun' \in 0 .. MaxDirectories /\ failures' \in 0 .. MaxFailures
        /\ disasters' \in 0 .. MaxDisasters /\ disasters' = disasters + 1
    BY DEF Disaster, PublicationTypeOK
  <1> QED BY <1>1, <1>2, <1>3, <1>4, <1>5

LEMMA CrashKeeps ==
  ASSUME PublicationIInv, NEW p \in Publishers, Crash(p)
  PROVE  PublicationIInv'
  <1>a. /\ PublicationTypeOK /\ Numbers /\ OneFinal
        /\ \A q \in Publishers : PublisherOK(q)
        /\ \A d \in Directories : DirectoryOK(d)
    BY DEF PublicationIInv
  <1>1. /\ Dead({p}) /\ Disaster("crash") /\ UNCHANGED <<root, dir>>
        /\ rootSaved' \in [Roots -> EntryStates]
    BY <1>a DEF Crash, PublicationTypeOK, EntryStates
  <1>2. PublicationTypeOK' /\ begun' = begun /\ disasters' = disasters + 1
    BY <1>a, <1>1, DeadTyped DEF PublicationTypeOK, Verdicts
  <1>3. /\ own'[p] = 0 /\ pc'[p] = "idle" /\ verdict'[p] = "none"
        /\ \A q \in Publishers \ {p} : Same(q)
    BY <1>1 DEF Dead, Same
  <1>4. Numbers'
    <2>1. \A q \in Publishers : own'[q] \in {0, own[q]}
      BY <1>3 DEF Same
    <2>2. begun \in Nat /\ \A q \in Publishers : own[q] <= begun
      BY <1>a DEF PublicationTypeOK, Numbers
    <2>3. \A q \in Publishers : own'[q] <= begun'
      BY <1>2, <2>1, <2>2
    <2>4. \A q, r \in Publishers : own'[q] = own'[r] /\ own'[q] # 0 => q = r
      BY <1>a, <2>1 DEF Numbers
    <2> QED BY <1>a, <1>1, <1>2, <2>3, <2>4 DEF Numbers
  <1>5. \A d : Kept(d)
    BY <1>1 DEF Kept
  <1>6. \A q \in Publishers : PublisherOK(q)'
    <2> TAKE q \in Publishers
    <2>1. CASE q = p
      BY <1>3, <2>1 DEF PublisherOK, Request, Staged, StagedFiles, Durable, EarlyPoints, PartialPoints,
         AnchorPoints, OpenPoints
    <2>2. CASE q # p
      <3>1. own[q] # 0 => own[q] \in Directories
        BY <1>a DEF PublicationTypeOK
      <3> QED BY <1>a, <1>3, <1>5, <2>2, <3>1, PublisherKept
    <2> QED BY <2>1, <2>2
  <1>7. \A d \in Directories : DirectoryOK(d)'
    <2>1. disasters' \in Nat /\ disasters' >= disasters
      BY <1>a, <1>2 DEF PublicationTypeOK
    <2> QED BY <1>a, <1>5, <2>1, DirectoryKept
  <1>8. OneFinal'
    BY <1>a, <1>1 DEF OneFinal
  <1> QED BY <1>2, <1>4, <1>6, <1>7, <1>8 DEF PublicationIInv

(* A change of the root by somebody else.                                   *)
LEMMA RootDisasterKeeps ==
  ASSUME PublicationIInv, NEW kind, Disaster(kind), UNCHANGED <<dir, process, request>>,
         root' \in [at : Roots \cup {0}, private : BOOLEAN], rootSaved' \in [Roots -> EntryStates]
  PROVE  PublicationIInv'
  <1>a. /\ PublicationTypeOK /\ Numbers /\ OneFinal
        /\ \A q \in Publishers : PublisherOK(q)
        /\ \A d \in Directories : DirectoryOK(d)
    BY DEF PublicationIInv
  <1>1. /\ begun' = begun /\ failures' = failures /\ disasters' = disasters + 1
        /\ disasters' \in 0 .. MaxDisasters
    BY <1>a DEF Disaster, PublicationTypeOK
  <1>2. PublicationTypeOK'
    BY <1>a, <1>1 DEF PublicationTypeOK
  <1>3. Numbers' /\ OneFinal'
    BY <1>a, <1>1 DEF Numbers, OneFinal
  <1>b. \A d : Kept(d)
    BY DEF Kept
  <1>4. \A q \in Publishers : PublisherOK(q)'
    <2> TAKE q \in Publishers
    <2>1. Same(q)
      BY DEF Same
    <2>2. own[q] # 0 => own[q] \in Directories
      BY <1>a DEF PublicationTypeOK
    <2> QED BY <1>a, <1>b, <2>1, <2>2, PublisherKept
  <1>5. \A d \in Directories : DirectoryOK(d)'
    <2>2. disasters' \in Nat /\ disasters' >= disasters
      BY <1>a, <1>1 DEF PublicationTypeOK
    <2> QED BY <1>a, <1>b, <2>2, DirectoryKept
  <1> QED BY <1>2, <1>3, <1>4, <1>5 DEF PublicationIInv

LEMMA ReplaceRootKeeps == PublicationIInv /\ ReplaceRoot => PublicationIInv'
  <1> SUFFICES ASSUME PublicationIInv, ReplaceRoot PROVE PublicationIInv'
    OBVIOUS
  <1> DEFINE g == CHOOSE g \in FreshRoots : TRUE
  <1>1. g \in Roots
    BY DEF ReplaceRoot, FreshRoots
  <1> HIDE DEF g
  <1>2. /\ root' = [at |-> g, private |-> TRUE] /\ rootSaved' = [rootSaved EXCEPT ![g] = "saved"]
        /\ Disaster("replace") /\ UNCHANGED <<dir, process, request>>
    BY DEF ReplaceRoot, g
  <1>3. /\ root' \in [at : Roots \cup {0}, private : BOOLEAN] /\ rootSaved' \in [Roots -> EntryStates]
    BY <1>1, <1>2 DEF PublicationIInv, PublicationTypeOK, EntryStates
  <1> QED BY <1>2, <1>3, RootDisasterKeeps

LEMMA ChmodRootKeeps == PublicationIInv /\ ChmodRoot => PublicationIInv'
  <1> SUFFICES ASSUME PublicationIInv, ChmodRoot PROVE PublicationIInv'
    OBVIOUS
  <1>1. Disaster("chmod") /\ UNCHANGED <<dir, process, request>>
    BY DEF ChmodRoot
  <1>2. /\ root' \in [at : Roots \cup {0}, private : BOOLEAN] /\ rootSaved' \in [Roots -> EntryStates]
    BY DEF ChmodRoot, PublicationIInv, PublicationTypeOK
  <1> QED BY <1>1, <1>2, RootDisasterKeeps

(* A changed file is found changed after a power loss too.                   *)
LEMMA SpoilKeeps == PublicationIInv /\ Spoil => PublicationIInv'
  <1> SUFFICES ASSUME PublicationIInv, Spoil PROVE PublicationIInv'
    OBVIOUS
  <1>a. /\ PublicationTypeOK /\ Numbers /\ OneFinal
        /\ \A q \in Publishers : PublisherOK(q)
        /\ \A d \in Directories : DirectoryOK(d)
    BY DEF PublicationIInv
  <1>1. /\ begun' = begun /\ failures' = failures /\ disasters' = disasters + 1
        /\ disasters' \in 0 .. MaxDisasters /\ disasters' > 0
        /\ UNCHANGED <<root, rootSaved, process, request>>
    BY <1>a DEF Spoil, Disaster, PublicationTypeOK
  <1>2. PICK o \in Directories, f \in Files :
            /\ dir[o].name = "final"
            /\ dir' = [dir EXCEPT ![o] = WithFile(dir[o], f, "foreign", {"foreign"})]
    BY DEF Spoil
  <1> DEFINE D == WithFile(dir[o], f, "foreign", {"foreign"})
  <1>3. dir[o] \in DirectoryType /\ "foreign" \in Contents
    BY <1>a DEF PublicationTypeOK, Contents
  <1>4. /\ D \in DirectoryType /\ D.at = dir[o].at /\ D.name = dir[o].name
        /\ D.names = dir[o].names /\ D.of = dir[o].of
        /\ D.file[f] = "foreign" /\ D.saved[f] = {"foreign"}
        /\ \A g \in Files \ {f} : D.file[g] = dir[o].file[g] /\ D.saved[g] = dir[o].saved[g]
    <2>1. {"foreign"} \in SUBSET Contents
      BY <1>3
    <2> QED BY <1>3, <2>1, WithFileFields
  <1> HIDE DEF D
  <1>5. /\ dir' \in [Directories -> DirectoryType] /\ dir'[o] = D
        /\ \A d \in Directories \ {o} : dir'[d] = dir[d]
    BY <1>a, <1>2, <1>4 DEF PublicationTypeOK, D
  <1>6. PublicationTypeOK'
    BY <1>a, <1>1, <1>5 DEF PublicationTypeOK
  <1>7. Numbers' /\ OneFinal'
    <2>1. dir[o] # NoDirectory
      BY <1>2 DEF NoDirectory
    <2> QED BY <1>a, <1>1, <1>4, <1>5, <2>1 DEF Numbers, OneFinal
  <1>8. \A q \in Publishers : PublisherOK(q)'
    <2> TAKE q \in Publishers
    <2>1. CASE own[q] # o
      <3>1. own[q] # 0 => own[q] \in Directories \ {o}
        BY <1>a, <2>1 DEF PublicationTypeOK
      <3>2. own[q] # 0 => Kept(own[q])
        BY <1>5, <3>1 DEF Kept
      <3> QED BY <1>a, <1>1, <3>1, <3>2, PublisherKept DEF Same
    <2>2. CASE own[q] = o
      <3>1. pc[q] \in {"idle", "probe", "settle"}
        <4>1. pc[q] \notin PartialPoints /\ pc[q] \notin EarlyPoints
          BY <1>a, <1>2, <2>2 DEF PublisherOK, Staged, NoDirectory
        <4> QED BY <1>a, <4>1 DEF PublicationTypeOK, Points, PartialPoints, EarlyPoints
      <3>2. Request(q)' /\ Staged(q)'
        BY <1>a, <1>1, <1>4, <1>5, <2>2, <3>1 DEF PublisherOK, Request, Staged, PartialPoints, EarlyPoints
      <3>3. StagedFiles(q)' /\ Durable(q)'
        BY <1>a, <1>1, <1>4, <1>5, <2>2, <3>1 DEF PublisherOK, StagedFiles, Durable
      <3> QED BY <3>2, <3>3 DEF PublisherOK
    <2> QED BY <2>1, <2>2
  <1>9. \A d \in Directories : DirectoryOK(d)'
    <2> TAKE d \in Directories
    <2>1. CASE d = o
      BY <1>a, <1>1, <1>2, <1>4, <1>5, <2>1 DEF DirectoryOK
    <2>2. CASE d # o
      BY <1>a, <1>1, <1>5, <2>2 DEF DirectoryOK
    <2> QED BY <2>1, <2>2
  <1> QED BY <1>6, <1>7, <1>8, <1>9 DEF PublicationIInv

(* What a power loss leaves of directory d: nothing, a partial directory, or the   *)
(* final one with the content it had.                                        *)
Found(d) ==
    /\ dir'[d].names = {dir'[d].name}
    /\ dir'[d].name = "none" \/ dir'[d].name \in dir[d].names
    /\ dir[d].names = {"none"} => dir'[d] = NoDirectory
    /\ dir'[d].name = "final" =>
           /\ dir[d].name = "final" /\ dir'[d].at = dir[d].at /\ dir'[d].of = dir[d].of
           /\ root' = root
           /\ \A f \in Files : /\ dir'[d].file[f] = dir[d].file[f]
                               /\ dir'[d].saved[f] = {dir[d].file[f]}

(* After a power loss a directory has the transaction's name only if it had it   *)
(* before, and then the content it had.                                     *)
LEMMA PowerLossFinds ==
  ASSUME PublicationIInv, PowerLoss
  PROVE  /\ root' \in [at : Roots \cup {0}, private : BOOLEAN] /\ rootSaved' \in [Roots -> EntryStates]
         /\ dir' \in [Directories -> DirectoryType]
         /\ \A d \in Directories : Found(d)
         /\ \A g \in Roots : g = root'.at \/ (\E d \in Directories : dir'[d].at = g) =>
                               rootSaved'[g] = "saved"
  <1>a. /\ PublicationTypeOK /\ Numbers /\ OneFinal
        /\ \A d \in Directories : DirectoryOK(d)
        /\ dir \in [Directories -> DirectoryType]
    BY DEF PublicationIInv, PublicationTypeOK
  <1> DEFINE Left(kept, name, content) ==
          /\ \A d \in Directories, f \in Files :
                name[d] = "final" /\ dir[d].at = root.at => content[f] \in dir[d].saved[f]
          /\ (\A d \in Directories : name[d] # "final" \/ dir[d].at # root.at)
                => content = [f \in Files |-> "none"]
          /\ dir' = [d \in Directories |->
                        IF kept THEN Remains(d, name[d], content) ELSE NoDirectory]
  <1>e. PICK kept \in BOOLEAN :
            /\ root.at # 0 /\ rootSaved[root.at] = "saved" => kept
            /\ root' = IF kept THEN root ELSE [root EXCEPT !.at = 0]
            /\ rootSaved' = [g \in Roots |-> IF kept /\ g = root.at THEN "saved" ELSE "open"]
            /\ \E name \in [Directories -> Names] :
                  /\ \A d \in Directories : name[d] \in dir[d].names
                  /\ \E content \in [Files -> Contents] : Left(kept, name, content)
    BY Zenon DEF PowerLoss
  <1>f. PICK name \in [Directories -> Names] :
            /\ \A d \in Directories : name[d] \in dir[d].names
            /\ \E content \in [Files -> Contents] : Left(kept, name, content)
    BY Zenon, <1>e
  <1>g. PICK content \in [Files -> Contents] : Left(kept, name, content)
    BY Zenon, <1>f
  <1>2. /\ root' = IF kept THEN root ELSE [root EXCEPT !.at = 0]
        /\ rootSaved' = [g \in Roots |-> IF kept /\ g = root.at THEN "saved" ELSE "open"]
        /\ \A d \in Directories : name[d] \in dir[d].names
        /\ \A d \in Directories, f \in Files :
              name[d] = "final" /\ dir[d].at = root.at => content[f] \in dir[d].saved[f]
        /\ dir' = [d \in Directories |->
                      IF kept THEN Remains(d, name[d], content) ELSE NoDirectory]
    BY Zenon, <1>e, <1>f, <1>g
  <1> HIDE DEF Left
  <1>3. ASSUME NEW d \in Directories
        PROVE  /\ dir'[d] \in DirectoryType
               /\ \/ dir'[d] = NoDirectory
                  \/ /\ name[d] # "none" /\ dir[d].at = root.at
                     /\ dir'[d].at = dir[d].at /\ dir'[d].of = dir[d].of
                     /\ dir'[d].name = name[d] /\ dir'[d].names = {name[d]}
                     /\ name[d] = "final" =>
                           \A f \in Files : /\ dir'[d].file[f] = content[f]
                                            /\ dir'[d].saved[f] = {content[f]}
    <2> DEFINE file  == IF name[d] = "final" THEN content ELSE NoDirectory.file
               saved == IF name[d] = "final" THEN [f \in Files |-> {content[f]}]
                                             ELSE NoDirectory.saved
               r == [dir[d] EXCEPT !.name = name[d], !.names = {name[d]}, !.file = file, !.saved = saved]
    <2>1. file \in [Files -> Contents] /\ saved \in [Files -> SUBSET Contents]
      <3>1. NoDirectory.file \in [Files -> Contents] /\ NoDirectory.saved \in [Files -> SUBSET Contents]
        BY NoDirectoryType, Fields
      <3> QED BY <1>2, <3>1
    <2>2. name[d] \in Names /\ {name[d]} \in SUBSET Names /\ dir[d] \in DirectoryType
      BY <1>a, <1>2
    <2>3. name[d] = "final" => \A f \in Files : file[f] = content[f] /\ saved[f] = {content[f]}
      BY <1>2
    <2>4. dir'[d] = NoDirectory \/ (dir'[d] = r /\ name[d] # "none" /\ dir[d].at = root.at)
      BY <1>2 DEF Remains
    <2> HIDE DEF file, saved
    <2>5. /\ r \in DirectoryType /\ r.at = dir[d].at /\ r.of = dir[d].of
          /\ r.name = name[d] /\ r.names = {name[d]} /\ r.file = file /\ r.saved = saved
      BY <2>1, <2>2 DEF DirectoryType
    <2> HIDE DEF r
    <2> QED BY <2>3, <2>4, <2>5, NoDirectoryType
  <1>4. dir' \in [Directories -> DirectoryType]
    <2>1. DOMAIN dir' = Directories /\ dir' = [d \in Directories |-> dir'[d]]
      BY <1>2
    <2> QED BY <1>3, <2>1
  <1>5. /\ root' \in [at : Roots \cup {0}, private : BOOLEAN] /\ rootSaved' \in [Roots -> EntryStates]
    BY <1>a, <1>2 DEF PublicationTypeOK, EntryStates
  <1>8. ASSUME NEW g \in Roots, g = root'.at \/ \E d \in Directories : dir'[d].at = g
        PROVE  rootSaved'[g] = "saved"
    <2>1. \A d \in Directories : dir'[d].at = 0 \/ (kept /\ dir'[d].at = root.at)
      BY <1>2, <1>3 DEF NoDirectory
    <2>2. root'.at = 0 \/ (kept /\ root'.at = root.at)
      BY <1>a, <1>2 DEF PublicationTypeOK
    <2> QED BY <1>2, <1>8, <2>1, <2>2
  <1>b. ASSUME NEW d \in Directories, dir'[d].name = "final"
        PROVE  /\ dir[d].name = "final" /\ dir'[d].at = dir[d].at /\ dir'[d].of = dir[d].of
               /\ dir'[d].names = {"final"} /\ root' = root
               /\ \A f \in Files : dir'[d].file[f] = dir[d].file[f] /\ dir'[d].saved[f] = {dir[d].file[f]}
    <2>1. dir'[d] # NoDirectory
      BY <1>b DEF NoDirectory
    <2>2. name[d] = "final" /\ dir[d].at = root.at
      BY <1>b, <1>3, <2>1
    <2>3. dir[d].name = "final" /\ \A f \in Files : dir[d].saved[f] = {dir[d].file[f]}
      BY <1>a, <1>2, <2>2 DEF DirectoryOK
    <2>4. \A f \in Files : content[f] = dir[d].file[f]
      BY <1>2, <2>2, <2>3
    <2>5. root' = root
      BY <1>2, <2>1
    <2> QED BY <1>3, <2>1, <2>2, <2>3, <2>4, <2>5
  <1>6. ASSUME NEW d \in Directories, dir[d].names = {"none"} PROVE dir'[d] = NoDirectory
    <2>1. name[d] = "none"
      BY <1>2, <1>6
    <2> QED BY <1>2, <2>1 DEF Remains
  <1>7. ASSUME NEW d \in Directories
        PROVE  /\ dir'[d].names = {dir'[d].name} /\ (dir'[d].name = "none" \/ dir'[d].name \in dir[d].names)
    BY <1>2, <1>3 DEF NoDirectory
  <1> QED BY <1>4, <1>5, <1>6, <1>7, <1>8, <1>b DEF Found

LEMMA PowerLossKeeps == PublicationIInv /\ PowerLoss => PublicationIInv'
  <1> SUFFICES ASSUME PublicationIInv, PowerLoss PROVE PublicationIInv'
    OBVIOUS
  <1>a. /\ PublicationTypeOK /\ Numbers /\ OneFinal
        /\ \A d \in Directories : DirectoryOK(d)
        /\ dir \in [Directories -> DirectoryType]
    BY DEF PublicationIInv, PublicationTypeOK
  <1>1. Dead(Publishers) /\ Disaster("power")
    BY DEF PowerLoss
  <1>5. /\ root' \in [at : Roots \cup {0}, private : BOOLEAN] /\ rootSaved' \in [Roots -> EntryStates]
        /\ dir' \in [Directories -> DirectoryType]
        /\ \A d \in Directories : Found(d)
    BY PowerLossFinds
  <1>6. PublicationTypeOK' /\ begun' = begun /\ disasters' > 0
    <2>1. Publishers \in SUBSET Publishers
      OBVIOUS
    <2>2. disasters \in Nat
      BY <1>a DEF PublicationTypeOK
    <2> QED BY <1>a, <1>1, <1>5, <2>1, <2>2, DeadTyped DEF PublicationTypeOK, Verdicts
  <1>7. \A q \in Publishers : own'[q] = 0 /\ pc'[q] = "idle" /\ verdict'[q] = "none"
    BY <1>1 DEF Dead
  <1>8. Numbers'
    <2>1. \A q \in Publishers : own'[q] <= begun'
      BY <1>6, <1>7, <1>a DEF PublicationTypeOK
    <2>2. ASSUME NEW d \in Directories, d > begun PROVE dir'[d] = NoDirectory
      <3>1. dir[d].names = {"none"}
        BY <1>a, <2>2 DEF Numbers, NoDirectory
      <3> QED BY <1>5, <3>1 DEF Found
    <2> QED BY <1>6, <1>7, <2>1, <2>2 DEF Numbers
  <1>9. \A q \in Publishers : PublisherOK(q)'
    BY <1>7 DEF PublisherOK, Request, Staged, StagedFiles, Durable, EarlyPoints, PartialPoints,
       AnchorPoints, OpenPoints
  <1>c. \A d \in Directories : DirectoryOK(d)'
    <2> TAKE d \in Directories
    <2>1. CASE dir'[d].name = "final"
      <3>1. /\ dir[d].name = "final" /\ dir'[d].at = dir[d].at /\ dir'[d].of = dir[d].of
            /\ dir'[d].names = {"final"}
            /\ \A f \in Files : /\ dir'[d].file[f] = dir[d].file[f]
                                /\ dir'[d].saved[f] = {dir[d].file[f]}
        BY <1>5, <2>1 DEF Found
      <3>2. DirectoryOK(d)
        BY <1>a
      <3> QED BY <1>6, <2>1, <3>1, <3>2 DEF DirectoryOK
    <2>2. CASE dir'[d].name # "final"
      <3>1. dir'[d].name \in dir'[d].names /\ "final" \notin dir'[d].names
        BY <1>5, <2>2 DEF Found
      <3> QED BY <2>2, <3>1 DEF DirectoryOK
    <2> QED BY <2>1, <2>2
  <1>d. OneFinal'
    BY <1>a, <1>5 DEF OneFinal, Found
  <1> QED BY <1>6, <1>8, <1>9, <1>c, <1>d DEF PublicationIInv

-----------------------------------------------------------------------------
LEMMA PublicationInitInv == PublicationInit => PublicationIInv
  <1> SUFFICES ASSUME PublicationInit PROVE PublicationIInv
    OBVIOUS
  <1>1. dir \in [Directories -> DirectoryType]
    BY NoDirectoryType DEF PublicationInit
  <1>2. pc \in [Publishers -> Points] /\ verdict \in [Publishers -> Verdicts]
    BY Members DEF PublicationInit
  <1>3. /\ root \in [at : Roots \cup {0}, private : BOOLEAN] /\ rootSaved \in [Roots -> EntryStates]
        /\ anchor \in [Publishers -> Roots \cup {0}]
        /\ own \in [Publishers -> Directories \cup {0}]
        /\ entries \in [Publishers -> Files \cup {0}]
    BY DEF PublicationInit, EntryStates
  <1>4. /\ offer \in [Publishers -> Manifests \cup {NoBackup}]
        /\ odd \in [Publishers -> 0 .. ArtifactCount]
        /\ probed \in [Publishers -> {"none", "found", "absent", "invalid"}]
        /\ begun \in 0 .. MaxDirectories /\ failures \in 0 .. MaxFailures
        /\ disasters \in 0 .. MaxDisasters
    BY DEF PublicationInit
  <1>5. PublicationTypeOK
    BY <1>1, <1>2, <1>3, <1>4 DEF PublicationTypeOK, Verdicts
  <1>6. Numbers
    BY DEF PublicationInit, Numbers
  <1>7. \A p \in Publishers : PublisherOK(p)
    BY IdleOK DEF PublicationInit
  <1>8. \A d \in Directories : dir[d].name = "none" /\ dir[d].names = {"none"}
    BY DEF PublicationInit, NoDirectory
  <1>9. OneFinal /\ \A d \in Directories : DirectoryOK(d)
    BY <1>8 DEF OneFinal, DirectoryOK
  <1> QED BY <1>5, <1>6, <1>7, <1>9 DEF PublicationIInv

(* A step that changes nothing.                                             *)
LEMMA PublicationStutter == PublicationIInv /\ UNCHANGED vars => PublicationIInv'
  BY DEF vars, PublicationIInv, PublicationTypeOK, Numbers, PublisherOK, Request, Staged, StagedFiles,
     Durable, Whole, DirectoryOK, Complete, OneFinal

LEMMA PublicationStep == PublicationIInv /\ [PublicationNext]_vars => PublicationIInv'
  <1> SUFFICES ASSUME PublicationIInv, [PublicationNext]_vars PROVE PublicationIInv'
    OBVIOUS
  <1>1. ASSUME NEW p \in Publishers, Stage(p) PROVE PublicationIInv'
    BY <1>1, BeginKeeps, OpenFirstKeeps, OpenRootKeeps, SyncParentKeeps, CheckCapacityKeeps,
       CreatePartialKeeps, CreateFileKeeps, WriteFileKeeps, SyncFileKeeps, SyncPartialKeeps DEF Stage
  <1>2. ASSUME NEW p \in Publishers, Commit(p) PROVE PublicationIInv'
    BY <1>2, RenameKeeps, SettleKeeps, VerifyExistingKeeps, CleanKeeps, RemoveDirectoryKeeps,
       ProbeKeeps DEF Commit
  <1> QED
    BY <1>1, <1>2, CrashKeeps, PowerLossKeeps, ReplaceRootKeeps, ChmodRootKeeps, SpoilKeeps,
       PublicationStutter DEF PublicationNext

(* The inductive invariant holds in every state of every behaviour.          *)
THEOREM PublicationInvariant == PublicationSpec => []PublicationIInv
  BY PublicationInitInv, PublicationStep, PTL DEF PublicationSpec

(* The final name reaches the disk only after every file and its entry did:      *)
(* finishStage comes before commit on every path.                            *)
THEOREM FinalTheorem == PublicationSpec => []FinalSurvivesWhole
  <1>1. PublicationIInv => FinalSurvivesWhole
    BY DEF PublicationIInv, DirectoryOK, FinalSurvivesWhole
  <1> QED BY <1>1, PublicationInvariant, PTL

-----------------------------------------------------------------------------
(***************************************************************************)
(* Leftovers.  A directory is loose when a power loss may leave it under a    *)
(* partial name; it is doomed when no publisher is left that removes or        *)
(* renames it.  Every directory is doomed by a failed call of its own, or by a  *)
(* disaster, which dooms at most one directory of each publisher.              *)
(***************************************************************************)
Loose     == {d \in Directories : "partial" \in dir[d].names}
Keeper(p) == pc[p] = "settle" \/ (pc[p] \in PartialPoints /\ RootValid(p))
Doomed    == {d \in Loose : \A p \in Publishers : own[p] = d => ~Keeper(p)}

FewDoomed == Cardinality(Doomed) <= failures + disasters * Cardinality(Publishers)

(* Sets of directories are finite, and a set with few new elements is not much   *)
(* larger.                                                                 *)
LEMMA FiniteDirectories ==
  ASSUME NEW S \in SUBSET Directories
  PROVE  IsFiniteSet(S) /\ Cardinality(S) \in Nat
  <1>1. IsFiniteSet(Directories)
    BY FS_Interval
  <1> QED BY <1>1, FS_Subset, FS_CardinalityType

LEMMA Grown ==
  ASSUME NEW A, NEW X, NEW B, IsFiniteSet(A), IsFiniteSet(X), B \subseteq A \cup X
  PROVE  Cardinality(B) <= Cardinality(A) + Cardinality(X)
  <1>1. IsFiniteSet(A \cup X) /\ Cardinality(A \cup X) <= Cardinality(A) + Cardinality(X)
    <2>1. IsFiniteSet(A \cap X)
      BY FS_Subset
    <2>2. /\ Cardinality(A) \in Nat /\ Cardinality(X) \in Nat /\ Cardinality(A \cap X) \in Nat
          /\ IsFiniteSet(A \cup X)
          /\ Cardinality(A \cup X) = Cardinality(A) + Cardinality(X) - Cardinality(A \cap X)
      BY <2>1, FS_Union, FS_CardinalityType
    <2> QED BY <2>2
  <1>2. Cardinality(B) <= Cardinality(A \cup X) /\ IsFiniteSet(B)
    BY <1>1, FS_Subset
  <1> QED BY <1>1, <1>2, FS_CardinalityType

(* The directories of some publishers are not more than they are.            *)
LEMMA OwnDirectories ==
  ASSUME NEW S \in SUBSET Publishers
  PROVE  LET T == {own[q] : q \in S}
         IN  IsFiniteSet(T) /\ Cardinality(T) <= Cardinality(S) /\ Cardinality(S) \in Nat
  <1> DEFINE T == {own[q] : q \in S}
             f == [q \in S |-> own[q]]
  <1>1. IsFiniteSet(S)
    BY PublisherAssumption, FS_Subset
  <1>2. f \in Surjection(S, T)
    BY DEF Surjection
  <1> HIDE DEF T, f
  <1>3. IsFiniteSet(T) /\ Cardinality(T) <= Cardinality(S)
    BY <1>1, <1>2, FS_Surjection
  <1> QED BY <1>1, <1>3, FS_CardinalityType DEF T

(* A loose directory that is not doomed belongs to a publisher at work.        *)
LEMMA LooseDirectories ==
  Loose \subseteq Doomed \cup {own[q] : q \in {p \in Publishers : pc[p] # "idle"}}
  BY DEF Doomed, Keeper, PartialPoints

(* What a step of publisher p does with its own directory o: it is not loose, is  *)
(* kept, was doomed already, or a call has failed.                           *)
Accounted(p, o) == \/ "partial" \notin dir'[o].names
                   \/ Keeper(p)'
                   \/ dir'[o].names = dir[o].names /\ ~Keeper(p)
                   \/ failures' = failures + 1

LEMMA DoomedStep ==
  ASSUME PublicationIInv, FewDoomed, NEW p \in Publishers, OneStep(p), root' = root,
         failures' \in {failures, failures + 1},
         NEW o \in Directories, o = own[p], Accounted(p, o)
  PROVE  FewDoomed'
  <1>a. PublicationTypeOK /\ Numbers /\ \A d \in Directories : DirectoryOK(d)
    BY DEF PublicationIInv
  <1>1. ASSUME NEW q \in Publishers, q # p PROVE Keeper(q)' <=> Keeper(q)
    BY <1>1 DEF Keeper, RootValid, OneStep, Same
  <1>2. ASSUME NEW d \in Directories, d # o, d \in Doomed' PROVE d \in Doomed
    <2>1. "partial" \in dir[d].names
      BY <1>a, <1>2 DEF Doomed, Loose, OneStep, Kept, DirectoryOK
    <2>2. ASSUME NEW q \in Publishers, own[q] = d PROVE ~Keeper(q)
      <3>1. q # p /\ own'[q] = d
        BY <1>2, <2>2 DEF OneStep
      <3> QED BY <1>1, <1>2, <3>1 DEF Doomed
    <2> QED BY <2>1, <2>2 DEF Doomed, Loose
  <1>3. ASSUME o \in Doomed' PROVE o \in Doomed \/ failures' = failures + 1
    <2>1. "partial" \in dir'[o].names /\ ~Keeper(p)'
      BY <1>3 DEF Doomed, Loose, OneStep
    <2>2. CASE dir'[o].names = dir[o].names /\ ~Keeper(p)
      <3>1. \A q \in Publishers : own[q] = o => q = p
        BY <1>a DEF Numbers
      <3> QED BY <2>1, <2>2, <3>1 DEF Doomed, Loose
    <2> QED BY <2>1, <2>2 DEF Accounted
  <1>4. /\ IsFiniteSet(Doomed) /\ Cardinality(Doomed) \in Nat
        /\ IsFiniteSet(Doomed') /\ Cardinality(Doomed') \in Nat /\ Doomed' \subseteq Directories
    BY FiniteDirectories DEF Doomed, Loose
  <1>5. /\ failures \in Nat /\ disasters \in Nat /\ Cardinality(Publishers) \in Nat
        /\ disasters' = disasters
    BY <1>a, PublisherAssumption, FS_CardinalityType DEF PublicationTypeOK, OneStep
  <1>6. disasters * Cardinality(Publishers) \in Nat
    BY <1>5
  <1>7. CASE failures' = failures + 1
    <2>1. Doomed' \subseteq Doomed \cup {o}
      BY <1>2, <1>4
    <2>2. IsFiniteSet({o}) /\ Cardinality({o}) = 1
      BY FS_Singleton
    <2>3. Cardinality(Doomed') <= Cardinality(Doomed) + 1
      BY <1>4, <2>1, <2>2, Grown
    <2> QED BY <1>4, <1>5, <1>6, <1>7, <2>3 DEF FewDoomed
  <1>8. CASE failures' = failures /\ failures' # failures + 1
    <2>1. Doomed' \subseteq Doomed
      BY <1>2, <1>3, <1>4, <1>8
    <2>2. Cardinality(Doomed') <= Cardinality(Doomed)
      BY <1>4, <2>1, FS_Subset
    <2> QED BY <1>4, <1>5, <1>6, <1>8, <2>2 DEF FewDoomed
  <1> QED BY <1>5, <1>7, <1>8

(* A disaster dooms at most the directory of every publisher.                 *)
LEMMA DoomedByDisaster ==
  ASSUME PublicationIInv, FewDoomed, disasters' = disasters + 1, failures' = failures,
         \A d \in Directories : "partial" \in dir'[d].names => "partial" \in dir[d].names
  PROVE  FewDoomed'
  <1> DEFINE n == Cardinality(Publishers)
             A == {p \in Publishers : pc[p] # "idle"}
             T == {own[q] : q \in A}
  <1>1. Doomed' \subseteq Doomed \cup T
    <2>1. Doomed' \subseteq Loose
      BY DEF Doomed, Loose
    <2> QED BY <2>1, LooseDirectories
  <1>2. IsFiniteSet(T) /\ Cardinality(T) <= Cardinality(A) /\ Cardinality(A) \in Nat
    BY OwnDirectories
  <1>3. Cardinality(A) <= n /\ n \in Nat
    BY PublisherAssumption, FS_Subset, FS_CardinalityType
  <1>4. /\ IsFiniteSet(Doomed) /\ Cardinality(Doomed) \in Nat /\ Cardinality(Doomed') \in Nat
    BY FiniteDirectories DEF Doomed, Loose
  <1>5. Cardinality(T) \in Nat
    BY <1>2, FS_CardinalityType
  <1> HIDE DEF T, A, n
  <1>6. Cardinality(Doomed') <= Cardinality(Doomed) + n
    <2>1. Cardinality(Doomed') <= Cardinality(Doomed) + Cardinality(T)
      BY <1>1, <1>2, <1>4, Grown
    <2> QED BY <1>2, <1>3, <1>4, <1>5, <2>1
  <1>7. failures \in Nat /\ disasters \in Nat
    BY DEF PublicationIInv, PublicationTypeOK
  <1>8. (disasters + 1) * n = disasters * n + n /\ disasters * n \in Nat
    BY <1>3, <1>7
  <1>9. Cardinality(Doomed) <= failures + disasters * n
    BY DEF FewDoomed, n
  <1>b. Cardinality(Doomed') <= failures' + disasters' * n
    BY <1>3, <1>4, <1>6, <1>7, <1>8, <1>9
  <1> QED BY <1>b DEF FewDoomed, n

(* The steps of Publish after Begin, but for the one that opens the root.       *)
Continue(p) == \/ OpenFirst(p) \/ SyncParent(p) \/ CheckCapacity(p) \/ CreatePartial(p)
               \/ CreateFile(p) \/ WriteFile(p) \/ SyncFile(p) \/ SyncPartial(p)
               \/ Rename(p) \/ Settle(p) \/ VerifyExisting(p) \/ Clean(p)
               \/ RemoveDirectory(p) \/ Probe(p)

(* They touch the variables of one publisher and, an fsync of the root apart,     *)
(* one directory.                                                           *)
LEMMA ContinueFrames ==
  ASSUME PublicationIInv, NEW p \in Publishers, Continue(p)
  PROVE  OneStep(p) /\ root' = root /\ failures' \in {failures, failures + 1} /\ pc[p] # "idle"
  <1>a. PublicationTypeOK
    BY DEF PublicationIInv
  <1>1. /\ own' = own /\ root' = root /\ anchor' = anchor /\ offer' = offer
        /\ (Succeeds \/ Fails) /\ pc[p] # "idle"
    BY DEF Continue, OpenFirst, SyncParent, CheckCapacity, CreatePartial, CreateFile, WriteFile,
       SyncFile, SyncPartial, Rename, Settle, VerifyExisting, Clean, RemoveDirectory, Probe, Succeeds
  <1>2. begun' = begun /\ disasters' = disasters /\ failures' \in {failures, failures + 1}
    BY <1>1 DEF Succeeds, Fails
  <1>3. /\ (\E point : Goto(p, point)) \/ pc' = pc
        /\ (\E v : verdict' = [verdict EXCEPT ![p] = v]) \/ verdict' = verdict
    BY DEF Continue, OpenFirst, SyncParent, CheckCapacity, CreatePartial, CreateFile, WriteFile,
       SyncFile, SyncPartial, Rename, Settle, VerifyExisting, Clean, RemoveDirectory, Probe, Return,
       Abandon, EffectOpens, OpenResult
  <1>4. (\E e : entries' = [entries EXCEPT ![p] = e]) \/ entries' = entries
    BY DEF Continue, OpenFirst, SyncParent, CheckCapacity, CreatePartial, CreateFile, WriteFile,
       SyncFile, SyncPartial, Rename, Settle, VerifyExisting, Clean, RemoveDirectory, Probe
  <1>5. \A q \in Publishers \ {p} : Same(q)
    BY <1>a, <1>1, <1>3, <1>4 DEF Same, Goto, PublicationTypeOK
  <1>6. \A d \in Directories \ {own[p]} : Kept(d)
    <2>1. CASE \A d \in Directories \ {own[p]} : dir'[d] = dir[d]
      BY <2>1 DEF Kept
    <2>2. CASE \A d \in Directories \ {own[p]} : dir'[d] = Saved(anchor[p])[d]
      <3> TAKE d \in Directories \ {own[p]}
      <3> DEFINE r == Saved(anchor[p])[d]
      <3>1. anchor[p] \in Roots \cup {0}
        BY <1>a DEF PublicationTypeOK
      <3>2. /\ r.at = dir[d].at /\ r.name = dir[d].name /\ r.of = dir[d].of
            /\ r.file = dir[d].file /\ r.saved = dir[d].saved
            /\ r.names \in {dir[d].names, {dir[d].name}}
            /\ dir[d] = NoDirectory => r = NoDirectory
        BY <1>a, <3>1, SavedKeeps
      <3>3. dir'[d] = r
        BY <2>2
      <3> HIDE DEF r
      <3> QED BY <3>2, <3>3 DEF Kept
    <2>3. \/ dir' = dir \/ \E D : dir' = [dir EXCEPT ![own[p]] = D]
          \/ dir' = Saved(anchor[p]) \/ dir' = [Saved(anchor[p]) EXCEPT ![own[p]] = NoDirectory]
      BY DEF Continue, OpenFirst, SyncParent, CheckCapacity, CreatePartial, CreateFile, WriteFile,
         SyncFile, SyncPartial, Rename, Settle, VerifyExisting, Clean, RemoveDirectory, Probe
    <2>4. dir \in [Directories -> DirectoryType] /\ DOMAIN Saved(anchor[p]) = Directories
      BY <1>a DEF PublicationTypeOK, Saved
    <2> QED BY <2>1, <2>2, <2>3, <2>4
  <1> QED BY <1>1, <1>2, <1>5, <1>6 DEF OneStep

(* Every step accounts for the directory of its publisher.                   *)
LEMMA ContinueAccounts ==
  ASSUME PublicationIInv, NEW p \in Publishers, Continue(p), NEW o \in Directories, o = own[p]
  PROVE  Accounted(p, o)
  <1>a. /\ PublicationTypeOK /\ PublisherOK(p)
        /\ dir \in [Directories -> DirectoryType] /\ dir[o] \in DirectoryType
    BY DEF PublicationIInv, PublicationTypeOK
  <1>b. pc' \in [Publishers -> Points] => DOMAIN pc' = Publishers
    OBVIOUS
  <1>c. \A point : Goto(p, point) => pc'[p] = point
    BY <1>a DEF PublicationTypeOK, Goto
  <1>d. dir[o] = NoDirectory => "partial" \notin dir[o].names
    BY DEF NoDirectory
  <1>1. CASE OpenFirst(p) \/ SyncParent(p) \/ CheckCapacity(p)
    <2>1. dir' = dir /\ pc[p] \in EarlyPoints
      BY <1>1 DEF OpenFirst, SyncParent, CheckCapacity, EarlyPoints
    <2> QED BY <1>a, <1>d, <2>1 DEF Accounted, PublisherOK, Staged
  <1>2. CASE CreatePartial(p)
    <2>1. dir[o] = NoDirectory
      BY <1>a, <1>2 DEF CreatePartial, PublisherOK, Staged, EarlyPoints
    <2>2. CASE Goto(p, "create") /\ RootValid(p)
      BY <1>2, <1>c, <2>2 DEF CreatePartial, Accounted, Keeper, RootValid, PartialPoints
    <2>3. CASE Fails
      BY <2>3 DEF Fails, Accounted
    <2>4. CASE dir' = dir
      BY <1>d, <2>1, <2>4 DEF Accounted
    <2> QED BY <1>2, <2>2, <2>3, <2>4 DEF CreatePartial
  <1>3. ASSUME pc[p] \in PartialPoints, pc'[p] \in PartialPoints, dir'[o].names = dir[o].names,
               UNCHANGED <<root, anchor>>
        PROVE  Accounted(p, o)
    <2>1. RootValid(p)' <=> RootValid(p)
      BY <1>3 DEF RootValid
    <2>2. pc[p] # "settle"
      BY <1>3 DEF PartialPoints
    <2>3. Keeper(p)' \/ ~Keeper(p)
      BY <1>3, <2>1, <2>2 DEF Keeper
    <2> QED BY <1>3, <2>3 DEF Accounted
  <1>4. CASE CreateFile(p) \/ WriteFile(p) \/ SyncFile(p) \/ SyncPartial(p)
    <2>1. pc[p] \in PartialPoints /\ UNCHANGED <<root, anchor>>
      BY <1>4 DEF CreateFile, WriteFile, SyncFile, SyncPartial, PartialPoints
    <2>2. pc'[p] \in PartialPoints
      BY <1>4, <1>c DEF CreateFile, WriteFile, SyncFile, SyncPartial, Abandon, PartialPoints
    <2>3. dir'[o].names = dir[o].names
      <3>1. CASE dir' = dir
        BY <3>1
      <3>2. ASSUME NEW D, dir' = [dir EXCEPT ![o] = D], D.names = dir[o].names
            PROVE  dir'[o].names = dir[o].names
        BY <1>a, <3>2
      <3>3. \A f, c, S : WithFile(dir[o], f, c, S).names = dir[o].names
        BY <1>a DEF WithFile, DirectoryType
      <3>4. SavedNames(dir[o]).names = dir[o].names
        BY <1>a, SavedNamesFields
      <3> QED BY <1>4, <3>1, <3>2, <3>3, <3>4 DEF CreateFile, WriteFile, SyncFile, SyncPartial
    <2> QED BY <1>3, <2>1, <2>2, <2>3
  <1>5. CASE Rename(p)
    <2>1. CASE Goto(p, "settle")
      BY <1>c, <2>1 DEF Accounted, Keeper
    <2>2. CASE dir' = dir /\ (Goto(p, "verify") \/ Goto(p, "clean"))
      BY <1>3, <1>5, <1>c, <2>2 DEF Rename, PartialPoints
    <2> QED BY <1>5, <2>1, <2>2 DEF Rename, Abandon
  <1>6. CASE Settle(p)
    <2>1. CASE dir' = Saved(anchor[p])
      <3>1. dir[o].at = anchor[p] /\ dir[o].name = "final" /\ anchor[p] \in Roots \cup {0}
        BY <1>a, <1>6 DEF Settle, PublisherOK, Staged, PublicationTypeOK
      <3>2. dir'[o].names = {"final"}
        BY <1>a, <2>1, <3>1, SavedKeeps
      <3> QED BY <3>2 DEF Accounted
    <2>2. CASE Fails
      BY <2>2 DEF Fails, Accounted
    <2> QED BY <1>6, <2>1, <2>2 DEF Settle
  <1>7. CASE VerifyExisting(p)
    BY <1>3, <1>7, <1>c DEF VerifyExisting, Abandon, PartialPoints
  <1>e. pc[p] \in PartialPoints => dir[o].name = "partial"
    BY <1>a DEF PublisherOK, Staged
  <1>8. CASE Clean(p)
    <2>1. CASE Return(p, "error") /\ dir' = dir /\ ~PartialValid(p)
      <3>1. ~RootValid(p) /\ pc[p] = "clean"
        BY <1>8, <1>e, <2>1 DEF Clean, PartialValid, PartialPoints
      <3> QED BY <2>1, <3>1 DEF Accounted, Keeper
    <2>2. CASE Fails
      BY <2>2 DEF Fails, Accounted
    <2>3. CASE UNCHANGED pc \/ Goto(p, "rmdir")
      <3>1. pc[p] \in PartialPoints /\ pc'[p] \in PartialPoints /\ UNCHANGED <<root, anchor>>
        BY <1>8, <1>c, <2>3 DEF Clean, PartialPoints
      <3>2. dir'[o].names = dir[o].names
        <4>1. ASSUME NEW D, dir' = [dir EXCEPT ![o] = D], D.names = dir[o].names
              PROVE  dir'[o].names = dir[o].names
          BY <1>a, <4>1
        <4>2. \A f, c, S : WithFile(dir[o], f, c, S).names = dir[o].names
          BY <1>a DEF WithFile, DirectoryType
        <4>3. CASE dir' = [dir EXCEPT ![o].saved = [f \in Files |-> {"none"}]]
          <5>1. [dir[o] EXCEPT !.saved = [f \in Files |-> {"none"}]].names = dir[o].names
            BY <1>a DEF DirectoryType
          <5>2. dir'[o] = [dir[o] EXCEPT !.saved = [f \in Files |-> {"none"}]]
            BY <1>a, <4>3
          <5> QED BY <5>1, <5>2
        <4>4. CASE dir' = dir
          BY <4>4
        <4> QED BY <1>8, <4>1, <4>2, <4>3, <4>4 DEF Clean
      <3> QED BY <1>3, <3>1, <3>2
    <2> QED BY <1>8, <2>1, <2>2, <2>3 DEF Clean
  <1>9. CASE RemoveDirectory(p)
    <2>1. CASE dir' = [Saved(anchor[p]) EXCEPT ![o] = NoDirectory]
      <3>1. dir'[o] = NoDirectory
        BY <2>1 DEF Saved
      <3> QED BY <3>1 DEF Accounted, NoDirectory
    <2>2. CASE Fails
      BY <2>2 DEF Fails, Accounted
    <2>3. CASE dir' = dir /\ ~RootValid(p)
      BY <1>9, <2>3 DEF RemoveDirectory, Accounted, Keeper
    <2> QED BY <1>9, <2>1, <2>2, <2>3 DEF RemoveDirectory
  <1>f. CASE Probe(p)
    BY <1>f DEF Probe, Accounted, Keeper, PartialPoints
  <1> QED BY <1>1, <1>2, <1>4, <1>5, <1>6, <1>7, <1>8, <1>9, <1>f DEF Continue

(* Begin and OpenRoot make nothing loose, and their publisher kept nothing.     *)
LEMMA DoomedByNone ==
  ASSUME PublicationIInv, FewDoomed, failures' = failures, disasters' = disasters, dir' = dir,
         \A q \in Publishers : Keeper(q) => Keeper(q)' /\ own'[q] = own[q]
  PROVE  FewDoomed'
  <1>1. Loose' = Loose
    BY DEF Loose
  <1>2. Doomed' \subseteq Doomed
    <2> SUFFICES ASSUME NEW d \in Doomed', NEW q \in Publishers, own[q] = d, Keeper(q)
                 PROVE  FALSE
      BY <1>1 DEF Doomed
    <2> QED BY DEF Doomed
  <1>3. IsFiniteSet(Doomed) /\ Cardinality(Doomed) \in Nat /\ Cardinality(Doomed') \in Nat
    BY FiniteDirectories DEF Doomed, Loose
  <1>4. Cardinality(Doomed') <= Cardinality(Doomed)
    BY <1>2, <1>3, FS_Subset
  <1>5. failures \in Nat /\ disasters \in Nat /\ Cardinality(Publishers) \in Nat
    BY PublisherAssumption, FS_CardinalityType DEF PublicationIInv, PublicationTypeOK
  <1>6. disasters * Cardinality(Publishers) \in Nat
    BY <1>5
  <1> QED BY <1>3, <1>4, <1>5, <1>6 DEF FewDoomed

LEMMA FewDoomedInit == PublicationInit => FewDoomed
  <1> SUFFICES ASSUME PublicationInit PROVE FewDoomed
    OBVIOUS
  <1>1. \A d \in Directories : "partial" \notin dir[d].names
    BY DEF PublicationInit, NoDirectory
  <1>2. Doomed = {}
    BY <1>1 DEF Doomed, Loose
  <1>3. Cardinality(Doomed) = 0
    BY <1>2, FS_EmptySet
  <1>4. failures = 0 /\ disasters = 0 /\ Cardinality(Publishers) \in Nat
    BY PublisherAssumption, FS_CardinalityType DEF PublicationInit
  <1>5. disasters * Cardinality(Publishers) = 0
    BY <1>4
  <1> QED BY <1>3, <1>4, <1>5 DEF FewDoomed

LEMMA FewDoomedStep == PublicationIInv /\ FewDoomed /\ [PublicationNext]_vars => FewDoomed'
  <1> SUFFICES ASSUME PublicationIInv, FewDoomed, [PublicationNext]_vars PROVE FewDoomed'
    OBVIOUS
  <1>a. PublicationTypeOK /\ (\A d \in Directories : DirectoryOK(d))
    BY DEF PublicationIInv
  <1>1. ASSUME NEW p \in Publishers, Continue(p) PROVE FewDoomed'
    <2>1. OneStep(p) /\ root' = root /\ failures' \in {failures, failures + 1} /\ pc[p] # "idle"
      BY <1>1, ContinueFrames
    <2>2. own[p] \in Directories
      BY <2>1, OwnDirectory
    <2>3. Accounted(p, own[p])
      BY <1>1, <2>2, ContinueAccounts
    <2> QED BY <2>1, <2>2, <2>3, DoomedStep
  <1>2. ASSUME NEW p \in Publishers, Begin(p) PROVE FewDoomed'
    <2>1. ~Keeper(p)
      BY <1>2 DEF Begin, Keeper, PartialPoints
    <2>2. ASSUME NEW q \in Publishers, q # p
          PROVE  pc'[q] = pc[q] /\ own'[q] = own[q] /\ anchor'[q] = anchor[q] /\ root' = root
      BY <1>2, <1>a, <2>2 DEF Begin, Goto, PublicationTypeOK, files
    <2>3. \A q \in Publishers : Keeper(q) => Keeper(q)' /\ own'[q] = own[q]
      BY <2>1, <2>2 DEF Keeper, RootValid
    <2>4. dir' = dir /\ failures' = failures /\ disasters' = disasters
      BY <1>2 DEF Begin, files
    <2> QED BY <2>3, <2>4, DoomedByNone
  <1>3. ASSUME NEW p \in Publishers, OpenRoot(p) PROVE FewDoomed'
    <2>1. ~Keeper(p) /\ own' = own
      BY <1>3 DEF OpenRoot, Keeper, PartialPoints
    <2>2. \A q \in Publishers \ {p} : pc'[q] = pc[q]
      BY <1>3, <1>a DEF OpenRoot, Goto, Return, PublicationTypeOK
    <2>3. \A q \in Publishers \ {p} : anchor'[q] = anchor[q]
      BY <1>3, <1>a DEF OpenRoot, PublicationTypeOK
    <2>4. root' = root \/ root.at = 0
      BY <1>3 DEF OpenRoot
    <2>5. ASSUME NEW q \in Publishers, Keeper(q) PROVE Keeper(q)'
      <3>1. q # p
        BY <2>1, <2>5
      <3>2. CASE pc[q] = "settle"
        BY <2>2, <3>1, <3>2 DEF Keeper
      <3>3. CASE pc[q] \in PartialPoints /\ RootValid(q)
        <4>1. root' = root
          BY <2>4, <3>3 DEF RootValid
        <4> QED BY <2>2, <2>3, <3>1, <3>3, <4>1 DEF Keeper, RootValid
      <3> QED BY <2>5, <3>2, <3>3 DEF Keeper
    <2>6. dir' = dir /\ failures' = failures /\ disasters' = disasters
      BY <1>3 DEF OpenRoot, Succeeds, bounds
    <2> QED BY <2>1, <2>5, <2>6, DoomedByNone
  <1>4. ASSUME NEW p \in Publishers, Crash(p) PROVE FewDoomed'
    <2>1. dir' = dir /\ disasters' = disasters + 1 /\ failures' = failures
      BY <1>4 DEF Crash, Disaster, files
    <2> QED BY <2>1, DoomedByDisaster
  <1>5. CASE ReplaceRoot \/ ChmodRoot
    <2>1. dir' = dir /\ disasters' = disasters + 1 /\ failures' = failures
      BY <1>5 DEF ReplaceRoot, ChmodRoot, Disaster
    <2> QED BY <2>1, DoomedByDisaster
  <1>6. CASE Spoil
    <2>1. disasters' = disasters + 1 /\ failures' = failures
      BY <1>6 DEF Spoil, Disaster
    <2>2. PICK d \in Directories, f \in Files :
             dir' = [dir EXCEPT ![d] = WithFile(dir[d], f, "foreign", {"foreign"})]
      BY <1>6 DEF Spoil
    <2>3. dir \in [Directories -> DirectoryType] /\ dir[d] \in DirectoryType
      BY <1>a DEF PublicationTypeOK
    <2>4. WithFile(dir[d], f, "foreign", {"foreign"}).names = dir[d].names
      <3>1. "foreign" \in Contents /\ {"foreign"} \in SUBSET Contents
        BY DEF Contents
      <3> QED BY <2>3, <3>1, WithFileFields
    <2>5. \A e \in Directories : dir'[e].names = dir[e].names
      BY <2>2, <2>3, <2>4
    <2> QED BY <2>1, <2>5, DoomedByDisaster
  <1>7. CASE PowerLoss
    <2>1. disasters' = disasters + 1 /\ failures' = failures
      BY <1>7 DEF PowerLoss, Disaster
    <2>6. \A d \in Directories : "partial" \in dir'[d].names => "partial" \in dir[d].names
      BY <1>7, PowerLossFinds DEF Found
    <2> QED BY <2>1, <2>6, DoomedByDisaster
  <1>8. CASE UNCHANGED vars
    <2>1. /\ failures' = failures /\ disasters' = disasters /\ dir' = dir /\ own' = own
          /\ pc' = pc /\ anchor' = anchor /\ root' = root
      BY <1>8 DEF vars, files, process, bounds
    <2>2. \A q \in Publishers : Keeper(q) => Keeper(q)'
      BY <2>1 DEF Keeper, RootValid
    <2> QED BY <2>1, <2>2, DoomedByNone
  <1> QED
    BY <1>1, <1>2, <1>3, <1>4, <1>5, <1>6, <1>7, <1>8 DEF PublicationNext, Stage, Commit, Continue

(* The types, the final name that covers whole backups only, and a partial        *)
(* directory for no more than the publishers at work, the failed calls and the     *)
(* disasters: what Publish stages it also removes.                           *)
THEOREM PublicationTheorem == PublicationSpec => []PublicationInv
  <1>1. PublicationSpec => []FewDoomed
    BY FewDoomedInit, FewDoomedStep, PublicationInvariant, PTL DEF PublicationSpec
  <1>2. PublicationIInv /\ FewDoomed => PublicationInv
    <2> SUFFICES ASSUME PublicationIInv, FewDoomed PROVE PublicationInv
      OBVIOUS
    <2>1. PublicationTypeOK /\ FinalSurvivesWhole
      BY DEF PublicationIInv, DirectoryOK, FinalSurvivesWhole
    <2> DEFINE A == {p \in Publishers : pc[p] # "idle"}
               T == {own[q] : q \in A}
               P == {d \in Directories : dir[d].name = "partial"}
    <2>2. P \subseteq Doomed \cup T
      <3>1. P \subseteq Loose
        BY DEF Loose, PublicationIInv, DirectoryOK
      <3> QED BY <3>1, LooseDirectories
    <2>3. IsFiniteSet(T) /\ Cardinality(T) <= Cardinality(A) /\ Cardinality(A) \in Nat
      BY OwnDirectories
    <2>4. /\ IsFiniteSet(Doomed) /\ Cardinality(Doomed) \in Nat /\ Cardinality(P) \in Nat
      BY FiniteDirectories DEF Doomed, Loose
    <2>5. /\ failures \in Nat /\ disasters \in Nat /\ Cardinality(Publishers) \in Nat
          /\ Cardinality(T) \in Nat
      BY <2>1, <2>3, PublisherAssumption, FS_CardinalityType DEF PublicationTypeOK
    <2>6. disasters * Cardinality(Publishers) \in Nat
      BY <2>5
    <2> HIDE DEF P, T, A
    <2>7. Cardinality(P) <= Cardinality(Doomed) + Cardinality(T)
      BY <2>2, <2>3, <2>4, Grown
    <2>8. Cardinality(P) <= Cardinality(A) + failures + disasters * Cardinality(Publishers)
      BY <2>3, <2>4, <2>5, <2>6, <2>7 DEF FewDoomed
    <2> QED BY <2>1, <2>8 DEF P, A, PublicationInv, LeftoversExplained
  <1> QED BY <1>1, <1>2, PublicationInvariant, PTL

-----------------------------------------------------------------------------
(***************************************************************************)
(* The entries of the roots.  A root that a path, a directory or a descriptor  *)
(* names was forced to disk, was left by its maker, or has its maker at work.   *)
(***************************************************************************)
InUse(g) == \/ g = root.at
            \/ \E d \in Directories : dir[d].at = g
            \/ \E q \in Publishers : anchor[q] = g
Made(g) == rootSaved[g] # "open" \/ \E q \in Publishers : pc[q] = "parent" /\ anchor[q] = g

RootsMade == \A g \in Roots : InUse(g) => Made(g)

(* A publisher makes its directory in the root it holds and moves it nowhere.    *)
LEMMA OwnStaysInRoot ==
  ASSUME PublicationIInv, NEW p \in Publishers, Continue(p), NEW o \in Directories, o = own[p]
  PROVE  dir'[o].at \in {0, dir[o].at, anchor[p]}
  <1>a. /\ PublicationTypeOK /\ dir \in [Directories -> DirectoryType] /\ dir[o] \in DirectoryType
        /\ anchor[p] \in Roots \cup {0}
    BY DEF PublicationIInv, PublicationTypeOK
  <1>1. ASSUME NEW D, dir' = [dir EXCEPT ![o] = D] PROVE dir'[o] = D
    BY <1>a, <1>1
  <1>2. \A f, c, S : WithFile(dir[o], f, c, S).at = dir[o].at
    BY <1>a DEF WithFile, DirectoryType
  <1>3. \A n : WithName(dir[o], n).at = dir[o].at
    BY <1>a DEF WithName, DirectoryType
  <1>4. SavedNames(dir[o]).at = dir[o].at /\ NoDirectory.at = 0
    BY <1>a, SavedNamesFields DEF NoDirectory
  <1>5. \A g, m : Partial(g, m).at = g
    BY DEF Partial, NoDirectory
  <1>6. Saved(anchor[p])[o].at = dir[o].at
    BY <1>a, SavedKeeps
  <1>7. CASE OpenFirst(p) \/ SyncParent(p) \/ CheckCapacity(p) \/ VerifyExisting(p) \/ Probe(p)
    BY <1>7 DEF OpenFirst, SyncParent, CheckCapacity, VerifyExisting, Probe
  <1>8. CASE CreatePartial(p)
    BY <1>1, <1>5, <1>8 DEF CreatePartial
  <1>9. CASE CreateFile(p)
    BY <1>1, <1>2, <1>9 DEF CreateFile
  <1>b. CASE WriteFile(p)
    BY <1>1, <1>2, <1>b DEF WriteFile
  <1>c. CASE SyncFile(p)
    BY <1>1, <1>2, <1>c DEF SyncFile
  <1>d. CASE SyncPartial(p)
    BY <1>1, <1>4, <1>d DEF SyncPartial
  <1>e. CASE Rename(p)
    BY <1>1, <1>3, <1>e DEF Rename
  <1>f. CASE Settle(p)
    BY <1>6, <1>f DEF Settle
  <1>g. CASE Clean(p)
    <2> DEFINE D == [dir[o] EXCEPT !.saved = [f \in Files |-> {"none"}]]
    <2>1. D.at = dir[o].at
      BY <1>a DEF DirectoryType
    <2>2. \/ \E f, c, S : dir' = [dir EXCEPT ![o] = WithFile(dir[o], f, c, S)]
          \/ dir' = [dir EXCEPT ![o] = D]
          \/ dir' = dir
      BY <1>g DEF Clean
    <2>3. ASSUME NEW f, NEW c, NEW S, dir' = [dir EXCEPT ![o] = WithFile(dir[o], f, c, S)]
          PROVE  dir'[o].at = dir[o].at
      BY <1>1, <1>2, <2>3
    <2> HIDE DEF D
    <2>4. CASE dir' = [dir EXCEPT ![o] = D]
      BY <1>1, <2>1, <2>4
    <2> QED BY <2>2, <2>3, <2>4
  <1>h. CASE RemoveDirectory(p)
    <2>1. [Saved(anchor[p]) EXCEPT ![o] = NoDirectory][o] = NoDirectory
      BY <1>a, SavedKeeps
    <2> QED BY <1>1, <1>3, <1>4, <1>h, <2>1 DEF RemoveDirectory
  <1> QED BY <1>7, <1>8, <1>9, <1>b, <1>c, <1>d, <1>e, <1>f, <1>g, <1>h DEF Continue

LEMMA RootsMadeStep ==
  PublicationIInv /\ RootsMade /\ [PublicationNext]_vars => RootsMade'
  <1> SUFFICES ASSUME PublicationIInv, RootsMade, [PublicationNext]_vars PROVE RootsMade'
    OBVIOUS
  <1>a. /\ PublicationTypeOK /\ rootSaved \in [Roots -> EntryStates]
        /\ anchor \in [Publishers -> Roots \cup {0}] /\ pc \in [Publishers -> Points]
        /\ \A q \in Publishers : pc[q] = "parent" => anchor[q] # 0
    BY DEF PublicationIInv, PublicationTypeOK, PublisherOK, Request, AnchorPoints
  <1>b. \A g \in Roots : g # 0
    OBVIOUS
  <1>1. ASSUME NEW p \in Publishers, Continue(p) PROVE RootsMade'
    <2>1. /\ OneStep(p) /\ root' = root /\ pc[p] # "idle" /\ anchor' = anchor
          /\ \A q \in Publishers \ {p} : pc'[q] = pc[q]
      <3>1. anchor' = anchor
        BY <1>1 DEF Continue, OpenFirst, SyncParent, CheckCapacity, CreatePartial, CreateFile, WriteFile,
           SyncFile, SyncPartial, Rename, Settle, VerifyExisting, Clean, RemoveDirectory, Probe
      <3> QED BY <1>1, <3>1, ContinueFrames DEF OneStep, Same
    <2>2. own[p] \in Directories
      BY <2>1, OwnDirectory
    <2>3. dir'[own[p]].at \in {0, dir[own[p]].at, anchor[p]}
      BY <1>1, <2>2, OwnStaysInRoot
    <2>4. \A d \in Directories : dir'[d].at \in {0, dir[d].at, anchor[p]}
      BY <2>1, <2>3 DEF OneStep, Kept
    <2>5. \A g \in Roots : InUse(g)' => InUse(g)
      BY <1>b, <2>1, <2>4 DEF InUse
    <2>6. CASE SyncParent(p)
      <3>1. anchor[p] \in Roots
        BY <1>a, <2>6 DEF SyncParent
      <3>2. /\ rootSaved'[anchor[p]] # "open"
            /\ \A g \in Roots \ {anchor[p]} : rootSaved'[g] = rootSaved[g]
        BY <1>a, <2>6, <3>1 DEF SyncParent
      <3>3. \A g \in Roots : Made(g) => Made(g)'
        BY <2>1, <3>2 DEF Made
      <3> QED BY <2>5, <3>3 DEF RootsMade
    <2>7. CASE ~SyncParent(p)
      <3>1. pc[p] # "parent" /\ rootSaved' = rootSaved
        BY <1>1, <2>7 DEF Continue, OpenFirst, CheckCapacity, CreatePartial, CreateFile, WriteFile,
           SyncFile, SyncPartial, Rename, Settle, VerifyExisting, Clean, RemoveDirectory, Probe
      <3>2. \A g \in Roots : Made(g) => Made(g)'
        BY <2>1, <3>1 DEF Made
      <3> QED BY <2>5, <3>2 DEF RootsMade
    <2> QED BY <2>6, <2>7
  <1>2. ASSUME NEW p \in Publishers, Begin(p) PROVE RootsMade'
    <2>1. /\ anchor' = [anchor EXCEPT ![p] = 0] /\ UNCHANGED <<root, rootSaved, dir>>
          /\ pc[p] # "parent" /\ \A q \in Publishers \ {p} : pc'[q] = pc[q]
      BY <1>2, <1>a DEF Begin, Goto
    <2>2. \A g \in Roots : InUse(g)' => InUse(g)
      BY <1>a, <1>b, <2>1 DEF InUse
    <2>3. \A g \in Roots : Made(g) => Made(g)'
      BY <1>a, <2>1 DEF Made
    <2> QED BY <2>2, <2>3 DEF RootsMade
  <1>3. ASSUME NEW p \in Publishers, OpenRoot(p) PROVE RootsMade'
    <2>1. pc[p] # "parent" /\ dir' = dir
      BY <1>3 DEF OpenRoot
    <2>2. \A q \in Publishers \ {p} : pc'[q] = pc[q]
      BY <1>3, <1>a DEF OpenRoot, Goto, Return
    <2>3. ASSUME NEW g \in FreshRoots, root' = [at |-> g, private |-> TRUE],
                 rootSaved' = [rootSaved EXCEPT ![g] = "open"],
                 anchor' = [anchor EXCEPT ![p] = g], Goto(p, "parent")
          PROVE  RootsMade'
      <3>1. g \in Roots /\ pc'[p] = "parent" /\ anchor'[p] = g
        BY <1>a, <2>3 DEF FreshRoots, Goto
      <3>2. \A h \in Roots \ {g} : InUse(h)' => InUse(h)
        BY <1>a, <2>1, <2>3, <3>1 DEF InUse
      <3>3. \A h \in Roots \ {g} : Made(h) => Made(h)'
        BY <1>a, <2>1, <2>2, <2>3, <3>1 DEF Made
      <3>4. Made(g)'
        BY <3>1 DEF Made
      <3> QED BY <3>2, <3>3, <3>4 DEF RootsMade
    <2>4. ASSUME anchor' = [anchor EXCEPT ![p] = root.at], UNCHANGED <<root, rootSaved>>
          PROVE  RootsMade'
      <3>1. \A h \in Roots : InUse(h)' => InUse(h)
        BY <1>a, <2>1, <2>4 DEF InUse
      <3>2. \A h \in Roots : Made(h) => Made(h)'
        BY <1>a, <2>1, <2>2, <2>4 DEF Made
      <3> QED BY <3>1, <3>2 DEF RootsMade
    <2>5. ASSUME UNCHANGED <<root, rootSaved, anchor>> PROVE RootsMade'
      <3>1. \A h \in Roots : (InUse(h)' => InUse(h)) /\ (Made(h) => Made(h)')
        BY <2>1, <2>2, <2>5 DEF InUse, Made
      <3> QED BY <3>1 DEF RootsMade
    <2> QED BY <1>3, <2>3, <2>4, <2>5 DEF OpenRoot
  <1>4. ASSUME NEW p \in Publishers, Crash(p) PROVE RootsMade'
    <2>1. /\ UNCHANGED <<root, dir>> /\ Dead({p})
          /\ rootSaved' = [g \in Roots |-> IF pc[p] = "parent" /\ g = anchor[p] THEN "orphaned"
                                          ELSE rootSaved[g]]
      BY <1>4 DEF Crash
    <2>2. /\ \A q \in Publishers \ {p} : pc'[q] = pc[q] /\ anchor'[q] = anchor[q]
          /\ anchor'[p] = 0
      BY <2>1 DEF Dead
    <2>3. \A h \in Roots : InUse(h)' => InUse(h)
      BY <1>b, <2>1, <2>2 DEF InUse
    <2>4. \A h \in Roots : Made(h) => Made(h)'
      BY <2>1, <2>2 DEF Made
    <2> QED BY <2>3, <2>4 DEF RootsMade
  <1>5. CASE PowerLoss
    <2>1. \A g \in Roots : g = root'.at \/ (\E d \in Directories : dir'[d].at = g) =>
                             rootSaved'[g] = "saved"
      BY <1>5, PowerLossFinds
    <2>2. \A q \in Publishers : anchor'[q] = 0
      BY <1>5 DEF PowerLoss, Dead
    <2> QED BY <1>b, <2>1, <2>2 DEF RootsMade, InUse, Made
  <1>6. CASE ReplaceRoot
    <2>1. PICK g \in FreshRoots : /\ root' = [at |-> g, private |-> TRUE]
                                  /\ rootSaved' = [rootSaved EXCEPT ![g] = "saved"]
      BY <1>6 DEF ReplaceRoot
    <2>2. UNCHANGED <<dir, pc, anchor>> /\ g \in Roots
      BY <1>6, <2>1 DEF ReplaceRoot, FreshRoots
    <2>3. \A h \in Roots \ {g} : (InUse(h)' => InUse(h)) /\ (Made(h) => Made(h)')
      BY <1>a, <2>1, <2>2 DEF InUse, Made
    <2>4. Made(g)'
      BY <1>a, <2>1, <2>2 DEF Made
    <2> QED BY <2>3, <2>4 DEF RootsMade
  <1>7. CASE ChmodRoot
    <2>1. UNCHANGED <<rootSaved, dir, pc, anchor>> /\ root'.at = root.at
      BY <1>7, <1>a DEF ChmodRoot, PublicationTypeOK
    <2> QED BY <2>1 DEF RootsMade, InUse, Made
  <1>8. CASE Spoil
    <2>1. UNCHANGED <<root, rootSaved, pc, anchor>>
      BY <1>8 DEF Spoil
    <2>2. PICK e \in Directories, f \in Files :
             dir' = [dir EXCEPT ![e] = WithFile(dir[e], f, "foreign", {"foreign"})]
      BY <1>8 DEF Spoil
    <2>3. dir \in [Directories -> DirectoryType] /\ dir[e] \in DirectoryType
      BY <1>a, <2>2 DEF PublicationTypeOK
    <2>4. WithFile(dir[e], f, "foreign", {"foreign"}).at = dir[e].at
      BY <2>3 DEF WithFile, DirectoryType
    <2>5. \A d \in Directories : dir'[d].at = dir[d].at
      BY <2>2, <2>3, <2>4
    <2> QED BY <2>1, <2>5 DEF RootsMade, InUse, Made
  <1>9. CASE UNCHANGED vars
    BY <1>9 DEF vars, RootsMade, InUse, Made
  <1> QED
    BY <1>1, <1>2, <1>3, <1>4, <1>5, <1>6, <1>7, <1>8, <1>9 DEF PublicationNext, Stage, Commit, Continue

(* A publisher that is told "published" has the name and every file of its        *)
(* backup on disk in its root, whatever other publishers, failures, crashes and    *)
(* power losses do.  Its root is on disk too, unless another publisher made it     *)
(* and has yet to force it there, failed to or died first: Publish does not force   *)
(* the entry of a root that it finds (openBackupRootWithSync).                *)
THEOREM PublishedTheorem == PublicationSpec => []PublishedIsDurable
  <1>1. PublicationInit => RootsMade
    BY DEF PublicationInit, RootsMade, InUse, NoDirectory
  <1>2. PublicationSpec => []RootsMade
    BY <1>1, RootsMadeStep, PublicationInvariant, PTL DEF PublicationSpec
  <1>3. PublicationIInv /\ RootsMade => PublishedIsDurable
    <2> SUFFICES ASSUME PublicationIInv, RootsMade, NEW p \in Publishers, verdict[p] = "published"
                 PROVE  /\ dir[own[p]].names = {"final"}
                        /\ \A f \in Files : dir[own[p]].saved[f] \subseteq {"whole", "foreign"}
                        /\ RootAccountedFor(p, dir[own[p]].at)
      BY DEF PublishedIsDurable
    <2>1. /\ PublisherOK(p) /\ PublicationTypeOK
          /\ \A d \in Directories : DirectoryOK(d) /\ dir[d].at \in Roots \cup {0}
      <3>1. \A d \in Directories : dir[d] \in DirectoryType
        BY DEF PublicationIInv, PublicationTypeOK
      <3> QED BY <3>1, Fields DEF PublicationIInv
    <2>2. /\ dir[own[p]].names = {"final"}
          /\ \A f \in Files : dir[own[p]].saved[f] \subseteq {"whole", "foreign"}
      BY <2>1 DEF PublisherOK, Durable
    <2>3. PICK d \in Directories : d = own[p]
      BY <2>1 DEF PublisherOK, Request, PublicationTypeOK
    <2>4. dir[d].at \in Roots /\ InUse(dir[d].at)
      BY <2>1, <2>2, <2>3 DEF DirectoryOK, InUse
    <2>5. pc[p] # "parent"
      BY <2>1 DEF PublisherOK, Request, OpenPoints, EarlyPoints
    <2>6. rootSaved[dir[d].at] \in EntryStates
      BY <2>1, <2>4 DEF PublicationTypeOK
    <2>7. RootAccountedFor(p, dir[d].at)
      BY <2>4, <2>5, <2>6 DEF RootsMade, Made, RootAccountedFor, EntryStates
    <2> QED BY <2>2, <2>3, <2>7
  <1> QED BY <1>2, <1>3, PublicationInvariant, PTL

-----------------------------------------------------------------------------
(***************************************************************************)
(* The refinement.  A directory is shown when a reader of the root finds it     *)
(* complete under the transaction's name; OneFinal makes it the only one.      *)
(***************************************************************************)
Shown(d) == root.at # 0 /\ dir[d].name = "final" /\ dir[d].at = root.at /\ Complete(d)

LEMMA SlotFull == PublicationIInv => \A d \in Directories : Shown(d) => Slot = dir[d].of
  <1> SUFFICES ASSUME PublicationIInv, NEW d \in Directories, Shown(d) PROVE Slot = dir[d].of
    OBVIOUS
  <1>1. root.at # 0 /\ d \in Finals(root.at) /\ Complete(d)
    BY DEF Shown, Finals
  <1> DEFINE c == CHOOSE e \in Finals(root.at) : Complete(e)
  <1>2. c \in Finals(root.at) /\ Complete(c)
    BY <1>1
  <1>3. c = d
    BY <1>1, <1>2 DEF Finals, PublicationIInv, OneFinal
  <1> QED BY <1>1, <1>3 DEF Slot

LEMMA SlotEmpty == (\A d \in Directories : ~Shown(d)) => Slot = NoBackup
  BY DEF Slot, Shown, Finals

(* The same of the state after a step.                                      *)
LEMMA SlotFullAfter ==
  ASSUME PublicationIInv', NEW d \in Directories, Shown(d)'
  PROVE  Slot' = dir'[d].of
  <1> DEFINE F == {e \in Directories : dir'[e].name = "final" /\ dir'[e].at = root'.at}
             W(e) == \A f \in Files : dir'[e].file[f] = "whole"
             c == CHOOSE e \in F : W(e)
  <1>1. root'.at # 0 /\ d \in F /\ W(d)
    BY DEF Shown, Complete
  <1>2. c \in F /\ W(c)
    BY <1>1
  <1>3. c = d
    BY <1>1, <1>2 DEF PublicationIInv, OneFinal
  <1>4. Slot' = IF root'.at # 0 /\ \E e \in F : W(e) THEN dir'[c].of ELSE NoBackup
    BY DEF Slot, Finals, Complete
  <1> QED BY <1>1, <1>3, <1>4

LEMMA SlotEmptyAfter ==
  ASSUME \A d \in Directories : ~Shown(d)'
  PROVE  Slot' = NoBackup
  BY DEF Slot, Shown, Finals

(* A step that shows nothing new takes the backup away or leaves it.           *)
LEMMA SlotLost ==
  ASSUME PublicationIInv, PublicationIInv',
         \A d \in Directories : Shown(d)' => Shown(d) /\ dir'[d].of = dir[d].of
  PROVE  Slot' \in {Slot, NoBackup}
  <1>1. CASE \A d \in Directories : ~Shown(d)'
    BY <1>1, SlotEmptyAfter
  <1>2. ASSUME NEW d \in Directories, Shown(d)' PROVE Slot' = Slot
    BY <1>2, SlotFull, SlotFullAfter
  <1> QED BY <1>1, <1>2

LEMMA SlotKept ==
  ASSUME PublicationIInv, PublicationIInv',
         \A d \in Directories : (Shown(d)' <=> Shown(d)) /\ (Shown(d) => dir'[d].of = dir[d].of)
  PROVE  Slot' = Slot
  <1>1. CASE \A d \in Directories : ~Shown(d)
    BY <1>1, SlotEmpty, SlotEmptyAfter
  <1>2. ASSUME NEW d \in Directories, Shown(d) PROVE Slot' = Slot
    BY <1>2, SlotFull, SlotFullAfter
  <1> QED BY <1>1, <1>2

LEMMA KeptShown ==
  ASSUME NEW d \in Directories, Kept(d), root' = root
  PROVE  (Shown(d)' <=> Shown(d)) /\ (Shown(d) => dir'[d].of = dir[d].of)
  BY DEF Kept, Shown, Complete

(* The step of a publisher whose directory is not final changes nothing a reader *)
(* sees.                                                                   *)
LEMMA SlotSame ==
  ASSUME PublicationIInv, PublicationIInv', NEW p \in Publishers, OneStep(p), root' = root,
         (dir[own[p]].name # "final" /\ dir'[own[p]].name # "final") \/ Kept(own[p])
  PROVE  Slot' = Slot
  <1>1. ASSUME NEW d \in Directories
        PROVE  (Shown(d)' <=> Shown(d)) /\ (Shown(d) => dir'[d].of = dir[d].of)
    <2>1. CASE Kept(d)
      BY <2>1, KeptShown
    <2>2. CASE d = own[p] /\ dir[d].name # "final" /\ dir'[d].name # "final"
      BY <2>2 DEF Shown
    <2> QED BY <2>1, <2>2 DEF OneStep
  <1> QED BY <1>1, SlotKept

-----------------------------------------------------------------------------
(* The answers of Publish.                                                  *)

(* Publish answers: v is a success only if the backup is there to be read.      *)
LEMMA MapsToAnswer ==
  ASSUME PublicationIInv, NEW p \in Publishers, pc[p] \in OpenPoints,
         Slot' = Slot, offer' = offer, disasters' = disasters,
         NEW v \in Verdicts \ {"none"}, verdict' = [verdict EXCEPT ![p] = v],
         v \in {"published", "verified"} => Slot = offer[p] \/ (Slot = NoBackup /\ disasters > 0)
  PROVE  Contract!SlotNext
  <1>1. offer[p] \in Manifests /\ verdict[p] = "none"
    BY DEF PublicationIInv, PublisherOK, Request
  <1>2. v \in Contract!Answers \ {"none"}
    BY DEF Contract!Answers, Contract!Successes, Verdicts
  <1>3. Contract!Answer(p)
    BY <1>1, <1>2 DEF Contract!Answer, Contract!Successes
  <1> QED BY <1>3 DEF Contract!SlotNext

(* The cleanup leaves the answer, or takes it back.                          *)
LEMMA MapsToRetract ==
  ASSUME PublicationIInv, NEW p \in Publishers, pc[p] \in {"clean", "rmdir"},
         Slot' = Slot, offer' = offer, disasters' = disasters,
         NEW v \in {verdict[p], "error"}, verdict' = [verdict EXCEPT ![p] = v]
  PROVE  [Contract!SlotNext]_Contract!slotVars
  <1>1. verdict[p] \in {"verified", "conflict", "error"} /\ verdict \in [Publishers -> Verdicts]
    BY DEF PublicationIInv, PublisherOK, Request, PublicationTypeOK, Verdicts
  <1>2. CASE v = verdict[p]
    <2>1. verdict' = verdict
      BY <1>1, <1>2
    <2> QED BY <2>1 DEF Contract!slotVars
  <1>3. CASE v = "error" /\ v # verdict[p]
    <2>1. Contract!Retract(p)
      BY <1>1, <1>3 DEF Contract!Retract
    <2> QED BY <2>1 DEF Contract!SlotNext
  <1> QED BY <1>2, <1>3

-----------------------------------------------------------------------------
(* The steps of Publish.                                                    *)

LEMMA BeginMaps ==
  ASSUME PublicationIInv, PublicationIInv', NEW p \in Publishers, Begin(p)
  PROVE  Contract!SlotNext
  <1>1. \A d \in Directories : (Shown(d)' <=> Shown(d)) /\ (Shown(d) => dir'[d].of = dir[d].of)
    BY DEF Begin, files, Shown, Complete
  <1>2. Slot' = Slot
    BY <1>1, SlotKept
  <1>3. Contract!Offer(p)
    BY <1>2 DEF Begin, Contract!Offer
  <1> QED BY <1>3 DEF Contract!SlotNext

LEMMA OpenRootMaps ==
  ASSUME PublicationIInv, PublicationIInv', NEW p \in Publishers, OpenRoot(p)
  PROVE  [Contract!SlotNext]_Contract!slotVars
  <1>1. offer' = offer /\ disasters' = disasters /\ dir' = dir
    BY DEF OpenRoot, Succeeds, bounds
  <1>2. CASE root.at = 0
    <2>1. PICK g \in FreshRoots : root'.at = g
      BY <1>2 DEF OpenRoot
    <2>2. \A d \in Directories : ~Shown(d) /\ ~Shown(d)'
      BY <1>1, <1>2, <2>1 DEF Shown, FreshRoots
    <2>3. Slot' = Slot
      BY <2>2, SlotEmpty, SlotEmptyAfter
    <2>4. verdict' = verdict
      BY <1>2 DEF OpenRoot
    <2> QED BY <1>1, <2>3, <2>4 DEF Contract!slotVars
  <1>3. CASE root' = root
    <2>1. \A d \in Directories : (Shown(d)' <=> Shown(d)) /\ (Shown(d) => dir'[d].of = dir[d].of)
      BY <1>1, <1>3 DEF Shown, Complete
    <2>2. Slot' = Slot
      BY <2>1, SlotKept
    <2>3. CASE verdict' = verdict
      BY <1>1, <2>2, <2>3 DEF Contract!slotVars
    <2>4. CASE Return(p, "error")
      <3>1. pc[p] \in OpenPoints
        BY DEF OpenRoot, OpenPoints, EarlyPoints
      <3>2. "error" \in Verdicts \ {"none"}
        BY DEF Verdicts
      <3>3. Contract!SlotNext
        BY <1>1, <2>2, <2>4, <3>1, <3>2, MapsToAnswer DEF Return
      <3> QED BY <3>3
    <2> QED BY <2>3, <2>4 DEF OpenRoot
  <1> QED BY <1>2, <1>3 DEF OpenRoot

(* Steps of Publish that show nothing new.                                   *)
LEMMA QuietMaps ==
  ASSUME PublicationIInv, PublicationIInv', NEW p \in Publishers, Continue(p), Slot' = Slot,
         pc[p] \in OpenPoints \cup {"probe"},
         \/ verdict' = verdict
         \/ pc[p] # "probe" /\ \E v \in {"conflict", "unknown", "error"} :
                                 verdict' = [verdict EXCEPT ![p] = v]
  PROVE  [Contract!SlotNext]_Contract!slotVars
  <1>1. offer' = offer /\ disasters' = disasters
    <2>1. offer' = offer /\ (Succeeds \/ Fails)
      BY DEF Continue, OpenFirst, SyncParent, CheckCapacity, CreatePartial, CreateFile, WriteFile,
         SyncFile, SyncPartial, Rename, Settle, VerifyExisting, Clean, RemoveDirectory, Probe, Succeeds
    <2> QED BY <2>1 DEF Succeeds, Fails, bounds
  <1>2. CASE verdict' = verdict
    BY <1>1, <1>2 DEF Contract!slotVars
  <1>3. ASSUME NEW v \in {"conflict", "unknown", "error"}, verdict' = [verdict EXCEPT ![p] = v],
               pc[p] \in OpenPoints
        PROVE  Contract!SlotNext
    <2>1. v \in Verdicts \ {"none"} /\ v \notin {"published", "verified"}
      BY <1>3 DEF Verdicts
    <2> QED BY <1>1, <1>3, <2>1, MapsToAnswer
  <1> QED BY <1>2, <1>3

(* The publisher's own directory is not final before nor after.                *)
LEMMA StagingMaps ==
  ASSUME PublicationIInv, PublicationIInv', NEW p \in Publishers,
         \/ OpenFirst(p) \/ SyncParent(p) \/ CheckCapacity(p) \/ CreatePartial(p) \/ CreateFile(p)
         \/ WriteFile(p) \/ SyncFile(p) \/ SyncPartial(p)
  PROVE  [Contract!SlotNext]_Contract!slotVars
  <1>1. Continue(p)
    BY DEF Continue
  <1>2. OneStep(p) /\ root' = root /\ pc[p] # "idle"
    BY <1>1, ContinueFrames
  <1>3. pc[p] \in (EarlyPoints \cup PartialPoints) \cap OpenPoints
    BY DEF OpenFirst, SyncParent, CheckCapacity, CreatePartial, CreateFile, WriteFile, SyncFile,
       SyncPartial, EarlyPoints, PartialPoints, OpenPoints
  <1>4. PICK o \in Directories : o = own[p] /\ own'[p] = o /\ dir[o] \in DirectoryType
    BY <1>2, OwnDirectory DEF OneStep
  <1>5. dir[o].name # "final"
    BY <1>3, <1>4 DEF PublicationIInv, PublisherOK, Staged, NoDirectory
  <1>6. Kept(o) \/ dir'[o].name # "final"
    <2>1. CASE dir' = dir
      BY <2>1 DEF Kept
    <2>2. ASSUME NEW D, dir' = [dir EXCEPT ![o] = D], D.name # "final"
          PROVE  dir'[o].name # "final"
      BY <1>4, <2>2 DEF PublicationIInv, PublicationTypeOK
    <2>3. \A f, c, S : WithFile(dir[o], f, c, S).name = dir[o].name
      BY <1>4 DEF WithFile, DirectoryType
    <2>4. SavedNames(dir[o]).name = dir[o].name
      BY <1>4, SavedNamesFields
    <2>5. \A g, m : Partial(g, m).name # "final"
      BY DEF Partial, NoDirectory
    <2>6. CASE OpenFirst(p) \/ SyncParent(p) \/ CheckCapacity(p)
      BY <2>1, <2>6 DEF OpenFirst, SyncParent, CheckCapacity, files
    <2>7. CASE CreatePartial(p)
      BY <1>4, <2>1, <2>2, <2>5, <2>7 DEF CreatePartial
    <2>8. CASE CreateFile(p)
      BY <1>4, <1>5, <2>1, <2>2, <2>3, <2>8 DEF CreateFile
    <2>9. CASE WriteFile(p)
      BY <1>4, <1>5, <2>1, <2>2, <2>3, <2>9 DEF WriteFile
    <2>a. CASE SyncFile(p)
      BY <1>4, <1>5, <2>1, <2>2, <2>3, <2>a DEF SyncFile
    <2>b. CASE SyncPartial(p)
      BY <1>4, <1>5, <2>1, <2>2, <2>4, <2>b DEF SyncPartial
    <2> QED BY <2>6, <2>7, <2>8, <2>9, <2>a, <2>b
  <1>7. Slot' = Slot
    BY <1>2, <1>4, <1>5, <1>6, SlotSame
  <1>8. \/ verdict' = verdict
        \/ pc[p] # "probe" /\ \E v \in {"conflict", "unknown", "error"} :
                                verdict' = [verdict EXCEPT ![p] = v]
    BY DEF OpenFirst, SyncParent, CheckCapacity, CreatePartial, CreateFile, WriteFile, SyncFile,
       SyncPartial, Return, Abandon, EffectOpens, OpenResult
  <1> QED BY <1>1, <1>3, <1>7, <1>8, QuietMaps

(* The rename shows the backup, unless the root was replaced meanwhile.          *)
LEMMA RenameMaps ==
  ASSUME PublicationIInv, PublicationIInv', NEW p \in Publishers, Rename(p)
  PROVE  [Contract!SlotNext]_Contract!slotVars
  <1>1. Continue(p)
    BY DEF Continue
  <1>2. OneStep(p) /\ root' = root /\ pc[p] # "idle"
    BY <1>1, ContinueFrames
  <1>3. PICK o \in Directories : o = own[p] /\ own'[p] = o /\ dir[o] \in DirectoryType
    BY <1>2, OwnDirectory DEF OneStep
  <1>4. /\ dir[o].name = "partial" /\ dir[o].at = anchor[p] /\ dir[o].of = offer[p] /\ Complete(o)
        /\ anchor[p] # 0 /\ offer[p] \in Manifests
    BY <1>3 DEF Rename, PublicationIInv, PublisherOK, Request, Staged, StagedFiles, EarlyPoints,
       PartialPoints, AnchorPoints, OpenPoints, Complete
  <1>5. CASE Finals(anchor[p]) = {} /\ Succeeds /\ verdict' = verdict
             /\ dir' = [dir EXCEPT ![o] = WithName(dir[o], "final")]
    <2>1. dir'[o] = WithName(dir[o], "final")
      BY <1>3, <1>5 DEF PublicationIInv, PublicationTypeOK
    <2>2. /\ dir'[o].at = anchor[p] /\ dir'[o].name = "final" /\ dir'[o].of = offer[p]
          /\ dir'[o].file = dir[o].file
      BY <1>3, <1>4, <2>1, WithNameFields DEF Names
    <2>3. offer' = offer /\ disasters' = disasters
      BY <1>5 DEF Rename, Succeeds, bounds
    <2>4. CASE anchor[p] = root.at
      <3>1. \A d \in Directories : ~Shown(d)
        BY <1>5, <2>4 DEF Shown, Finals
      <3>2. Slot = NoBackup
        BY <3>1, SlotEmpty
      <3>3. Shown(o)'
        BY <1>2, <1>4, <2>2, <2>4 DEF Shown, Complete
      <3>4. Slot' = offer[p]
        BY <2>2, <3>3, SlotFullAfter
      <3>5. Contract!Fill(p)
        BY <1>4, <1>5, <2>3, <3>2, <3>4 DEF Contract!Fill
      <3> QED BY <3>5 DEF Contract!SlotNext
    <2>5. CASE anchor[p] # root.at
      <3>1. ~Shown(o) /\ ~Shown(o)'
        BY <1>2, <1>4, <2>2, <2>5 DEF Shown
      <3>2. \A d \in Directories \ {o} : (Shown(d)' <=> Shown(d)) /\ (Shown(d) => dir'[d].of = dir[d].of)
        BY <1>2, <1>3, KeptShown DEF OneStep
      <3>3. Slot' = Slot
        BY <3>1, <3>2, SlotKept
      <3> QED BY <1>5, <2>3, <3>3 DEF Contract!slotVars
    <2> QED BY <2>4, <2>5
  <1>6. CASE dir' = dir /\ (verdict' = verdict \/ verdict' = [verdict EXCEPT ![p] = "error"])
    <2>1. Slot' = Slot
      BY <1>2, <1>3, <1>4, <1>6, SlotSame
    <2>2. pc[p] \in OpenPoints /\ pc[p] # "probe"
      BY DEF Rename, OpenPoints, PartialPoints
    <2> QED BY <1>1, <1>6, <2>1, <2>2, QuietMaps
  <1> QED BY <1>3, <1>5, <1>6 DEF Rename, Abandon

(* The answer after the rename.                                             *)
LEMMA SettleMaps ==
  ASSUME PublicationIInv, PublicationIInv', NEW p \in Publishers, Settle(p)
  PROVE  [Contract!SlotNext]_Contract!slotVars
  <1>1. Continue(p)
    BY DEF Continue
  <1>2. OneStep(p) /\ root' = root /\ pc[p] # "idle"
    BY <1>1, ContinueFrames
  <1>3. PICK o \in Directories : o = own[p] /\ own'[p] = o /\ dir[o] \in DirectoryType
    BY <1>2, OwnDirectory DEF OneStep
  <1>4. /\ dir[o].name = "final" /\ dir[o].at = anchor[p] /\ dir[o].of = offer[p]
        /\ DirectoryOK(o) /\ anchor[p] \in Roots \cup {0} /\ PublicationTypeOK
    BY <1>3 DEF Settle, PublicationIInv, PublisherOK, Staged, PublicationTypeOK
  <1>5. Kept(o)
    <2>1. CASE dir' = dir
      BY <2>1 DEF Kept
    <2>2. CASE dir' = Saved(anchor[p])
      BY <1>4, <2>2, SavedKeeps DEF Kept
    <2> QED BY <2>1, <2>2 DEF Settle
  <1>6. Slot' = Slot
    BY <1>2, <1>3, <1>5, SlotSame
  <1>7. pc[p] \in OpenPoints /\ offer' = offer /\ disasters' = disasters
    BY DEF Settle, OpenPoints, Succeeds, Fails, bounds
  <1>8. CASE verdict' = [verdict EXCEPT ![p] = "published"] /\ RootValid(p)
    <2>3. Slot = offer[p] \/ (Slot = NoBackup /\ disasters > 0)
      <3>1. CASE Complete(o)
        <4>1. Shown(o)
          BY <1>4, <1>8, <3>1 DEF Shown, RootValid
        <4> QED BY <1>4, <4>1, SlotFull
      <3>2. CASE ~Complete(o)
        <4>1. disasters > 0
          BY <1>4, <3>2 DEF DirectoryOK
        <4>2. ASSUME NEW d \in Directories, Shown(d) PROVE FALSE
          <5>1. d = o
            BY <1>4, <1>8, <4>2 DEF Shown, RootValid, PublicationIInv, OneFinal
          <5> QED BY <3>2, <4>2, <5>1 DEF Shown
        <4> QED BY <4>1, <4>2, SlotEmpty
      <3> QED BY <3>1, <3>2
    <2>4. "published" \in Verdicts \ {"none"}
      BY DEF Verdicts
    <2>5. Contract!SlotNext
      BY <1>6, <1>7, <1>8, <2>3, <2>4, MapsToAnswer
    <2> QED BY <2>5
  <1>9. CASE verdict' = [verdict EXCEPT ![p] = "unknown"]
    <2>1. pc[p] # "probe"
      BY DEF Settle
    <2> QED BY <1>1, <1>6, <1>7, <1>9, <2>1, QuietMaps
  <1> QED BY <1>8, <1>9 DEF Settle, Return

(* verifyExistingPublication takes a backup for the own one only if it is.        *)
LEMMA VerifyExistingMaps ==
  ASSUME PublicationIInv, PublicationIInv', NEW p \in Publishers, VerifyExisting(p)
  PROVE  [Contract!SlotNext]_Contract!slotVars
  <1>1. Continue(p)
    BY DEF Continue
  <1>2. OneStep(p) /\ root' = root /\ pc[p] # "idle"
    BY <1>1, ContinueFrames
  <1>3. dir' = dir /\ Kept(own[p])
    BY DEF VerifyExisting, files, Kept
  <1>4. Slot' = Slot
    BY <1>2, <1>3, SlotSame
  <1>5. pc[p] \in OpenPoints /\ pc[p] # "probe" /\ offer' = offer /\ disasters' = disasters
    BY DEF VerifyExisting, OpenPoints, PartialPoints, Succeeds, Fails, bounds
  <1>6. CASE /\ verdict' = [verdict EXCEPT ![p] = "verified"] /\ RootValid(p)
             /\ \E d \in Finals(anchor[p]) : Complete(d) /\ dir[d].of = offer[p]
    <2>1. PICK d \in Finals(anchor[p]) : Complete(d) /\ dir[d].of = offer[p]
      BY <1>6
    <2>2. d \in Directories /\ Shown(d)
      BY <1>6, <2>1 DEF Shown, Finals, RootValid
    <2>3. Slot = offer[p]
      BY <2>1, <2>2, SlotFull
    <2>4. "verified" \in Verdicts \ {"none"}
      BY DEF Verdicts
    <2>5. Contract!SlotNext
      BY <1>4, <1>5, <1>6, <2>3, <2>4, MapsToAnswer
    <2> QED BY <2>5
  <1>7. CASE \E v \in {"conflict", "error"} : verdict' = [verdict EXCEPT ![p] = v]
    BY <1>1, <1>4, <1>5, <1>7, QuietMaps
  <1> QED BY <1>6, <1>7 DEF VerifyExisting, Abandon

(* The cleanup.                                                             *)
LEMMA CleanupMaps ==
  ASSUME PublicationIInv, PublicationIInv', NEW p \in Publishers, Clean(p) \/ RemoveDirectory(p)
  PROVE  [Contract!SlotNext]_Contract!slotVars
  <1>1. Continue(p)
    BY DEF Continue
  <1>2. OneStep(p) /\ root' = root /\ pc[p] # "idle"
    BY <1>1, ContinueFrames
  <1>3. PICK o \in Directories : o = own[p] /\ own'[p] = o /\ dir[o] \in DirectoryType
    BY <1>2, OwnDirectory DEF OneStep
  <1>4. dir[o].name = "partial" /\ dir \in [Directories -> DirectoryType]
    BY <1>3 DEF Clean, RemoveDirectory, PublicationIInv, PublicationTypeOK, PublisherOK, Staged,
       PartialPoints
  <1>5. dir'[o].name # "final"
    <2>1. CASE dir' = dir
      BY <1>4, <2>1
    <2>2. ASSUME NEW D, dir' = [dir EXCEPT ![o] = D], D.name # "final"
          PROVE  dir'[o].name # "final"
      BY <1>4, <2>2
    <2>3. \A f, c, S : WithFile(dir[o], f, c, S).name = dir[o].name
      BY <1>3 DEF WithFile, DirectoryType
    <2>4. CASE dir' = [dir EXCEPT ![o].saved = [f \in Files |-> {"none"}]]
      <3>1. [dir[o] EXCEPT !.saved = [f \in Files |-> {"none"}]].name = dir[o].name
        BY <1>3 DEF DirectoryType
      <3>2. dir'[o] = [dir[o] EXCEPT !.saved = [f \in Files |-> {"none"}]]
        BY <1>4, <2>4
      <3> QED BY <1>4, <3>1, <3>2
    <2>5. CASE dir' = [Saved(anchor[p]) EXCEPT ![o] = NoDirectory]
      <3>1. dir'[o] = NoDirectory
        BY <2>5 DEF Saved
      <3> QED BY <3>1 DEF NoDirectory
    <2>6. WithName(dir[o], "none").name # "final"
      BY <1>3, WithNameFields DEF Names
    <2>7. CASE Clean(p)
      BY <1>3, <1>4, <2>1, <2>2, <2>3, <2>4, <2>7 DEF Clean
    <2>8. CASE RemoveDirectory(p)
      BY <1>3, <2>1, <2>2, <2>5, <2>6, <2>8 DEF RemoveDirectory
    <2> QED BY <2>7, <2>8
  <1>6. Slot' = Slot
    BY <1>2, <1>3, <1>4, <1>5, SlotSame
  <1>7. pc[p] \in {"clean", "rmdir"} /\ offer' = offer /\ disasters' = disasters
    BY DEF Clean, RemoveDirectory, Succeeds, Fails, bounds
  <1>8. CASE verdict' = verdict
    BY <1>6, <1>7, <1>8 DEF Contract!slotVars
  <1>9. ASSUME NEW v \in {verdict[p], "error"}, verdict' = [verdict EXCEPT ![p] = v]
        PROVE  [Contract!SlotNext]_Contract!slotVars
    BY <1>6, <1>7, <1>9, MapsToRetract
  <1> QED BY <1>8, <1>9 DEF Clean, RemoveDirectory, Return

LEMMA ProbeMaps ==
  ASSUME PublicationIInv, PublicationIInv', NEW p \in Publishers, Probe(p)
  PROVE  [Contract!SlotNext]_Contract!slotVars
  <1>1. OneStep(p) /\ root' = root
    BY ContinueFrames DEF Continue
  <1>2. Kept(own[p]) /\ offer' = offer /\ verdict' = verdict /\ disasters' = disasters
    BY DEF Probe, files, bounds, Kept
  <1>3. Slot' = Slot
    BY <1>1, <1>2, SlotSame
  <1> QED BY <1>2, <1>3 DEF Contract!slotVars

-----------------------------------------------------------------------------
(* Disasters take the backup, and the answer of the publishers that die.         *)
LEMMA MapsToLose ==
  ASSUME PublicationIInv, PublicationIInv', disasters' = disasters + 1, NEW P \in SUBSET Publishers,
         verdict' = [p \in Publishers |-> IF p \in P THEN "none" ELSE verdict[p]],
         offer' = [p \in Publishers |-> IF p \in P THEN NoBackup ELSE offer[p]],
         \A d \in Directories : Shown(d)' => Shown(d) /\ dir'[d].of = dir[d].of
  PROVE  Contract!SlotNext
  <1>1. Slot' \in {Slot, NoBackup}
    BY SlotLost
  <1>2. Contract!Lose
    BY <1>1 DEF Contract!Lose
  <1> QED BY <1>2 DEF Contract!SlotNext

LEMMA DisasterMaps ==
  ASSUME PublicationIInv, PublicationIInv',
         \/ \E p \in Publishers : Crash(p)
         \/ PowerLoss \/ ReplaceRoot \/ ChmodRoot \/ Spoil
  PROVE  Contract!SlotNext
  <1>a. PublicationTypeOK /\ dir \in [Directories -> DirectoryType]
    BY DEF PublicationIInv, PublicationTypeOK
  <1>c. UNCHANGED request =>
          /\ verdict' = [p \in Publishers |-> IF p \in {} THEN "none" ELSE verdict[p]]
          /\ offer' = [p \in Publishers |-> IF p \in {} THEN NoBackup ELSE offer[p]]
    BY <1>a DEF request, PublicationTypeOK
  <1>1. ASSUME NEW p \in Publishers, Crash(p) PROVE Contract!SlotNext
    <2>1. \A d \in Directories : Shown(d)' => Shown(d) /\ dir'[d].of = dir[d].of
      BY <1>1 DEF Crash, files, Shown, Complete
    <2>2. {p} \in SUBSET Publishers /\ disasters' = disasters + 1
      BY <1>1 DEF Crash, Disaster
    <2> QED BY <1>1, <2>1, <2>2, MapsToLose DEF Crash, Dead
  <1>2. CASE PowerLoss
    <2>1. \A d \in Directories : Found(d)
      BY <1>2, PowerLossFinds
    <2>2. \A d \in Directories : Shown(d)' => Shown(d) /\ dir'[d].of = dir[d].of
      BY <2>1 DEF Found, Shown, Complete
    <2>3. Publishers \in SUBSET Publishers /\ disasters' = disasters + 1
      BY <1>2 DEF PowerLoss, Disaster
    <2> QED BY <1>2, <2>2, <2>3, MapsToLose DEF PowerLoss, Dead
  <1>3. CASE ReplaceRoot
    <2>1. PICK g \in FreshRoots : root'.at = g
      BY <1>3 DEF ReplaceRoot
    <2>2. \A d \in Directories : ~Shown(d)'
      BY <1>3, <2>1 DEF ReplaceRoot, Shown, FreshRoots
    <2>3. {} \in SUBSET Publishers /\ disasters' = disasters + 1 /\ UNCHANGED request
      BY <1>3 DEF ReplaceRoot, Disaster
    <2> QED BY <1>c, <2>2, <2>3, MapsToLose
  <1>4. CASE ChmodRoot
    <2>1. root'.at = root.at /\ dir' = dir
      BY <1>4, <1>a DEF ChmodRoot, PublicationTypeOK
    <2>2. \A d \in Directories : Shown(d)' => Shown(d) /\ dir'[d].of = dir[d].of
      BY <2>1 DEF Shown, Complete
    <2>3. {} \in SUBSET Publishers /\ disasters' = disasters + 1 /\ UNCHANGED request
      BY <1>4 DEF ChmodRoot, Disaster
    <2> QED BY <1>c, <2>2, <2>3, MapsToLose
  <1>5. CASE Spoil
    <2>1. PICK e \in Directories, f \in Files :
             dir' = [dir EXCEPT ![e] = WithFile(dir[e], f, "foreign", {"foreign"})]
      BY <1>5 DEF Spoil
    <2>2. dir'[e].file[f] = "foreign"
      <3>1. "foreign" \in Contents /\ {"foreign"} \in SUBSET Contents /\ dir[e] \in DirectoryType
        BY <1>a DEF Contents
      <3>2. WithFile(dir[e], f, "foreign", {"foreign"}).file[f] = "foreign"
        BY <3>1, WithFileFields
      <3> QED BY <1>a, <2>1, <3>2
    <2>3. \A d \in Directories \ {e} : dir'[d] = dir[d]
      BY <1>a, <2>1
    <2>4. root' = root
      BY <1>5 DEF Spoil
    <2>5. \A d \in Directories : Shown(d)' => Shown(d) /\ dir'[d].of = dir[d].of
      BY <2>2, <2>3, <2>4 DEF Shown, Complete
    <2>6. {} \in SUBSET Publishers /\ disasters' = disasters + 1 /\ UNCHANGED request
      BY <1>5 DEF Spoil, Disaster
    <2> QED BY <1>c, <2>5, <2>6, MapsToLose
  <1> QED BY <1>1, <1>2, <1>3, <1>4, <1>5

LEMMA SlotInitMaps == PublicationInit => Contract!SlotInit
  <1> SUFFICES ASSUME PublicationInit PROVE Contract!SlotInit
    OBVIOUS
  <1>1. \A d \in Directories : ~Shown(d)
    BY DEF PublicationInit, Shown
  <1>2. Slot = NoBackup
    BY <1>1, SlotEmpty
  <1> QED BY <1>2 DEF PublicationInit, Contract!SlotInit

LEMMA SlotStepMaps ==
  PublicationIInv /\ PublicationIInv' /\ [PublicationNext]_vars => [Contract!SlotNext]_Contract!slotVars
  <1> SUFFICES ASSUME PublicationIInv, PublicationIInv', [PublicationNext]_vars
               PROVE  [Contract!SlotNext]_Contract!slotVars
    OBVIOUS
  <1>1. ASSUME NEW p \in Publishers, Stage(p) PROVE [Contract!SlotNext]_Contract!slotVars
    BY <1>1, BeginMaps, OpenRootMaps, StagingMaps DEF Stage
  <1>2. ASSUME NEW p \in Publishers, Commit(p) PROVE [Contract!SlotNext]_Contract!slotVars
    BY <1>2, RenameMaps, SettleMaps, VerifyExistingMaps, CleanupMaps, ProbeMaps DEF Commit
  <1>3. CASE UNCHANGED vars
    <2>1. root' = root /\ dir' = dir /\ offer' = offer /\ verdict' = verdict /\ disasters' = disasters
      BY <1>3 DEF vars, files, request, bounds
    <2>2. \A d \in Directories : (Shown(d)' <=> Shown(d)) /\ (Shown(d) => dir'[d].of = dir[d].of)
      BY <2>1 DEF Shown, Complete
    <2>3. Slot' = Slot
      BY <2>2, SlotKept
    <2> QED BY <2>1, <2>3 DEF Contract!slotVars
  <1> QED BY <1>1, <1>2, <1>3, DisasterMaps DEF PublicationNext

(* Publish implements BackupSlot, for any number of publishers, archives, failures *)
(* and disasters: a backup appears whole and in an empty place, is replaced by no   *)
(* publisher, and a success is answered only for a backup that can be read.         *)
THEOREM PublicationImplementsSlot == PublicationSpec => ImplementsBackupSlot
  BY SlotInitMaps, SlotStepMaps, PublicationInvariant, PTL
  DEF PublicationSpec, ImplementsBackupSlot, Contract!SlotSpec
=============================================================================
