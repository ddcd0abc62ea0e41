---------------------------- MODULE ImageArchive ----------------------------
(***************************************************************************)
(* The analysis of a Docker archive: a tar file whose manifest.json lists   *)
(* images and whose optional index.json describes the same images the OCI   *)
(* way.  The file is read several times, by offset, while its owner may      *)
(* write it in place or rename another file over it.                         *)
(*                                                                         *)
(* A member's name is the digest its path carries (blobs/sha256/...) or a   *)
(* legacy name; the body is the digest of its bytes.                        *)
(***************************************************************************)
EXTENDS Registry

CONSTANTS
    Archives,   \* the names of the archive contents
    Archive,    \* Archive[x]: the content named x
    Selector    \* the selector of the archive source: a tag, or an entry's index

ASSUME ArchiveAssumption ==
    \A x \in Archives :
        /\ DOMAIN Archive[x] = {"whole", "members", "links", "entries", "index"}
        /\ Archive[x].whole \in BOOLEAN
        /\ IsFiniteSet(DOMAIN Archive[x].index)
        /\ \A n \in DOMAIN Archive[x].members : Archive[x].members[n] \in Digests

VARIABLES
    path,    \* the inode the source path names
    inodes,  \* inodes[n]: the content and the change time of a file
    job      \* the analysis in progress

fileVars == <<path, inodes>>
archiveVars == <<fileVars, job>>

Inodes == 1..MaxMoves + 1
Identities == [inode : Inodes, changed : 0..MaxMoves]

NoJob == [at |-> "idle", before |-> [inode |-> 1, changed |-> 0], parts |-> {}, result |-> "none"]

ArchiveTypeOK ==
    /\ path \in Inodes
    /\ inodes \in [Inodes -> [archive : Archives, changed : 0..MaxMoves]]
    /\ job \in [at : {"idle", "lstat", "open", "scan", "config", "layers", "index", "hash", "verify", "done"},
                before : Identities, parts : SUBSET Archives, result : {"none", "ok", "invalid"}]

ArchiveInit ==
    /\ path = 1
    /\ \E x \in Archives : inodes = [n \in Inodes |-> [archive |-> x, changed |-> 0]]
    /\ job = NoJob

-----------------------------------------------------------------------------
(* What one content says.                                                    *)

(* resolvedMember: legacy layers are links to the layer files.               *)
MemberOf(a, n) == IF n \in DOMAIN a.links THEN a.links[n] ELSE n
HasMember(a, n) == MemberOf(a, n) \in DOMAIN a.members
Body(a, n) == a.members[MemberOf(a, n)]

(* decodeManifest: entries, each with canonical names and no layer twice.    *)
ManifestOK(a) == a.entries # << >> /\ \A e \in ToSet(a.entries) : IsInjective(e.layers)

(* scanArchive: the headers are plain, no name occurs twice, links lead to   *)
(* members, nothing follows the end marker.                                  *)
ScanOK(a) ==
    /\ a.whole
    /\ \A n \in DOMAIN a.links : a.links[n] \in DOMAIN a.members
    /\ ManifestOK(a)

(* selectImage: the entry at the index, or the only one with the tag, whose  *)
(* config and tags no other entry has.                                       *)
Matching(a, selector) ==
    {i \in DOMAIN a.entries : IF selector.by = "index" THEN i = selector.index
                              ELSE selector.tag \in a.entries[i].tags}
DuplicateIdentity(a, i) ==
    \E j \in DOMAIN a.entries \ {i} :
        \/ a.entries[j].config = a.entries[i].config
        \/ a.entries[j].tags \cap a.entries[i].tags # {}
SelectOK(a, selector) ==
    /\ Cardinality(Matching(a, selector)) = 1
    /\ \A i \in Matching(a, selector) :
          /\ ~DuplicateIdentity(a, i)
          /\ a.entries[i].config \in DOMAIN a.members
          /\ \A n \in ToSet(a.entries[i].layers) : HasMember(a, n)
Entry(a, selector) == a.entries[CHOOSE i \in Matching(a, selector) : TRUE]

ConfigOf(a, e) == a.members[e.config]
LayersOf(a, e) == [i \in DOMAIN e.layers |-> Body(a, e.layers[i])]

(* analyzeSelectedImage: the config decodes and is for a platform that       *)
(* supportedPlatform knows (the code knows two, which it treats alike; the   *)
(* model has the one), has a diff ID for every layer, and what LayerSources  *)
(* says of a layer agrees with its name and bytes.                           *)
ConfigOK(a, e) == Kind(ConfigOf(a, e)) = "config" /\ Document[ConfigOf(a, e)].platform = Platform
LayersOK(a, e) ==
    LET diffs == Document[ConfigOf(a, e)].diffs IN
    /\ Len(diffs) = Len(e.layers)
    /\ DOMAIN e.sources \subseteq ToSet(diffs)
    /\ \A i \in DOMAIN diffs : diffs[i] \in DOMAIN e.sources =>
          \A d \in {diffs[i], e.sources[diffs[i]]} : e.layers[i] = d => LayersOf(a, e)[i] = d

(* descriptorPayload: the member named by the digest, if its bytes hash so.  *)
HasPayload(a, d) == d \in DOMAIN a.members /\ a.members[d] = d

(* resolveOCIIndexDescriptors: index.json may hold one nested index.         *)
Nested(a) == Len(a.index) = 1 /\ a.index[1].platform = "any" /\ ~a.index[1].image
OCIDescriptors(a) == IF Nested(a) THEN Document[a.index[1].digest].entries ELSE a.index

(* selectOCIDescriptor: every descriptor is an image manifest, none occurs   *)
(* twice, and one is for the platform.                                       *)
OCIMatches(values) == {i \in DOMAIN values : values[i].platform \in {"any", Platform}}
SelectOCIDescriptor(values) ==
    /\ \A i \in DOMAIN values : values[i].image /\ (values[i].platform = "any" => Len(values) = 1)
    /\ \A i, j \in DOMAIN values : i # j => values[i].digest # values[j].digest
    /\ Cardinality(OCIMatches(values)) = 1
OCIManifest(values) == values[CHOOSE i \in OCIMatches(values) : TRUE].digest

(* validateOCILayer: the blob is in the archive and is the selected layer,   *)
(* or the layer is named by its diff ID and LayerSources tells the blob.     *)
OCILayerOK(a, e, i, layer) ==
    IF layer \in DOMAIN a.members THEN HasPayload(a, layer) /\ LayersOf(a, e)[i] = layer
    ELSE LET diff == Document[ConfigOf(a, e)].diffs[i] IN
         /\ diff \in DOMAIN e.sources /\ e.sources[diff] = layer
         /\ e.layers[i] = diff /\ LayersOf(a, e)[i] = diff

(* validateOCIIndex: the OCI description is of the selected image.           *)
OCIUnchecked(a, e) == TRUE \* Mutant: manifest.json alone decides
OCIIndexOK(a, e) ==
    a.index = << >> \/
    /\ Nested(a) => HasPayload(a, a.index[1].digest) /\ Kind(a.index[1].digest) = "index"
    /\ SelectOCIDescriptor(OCIDescriptors(a))
    /\ LET m == OCIManifest(OCIDescriptors(a)) IN
       /\ HasPayload(a, m) /\ Kind(m) = "manifest"
       /\ HasPayload(a, Document[m].config) /\ Document[m].config = ConfigOf(a, e)
       /\ Len(Document[m].layers) = Len(e.layers) /\ IsInjective(Document[m].layers)
       /\ \A i \in DOMAIN e.layers : OCILayerOK(a, e, i, Document[m].layers[i])

(* resolveArchiveImage: an archive without index.json gets a manifest made   *)
(* from its config and layers, which is also the reference digest.           *)
ArchiveManifest(a, e) == <<ConfigOf(a, e)>> \o LayersOf(a, e)
ArchiveIdentity(a, selector) ==
    LET e == Entry(a, selector) IN
    [reference |-> ArchiveManifest(a, e),
     manifest  |-> IF a.index = << >> THEN ArchiveManifest(a, e) ELSE <<OCIManifest(OCIDescriptors(a))>>,
     config    |-> ConfigOf(a, e)]

Accepts(a, selector) ==
    /\ ScanOK(a) /\ SelectOK(a, selector)
    /\ LET e == Entry(a, selector) IN ConfigOK(a, e) /\ LayersOK(a, e) /\ OCIIndexOK(a, e)

(* AnalyzeStream, on a spool nobody else writes: exactly one image.          *)
First == [by |-> "index", index |-> 1]
AcceptsSaved(a) == Len(a.entries) = 1 /\ Accepts(a, First)

-----------------------------------------------------------------------------
(* Analyze, on the owner's file.                                             *)

IdentityNow(n) == [inode |-> n, changed |-> inodes[n].changed]
Invalid == job' = [job EXCEPT !.at = "done", !.result = "invalid"]
ArchiveFrame == UNCHANGED fileVars

AnalyzeBegin == job' = [NoJob EXCEPT !.at = "lstat"]

Lstat ==
    /\ job.at = "lstat"
    /\ job' = [job EXCEPT !.at = "open", !.before = IdentityNow(path)]
    /\ ArchiveFrame /\ Routine

(* openSource: the file opened is the file just looked at.                   *)
OpenSource ==
    /\ job.at = "open"
    /\ IF IdentityNow(path) = job.before THEN job' = [job EXCEPT !.at = "scan"] ELSE Invalid
    /\ ArchiveFrame /\ Routine

(* One pass over the open file.  While every pass so far read one content,   *)
(* the checks decide; bytes of two contents may pass them or not.  sound is  *)
(* the set of contents that pass.                                            *)
Pass(step, next, sound) ==
    LET read == job.parts \cup {inodes[job.before.inode].archive} IN
    /\ job.at = step
    /\ \/ /\ \A x \in read : read = {x} => x \in sound
          /\ job' = [job EXCEPT !.at = next, !.parts = read] /\ Routine
       \/ /\ \A x \in read : read = {x} => x \notin sound
          /\ Invalid /\ Routine
       \/ Fault /\ Invalid
    /\ ArchiveFrame

Scan == Pass("scan", "config", {x \in Archives : ScanOK(Archive[x])})
ReadConfigMember ==
    Pass("config", "layers",
         {x \in Archives : /\ SelectOK(Archive[x], Selector)
                           /\ ConfigOK(Archive[x], Entry(Archive[x], Selector))})
HashLayers == Pass("layers", "index", {x \in Archives : LayersOK(Archive[x], Entry(Archive[x], Selector))})
ReadIndex == Pass("index", "hash", {x \in Archives : OCIIndexOK(Archive[x], Entry(Archive[x], Selector))})
HashArchive == Pass("hash", "verify", Archives)

(* verifySourceIdentity: the open file and the path are still the file       *)
(* looked at first.                                                          *)
VerifyPathOnly == \* Mutant: only the name is compared
    /\ job.at = "verify"
    /\ IF path = job.before.inode THEN job' = [job EXCEPT !.at = "done", !.result = "ok"] ELSE Invalid
    /\ ArchiveFrame /\ Routine
VerifySource ==
    /\ job.at = "verify"
    /\ IF IdentityNow(job.before.inode) = job.before /\ path = job.before.inode
       THEN job' = [job EXCEPT !.at = "done", !.result = "ok"] ELSE Invalid
    /\ ArchiveFrame /\ Routine

AnalyzeStep ==
    \/ Lstat \/ OpenSource \/ Scan \/ ReadConfigMember \/ HashLayers \/ ReadIndex \/ HashArchive
    \/ VerifySource

-----------------------------------------------------------------------------
(* The owner of the file writes it in place, or renames another over it.     *)
RewriteFile ==
    /\ Move
    /\ \E x \in Archives :
          inodes' = [inodes EXCEPT ![path] = [archive |-> x, changed |-> @.changed + 1]]
    /\ UNCHANGED <<path, job>>

ReplaceFile ==
    /\ Move
    /\ path < MaxMoves + 1
    /\ path' = path + 1
    /\ \E x \in Archives : inodes' = [inodes EXCEPT ![path + 1].archive = x]
    /\ UNCHANGED job

FileWorld == RewriteFile \/ ReplaceFile
=============================================================================
