---------------------------- MODULE ImagesProofs ----------------------------
(***************************************************************************)
(* Safety of the image commands, for any documents, archives and references   *)
(* and any number of moves of tags, records, content, files and images.       *)
(*                                                                         *)
(* A resolution holds one top digest that its source named, and everything it   *)
(* reads after that is a function of it.  An analysis holds the identity it saw  *)
(* before it opened the file; as long as that is the file's identity now, every  *)
(* pass read one content.  A probe's answer is about what the runtime holds at   *)
(* the moment of one of its requests, which the history has noted.             *)
(***************************************************************************)
EXTENDS Images, FiniteSetTheorems, TLAPS

-----------------------------------------------------------------------------
(* The resolution.                                                           *)

(* The reference is read, and the platform's manifest too.                    *)
Succeeded  == look.at = "done" /\ look.result = "ok"
Referenced == look.at \in {"manifest", "layers", "config"} \/ Succeeded
HasManifest == look.at \in {"layers", "config"} \/ Succeeded

LookInv ==
    /\ look.at = "credential" => look.repository = "registry"
    /\ look.at \in {"pinned", "tagged"} => look.repository = "local"
    /\ look.at = "top" /\ look.repository = "local" => look.top \in Roots /\ look.top \in seen
    /\ Referenced => /\ look.top \in Roots /\ look.top \in seen
                     /\ look.source \in {NoDigest, look.top}
    /\ HasManifest => /\ Kind(look.manifest) = "manifest" /\ look.manifest \in Digests
                      /\ Selectable(look.top) /\ look.manifest = Selected(look.top)
    /\ Succeeded => /\ look.config = Document[look.manifest].config
                    /\ ConfigResult(look.top, look.manifest, look.config) = "ok"
    /\ look.layer >= 1
    /\ look.at \in {"credential", "pinned", "tagged", "top", "manifest"} => look.layer = 1
    /\ look.result # "none" => look.at = "done"

-----------------------------------------------------------------------------
(* The analysis.                                                             *)

(* What a content has passed, by the point of the analysis.                   *)
Scanned   == {"config", "layers", "index", "hash", "verify"}
Decoded   == Scanned \ {"config"}
Hashed    == Decoded \ {"layers"}
Described == Hashed \ {"index"}
Passed(at, x) ==
    /\ at \in Scanned => ScanOK(Archive[x])
    /\ at \in Decoded => SelectOK(Archive[x], Selector) /\ ConfigOK(Archive[x], Entry(Archive[x], Selector))
    /\ at \in Hashed => LayersOK(Archive[x], Entry(Archive[x], Selector))
    /\ at \in Described => OCIIndexOK(Archive[x], Entry(Archive[x], Selector))

(* The file that the analysis has looked at, and that nobody wrote since.     *)
Current == inodes[job.before.inode]
Unwritten == Current.changed = job.before.changed

JobInv ==
    /\ job.before.inode <= path
    /\ job.before.changed <= Current.changed
    /\ \A n \in Inodes : inodes[n].changed <= moves
    /\ job.at \in Scanned => job.parts # {} /\ (Unwritten => job.parts = {Current.archive})
    /\ job.at \in {"idle", "lstat", "open", "scan"} => job.parts = {}
    /\ \A x \in Archives : job.parts = {x} => Passed(job.at, x)
    /\ job.result # "none" => job.at = "done"
    /\ job.result = "ok" => \E x \in Archives : job.parts = {x} /\ Accepts(Archive[x], Selector)

-----------------------------------------------------------------------------
(* The command and the request it has made.                                  *)
ProbePoints == {"inspect", "resolve", "save", "saved", "again", "done"}
UserPoints  == {"user_probe", "user_save", "user_again"}
Probing     == {"probe", "user_probe", "user_again"}

CommandInv ==
    /\ cmd.at = "idle" => request = NoRequest
    /\ cmd.at = "resolve" => request = NoRequest /\ cmd.kind = "gen"
    /\ cmd.at = "analyze" => request = NoRequest /\ cmd.kind = "archive"
    /\ cmd.at \in Probing => request.at \in ProbePoints
    /\ cmd.at = "user_save" => request.at \in {"save", "saved", "layers", "done"}
    /\ cmd.at = "pull" => request.at \in {"pull", "stream", "done"} /\ cmd.kind = "pull"
    /\ cmd.at = "returned" => request.at \in {"idle", "done"}
    /\ cmd.at \in UserPoints => cmd.kind = "gen"
    /\ cmd.user => cmd.at \in UserPoints \cup {"returned"}
    /\ cmd.kind = "prove" => runtime # "containerd"
    /\ cmd.result # "none" => cmd.at = "returned"

(* What a request is about, and of which runtime it is asked.                 *)
RequestInv ==
    /\ request.at # "idle" =>
          request.image.origin = IF cmd.kind = "prove" THEN "archive" ELSE "registry"
    /\ request.at \in {"inspect", "again", "save", "saved"} => runtime # "containerd"
    /\ request.at \in {"resolve", "layers"} => runtime = "containerd"
    /\ request.at \in {"save", "saved"} /\ cmd.at # "user_save" => request.image.origin = "archive"
    /\ request.at = "again" => request.image.origin = "archive"
    /\ request.at = "resolve" => look.repository = "local" /\ look.source = request.image.reference

(* A manifest is held under its own digest only.                              *)
NamesInv == \A d \in Tops : Kind(d) = "manifest" => names[d] \in {NoDigest, d}

(* The history has what the runtime holds now.                                *)
HistoryInv ==
    cmd.at \in Probing \cup {"user_save"} =>
        (Holds(request.image) => held) /\ Lacks(request.image) \subseteq lacked

(* What an answer that may still be given will rest on.                       *)
SameArchive(x, y) == ArchiveIdentity(Archive[x], Selector) = ArchiveIdentity(Archive[y], Selector)
ObservedInv ==
    /\ request.at = "saved" /\ request.image.origin = "archive" =>
          /\ request.saved \in Loadable
          /\ SameArchive(request.saved, request.image.archive) => held
    /\ request.at = "again" => held
    /\ request.at = "done" /\ request.answer = "observed" /\ cmd.at \in Probing => held
    /\ cmd.at = "user_save" => held

(* containerd's probe reads the pinned name, the tagged one and the content.  *)
Missed == lacked = ImageNames
AbsenceInv ==
    request.at = "resolve" =>
        /\ look.at = "tagged" => "pinned" \in lacked
        /\ look.at = "top" => look.top = request.image.reference \/ Missed
        /\ look.at = "done" /\ look.result = "not_found" => Missed

(* The documents of an image that a resolution has still to read.  Content is *)
(* only ever taken, so if they are there now, the image was whole when its     *)
(* record was read.                                                          *)
LayersFrom(i, n) == {Document[i.manifest].layers[k] : k \in n..Len(Document[i.manifest].layers)}
Left(i) ==
    CASE look.at = "top" -> GraphOf(i)
      [] look.at = "manifest" -> ({i.manifest} \ {i.reference}) \cup {i.config} \cup LayersFrom(i, 1)
      [] look.at = "layers" -> {i.config} \cup LayersFrom(i, look.layer)
      [] look.at = "config" -> {i.config}
PresenceInv ==
    request.at = "resolve" =>
        /\ look.at = "top" /\ look.top = request.image.reference
              /\ Left(request.image) \subseteq content => held
        /\ look.at \in {"manifest", "layers", "config"} /\ Left(request.image) \subseteq content => held
        /\ Succeeded => held

(* The user that was read.                                                   *)
UserInv ==
    /\ cmd.at = "user_save" /\ request.at = "done" /\ request.answer = "observed" =>
          request.user = request.image.config
    /\ cmd.at = "user_again" => request.user = request.image.config

(* The inductive invariant of the image commands.                            *)
ImagesIInv ==
    /\ ImagesTypeOK
    /\ LookInv /\ JobInv /\ CommandInv /\ RequestInv /\ NamesInv
    /\ HistoryInv /\ ObservedInv /\ AbsenceInv /\ PresenceInv /\ UserInv
    /\ AnswersAreProved /\ UserIsOfTheImage

-----------------------------------------------------------------------------
(* The documents.                                                            *)

(* A manifest has a config and a list of layers.                              *)
LEMMA ManifestDocument ==
    ASSUME NEW m \in Digests, Kind(m) = "manifest"
    PROVE  /\ Document[m].config \in Digests
           /\ Document[m].layers \in Seq(Digests)
    BY DocumentAssumption

(* An index has finitely many entries, each with the digest of a document.    *)
LEMMA IndexDocument ==
    ASSUME NEW d \in Digests, Kind(d) = "index"
    PROVE  /\ IsFiniteSet(DOMAIN Document[d].entries)
           /\ \A i \in DOMAIN Document[d].entries : Document[d].entries[i].digest \in Digests
    <1>1. /\ IsFiniteSet(DOMAIN Document[d].entries)
          /\ \A e \in ToSet(Document[d].entries) : e.digest \in Digests
        BY DocumentAssumption
    <1> QED BY <1>1 DEF ToSet

(* A set of one element.                                                     *)
LEMMA OneElement ==
    ASSUME NEW S, IsFiniteSet(S), Cardinality(S) = 1
    PROVE  \E x \in S : S = {x}
    BY FS_Singleton

LEMMA NotEmpty ==
    ASSUME NEW S, Cardinality(S) = 1
    PROVE  S # {}
    BY FS_EmptySet

(* The manifest that selectPlatform chooses is that of the only entry for     *)
(* the platform.                                                             *)
LEMMA SelectedIsTheOnlyEntry ==
    ASSUME NEW top \in Tops, Selectable(top)
    PROVE  /\ Selected(top) \in Digests
           /\ \/ Kind(top) = "manifest" /\ Selected(top) = top
              \/ /\ Kind(top) = "index"
                 /\ \E i \in PlatformEntries(top) :
                       PlatformEntries(top) = {i} /\ Selected(top) = Document[top].entries[i].digest
    <1>1. top \in Digests /\ Kind(top) \in {"index", "manifest"} BY DEF Tops
    <1>2. CASE Kind(top) = "manifest" BY <1>1, <1>2 DEF Selected
    <1>3. CASE Kind(top) = "index"
        <2>1. IsFiniteSet(DOMAIN Document[top].entries) BY <1>1, <1>3, IndexDocument
        <2>2. PlatformEntries(top) \subseteq DOMAIN Document[top].entries BY DEF PlatformEntries
        <2>3. IsFiniteSet(PlatformEntries(top)) BY <2>1, <2>2, FS_Subset
        <2>4. Cardinality(PlatformEntries(top)) = 1 BY <1>3 DEF Selectable
        <2>5. PICK i \in PlatformEntries(top) : PlatformEntries(top) = {i} BY <2>3, <2>4, OneElement
        <2>6. (CHOOSE j \in PlatformEntries(top) : TRUE) = i BY <2>5
        <2>7. Selected(top) = Document[top].entries[i].digest BY <1>3, <2>6 DEF Selected, ChosenEntry
        <2>8. Document[top].entries[i].digest \in Digests BY <1>1, <1>3, <2>2, IndexDocument
        <2> QED BY <1>3, <2>5, <2>7, <2>8
    <1> QED BY <1>1, <1>2, <1>3

(* What Resolve returns is one of the images that the reference may denote.   *)
LEMMA SelectedIsAnIdentity ==
    ASSUME NEW top \in Tops, Selectable(top), Kind(Selected(top)) = "manifest",
           ConfigResult(top, Selected(top), Document[Selected(top)].config) = "ok"
    PROVE  Identity(top, Selected(top)) \in IdentitiesOf(top)
    BY SelectedIsTheOnlyEntry DEF IdentitiesOf

(* And there is one such image.                                              *)
LEMMA IdentityIsSelected ==
    ASSUME NEW top \in Tops, NEW i \in IdentitiesOf(top)
    PROVE  /\ i = Identity(top, i.manifest)
           /\ i.reference = top
           /\ i.manifest \in Digests /\ Kind(i.manifest) = "manifest"
           /\ i.config = Document[i.manifest].config /\ i.config \in Digests
           /\ Selectable(top) /\ i.manifest = Selected(top)
    <1>1. PICK m \in Digests :
             /\ i = Identity(top, m) /\ Kind(m) = "manifest"
             /\ \/ Kind(top) = "manifest" /\ m = top
                \/ /\ Kind(top) = "index"
                   /\ \E j \in PlatformEntries(top) :
                         PlatformEntries(top) = {j} /\ m = Document[top].entries[j].digest
        BY DEF IdentitiesOf
    <1>2. i = [reference |-> top, manifest |-> m, config |-> Document[m].config] BY <1>1 DEF Identity
    <1>3. Document[m].config \in Digests BY <1>1, ManifestDocument
    <1>4. Selectable(top) /\ m = Selected(top)
        <2>1. CASE Kind(top) = "manifest" BY <1>1, <2>1 DEF Selectable, Selected
        <2>2. CASE Kind(top) = "index"
            <3>1. PICK j \in PlatformEntries(top) :
                     PlatformEntries(top) = {j} /\ m = Document[top].entries[j].digest
                BY <1>1, <2>2
            <3>2. Cardinality(PlatformEntries(top)) = 1 BY <3>1, FS_Singleton
            <3>3. (CHOOSE k \in PlatformEntries(top) : TRUE) = j BY <3>1
            <3> QED BY <2>2, <3>1, <3>2, <3>3 DEF Selectable, Selected, ChosenEntry
        <2> QED BY <1>1, <2>1, <2>2
    <1>5. i.reference = top /\ i.manifest = m /\ i.config = Document[m].config BY <1>2
    <1>6. i = Identity(top, i.manifest) BY <1>1, <1>5
    <1> QED BY <1>1, <1>3, <1>4, <1>5, <1>6

(* The roots that tags, records and references name are documents.            *)
LEMMA RootsAreTops == Roots \subseteq Tops /\ Roots \subseteq Digests /\ NoDigest \notin Roots
    BY RootsAssumption, DigestsAssumption DEF Tops

-----------------------------------------------------------------------------
(* What one content says.                                                    *)

(* Every entry that the selector can mean is the chosen one: an index means    *)
(* one, and two entries with one tag are a duplicate identity.                *)
LEMMA MatchingIsOneEntry ==
    ASSUME NEW a, NEW s, SelectOK(a, s), NEW i \in Matching(a, s)
    PROVE  a.entries[i] = Entry(a, s)
    <1> DEFINE k == CHOOSE j \in Matching(a, s) : TRUE
    <1>1. k \in Matching(a, s) OBVIOUS
    <1>2. k = i
        <2>1. CASE s.by = "index" BY <1>1, <2>1 DEF Matching
        <2>2. CASE s.by # "index"
            <3>1. s.tag \in a.entries[i].tags /\ s.tag \in a.entries[k].tags /\ k \in DOMAIN a.entries
                BY <1>1, <2>2 DEF Matching
            <3>2. ~DuplicateIdentity(a, i) BY DEF SelectOK
            <3> QED BY <3>1, <3>2 DEF DuplicateIdentity
        <2> QED BY <2>1, <2>2
    <1> QED BY <1>2 DEF Entry

LEMMA MatchingIsNotEmpty ==
    ASSUME NEW a, NEW s, SelectOK(a, s)
    PROVE  \E i \in Matching(a, s) : TRUE
    BY NotEmpty DEF SelectOK

(* The descriptors of an accepted archive are finitely many.                  *)
LEMMA DescriptorsAreFinite ==
    ASSUME NEW x \in Archives, NEW e, OCIIndexOK(Archive[x], e), Archive[x].index # << >>
    PROVE  IsFiniteSet(DOMAIN OCIDescriptors(Archive[x]))
    <1> DEFINE a == Archive[x]
               d == a.index[1].digest
    <1>1. CASE Nested(a)
        <2>1. HasPayload(a, d) /\ Kind(d) = "index" BY <1>1 DEF OCIIndexOK
        <2>2. d \in Digests BY <2>1, ArchiveAssumption DEF HasPayload
        <2>3. IsFiniteSet(DOMAIN Document[d].entries) BY <2>1, <2>2, IndexDocument
        <2> QED BY <1>1, <2>3 DEF OCIDescriptors
    <1>2. CASE ~Nested(a)
        <2>1. OCIDescriptors(a) = a.index BY <1>2 DEF OCIDescriptors
        <2>2. IsFiniteSet(DOMAIN a.index) BY ArchiveAssumption
        <2> QED BY <2>1, <2>2
    <1> QED BY <1>1, <1>2

(* Every descriptor for the platform is the one that validateOCIIndex reads.  *)
LEMMA DescriptorIsOne ==
    ASSUME NEW v, IsFiniteSet(DOMAIN v), SelectOCIDescriptor(v), NEW i \in OCIMatches(v)
    PROVE  v[i].digest = OCIManifest(v)
    <1>1. OCIMatches(v) \subseteq DOMAIN v BY DEF OCIMatches
    <1>2. IsFiniteSet(OCIMatches(v)) BY <1>1, FS_Subset
    <1>3. Cardinality(OCIMatches(v)) = 1 BY DEF SelectOCIDescriptor
    <1>4. PICK k \in OCIMatches(v) : OCIMatches(v) = {k} BY <1>2, <1>3, OneElement
    <1>5. (CHOOSE j \in OCIMatches(v) : TRUE) = i BY <1>4
    <1> QED BY <1>5 DEF OCIManifest

(* An accepted content reads one way.                                        *)
LEMMA AcceptedReadsOneWay ==
    ASSUME NEW x \in Archives, Accepts(Archive[x], Selector)
    PROVE  Cardinality(Readings(Archive[x])) = 1
    <1> DEFINE a == Archive[x]
               e == Entry(a, Selector)
               c == ConfigOf(a, e)
               V == {v \in ToSet(OCIDescriptors(a)) :
                        v.platform \in {"any", Platform} /\ Kind(v.digest) = "manifest"}
    <1>1. SelectOK(a, Selector) /\ OCIIndexOK(a, e) BY DEF Accepts
    <1>2. \A i \in Matching(a, Selector) : ConfigOf(a, a.entries[i]) = c
        BY <1>1, MatchingIsOneEntry
    <1>3. \E i \in Matching(a, Selector) : TRUE BY <1>1, MatchingIsNotEmpty
    <1>4. {ConfigOf(a, a.entries[i]) : i \in Matching(a, Selector)} = {c} BY <1>2, <1>3
    <1>5. \A v \in V : Document[v.digest].config = c
        <2>1. CASE a.index = << >>
            <3>1. ~Nested(a) BY <2>1 DEF Nested
            <3>2. OCIDescriptors(a) = << >> BY <2>1, <3>1 DEF OCIDescriptors
            <3>3. DOMAIN OCIDescriptors(a) = {} BY <3>2
            <3> QED BY <3>3 DEF ToSet
        <2>2. CASE a.index # << >>
            <3> DEFINE m == OCIManifest(OCIDescriptors(a))
            <3>1. SelectOCIDescriptor(OCIDescriptors(a)) /\ Document[m].config = c
                BY <1>1, <2>2 DEF OCIIndexOK
            <3>2. IsFiniteSet(DOMAIN OCIDescriptors(a)) BY <1>1, <2>2, DescriptorsAreFinite
            <3>3. SUFFICES ASSUME NEW v \in V PROVE v.digest = m BY <3>1
            <3>4. PICK i \in DOMAIN OCIDescriptors(a) : v = OCIDescriptors(a)[i] BY DEF ToSet
            <3>5. i \in OCIMatches(OCIDescriptors(a)) BY <3>4 DEF OCIMatches
            <3> QED BY <3>1, <3>2, <3>4, <3>5, DescriptorIsOne
        <2> QED BY <2>1, <2>2
    <1>6. Readings(a) = {c} BY <1>4, <1>5 DEF Readings
    <1> QED BY <1>6, FS_Singleton

(* The archive that Docker writes of an image says of it what the archive it   *)
(* was loaded from says.                                                     *)
LEMMA ExportedKeepsTheIdentity ==
    ASSUME NEW x \in Archives
    PROVE  ArchiveIdentity(Exported(x), First) = ArchiveIdentity(Archive[x], Selector)
    <1> DEFINE a == Archive[x]
               b == Exported(x)
               e == Entry(a, Selector)
    <1>1. DOMAIN a = {"whole", "members", "links", "entries", "index"} BY ArchiveAssumption
    <1>2. /\ b.entries = <<e>> /\ b.members = a.members /\ b.links = a.links /\ b.index = a.index
        BY <1>1 DEF Exported
    <1>3. Matching(b, First) = {1} BY <1>2 DEF Matching, First
    <1>4. (CHOOSE i \in Matching(b, First) : TRUE) = 1 BY <1>3
    <1>5. Entry(b, First) = e
        <2>1. Entry(b, First) = b.entries[1] BY <1>4 DEF Entry
        <2> QED BY <1>2, <2>1
    <1>6. ConfigOf(b, e) = ConfigOf(a, e) BY <1>2 DEF ConfigOf
    <1>7. LayersOf(b, e) = LayersOf(a, e) BY <1>2 DEF LayersOf, Body, MemberOf
    <1>8. ArchiveManifest(b, e) = ArchiveManifest(a, e) BY <1>6, <1>7 DEF ArchiveManifest
    <1>9. OCIDescriptors(b) = OCIDescriptors(a) BY <1>2 DEF OCIDescriptors, Nested
    <1> QED BY <1>2, <1>5, <1>6, <1>8, <1>9 DEF ArchiveIdentity

-----------------------------------------------------------------------------
(* The analysis, step by step.                                               *)

ArchiveIInv == ArchiveTypeOK /\ JobInv /\ moves \in 0..MaxMoves

(* Steps of others leave the file and the analysis alone.                     *)
LEMMA OthersKeepTheAnalysis ==
    ASSUME ArchiveIInv, UNCHANGED archiveVars, moves' \in 0..MaxMoves, moves' >= moves
    PROVE  ArchiveIInv'
    <1>1. ArchiveTypeOK' BY DEF ArchiveIInv, ArchiveTypeOK, archiveVars, fileVars
    <1>2. \A n \in Inodes : inodes[n].changed \in Nat BY DEF ArchiveIInv, ArchiveTypeOK
    <1>3. \A n \in Inodes : inodes'[n].changed <= moves'
        BY <1>2 DEF ArchiveIInv, JobInv, archiveVars, fileVars
    <1>4. JobInv' BY <1>3 DEF ArchiveIInv, JobInv, archiveVars, fileVars, Current, Unwritten
    <1> QED BY <1>1, <1>4 DEF ArchiveIInv

(* The file as a value of its own.                                           *)
LEMMA FileFacts ==
    ASSUME ArchiveTypeOK
    PROVE  /\ path \in Inodes /\ Inodes \subseteq Nat
           /\ job.before.inode \in Inodes /\ job.before.changed \in 0..MaxMoves
           /\ job.parts \subseteq Archives
           /\ \A n \in Inodes : inodes[n].archive \in Archives /\ inodes[n].changed \in 0..MaxMoves
    BY BoundsAssumption DEF ArchiveTypeOK, Inodes, Identities

(* An analysis that ends without a result.                                    *)
LEMMA InvalidStep ==
    ASSUME ArchiveIInv, Invalid, UNCHANGED fileVars, moves' = moves
    PROVE  ArchiveIInv'
    <1>1. job' = [job EXCEPT !.at = "done", !.result = "invalid"] BY DEF Invalid
    <1>2. /\ job' \in [at : {"idle", "lstat", "open", "scan", "config", "layers", "index", "hash", "verify", "done"},
                       before : Identities, parts : SUBSET Archives, result : {"none", "ok", "invalid"}]
          /\ job'.at = "done" /\ job'.result = "invalid" /\ job'.before = job.before /\ job'.parts = job.parts
        BY <1>1 DEF ArchiveIInv, ArchiveTypeOK
    <1>3. ArchiveTypeOK' BY <1>2 DEF ArchiveIInv, ArchiveTypeOK, fileVars
    <1>4. JobInv' BY <1>2 DEF ArchiveIInv, JobInv, fileVars, Current, Unwritten, Passed, Scanned, Decoded,
                              Hashed, Described
    <1> QED BY <1>3, <1>4 DEF ArchiveIInv

(* One pass: its checks are those of the next point.                          *)
LEMMA PassStep ==
    ASSUME ArchiveIInv, NEW step \in {"scan"} \cup Scanned, NEW next \in Scanned, NEW sound,
           \A x \in Archives : Passed(step, x) /\ x \in sound => Passed(next, x),
           Pass(step, next, sound)
    PROVE  ArchiveIInv'
    <1> DEFINE here == Current.archive
               read == job.parts \cup {here}
    <1>1. CASE Invalid
        <2>1. moves' = moves BY DEF Pass, Routine, Fault
        <2>2. UNCHANGED fileVars BY DEF Pass, ArchiveFrame
        <2> QED BY <1>1, <2>1, <2>2, InvalidStep
    <1>2. CASE /\ \A x \in read : read = {x} => x \in sound
               /\ job' = [job EXCEPT !.at = next, !.parts = read] /\ Routine
        <2>1. /\ job.at = step /\ path' = path /\ inodes' = inodes /\ moves' = moves
            BY <1>2 DEF Pass, ArchiveFrame, fileVars, Routine
        <2>2. here \in Archives /\ read \subseteq Archives BY FileFacts DEF ArchiveIInv, Current
        <2>3. /\ job'.at = next /\ job'.parts = read /\ job'.before = job.before /\ job'.result = job.result
            BY <1>2 DEF ArchiveIInv, ArchiveTypeOK
        <2>4. job' \in [at : {"idle", "lstat", "open", "scan", "config", "layers", "index", "hash", "verify", "done"},
                       before : Identities, parts : SUBSET Archives, result : {"none", "ok", "invalid"}]
            BY <1>2, <2>2 DEF ArchiveIInv, ArchiveTypeOK, Scanned
        <2>5. ArchiveTypeOK' BY <2>1, <2>4 DEF ArchiveIInv, ArchiveTypeOK
        <2>6. Current' = Current /\ (Unwritten' <=> Unwritten) BY <2>1, <2>3 DEF Current, Unwritten
        <2>7. ASSUME Unwritten PROVE read = {here}
            <3>1. CASE step = "scan" BY <2>1, <3>1 DEF ArchiveIInv, JobInv
            <3>2. CASE step \in Scanned BY <2>1, <2>7, <3>2 DEF ArchiveIInv, JobInv
            <3> QED BY <3>1, <3>2
        <2>8. ASSUME NEW x \in Archives, read = {x} PROVE Passed(next, x)
            <3>1. x \in sound BY <1>2, <2>8
            <3>2. Passed(step, x)
                <4>1. CASE step = "scan" BY <4>1 DEF Passed, Scanned, Decoded, Hashed, Described
                <4>2. CASE step \in Scanned
                    <5>1. job.parts # {} BY <2>1, <4>2 DEF ArchiveIInv, JobInv
                    <5>2. job.parts = {x} BY <2>8, <5>1
                    <5> QED BY <2>1, <5>2 DEF ArchiveIInv, JobInv
                <4> QED BY <4>1, <4>2
            <3> QED BY <3>1, <3>2
        <2>9. next # "done" /\ next \notin {"idle", "lstat", "open", "scan"} /\ job.result = "none"
            BY <2>1 DEF ArchiveIInv, JobInv, Scanned
        <2>10. JobInv'
            <3>1. /\ job'.before.inode <= path' /\ job'.before.changed <= Current'.changed
                  /\ \A n \in Inodes : inodes'[n].changed <= moves'
                BY <2>1, <2>3, <2>6 DEF ArchiveIInv, JobInv
            <3>2. job'.parts # {} /\ (Unwritten' => job'.parts = {Current'.archive}) BY <2>3, <2>6, <2>7
            <3>3. \A x \in Archives : job'.parts = {x} => Passed(job'.at, x) BY <2>3, <2>8
            <3> QED BY <2>3, <2>9, <3>1, <3>2, <3>3 DEF JobInv
        <2> QED BY <2>1, <2>5, <2>10 DEF ArchiveIInv
    <1> QED BY <1>1, <1>2 DEF Pass, Current

(* scanArchive, the config, the layers, the index and the archive's digest.   *)
LEMMA PassesStep ==
    ASSUME ArchiveIInv, Scan \/ ReadConfigMember \/ HashLayers \/ ReadIndex \/ HashArchive
    PROVE  ArchiveIInv'
    <1> USE DEF Passed, Scanned, Decoded, Hashed, Described
    <1>1. CASE Scan BY <1>1, PassStep DEF Scan
    <1>2. CASE ReadConfigMember BY <1>2, PassStep DEF ReadConfigMember
    <1>3. CASE HashLayers BY <1>3, PassStep DEF HashLayers
    <1>4. CASE ReadIndex BY <1>4, PassStep DEF ReadIndex
    <1>5. CASE HashArchive BY <1>5, PassStep DEF HashArchive
    <1> QED BY <1>1, <1>2, <1>3, <1>4, <1>5

(* The file looked at first.                                                 *)
LEMMA LstatStep ==
    ASSUME ArchiveIInv, Lstat
    PROVE  ArchiveIInv'
    <1>1. /\ job.at = "lstat" /\ job' = [job EXCEPT !.at = "open", !.before = IdentityNow(path)]
          /\ path' = path /\ inodes' = inodes /\ moves' = moves
        BY DEF Lstat, ArchiveFrame, fileVars, Routine
    <1>2. IdentityNow(path) \in Identities BY FileFacts DEF ArchiveIInv, IdentityNow, Identities
    <1>3. /\ job'.at = "open" /\ job'.before.inode = path /\ job'.before.changed = inodes[path].changed
          /\ job'.parts = job.parts /\ job'.result = job.result
        BY <1>1 DEF ArchiveIInv, ArchiveTypeOK, IdentityNow
    <1>4. ArchiveTypeOK' BY <1>1, <1>2 DEF ArchiveIInv, ArchiveTypeOK
    <1>5. JobInv' BY <1>1, <1>3, FileFacts DEF ArchiveIInv, JobInv, Current, Unwritten, Passed, Scanned,
                                               Decoded, Hashed, Described
    <1> QED BY <1>1, <1>4, <1>5 DEF ArchiveIInv

(* openSource: the file opened is that file.                                  *)
LEMMA OpenStep ==
    ASSUME ArchiveIInv, OpenSource
    PROVE  ArchiveIInv'
    <1>1. /\ job.at = "open" /\ path' = path /\ inodes' = inodes /\ moves' = moves /\ UNCHANGED fileVars
        BY DEF OpenSource, ArchiveFrame, fileVars, Routine
    <1>2. CASE Invalid BY <1>1, <1>2, InvalidStep
    <1>3. CASE job' = [job EXCEPT !.at = "scan"]
        <2>1. /\ job'.at = "scan" /\ job'.before = job.before
              /\ job'.parts = job.parts /\ job'.result = job.result
            BY <1>3 DEF ArchiveIInv, ArchiveTypeOK
        <2>2. ArchiveTypeOK' BY <1>1, <1>3 DEF ArchiveIInv, ArchiveTypeOK
        <2>3. JobInv' BY <1>1, <2>1 DEF ArchiveIInv, JobInv, Current, Unwritten, Passed, Scanned, Decoded,
                                        Hashed, Described
        <2> QED BY <1>1, <2>2, <2>3 DEF ArchiveIInv
    <1> QED BY <1>2, <1>3 DEF OpenSource

(* verifySourceIdentity: the file has the identity it was first seen with, so  *)
(* that every pass has read the content it has now.                           *)
LEMMA VerifyStep ==
    ASSUME ArchiveIInv, VerifySource
    PROVE  ArchiveIInv'
    <1>1. /\ job.at = "verify" /\ path' = path /\ inodes' = inodes /\ moves' = moves /\ UNCHANGED fileVars
        BY DEF VerifySource, ArchiveFrame, fileVars, Routine
    <1>2. CASE Invalid BY <1>1, <1>2, InvalidStep
    <1>3. CASE /\ IdentityNow(job.before.inode) = job.before
               /\ job' = [job EXCEPT !.at = "done", !.result = "ok"]
        <2>1. /\ job'.at = "done" /\ job'.before = job.before
              /\ job'.parts = job.parts /\ job'.result = "ok"
            BY <1>3 DEF ArchiveIInv, ArchiveTypeOK
        <2>2. ArchiveTypeOK' BY <1>1, <1>3 DEF ArchiveIInv, ArchiveTypeOK
        <2>3. Unwritten
            <3>1. IdentityNow(job.before.inode).changed = job.before.changed BY <1>3
            <3> QED BY <3>1 DEF IdentityNow, Unwritten, Current
        <2>4. job.parts = {Current.archive} BY <1>1, <2>3 DEF ArchiveIInv, JobInv, Scanned
        <2>5. Current.archive \in Archives BY FileFacts DEF ArchiveIInv, Current
        <2>6. Passed("verify", Current.archive) BY <1>1, <2>4, <2>5 DEF ArchiveIInv, JobInv
        <2>7. Accepts(Archive[Current.archive], Selector)
            BY <2>6 DEF Passed, Accepts, Scanned, Decoded, Hashed, Described
        <2>8. \E x \in Archives : job'.parts = {x} /\ Accepts(Archive[x], Selector)
            BY <2>1, <2>4, <2>5, <2>7
        <2>9. JobInv' BY <1>1, <2>1, <2>8 DEF ArchiveIInv, JobInv, Current, Unwritten, Passed, Scanned, Decoded,
                                        Hashed, Described
        <2> QED BY <1>1, <2>2, <2>9 DEF ArchiveIInv
    <1> QED BY <1>2, <1>3 DEF VerifySource

(* A write in place moves the change time of the file forward.                *)
LEMMA RewriteStep ==
    ASSUME ArchiveIInv, RewriteFile
    PROVE  ArchiveIInv'
    <1>1. /\ moves' = moves + 1 /\ moves < MaxMoves /\ path' = path /\ job' = job
        BY DEF RewriteFile, Move
    <1>2. PICK x \in Archives :
             inodes' = [inodes EXCEPT ![path] = [archive |-> x, changed |-> inodes[path].changed + 1]]
        BY DEF RewriteFile
    <1>3. /\ inodes \in [Inodes -> [archive : Archives, changed : 0..MaxMoves]] /\ path \in Inodes
          /\ moves \in 0..MaxMoves
        BY DEF ArchiveIInv, ArchiveTypeOK
    <1>4. /\ inodes[path].changed \in 0..MaxMoves /\ inodes[path].changed <= moves
        BY <1>3 DEF ArchiveIInv, JobInv
    <1>5. inodes[path].changed + 1 \in 0..MaxMoves BY <1>1, <1>3, <1>4, BoundsAssumption
    <1>6. inodes' \in [Inodes -> [archive : Archives, changed : 0..MaxMoves]] BY <1>2, <1>3, <1>5
    <1>7. /\ inodes'[path].changed = inodes[path].changed + 1
          /\ \A n \in Inodes : n # path => inodes'[n] = inodes[n]
        BY <1>2, <1>3
    <1>8. ArchiveTypeOK' BY <1>1, <1>3, <1>6 DEF ArchiveIInv, ArchiveTypeOK
    <1>9. moves' \in 0..MaxMoves BY <1>1, <1>3, BoundsAssumption
    <1>10. \A n \in Inodes : inodes'[n].changed <= moves'
        <2> SUFFICES ASSUME NEW n \in Inodes PROVE inodes'[n].changed <= moves' OBVIOUS
        <2>1. inodes[n].changed \in 0..MaxMoves BY FileFacts DEF ArchiveIInv
        <2>2. inodes[n].changed <= moves BY DEF ArchiveIInv, JobInv
        <2> QED BY <1>1, <1>3, <1>4, <1>7, <2>1, <2>2
    <1>11. job.before.inode \in Inodes /\ job.before.changed \in Nat BY FileFacts DEF ArchiveIInv
    <1>12. /\ job'.before.changed <= Current'.changed
           /\ Unwritten' => Unwritten /\ Current' = Current
        <2>1. CASE job.before.inode = path
            BY <1>1, <1>4, <1>7, <1>11, <2>1 DEF ArchiveIInv, JobInv, Current, Unwritten
        <2>2. CASE job.before.inode # path
            BY <1>1, <1>7, <1>11, <2>2 DEF ArchiveIInv, JobInv, Current, Unwritten
        <2> QED BY <2>1, <2>2
    <1>13. JobInv' BY <1>1, <1>10, <1>12 DEF ArchiveIInv, JobInv
    <1> QED BY <1>8, <1>9, <1>13 DEF ArchiveIInv

(* A rename puts another file under the name and leaves the open one.         *)
LEMMA ReplaceStep ==
    ASSUME ArchiveIInv, ReplaceFile
    PROVE  ArchiveIInv'
    <1>1. /\ moves' = moves + 1 /\ moves < MaxMoves /\ path' = path + 1 /\ path < MaxMoves + 1 /\ job' = job
        BY DEF ReplaceFile, Move
    <1>2. PICK x \in Archives : inodes' = [inodes EXCEPT ![path + 1].archive = x]
        BY DEF ReplaceFile
    <1>3. /\ inodes \in [Inodes -> [archive : Archives, changed : 0..MaxMoves]] /\ path \in Nat
          /\ moves \in 0..MaxMoves /\ path + 1 \in Inodes /\ path \in Inodes
        BY <1>1, BoundsAssumption DEF ArchiveIInv, ArchiveTypeOK, Inodes
    <1>4. inodes' \in [Inodes -> [archive : Archives, changed : 0..MaxMoves]] BY <1>2, <1>3
    <1>5. /\ \A n \in Inodes : n # path + 1 => inodes'[n] = inodes[n]
          /\ inodes'[path + 1].changed = inodes[path + 1].changed
        BY <1>2, <1>3
    <1>6. ArchiveTypeOK' BY <1>1, <1>3, <1>4 DEF ArchiveIInv, ArchiveTypeOK
    <1>7. moves' \in 0..MaxMoves BY <1>1, <1>3, BoundsAssumption
    <1>8. \A n \in Inodes : inodes'[n].changed <= moves'
        <2> SUFFICES ASSUME NEW n \in Inodes PROVE inodes'[n].changed <= moves' OBVIOUS
        <2>1. inodes[n].changed \in 0..MaxMoves BY FileFacts DEF ArchiveIInv
        <2>2. inodes[n].changed <= moves BY DEF ArchiveIInv, JobInv
        <2>3. inodes'[n].changed = inodes[n].changed BY <1>5
        <2> QED BY <1>1, <1>3, <2>1, <2>2, <2>3
    <1>9. job.before.inode \in Inodes /\ job.before.inode <= path BY FileFacts DEF ArchiveIInv, JobInv
    <1>10. job.before.inode # path + 1 /\ job.before.inode <= path + 1
        BY <1>3, <1>9, BoundsAssumption DEF Inodes
    <1>11. Current' = Current /\ (Unwritten' <=> Unwritten) BY <1>1, <1>5, <1>9, <1>10 DEF Current, Unwritten
    <1>12. JobInv' BY <1>1, <1>8, <1>10, <1>11 DEF ArchiveIInv, JobInv
    <1> QED BY <1>6, <1>7, <1>12 DEF ArchiveIInv

(* A new analysis.                                                           *)
LEMMA AnalyzeBeginStep ==
    ASSUME ArchiveIInv, AnalyzeBegin, UNCHANGED fileVars, moves' = moves
    PROVE  ArchiveIInv'
    <1>1. /\ job' = [at |-> "lstat", before |-> [inode |-> 1, changed |-> 0], parts |-> {}, result |-> "none"]
          /\ path' = path /\ inodes' = inodes
        BY DEF AnalyzeBegin, NoJob, fileVars
    <1>2. [inode |-> 1, changed |-> 0] \in Identities BY BoundsAssumption DEF Identities, Inodes
    <1>3. ArchiveTypeOK' BY <1>1, <1>2 DEF ArchiveIInv, ArchiveTypeOK
    <1>4. path >= 1 /\ inodes[1].changed >= 0 BY BoundsAssumption DEF ArchiveIInv, ArchiveTypeOK, Inodes
    <1>5. JobInv' BY <1>1, <1>4 DEF ArchiveIInv, JobInv, Current, Unwritten, Passed, Scanned, Decoded, Hashed,
                                    Described
    <1> QED BY <1>3, <1>5 DEF ArchiveIInv

-----------------------------------------------------------------------------
(* The steps of a command that leave files, runtimes and repositories alone,   *)
(* and the counters of every step.                                           *)
Commands ==
    \/ BeginGen \/ BeginPull \/ BeginProve
    \/ GenResolved \/ GenProbed \/ UserProbed \/ UserSaved \/ UserProbedAgain
    \/ PullReturned \/ PullProbed \/ Proved \/ Analyzed
Requests ==
    \/ InspectRegistryImage \/ InspectArchiveImage \/ InspectAgain \/ ProbeResolved
    \/ SaveImage \/ AnalyzeSaved \/ ReadUserLayers \/ PullImage \/ PullDeadline
    \/ PullFrameArrives \/ PullStreamEnds
TagMoves == MoveTag /\ UNCHANGED <<archiveVars, imageVars, cmd>>
StoreMoves ==
    /\ runtime = "containerd"
    /\ MoveRecord \/ MoveContent(IF request.at = "layers" THEN GraphOf(request.image) ELSE ReadNext)
    /\ UNCHANGED <<archiveVars, runtimeVars, request, spool, cmd>> /\ Witness
FileMoves == FileWorld /\ UNCHANGED <<registryVars, imageVars, cmd>>
RuntimeMoves ==
    /\ \/ request.at \notin {"idle", "done"} /\ request.image.origin = "archive" /\ MoveLoaded
       \/ request.at \notin {"idle", "done"} /\ request.image.origin # "archive" /\ MoveImage
       \/ RuntimePulls
    /\ UNCHANGED cmd

LEMMA NextCases ==
    ASSUME Next
    PROVE  \/ Commands \/ BeginArchive \/ ResolverRuns \/ AnalysisRuns
           \/ Requests /\ UNCHANGED cmd
           \/ TagMoves \/ StoreMoves \/ FileMoves \/ RuntimeMoves
    <1>1. CASE Begin BY <1>1 DEF Begin, Commands
    <1>2. CASE Client BY <1>2 DEF Client, Commands, Requests, RequestRuns
    <1>3. CASE Stream BY <1>3 DEF Stream, Requests
    <1>4. CASE World BY <1>4 DEF World, TagMoves, StoreMoves, FileMoves, RuntimeMoves
    <1> QED BY <1>1, <1>2, <1>3, <1>4 DEF Next

LEMMA CommandsFrame ==
    ASSUME Commands
    PROVE  UNCHANGED job /\ WorldFrame
    BY DEF Commands, BeginGen, BeginPull, BeginProve, GenResolved, GenProbed, UserProbed, UserSaved,
           UserProbedAgain, PullReturned, PullProbed, Proved, Analyzed

LEMMA RequestsFrame ==
    ASSUME Requests
    PROVE  /\ UNCHANGED <<repositoryVars, archiveVars, runtime, names, loaded, held, lacked>>
           /\ Routine \/ Fault
    BY DEF Requests, InspectRegistryImage, InspectArchiveImage, InspectAgain, ProbeResolved, SaveImage,
           AnalyzeSaved, ReadUserLayers, PullImage, PullDeadline, PullFrameArrives, PullStreamEnds,
           RuntimeFrame, PullFrame, registryVars, archiveVars, runtimeVars

LEMMA ResolverFrame ==
    ASSUME ResolverRuns
    PROVE  UNCHANGED <<repositoryVars, archiveVars, imageVars, cmd>> /\ (Routine \/ Fault)
    BY DEF ResolverRuns, ResolverStep, Credential, LocalRecord, FetchReference, FetchManifest, VerifyLayers,
           ReadConfig, Fetch, RequestFails

LEMMA AnalysisFrame ==
    ASSUME AnalysisRuns
    PROVE  UNCHANGED <<fileVars, registryVars, imageVars, cmd>> /\ (Routine \/ Fault)
    BY DEF AnalysisRuns, AnalyzeStep, Lstat, OpenSource, Scan, ReadConfigMember, HashLayers, ReadIndex,
           HashArchive, VerifySource, Pass, ArchiveFrame

LEMMA MovesFrame ==
    ASSUME TagMoves \/ StoreMoves \/ FileMoves \/ RuntimeMoves
    PROVE  Move \/ Routine \/ Fault
    BY DEF TagMoves, StoreMoves, FileMoves, RuntimeMoves, MoveTag, MoveRecord, MoveContent, FileWorld,
           RewriteFile, ReplaceFile, MoveLoaded, MoveImage, RuntimePulls

Counters == moves \in 0..MaxMoves /\ faults \in 0..MaxFaults
LEMMA CountersStep ==
    ASSUME Counters, Next
    PROVE  Counters' /\ moves' >= moves
    <1>1. Move \/ Routine \/ Fault
        <2>1. CASE Commands BY <2>1, CommandsFrame DEF WorldFrame, Routine
        <2>2. CASE BeginArchive BY <2>2 DEF BeginArchive, WorldFrame, Routine
        <2> QED BY <2>1, <2>2, NextCases, RequestsFrame, ResolverFrame, AnalysisFrame, MovesFrame
    <1> QED BY <1>1, BoundsAssumption DEF Counters, Move, Routine, Fault

(* What the analysis holds is preserved by every step.                        *)
LEMMA AnalysisStep ==
    ASSUME ArchiveIInv, Counters, Next
    PROVE  ArchiveIInv'
    <1>1. moves' \in 0..MaxMoves /\ moves' >= moves BY CountersStep DEF Counters
    <1>2. CASE AnalysisRuns
        BY <1>2, LstatStep, OpenStep, PassesStep, VerifyStep DEF AnalysisRuns, AnalyzeStep
    <1>3. CASE FileMoves BY <1>3, RewriteStep, ReplaceStep DEF FileMoves, FileWorld
    <1>4. CASE BeginArchive
        BY <1>4, AnalyzeBeginStep DEF BeginArchive, WorldFrame
    <1>5. CASE UNCHANGED archiveVars BY <1>1, <1>5, OthersKeepTheAnalysis
    <1>6. CASE Commands BY <1>5, <1>6, CommandsFrame DEF WorldFrame, archiveVars
    <1>7. CASE Requests BY <1>5, <1>7, RequestsFrame
    <1>8. CASE ResolverRuns BY <1>5, <1>8, ResolverFrame
    <1>9. CASE TagMoves \/ StoreMoves \/ RuntimeMoves
        BY <1>5, <1>9 DEF TagMoves, StoreMoves, RuntimeMoves, MoveLoaded, MoveImage, RuntimePulls
    <1> QED BY <1>2, <1>3, <1>4, <1>6, <1>7, <1>8, <1>9, NextCases

-----------------------------------------------------------------------------
(* The resolution, step by step.                                             *)

LookPoints == {"idle", "credential", "pinned", "tagged", "top", "manifest", "layers", "config", "done"}
LookType == [at : LookPoints, repository : Repositories, source : Roots \cup {NoDigest},
             top : Digests \cup {NoDigest}, manifest : Digests \cup {NoDigest}, layer : Nat,
             result : Failures \cup {"none", "ok"}, config : Digests \cup {NoDigest}]
RepositoryOK ==
    /\ tag \in Roots
    /\ records \in [{"pinned", "tagged"} -> Roots \cup {NoDigest}]
    /\ content \subseteq Digests
LookIInv == look \in LookType /\ seen \subseteq Digests /\ LookInv

LEMMA RegistryTypeParts ==
    RegistryTypeOK <=> RepositoryOK /\ look \in LookType /\ seen \subseteq Digests /\ Counters
    BY DEF RegistryTypeOK, RepositoryOK, LookType, LookPoints, Counters

(* The fields of a resolution have their types.                               *)
LEMMA LookFields ==
    ASSUME look \in LookType
    PROVE  /\ look.at \in LookPoints /\ look.repository \in Repositories
           /\ look.source \in Roots \cup {NoDigest} /\ look.top \in Digests \cup {NoDigest}
           /\ look.manifest \in Digests \cup {NoDigest} /\ look.layer \in Nat
           /\ look.result \in Failures \cup {"none", "ok"} /\ look.config \in Digests \cup {NoDigest}
    BY DEF LookType

(* Two resolutions that differ in one step only.                              *)
SameLook(l, k) ==
    /\ l.repository = k.repository /\ l.source = k.source

(* A resolution that fails.                                                  *)
LEMMA FinishStep ==
    ASSUME LookIInv, NEW r \in Failures, Finish(r), seen' \subseteq Digests, seen \subseteq seen'
    PROVE  LookIInv' /\ look'.at = "done" /\ look'.result = r /\ SameLook(look', look)
    <1>1. /\ look'.at = "done" /\ look'.result = r /\ look'.layer = look.layer
          /\ look'.repository = look.repository /\ look'.source = look.source
        BY DEF Finish, LookIInv, LookType
    <1>2. look' \in LookType BY DEF Finish, LookIInv, LookType, LookPoints
    <1>3. r # "ok" BY DEF Failures
    <1>4. LookInv' BY <1>1, <1>3 DEF LookIInv, LookInv, Succeeded, Referenced, HasManifest
    <1> QED BY <1>1, <1>2, <1>4 DEF LookIInv, SameLook

(* A request that fails.                                                     *)
LEMMA RequestFailsStep ==
    ASSUME LookIInv, RequestFails, seen' \subseteq Digests, seen \subseteq seen'
    PROVE  /\ LookIInv' /\ look'.at = "done" /\ SameLook(look', look)
           /\ look'.result = "not_found" => look.repository = "registry"
           /\ look'.result # "ok"
    <1>1. PICK e \in Failures \ {"platform"} :
             (e = "not_found" => look.repository = "registry") /\ Finish(e)
        BY DEF RequestFails
    <1>2. e # "ok" BY DEF Failures
    <1> QED BY <1>1, <1>2, FinishStep

(* Something else is named while the resolution runs.                         *)
LEMMA NoticeStep ==
    ASSUME LookIInv, look' = look, seen' \subseteq Digests, seen \subseteq seen'
    PROVE  LookIInv'
    <1>1. LookInv' BY DEF LookIInv, LookInv, Succeeded, Referenced, HasManifest
    <1> QED BY <1>1 DEF LookIInv

(* A new one, of a tag or of a reference.                                     *)
LEMMA ResolveBeginStep ==
    ASSUME NEW repository \in Repositories, NEW source \in Roots \cup {NoDigest},
           ResolveBegin(repository, source)
    PROVE  /\ LookIInv'
           /\ look'.repository = repository /\ look'.source = source
           /\ look'.at = IF repository = "registry" THEN "credential"
                         ELSE IF source = NoDigest THEN "tagged" ELSE "pinned"
    <1> DEFINE p == IF repository = "registry" THEN "credential"
                    ELSE IF source = NoDigest THEN "tagged" ELSE "pinned"
    <1>1. /\ look' = [at |-> p, repository |-> repository, source |-> source, top |-> NoDigest,
                      manifest |-> NoDigest, layer |-> 1, result |-> "none", config |-> NoDigest]
          /\ seen' = {}
        BY DEF ResolveBegin, NoLook
    <1>2. p \in {"credential", "pinned", "tagged"} OBVIOUS
    <1>3. look' \in LookType BY <1>1, <1>2 DEF LookType, LookPoints
    <1>4. repository \in {"registry", "local"} BY DEF Repositories
    <1>5. LookInv' BY <1>1, <1>2, <1>4 DEF LookInv, Succeeded, Referenced, HasManifest
    <1> QED BY <1>1, <1>3, <1>5 DEF LookIInv

(* None.                                                                     *)
LEMMA NoLookStep ==
    ASSUME look' = NoLook, seen' = {}
    PROVE  LookIInv'
    <1>1. look' \in LookType BY DEF NoLook, LookType, LookPoints, Repositories
    <1>2. LookInv' BY DEF NoLook, LookInv, Succeeded, Referenced, HasManifest
    <1> QED BY <1>1, <1>2 DEF LookIInv

(* What the source names is a root, or nothing.                               *)
LEMMA NamedIsARoot ==
    ASSUME RepositoryOK, look \in LookType
    PROVE  /\ Named(look) \in Roots \cup {NoDigest}
           /\ look.repository = "registry" => Named(look) \in Roots
    BY RootsAreTops DEF RepositoryOK, LookType, Named

LEMMA CredentialStep ==
    ASSUME LookIInv, RepositoryOK, Credential
    PROVE  LookIInv' /\ SameLook(look', look) /\ (look.repository = "registry")
    <1>1. look.at = "credential" /\ look.repository = "registry"
        BY DEF Credential, Resolving, LookIInv, LookInv
    <1>2. Named(look) \in Digests BY <1>1, NamedIsARoot, RootsAreTops DEF LookIInv
    <1>3. seen' \subseteq Digests /\ seen \subseteq seen' BY <1>2 DEF Credential, LookIInv
    <1>4. CASE At("top")
        <2>1. /\ look'.at = "top" /\ look'.layer = look.layer /\ look'.result = look.result
              /\ look'.repository = look.repository /\ look'.source = look.source
            BY <1>4 DEF At, LookIInv, LookType
        <2>2. look' \in LookType BY <1>4 DEF At, LookIInv, LookType, LookPoints
        <2>3. look.result = "none" BY <1>1 DEF LookIInv, LookInv
        <2>4. LookInv' BY <1>1, <2>1, <2>3 DEF LookIInv, LookInv, Succeeded, Referenced, HasManifest
        <2> QED BY <1>1, <1>3, <2>1, <2>2, <2>4 DEF LookIInv, SameLook
    <1>5. CASE \E e \in CredentialErrors : Finish(e)
        <2>1. PICK e \in CredentialErrors : Finish(e) BY <1>5
        <2>2. e \in Failures BY DEF CredentialErrors, Failures
        <2> QED BY <1>1, <1>3, <2>1, <2>2, FinishStep
    <1> QED BY <1>4, <1>5 DEF Credential

LEMMA LocalRecordStep ==
    ASSUME LookIInv, RepositoryOK, NEW name \in {"pinned", "tagged"}, LocalRecord(name)
    PROVE  LookIInv' /\ SameLook(look', look)
    <1>1. look.at = name /\ look.repository = "local" /\ look.result = "none"
        BY DEF LocalRecord, Resolving, LookIInv, LookInv
    <1>2. records[name] \in Roots \cup {NoDigest} BY DEF RepositoryOK
    <1>3. seen' = seen \cup ({records[name]} \ {NoDigest}) BY DEF LocalRecord
    <1>4. seen' \subseteq Digests /\ seen \subseteq seen' BY <1>2, <1>3, RootsAreTops DEF LookIInv
    <1>5. CASE records[name] # NoDigest /\ look' = [look EXCEPT !.at = "top", !.top = records[name]]
        <2>1. /\ look'.at = "top" /\ look'.layer = look.layer /\ look'.result = look.result
              /\ look'.repository = look.repository /\ look'.source = look.source
              /\ look'.top = records[name]
            BY <1>5 DEF LookIInv, LookType
        <2>2. records[name] \in Roots /\ records[name] \in seen' BY <1>2, <1>3, <1>5
        <2>3. look' \in LookType BY <1>5, <2>2, RootsAreTops DEF LookIInv, LookType, LookPoints
        <2>4. LookInv' BY <1>1, <2>1, <2>2 DEF LookIInv, LookInv, Succeeded, Referenced, HasManifest
        <2> QED BY <1>4, <2>1, <2>3, <2>4 DEF LookIInv, SameLook
    <1>6. CASE At("tagged")
        <2>1. /\ look'.at = "tagged" /\ look'.layer = look.layer /\ look'.result = look.result
              /\ look'.repository = look.repository /\ look'.source = look.source
            BY <1>6 DEF At, LookIInv, LookType
        <2>2. look' \in LookType BY <1>6 DEF At, LookIInv, LookType, LookPoints
        <2>3. LookInv' BY <1>1, <2>1 DEF LookIInv, LookInv, Succeeded, Referenced, HasManifest
        <2> QED BY <1>4, <2>1, <2>2, <2>3 DEF LookIInv, SameLook
    <1>7. CASE Finish("not_found")
        <2>1. PICK e \in Failures : e = "not_found" BY DEF Failures
        <2> QED BY <1>4, <1>7, <2>1, FinishStep
    <1>8. CASE RequestFails BY <1>4, <1>8, RequestFailsStep
    <1> QED BY <1>5, <1>6, <1>7, <1>8 DEF LocalRecord

(* fetchReferenceManifest: the top document is one that the source names.     *)
LEMMA FetchReferenceStep ==
    ASSUME LookIInv, RepositoryOK, FetchReference
    PROVE  LookIInv' /\ SameLook(look', look)
    <1>1. look.at = "top" /\ look.result = "none" BY DEF FetchReference, Resolving, LookIInv, LookInv
    <1>2. seen' = (seen \cup {Named(look)}) \ {NoDigest} BY DEF FetchReference
    <1>3. NoDigest \notin seen BY DigestsAssumption DEF LookIInv
    <1>4. seen' \subseteq Digests /\ seen \subseteq seen'
        BY <1>2, <1>3, NamedIsARoot, RootsAreTops DEF LookIInv
    <1>5. Top \in Roots /\ Top \in seen'
        <2>1. CASE look.repository = "registry"
            BY <1>2, <2>1, NamedIsARoot, RootsAreTops DEF Top, LookIInv
        <2>2. CASE look.repository = "local" BY <1>1, <1>4, <2>2 DEF Top, LookIInv, LookInv
        <2> QED BY <2>1, <2>2, LookFields DEF Repositories, LookIInv
    <1>6. ASSUME NEW r \in Failures, Finish(r) PROVE LookIInv' /\ SameLook(look', look)
        BY <1>4, <1>6, FinishStep
    <1>7. CASE Finish("protocol")
        <2>1. PICK e \in Failures : e = "protocol" BY DEF Failures
        <2> QED BY <1>6, <1>7, <2>1
    <1>8. CASE Finish("not_found")
        <2>1. PICK e \in Failures : e = "not_found" BY DEF Failures
        <2> QED BY <1>6, <1>8, <2>1
    <1>9. CASE RequestFails BY <1>4, <1>9, RequestFailsStep
    <1>10. CASE look.source \in {NoDigest, Top} /\ look' = [look EXCEPT !.at = "manifest", !.top = Top]
        <2>1. /\ look'.at = "manifest" /\ look'.layer = look.layer /\ look'.result = look.result
              /\ look'.repository = look.repository /\ look'.source = look.source /\ look'.top = Top
            BY <1>10 DEF LookIInv, LookType
        <2>2. look' \in LookType BY <1>10, <1>5, RootsAreTops DEF LookIInv, LookType, LookPoints
        <2>3. LookInv' BY <1>1, <1>5, <1>10, <2>1 DEF LookIInv, LookInv, Succeeded, Referenced, HasManifest
        <2> QED BY <1>4, <2>1, <2>2, <2>3 DEF LookIInv, SameLook
    <1> QED BY <1>7, <1>8, <1>9, <1>10 DEF FetchReference, Fetch, Fetched

(* manifestForPlatform: the manifest of the only entry.                        *)
LEMMA FetchManifestStep ==
    ASSUME LookIInv, FetchManifest
    PROVE  LookIInv' /\ SameLook(look', look)
    <1>1. /\ look.at = "manifest" /\ look.result = "none" /\ look.top \in Roots /\ look.top \in seen
          /\ look.source \in {NoDigest, look.top} /\ seen' = seen
        BY DEF FetchManifest, Resolving, LookIInv, LookInv, Referenced
    <1>2. seen' \subseteq Digests /\ seen \subseteq seen' BY <1>1 DEF LookIInv
    <1>3. ASSUME NEW r \in Failures, Finish(r) PROVE LookIInv' /\ SameLook(look', look)
        BY <1>2, <1>3, FinishStep
    <1>4. CASE Finish("protocol") \/ Finish("platform") \/ Finish("not_found")
        <2>1. PICK e, f, g \in Failures : e = "protocol" /\ f = "platform" /\ g = "not_found" BY DEF Failures
        <2> QED BY <1>3, <1>4, <2>1
    <1>5. CASE RequestFails BY <1>2, <1>5, RequestFailsStep
    <1>6. CASE /\ Selectable(look.top) /\ Kind(Selected(look.top)) = "manifest"
               /\ look' = [look EXCEPT !.at = "layers", !.manifest = Selected(look.top)]
        <2>1. Selected(look.top) \in Digests BY <1>1, <1>6, SelectedIsTheOnlyEntry, RootsAreTops
        <2>2. /\ look'.at = "layers" /\ look'.layer = look.layer /\ look'.result = look.result
              /\ look'.repository = look.repository /\ look'.source = look.source /\ look'.top = look.top
              /\ look'.manifest = Selected(look.top)
            BY <1>6 DEF LookIInv, LookType
        <2>3. look' \in LookType BY <1>6, <2>1 DEF LookIInv, LookType, LookPoints
        <2>4. LookInv' BY <1>1, <1>6, <2>1, <2>2 DEF LookIInv, LookInv, Succeeded, Referenced, HasManifest
        <2> QED BY <1>2, <2>2, <2>3, <2>4 DEF LookIInv, SameLook
    <1> QED BY <1>4, <1>5, <1>6 DEF FetchManifest, Fetch, Fetched

LEMMA VerifyLayersStep ==
    ASSUME LookIInv, VerifyLayers
    PROVE  LookIInv' /\ SameLook(look', look)
    <1>1. look.at = "layers" /\ look.result = "none" /\ seen' = seen
        BY DEF VerifyLayers, Resolving, LookIInv, LookInv
    <1>2. seen' \subseteq Digests /\ seen \subseteq seen' BY <1>1 DEF LookIInv
    <1>3. CASE Finish("not_found")
        <2>1. PICK e \in Failures : e = "not_found" BY DEF Failures
        <2> QED BY <1>2, <1>3, <2>1, FinishStep
    <1>4. CASE RequestFails BY <1>2, <1>4, RequestFailsStep
    <1>5. CASE At("config")
        <2>1. /\ look'.at = "config" /\ look'.layer = look.layer /\ look'.result = look.result
              /\ look'.repository = look.repository /\ look'.source = look.source /\ look'.top = look.top
              /\ look'.manifest = look.manifest
            BY <1>5 DEF At, LookIInv, LookType
        <2>2. look' \in LookType BY <1>5 DEF At, LookIInv, LookType, LookPoints
        <2>3. LookInv' BY <1>1, <2>1 DEF LookIInv, LookInv, Succeeded, Referenced, HasManifest
        <2> QED BY <1>2, <2>1, <2>2, <2>3 DEF LookIInv, SameLook
    <1>6. CASE look' = [look EXCEPT !.layer = @ + 1]
        <2>1. /\ look'.at = "layers" /\ look'.layer = look.layer + 1 /\ look'.result = look.result
              /\ look'.repository = look.repository /\ look'.source = look.source /\ look'.top = look.top
              /\ look'.manifest = look.manifest
            BY <1>1, <1>6 DEF LookIInv, LookType
        <2>2. look' \in LookType BY <1>6, LookFields DEF LookIInv, LookType
        <2>3. look.layer \in Nat BY LookFields DEF LookIInv
        <2>4. LookInv' BY <1>1, <2>1, <2>3 DEF LookIInv, LookInv, Succeeded, Referenced, HasManifest
        <2> QED BY <1>2, <2>1, <2>2, <2>4 DEF LookIInv, SameLook
    <1> QED BY <1>3, <1>4, <1>5, <1>6 DEF VerifyLayers, Fetch, Fetched

LEMMA ReadConfigStep ==
    ASSUME LookIInv, ReadConfig
    PROVE  LookIInv' /\ SameLook(look', look)
    <1> DEFINE c == Document[look.manifest].config
    <1>1. look.at = "config" /\ look.result = "none" /\ seen' = seen
        BY DEF ReadConfig, Resolving, LookIInv, LookInv
    <1>2. seen' \subseteq Digests /\ seen \subseteq seen' BY <1>1 DEF LookIInv
    <1>3. ASSUME NEW r \in Failures, Finish(r) PROVE LookIInv' /\ SameLook(look', look)
        BY <1>2, <1>3, FinishStep
    <1>4. CASE Finish("protocol") \/ Finish("platform") \/ Finish("not_found")
        <2>1. PICK e, f, g \in Failures : e = "protocol" /\ f = "platform" /\ g = "not_found" BY DEF Failures
        <2> QED BY <1>3, <1>4, <2>1
    <1>5. CASE RequestFails BY <1>2, <1>5, RequestFailsStep
    <1>6. CASE /\ ConfigResult(look.top, look.manifest, c) = "ok"
               /\ look' = [look EXCEPT !.at = "done", !.result = "ok", !.config = c]
        <2>1. look.manifest \in Digests /\ Kind(look.manifest) = "manifest"
            BY <1>1 DEF LookIInv, LookInv, HasManifest
        <2>2. c \in Digests BY <2>1, ManifestDocument
        <2>3. /\ look'.at = "done" /\ look'.layer = look.layer /\ look'.result = "ok"
              /\ look'.repository = look.repository /\ look'.source = look.source /\ look'.top = look.top
              /\ look'.manifest = look.manifest /\ look'.config = c
            BY <1>6 DEF LookIInv, LookType
        <2>4. look' \in LookType BY <1>6, <2>2 DEF LookIInv, LookType, LookPoints
        <2>5. LookInv' BY <1>1, <1>6, <2>1, <2>3 DEF LookIInv, LookInv, Succeeded, Referenced, HasManifest
        <2> QED BY <1>2, <2>3, <2>4, <2>5 DEF LookIInv, SameLook
    <1>7. ConfigResult(look.top, look.manifest, c) \in {"ok", "protocol", "platform"} BY DEF ConfigResult
    <1> QED BY <1>4, <1>5, <1>6, <1>7 DEF ReadConfig, Fetch, Fetched

LEMMA ResolverStepKeeps ==
    ASSUME LookIInv, RepositoryOK, ResolverStep
    PROVE  LookIInv' /\ SameLook(look', look)
    <1>1. PICK p, t \in {"pinned", "tagged"} : p = "pinned" /\ t = "tagged" OBVIOUS
    <1>2. CASE LocalRecord("pinned") \/ LocalRecord("tagged") BY <1>1, <1>2, LocalRecordStep
    <1> QED BY <1>2, CredentialStep, FetchReferenceStep, FetchManifestStep, VerifyLayersStep, ReadConfigStep
        DEF ResolverStep

(* Tags, records and content move among the roots.                            *)
LEMMA RepositoryStep ==
    ASSUME RepositoryOK, Next
    PROVE  RepositoryOK'
    <1>1. CASE UNCHANGED repositoryVars BY <1>1 DEF RepositoryOK, repositoryVars
    <1>2. CASE Commands BY <1>1, <1>2, CommandsFrame DEF WorldFrame
    <1>3. CASE BeginArchive BY <1>1, <1>3 DEF BeginArchive, WorldFrame
    <1>4. CASE ResolverRuns BY <1>1, <1>4, ResolverFrame
    <1>5. CASE AnalysisRuns BY <1>1, <1>5, AnalysisFrame DEF registryVars
    <1>6. CASE Requests BY <1>1, <1>6, RequestsFrame
    <1>7. CASE TagMoves BY <1>7 DEF TagMoves, MoveTag, RepositoryOK
    <1>8. CASE StoreMoves
        <2>1. CASE MoveRecord BY <2>1 DEF MoveRecord, RepositoryOK
        <2>2. ASSUME NEW reads, MoveContent(reads) PROVE RepositoryOK'
            BY <2>2 DEF MoveContent, RepositoryOK
        <2> QED BY <1>8, <2>1, <2>2 DEF StoreMoves
    <1>9. CASE FileMoves BY <1>1, <1>9 DEF FileMoves, registryVars
    <1>10. CASE RuntimeMoves
        BY <1>1, <1>10 DEF RuntimeMoves, MoveLoaded, MoveImage, RuntimePulls, registryVars
    <1> QED BY <1>2, <1>3, <1>4, <1>5, <1>6, <1>7, <1>8, <1>9, <1>10, NextCases

LEMMA NoticeKeeps ==
    ASSUME LookIInv, RepositoryOK', Notice, look' = look
    PROVE  LookIInv'
    <1>1. Named(look)' \in Roots \cup {NoDigest}
        BY RootsAreTops DEF RepositoryOK, LookIInv, LookType, Named
    <1>2. NoDigest \notin seen BY DigestsAssumption DEF LookIInv
    <1>3. seen' \subseteq Digests /\ seen \subseteq seen' BY <1>1, <1>2, RootsAreTops DEF Notice, LookIInv
    <1> QED BY <1>3, NoticeStep

(* An expected image: its reference names it.                                 *)
LEMMA ImageFacts ==
    ASSUME NEW i \in Images
    PROVE  /\ i.origin \in {"none", "registry", "archive"}
           /\ i.reference \in Roots \cup {NoDigest}
           /\ i.config \in Digests \cup {NoDigest}
           /\ i.origin = "none" => i = NoImage
           /\ i.origin = "archive" => i.archive \in Loadable
           /\ i.origin = "registry" =>
                 /\ i.reference \in Roots /\ Selectable(i.reference)
                 /\ i.manifest \in Digests /\ Kind(i.manifest) = "manifest"
                 /\ i.manifest = Selected(i.reference)
                 /\ i.config = Document[i.manifest].config /\ i.config \in Digests
    <1>1. CASE i = NoImage BY <1>1 DEF NoImage
    <1>2. CASE \E d \in Roots : \E j \in IdentitiesOf(d) : i = RegistryImage(j)
        <2>1. PICK d \in Roots : \E j \in IdentitiesOf(d) : i = RegistryImage(j) BY <1>2
        <2>2. PICK j \in IdentitiesOf(d) : i = RegistryImage(j) BY <2>1
        <2>3. d \in Tops BY RootsAreTops
        <2>4. /\ j.reference = d /\ j.manifest \in Digests /\ Kind(j.manifest) = "manifest"
              /\ j.config = Document[j.manifest].config /\ j.config \in Digests
              /\ Selectable(d) /\ j.manifest = Selected(d)
            BY <2>3, IdentityIsSelected
        <2>5. /\ i.origin = "registry" /\ i.reference = j.reference /\ i.manifest = j.manifest
              /\ i.config = j.config
            BY <2>2 DEF RegistryImage, NoImage
        <2> QED BY <2>4, <2>5
    <1>3. CASE \E x \in Loadable : i = ArchiveImage(x)
        <2>1. PICK x \in Loadable : i = ArchiveImage(x) BY <1>3
        <2>2. i.origin = "archive" /\ i.archive = x /\ i.reference = NoDigest /\ i.config = NoDigest
            BY <2>1 DEF ArchiveImage, NoImage
        <2> QED BY <2>2
    <1> QED BY <1>1, <1>2, <1>3 DEF Images

LEMMA ArchiveImageFacts ==
    ASSUME NEW x \in Loadable
    PROVE  ArchiveImage(x) \in Images /\ ArchiveImage(x).origin = "archive" /\ ArchiveImage(x).archive = x
    BY DEF Images, ArchiveImage, NoImage

LEMMA NoImageFacts ==
    /\ NoImage \in Images /\ NoImage.origin = "none" /\ NoImage.reference = NoDigest
    BY DEF Images, NoImage

(* What a resolution returned is an image that can be expected.               *)
LEMMA ResolvedIsAnImage ==
    ASSUME LookIInv, Succeeded
    PROVE  /\ ResolvedIdentity \in IdentitiesOf(look.top)
           /\ RegistryImage(ResolvedIdentity) \in Images
           /\ RegistryImage(ResolvedIdentity).origin = "registry"
    <1>1. /\ look.top \in Roots /\ look.manifest = Selected(look.top) /\ Selectable(look.top)
          /\ Kind(look.manifest) = "manifest" /\ look.config = Document[look.manifest].config
          /\ ConfigResult(look.top, look.manifest, look.config) = "ok"
        BY DEF LookIInv, LookInv, Referenced, HasManifest
    <1>2. Identity(look.top, look.manifest) \in IdentitiesOf(look.top)
        BY <1>1, SelectedIsAnIdentity, RootsAreTops
    <1>3. ResolvedIdentity = Identity(look.top, look.manifest) BY <1>1 DEF ResolvedIdentity, Identity
    <1>4. RegistryImage(ResolvedIdentity).origin = "registry" BY DEF RegistryImage, NoImage
    <1>5. RegistryImage(ResolvedIdentity) \in Images BY <1>1, <1>2, <1>3 DEF Images
    <1> QED BY <1>2, <1>3, <1>4, <1>5

(* ResolvedIsOneImage, from the facts of a resolution.                        *)
LEMMA ResolutionIsOneImage ==
    ASSUME LookIInv
    PROVE  ResolvedIsOneImage
    <1> SUFFICES ASSUME Resolved, look.result = "ok"
                 PROVE  /\ look.top \in seen /\ look.source \in {NoDigest, look.top}
                        /\ ResolvedIdentity \in IdentitiesOf(look.top)
        BY DEF ResolvedIsOneImage
    <1>1. Succeeded BY DEF Resolved, Succeeded
    <1>2. look.top \in seen /\ look.source \in {NoDigest, look.top}
        BY <1>1 DEF LookIInv, LookInv, Referenced
    <1> QED BY <1>1, <1>2, ResolvedIsAnImage

-----------------------------------------------------------------------------
(* The requests, step by step.                                               *)

RequestPoints == {"idle", "inspect", "resolve", "save", "saved", "again", "pull", "stream", "layers", "done"}
RequestType ==
    [at : RequestPoints, image : Images, first : Archives \cup {NoArchive},
     saved : Digests \cup Archives \cup {NoDigest}, identity : BOOLEAN, success : BOOLEAN,
     answer : {"none", "observed", "missing", "unknown"},
     applied : {"none", "ok", "failed"}, user : Digests \cup {NoDigest}]
CommandPoints == {"idle", "resolve", "probe", "user_probe", "user_save", "user_again", "pull", "analyze", "returned"}
CommandType ==
    [kind : {"none", "gen", "pull", "prove", "archive"}, at : CommandPoints,
     user : BOOLEAN, result : {"none", "ok", "missing", "failed"}]
RuntimeOK ==
    /\ runtime \in RuntimeKinds
    /\ names \in [Tops -> Manifests \cup {NoDigest}]
    /\ loaded \in Loadable \cup {NoArchive}
    /\ pulling \in {"none", "running", "done", "failed"}
    /\ puller \in Roots \cup {NoDigest}
    /\ NamesInv
HistoryOK == spool \in BOOLEAN /\ held \in BOOLEAN /\ lacked \subseteq ImageNames

(* What the request and the command hold, apart from the runtime's state.     *)
AskInv ==
    /\ request \in RequestType /\ cmd \in CommandType /\ HistoryOK
    /\ CommandInv /\ RequestInv
    /\ HistoryInv /\ ObservedInv /\ AbsenceInv /\ PresenceInv /\ UserInv
    /\ AnswersAreProved /\ UserIsOfTheImage

LEMMA InvariantParts ==
    ImagesIInv <=> RepositoryOK /\ LookIInv /\ Counters /\ ArchiveIInv /\ RuntimeOK /\ AskInv
    <1>1. RuntimeImagesTypeOK /\ NamesInv <=> RuntimeOK /\ request \in RequestType /\ HistoryOK
        BY DEF RuntimeImagesTypeOK, RuntimeOK, RequestType, RequestPoints, HistoryOK
    <1>2. ImagesTypeOK /\ NamesInv <=>
             RegistryTypeOK /\ ArchiveTypeOK /\ RuntimeImagesTypeOK /\ NamesInv /\ cmd \in CommandType
        BY DEF ImagesTypeOK, CommandType, CommandPoints
    <1>3. ArchiveIInv /\ Counters <=> ArchiveTypeOK /\ JobInv /\ Counters BY DEF ArchiveIInv, Counters
    <1> QED BY <1>1, <1>2, <1>3, RegistryTypeParts DEF ImagesIInv, LookIInv, AskInv

LEMMA RequestFields ==
    ASSUME request \in RequestType
    PROVE  /\ request.at \in RequestPoints /\ request.image \in Images
           /\ request.first \in Archives \cup {NoArchive}
           /\ request.saved \in Digests \cup Archives \cup {NoDigest}
           /\ request.answer \in {"none", "observed", "missing", "unknown"}
           /\ request.applied \in {"none", "ok", "failed"} /\ request.user \in Digests \cup {NoDigest}
    BY DEF RequestType

LEMMA CommandFields ==
    ASSUME cmd \in CommandType
    PROVE  /\ cmd.kind \in {"none", "gen", "pull", "prove", "archive"} /\ cmd.at \in CommandPoints
           /\ cmd.user \in BOOLEAN /\ cmd.result \in {"none", "ok", "missing", "failed"}
    BY DEF CommandType

(* Which command a request belongs to.                                        *)
LEMMA RequestOfCommand ==
    ASSUME AskInv
    PROVE  /\ request.at \in {"pull", "stream"} => cmd.at = "pull" /\ cmd.kind = "pull"
           /\ request.at = "layers" => cmd.at = "user_save"
           /\ request.at \in {"inspect", "resolve", "again"} => cmd.at \in Probing
           /\ request.at \in {"save", "saved"} => cmd.at \in Probing \cup {"user_save"}
           /\ request.at = "idle" => request.image = NoImage \/ cmd.at = "returned"
    <1>1. request.at = "idle" /\ cmd.at # "returned" => request = NoRequest
        BY CommandFields DEF AskInv, CommandInv, CommandPoints, Probing, ProbePoints
    <1>2. request = NoRequest => request.image = NoImage /\ request.at = "idle" BY DEF NoRequest
    <1>3. /\ request.at \in {"pull", "stream"} => cmd.at = "pull" /\ cmd.kind = "pull"
          /\ request.at = "layers" => cmd.at = "user_save"
          /\ request.at \in {"inspect", "resolve", "again"} => cmd.at \in Probing
          /\ request.at \in {"save", "saved"} => cmd.at \in Probing \cup {"user_save"}
        BY <1>2, CommandFields DEF AskInv, CommandInv, CommandPoints, Probing, ProbePoints
    <1> QED BY <1>1, <1>2, <1>3

(* What a request is about.                                                  *)
LEMMA RequestedImage ==
    ASSUME AskInv
    PROVE  /\ request.image \in Images
           /\ request.at # "idle" => request.image.origin \in {"registry", "archive"}
           /\ request.at \in {"pull", "stream", "layers"} => request.image.origin = "registry"
           /\ runtime = "containerd" /\ request.at # "idle" => request.image.origin = "registry"
           /\ cmd.at \in UserPoints => request.image.origin = "registry"
    <1>1. request.at \in {"pull", "stream", "layers"} => cmd.kind # "prove"
        BY RequestOfCommand DEF AskInv, CommandInv, UserPoints
    <1>2. cmd.at \in UserPoints => cmd.kind = "gen" /\ request.at # "idle"
        BY DEF AskInv, CommandInv, UserPoints, Probing, ProbePoints
    <1>3. request.image \in Images BY RequestFields DEF AskInv
    <1>4. request.at # "idle" =>
             request.image.origin = IF cmd.kind = "prove" THEN "archive" ELSE "registry"
        BY DEF AskInv, RequestInv
    <1>5. cmd.kind = "prove" => runtime # "containerd" BY DEF AskInv, CommandInv
    <1> QED BY <1>1, <1>2, <1>3, <1>4, <1>5

(* What the runtime holds depends on the runtime and its store.               *)
LEMMA HoldsSame ==
    ASSUME UNCHANGED <<runtime, names, loaded, records, content>>, NEW i, request'.image = i
    PROVE  (Holds(request.image)' <=> Holds(i)) /\ Lacks(request.image)' = Lacks(i)
    BY DEF Holds, HoldsAs, Lacks, Hidden, GraphOf

-----------------------------------------------------------------------------
(* The runtime.                                                              *)
LEMMA RuntimeKept ==
    ASSUME RuntimeOK, UNCHANGED <<runtime, names, loaded>>,
           pulling' \in {"none", "running", "done", "failed"}, puller' \in Roots \cup {NoDigest}
    PROVE  RuntimeOK'
    BY DEF RuntimeOK, NamesInv

LEMMA ManifestsOfFacts ==
    ASSUME NEW d \in Tops, NEW m \in ManifestsOf(d) \cup {NoDigest}
    PROVE  m \in Manifests \cup {NoDigest} /\ (Kind(d) = "manifest" => m \in {NoDigest, d})
    BY DEF ManifestsOf, Tops, Manifests

LEMMA RuntimePullsStep ==
    ASSUME RuntimeOK, RuntimePulls
    PROVE  RuntimeOK'
    <1>1. /\ runtime' = runtime /\ loaded' = loaded /\ puller' = puller /\ pulling' \in {"done", "failed"}
        BY DEF RuntimePulls
    <1>2. CASE names' = names BY <1>1, <1>2, RuntimeKept DEF RuntimeOK
    <1>3. CASE \E i \in IdentitiesOf(puller) :
                names' = [d \in Tops |-> IF d = puller \/ (runtime = "podman" /\ d = i.manifest)
                                         THEN i.manifest ELSE names[d]]
        <2>1. PICK i \in IdentitiesOf(puller) :
                names' = [d \in Tops |-> IF d = puller \/ (runtime = "podman" /\ d = i.manifest)
                                         THEN i.manifest ELSE names[d]]
            BY <1>3
        <2>2. CASE puller \in Tops
            <3>1. /\ i.manifest \in Manifests /\ i.manifest = Selected(puller)
                BY <2>2, IdentityIsSelected DEF Manifests
            <3>2. Kind(puller) = "manifest" => i.manifest = puller BY <3>1 DEF Selected
            <3>3. names' \in [Tops -> Manifests \cup {NoDigest}] BY <2>1, <3>1 DEF RuntimeOK
            <3>4. NamesInv' BY <2>1, <3>2 DEF RuntimeOK, NamesInv
            <3> QED BY <1>1, <3>3, <3>4 DEF RuntimeOK
        <2>3. CASE puller \notin Tops
            <3>1. PICK m \in Digests : i = Identity(puller, m) /\ Kind(m) = "manifest" BY DEF IdentitiesOf
            <3>2. i.manifest = m BY <3>1 DEF Identity
            <3>3. i.manifest \in Manifests BY <3>1, <3>2 DEF Manifests
            <3>4. names' \in [Tops -> Manifests \cup {NoDigest}] BY <2>1, <3>3 DEF RuntimeOK
            <3>5. NamesInv' BY <2>1, <2>3 DEF RuntimeOK, NamesInv
            <3> QED BY <1>1, <3>4, <3>5 DEF RuntimeOK
        <2> QED BY <2>2, <2>3
    <1> QED BY <1>2, <1>3 DEF RuntimePulls

LEMMA MoveImageStep ==
    ASSUME RuntimeOK, MoveImage, request.image.reference \in Roots
    PROVE  RuntimeOK'
    <1>1. UNCHANGED <<runtime, loaded, pulling, puller>> BY DEF MoveImage
    <1>2. PICK d \in Roots : \E m \in ManifestsOf(d) \cup {NoDigest} : names' = [names EXCEPT ![d] = m]
        BY DEF MoveImage
    <1>3. PICK m \in ManifestsOf(d) \cup {NoDigest} : names' = [names EXCEPT ![d] = m] BY <1>2
    <1>4. d \in Tops BY RootsAreTops
    <1>5. m \in Manifests \cup {NoDigest} /\ (Kind(d) = "manifest" => m \in {NoDigest, d})
        BY <1>4, ManifestsOfFacts
    <1>6. names' \in [Tops -> Manifests \cup {NoDigest}] BY <1>3, <1>5 DEF RuntimeOK
    <1>7. NamesInv' BY <1>3, <1>4, <1>5 DEF RuntimeOK, NamesInv
    <1> QED BY <1>1, <1>6, <1>7 DEF RuntimeOK

LEMMA RuntimeStep ==
    ASSUME RuntimeOK, AskInv, Next
    PROVE  RuntimeOK'
    <1>1. CASE UNCHANGED runtimeVars BY <1>1, RuntimeKept DEF runtimeVars, RuntimeOK
    <1>2. CASE Commands BY <1>1, <1>2, CommandsFrame DEF WorldFrame
    <1>3. CASE BeginArchive BY <1>1, <1>3 DEF BeginArchive, WorldFrame
    <1>4. CASE ResolverRuns BY <1>1, <1>4, ResolverFrame DEF imageVars
    <1>5. CASE AnalysisRuns BY <1>1, <1>5, AnalysisFrame DEF imageVars
    <1>6. CASE TagMoves \/ StoreMoves \/ FileMoves
        BY <1>1, <1>6 DEF TagMoves, StoreMoves, FileMoves, imageVars
    <1>7. CASE PullImage
        <2>1. request.image.reference \in Roots
            <3>1. request.at = "pull" BY <1>7 DEF PullImage
            <3> QED BY <3>1, RequestedImage, ImageFacts
        <2>2. UNCHANGED <<runtime, names, loaded>> BY <1>7 DEF PullImage, PullFrame
        <2>3. /\ pulling' \in {"none", "running", "done", "failed"} /\ puller' \in Roots \cup {NoDigest}
            BY <1>7, <2>1 DEF PullImage, RuntimeOK
        <2> QED BY <2>2, <2>3, RuntimeKept
    <1>8. CASE Requests /\ ~PullImage
        <2>1. UNCHANGED <<pulling, puller>>
            BY <1>8 DEF Requests, InspectRegistryImage, InspectArchiveImage, InspectAgain, ProbeResolved,
                        SaveImage, AnalyzeSaved, ReadUserLayers, PullDeadline, PullFrameArrives,
                        PullStreamEnds, RuntimeFrame, PullFrame, runtimeVars
        <2> QED BY <1>8, <2>1, RequestsFrame, RuntimeKept DEF RuntimeOK
    <1>9. CASE RuntimeMoves
        <2>1. CASE MoveLoaded BY <2>1 DEF MoveLoaded, RuntimeOK, NamesInv
        <2>2. CASE request.at \notin {"idle", "done"} /\ request.image.origin # "archive" /\ MoveImage
            <3>1. request.image.reference \in Roots BY <2>2, RequestedImage, ImageFacts
            <3> QED BY <2>2, <3>1, MoveImageStep
        <2>3. CASE RuntimePulls BY <2>3, RuntimePullsStep
        <2> QED BY <1>9, <2>1, <2>2, <2>3 DEF RuntimeMoves
    <1> QED BY <1>2, <1>3, <1>4, <1>5, <1>6, <1>7, <1>8, <1>9, NextCases

-----------------------------------------------------------------------------
(* A probe begins.                                                           *)
LEMMA ProbeImageStep ==
    ASSUME request \in RequestType, runtime \in RuntimeKinds, NEW image \in Images, ProbeImage(image)
    PROVE  /\ LookIInv'
           /\ request' \in RequestType
           /\ request'.image = image /\ request'.answer = "none" /\ request'.user = request.user
           /\ request'.applied = request.applied
           /\ request'.at = (IF runtime = "containerd" THEN "resolve" ELSE "inspect")
           /\ runtime = "containerd" =>
                 /\ look'.repository = "local" /\ look'.source = image.reference
                 /\ look'.at \in {"tagged", "pinned"}
                 /\ image.reference # NoDigest => look'.at = "pinned"
           /\ held' = Holds(image) /\ lacked' = Lacks(image)
    <1>1. request' = [request EXCEPT !.image = image, !.answer = "none", !.first = NoArchive,
                                     !.at = IF runtime = "containerd" THEN "resolve" ELSE "inspect"]
        BY DEF ProbeImage
    <1>2. request' \in RequestType
        <2>1. (IF runtime = "containerd" THEN "resolve" ELSE "inspect") \in RequestPoints BY DEF RequestPoints
        <2> QED BY <1>1, <2>1 DEF RequestType
    <1>3. /\ request'.image = image /\ request'.answer = "none" /\ request'.user = request.user
          /\ request'.applied = request.applied
          /\ request'.at = (IF runtime = "containerd" THEN "resolve" ELSE "inspect")
        BY <1>1 DEF RequestType
    <1>4. image.reference \in Roots \cup {NoDigest} BY ImageFacts
    <1>5. CASE runtime = "containerd"
        <2>1. ResolveBegin("local", image.reference) BY <1>5 DEF ProbeImage
        <2>2. PICK l \in Repositories : l = "local" BY DEF Repositories
        <2>3. /\ LookIInv' /\ look'.repository = l /\ look'.source = image.reference
              /\ look'.at = IF l = "registry" THEN "credential"
                            ELSE IF image.reference = NoDigest THEN "tagged" ELSE "pinned"
            BY <1>4, <2>1, <2>2, ResolveBeginStep
        <2> QED BY <1>2, <1>3, <2>2, <2>3 DEF ProbeImage
    <1>6. CASE runtime # "containerd"
        <2>1. LookIInv' BY <1>6, NoLookStep DEF ProbeImage
        <2> QED BY <1>2, <1>3, <1>6, <2>1 DEF ProbeImage
    <1> QED BY <1>5, <1>6

(* What a resolution holds is preserved by every step.                        *)
LEMMA LookStep ==
    ASSUME RepositoryOK, LookIInv, RuntimeOK, AskInv, Next
    PROVE  LookIInv'
    <1>1. ASSUME NEW image \in Images, ProbeImage(image) PROVE LookIInv'
        BY <1>1, ProbeImageStep DEF AskInv, RuntimeOK
    <1>2. request.image \in Images BY RequestedImage
    <1>3. CASE UNCHANGED lookVars BY <1>3, NoticeStep DEF lookVars, LookIInv
    <1>4. CASE Commands
        <2>1. CASE BeginGen
            <3>1. PICK source \in Roots \cup {NoDigest} :
                     ResolveBegin(IF runtime = "containerd" THEN "local" ELSE "registry", source)
                BY <2>1 DEF BeginGen
            <3>2. PICK r \in Repositories : r = IF runtime = "containerd" THEN "local" ELSE "registry"
                BY DEF Repositories
            <3> QED BY <3>1, <3>2, ResolveBeginStep
        <2>2. CASE BeginPull BY <1>1, <1>3, <2>2 DEF BeginPull, lookVars
        <2>3. CASE BeginProve BY <1>1, <2>3, ArchiveImageFacts DEF BeginProve
        <2>4. CASE GenResolved
            <3>1. CASE look.result = "ok" /\ ProbeImage(RegistryImage(ResolvedIdentity))
                <4>1. Succeeded BY <2>4, <3>1 DEF GenResolved, Resolved, Succeeded
                <4> QED BY <1>1, <3>1, <4>1, ResolvedIsAnImage
            <3> QED BY <1>3, <2>4, <3>1 DEF GenResolved, NoProbe
        <2>5. CASE GenProbed \/ UserProbed \/ UserSaved \/ UserProbedAgain
            BY <1>1, <1>2, <1>3, <2>5 DEF GenProbed, UserProbed, UserSaved, UserProbedAgain, NoProbe
        <2>6. CASE PullReturned \/ PullProbed \/ Proved \/ Analyzed
            BY <1>1, <1>2, <1>3, <2>6 DEF PullReturned, PullProbed, Proved, Analyzed, NoProbe
        <2> QED BY <1>4, <2>1, <2>2, <2>3, <2>4, <2>5, <2>6 DEF Commands
    <1>5. CASE BeginArchive BY <1>3, <1>5 DEF BeginArchive, NoProbe
    <1>6. CASE ResolverRuns BY <1>6, ResolverStepKeeps DEF ResolverRuns
    <1>7. CASE AnalysisRuns BY <1>3, <1>7, AnalysisFrame DEF registryVars
    <1>8. CASE Requests
        <2>1. CASE ProbeResolved BY <2>1, NoLookStep DEF ProbeResolved
        <2>2. CASE Requests /\ ~ProbeResolved
            BY <1>3, <2>2 DEF Requests, InspectRegistryImage, InspectArchiveImage, InspectAgain, SaveImage,
                AnalyzeSaved, ReadUserLayers, PullImage, PullDeadline, PullFrameArrives, PullStreamEnds,
                RuntimeFrame, PullFrame, registryVars
        <2> QED BY <1>8, <2>1, <2>2
    <1>9. CASE TagMoves
        BY <1>9, RepositoryStep, NoticeKeeps DEF TagMoves, MoveTag
    <1>10. CASE StoreMoves
        <2>1. CASE MoveRecord BY <2>1, RepositoryStep, NoticeKeeps DEF MoveRecord
        <2>2. ASSUME NEW reads, MoveContent(reads) PROVE LookIInv'
            BY <1>3, <2>2 DEF MoveContent, lookVars
        <2> QED BY <1>10, <2>1, <2>2 DEF StoreMoves
    <1>11. CASE FileMoves BY <1>3, <1>11 DEF FileMoves, registryVars
    <1>12. CASE RuntimeMoves
        BY <1>3, <1>12 DEF RuntimeMoves, MoveLoaded, MoveImage, RuntimePulls, registryVars
    <1> QED BY <1>4, <1>5, <1>6, <1>7, <1>8, <1>9, <1>10, <1>11, <1>12, NextCases

-----------------------------------------------------------------------------
(* A request is answered: what the answer has to show.                        *)
AskFrame == UNCHANGED <<cmd, runtime, names, loaded, records, content, held, lacked, moves>>

LEMMA AnswerStep ==
    ASSUME AskInv, AskFrame, spool' \in BOOLEAN, request.at # "idle",
           NEW a \in {"observed", "missing", "unknown"}, Answer(a),
           a = "observed" => cmd.at \in Probing /\ held,
           a = "missing" => Missed
    PROVE  AskInv'
    <1>1. request' = [request EXCEPT !.at = "done", !.answer = a] BY DEF Answer
    <1>2. request' \in RequestType BY <1>1 DEF AskInv, RequestType, RequestPoints
    <1>3. /\ request'.at = "done" /\ request'.answer = a /\ request'.image = request.image
          /\ request'.user = request.user
        BY <1>1 DEF AskInv, RequestType
    <1>4. /\ cmd' = cmd /\ runtime' = runtime /\ held' = held /\ lacked' = lacked /\ moves' = moves
        BY DEF AskFrame
    <1>5. request # NoRequest BY DEF NoRequest
    <1>6. CommandInv' BY <1>3, <1>4, <1>5 DEF AskInv, CommandInv, ProbePoints
    <1>7. RequestInv' BY <1>3, <1>4 DEF AskInv, RequestInv
    <1>8. HistoryInv'
        <2>1. /\ Holds(request.image)' <=> Holds(request.image)
             /\ Lacks(request.image)' = Lacks(request.image)
            BY <1>3, HoldsSame DEF AskFrame
        <2> QED BY <1>4, <2>1 DEF AskInv, HistoryInv
    <1>9. ObservedInv' BY <1>3, <1>4 DEF AskInv, ObservedInv
    <1>10. AbsenceInv' /\ PresenceInv' BY <1>3 DEF AbsenceInv, PresenceInv
    <1>11. UserInv' BY <1>3, <1>4 DEF AskInv, UserInv, Probing
    <1>12. AnswersAreProved'
        BY <1>3, <1>4 DEF AskInv, AnswersAreProved, OkMeansHeld, Unprobed, MissingWasLacked, Running, Missed
    <1>13. UserIsOfTheImage' BY <1>3, <1>4 DEF AskInv, UserIsOfTheImage, Running
    <1>14. cmd' \in CommandType /\ HistoryOK' BY <1>4 DEF AskInv, HistoryOK
    <1> QED BY <1>2, <1>6, <1>7, <1>8, <1>9, <1>10, <1>11, <1>12, <1>13, <1>14 DEF AskInv

LEMMA UnknownStep ==
    ASSUME AskInv, AskFrame, spool' \in BOOLEAN, request.at # "idle", Answer("unknown")
    PROVE  AskInv'
    <1>1. PICK a \in {"observed", "missing", "unknown"} : a = "unknown" OBVIOUS
    <1> QED BY <1>1, AnswerStep

(* What an inspected image proves.                                            *)
LEMMA InspectedIsHeld ==
    ASSUME RuntimeOK, NEW i \in Images, i.origin = "registry", runtime # "containerd",
           names[i.reference] # NoDigest, MatchesInspect(i)
    PROVE  Holds(i)
    <1>1. /\ i.reference \in Tops /\ i.manifest \in Tops /\ Kind(i.manifest) = "manifest"
        BY ImageFacts, RootsAreTops DEF Tops
    <1>2. names[i.reference] = i.manifest
        <2>1. CASE runtime = "docker_classic"
            <3>1. i.reference = i.manifest BY <2>1 DEF MatchesInspect, MatchesDocker
            <3> QED BY <1>1, <3>1 DEF RuntimeOK, NamesInv
        <2>2. CASE runtime = "docker_store" BY <2>2 DEF MatchesInspect, MatchesDocker
        <2>3. CASE runtime = "podman"
            <3>1. RepoDigests(names[i.reference]) = {i.reference, i.manifest}
                BY <2>3 DEF MatchesInspect, MatchesPodman
            <3>2. names[i.manifest] = names[i.reference] BY <3>1 DEF RepoDigests
            <3> QED BY <1>1, <3>2 DEF RuntimeOK, NamesInv
        <2> QED BY <2>1, <2>2, <2>3 DEF RuntimeOK, RuntimeKinds
    <1> QED BY <1>2 DEF Holds, HoldsAs, ImageNames

LEMMA AbsentIsLacked ==
    ASSUME NEW i \in Images, i.origin = "registry", runtime # "containerd", names[i.reference] = NoDigest
    PROVE  Lacks(i) = ImageNames
    <1>1. i.manifest # NoDigest BY ImageFacts, DigestsAssumption
    <1> QED BY <1>1 DEF Lacks, HoldsAs

LEMMA InspectRegistryImageStep ==
    ASSUME RuntimeOK, AskInv, InspectRegistryImage, UNCHANGED cmd
    PROVE  AskInv'
    <1> DEFINE i == request.image
               a == CASE names[i.reference] = NoDigest -> "missing"
                      [] names[i.reference] # NoDigest /\ MatchesInspect(i) -> "observed"
                      [] OTHER -> "unknown"
    <1>1. request.at = "inspect" /\ i.origin = "registry" /\ spool' = spool
        BY DEF InspectRegistryImage
    <1>2. AskFrame
        BY RequestsFrame DEF Requests, InspectRegistryImage, AskFrame, RuntimeFrame, registryVars, repositoryVars,
                             runtimeVars, Routine, Fault
    <1>3. runtime # "containerd" /\ cmd.at \in Probing /\ i \in Images
        BY <1>1, RequestOfCommand, RequestedImage DEF AskInv, RequestInv
    <1>4. (Holds(i) => held) /\ Lacks(i) \subseteq lacked /\ lacked \subseteq ImageNames
        BY <1>3 DEF AskInv, HistoryInv, HistoryOK
    <1>5. CASE Answer(a)
        <2>1. a \in {"observed", "missing", "unknown"} OBVIOUS
        <2>2. a = "observed" => held
            <3>1. a = "observed" => names[i.reference] # NoDigest /\ MatchesInspect(i) OBVIOUS
            <3> QED BY <1>1, <1>3, <1>4, <3>1, InspectedIsHeld
        <2>3. a = "missing" => Missed
            <3>1. a = "missing" => names[i.reference] = NoDigest OBVIOUS
            <3> QED BY <1>1, <1>3, <1>4, <3>1, AbsentIsLacked DEF Missed
        <2>4. PICK b \in {"observed", "missing", "unknown"} : b = a BY <2>1
        <2> HIDE DEF a
        <2> QED BY <1>1, <1>2, <1>3, <1>5, <2>2, <2>3, <2>4, AnswerStep DEF AskInv, HistoryOK
    <1>6. CASE Answer(FailedProbe)
        BY <1>1, <1>2, <1>6, UnknownStep DEF FailedProbe, AskInv, HistoryOK
    <1> QED BY <1>5, <1>6 DEF InspectRegistryImage

(* A request goes on.                                                        *)
LEMMA OnwardStep ==
    ASSUME AskInv, AskFrame, spool' \in BOOLEAN, cmd.at # "returned",
           request' \in RequestType, request'.image = request.image,
           request'.answer \in {request.answer, "observed"},
           CommandInv', RequestInv', ObservedInv', AbsenceInv', PresenceInv', UserInv'
    PROVE  AskInv'
    <1>1. /\ cmd' = cmd /\ runtime' = runtime /\ held' = held /\ lacked' = lacked /\ moves' = moves
        BY DEF AskFrame
    <1>2. HistoryInv'
        <2>1. /\ Holds(request.image)' <=> Holds(request.image)
             /\ Lacks(request.image)' = Lacks(request.image)
            BY HoldsSame DEF AskFrame
        <2> QED BY <1>1, <2>1 DEF AskInv, HistoryInv
    <1>3. AnswersAreProved'
        BY <1>1 DEF AskInv, AnswersAreProved, OkMeansHeld, Unprobed, MissingWasLacked, Running
    <1>4. UserIsOfTheImage' BY <1>1 DEF UserIsOfTheImage, Running
    <1>5. cmd' \in CommandType /\ HistoryOK' BY <1>1 DEF AskInv, HistoryOK
    <1> QED BY <1>2, <1>3, <1>4, <1>5 DEF AskInv

LEMMA InspectArchiveImageStep ==
    ASSUME RuntimeOK, AskInv, InspectArchiveImage, UNCHANGED cmd
    PROVE  AskInv'
    <1>1. request.at = "inspect" /\ request.image.origin = "archive" /\ spool' \in BOOLEAN /\ look' = look
        BY DEF InspectArchiveImage, AskInv, HistoryOK, RuntimeFrame, registryVars, lookVars
    <1>2. AskFrame
        BY RequestsFrame DEF Requests, InspectArchiveImage, AskFrame, RuntimeFrame, registryVars, repositoryVars,
                             runtimeVars, Routine, Fault
    <1>3. cmd.at \in Probing /\ runtime # "containerd" BY <1>1, RequestOfCommand DEF AskInv, RequestInv
    <1>4. CASE Answer("unknown") BY <1>1, <1>2, <1>4, UnknownStep
    <1>5. CASE loaded = NoArchive /\ Answer("missing")
        <2>1. Lacks(request.image) = ImageNames BY <1>1, <1>5 DEF Lacks, HoldsAs
        <2>2. Missed BY <1>3, <2>1 DEF AskInv, HistoryInv, HistoryOK, Missed
        <2>3. PICK a \in {"observed", "missing", "unknown"} : a = "missing" OBVIOUS
        <2> QED BY <1>1, <1>2, <1>5, <2>2, <2>3, AnswerStep
    <1>6. CASE request' = [request EXCEPT !.at = "save", !.first = loaded]
        <2>1. request' \in RequestType BY <1>6 DEF AskInv, RequestType, RequestPoints, RuntimeOK, Loadable
        <2>2. /\ request'.at = "save" /\ request'.image = request.image /\ request'.answer = request.answer
              /\ request'.user = request.user
            BY <1>6 DEF AskInv, RequestType
        <2>3. cmd' = cmd /\ runtime' = runtime BY <1>2 DEF AskFrame
        <2>4. cmd.at \in {"probe", "user_probe", "user_again"} BY <1>3 DEF Probing
        <2>5. CommandInv' BY <2>2, <2>3, <2>4 DEF AskInv, CommandInv, ProbePoints
        <2>6. RequestInv' BY <1>1, <1>3, <2>2, <2>3 DEF AskInv, RequestInv
        <2>7. ObservedInv' /\ AbsenceInv' /\ PresenceInv'
            BY <2>2, <2>3, <2>4 DEF ObservedInv, AbsenceInv, PresenceInv
        <2>8. UserInv' BY <2>2, <2>3 DEF AskInv, UserInv
        <2> QED BY <1>1, <1>2, <2>1, <2>2, <2>4, <2>5, <2>6, <2>7, <2>8, OnwardStep
    <1> QED BY <1>4, <1>5, <1>6 DEF InspectArchiveImage

LEMMA InspectAgainStep ==
    ASSUME AskInv, InspectAgain, UNCHANGED cmd
    PROVE  AskInv'
    <1>1. request.at = "again" /\ spool' \in BOOLEAN BY DEF InspectAgain, AskInv, HistoryOK
    <1>2. AskFrame
        BY RequestsFrame DEF Requests, InspectAgain, AskFrame, RuntimeFrame, registryVars, repositoryVars,
                             runtimeVars, Routine, Fault
    <1>3. cmd.at \in Probing /\ held BY <1>1, RequestOfCommand DEF AskInv, ObservedInv
    <1>4. CASE Answer("unknown") BY <1>1, <1>2, <1>4, UnknownStep
    <1>5. CASE Answer("observed")
        <2>1. PICK a \in {"observed", "missing", "unknown"} : a = "observed" OBVIOUS
        <2> QED BY <1>1, <1>2, <1>3, <1>5, <2>1, AnswerStep
    <1> QED BY <1>4, <1>5 DEF InspectAgain

LEMMA ProbeResolvedStep ==
    ASSUME AskInv, ProbeResolved, UNCHANGED cmd
    PROVE  AskInv'
    <1> DEFINE a == CASE look.result = "not_found" -> "missing"
                      [] look.result = "ok" /\ RegistryImage(ResolvedIdentity) = request.image -> "observed"
                      [] OTHER -> "unknown"
    <1>1. request.at = "resolve" /\ look.at = "done" /\ spool' \in BOOLEAN /\ Answer(a)
        BY DEF ProbeResolved, Resolved, AskInv, HistoryOK
    <1>2. AskFrame
        BY RequestsFrame DEF Requests, ProbeResolved, AskFrame, repositoryVars, runtimeVars, Routine
    <1>3. cmd.at \in Probing /\ runtime = "containerd" BY <1>1, RequestOfCommand DEF AskInv, RequestInv
    <1>4. a = "missing" => Missed
        <2>1. a = "missing" => look.result = "not_found" OBVIOUS
        <2> QED BY <1>1, <2>1 DEF AskInv, AbsenceInv
    <1>5. a = "observed" => held
        <2>1. a = "observed" => look.result = "ok" OBVIOUS
        <2> QED BY <1>1, <2>1 DEF AskInv, PresenceInv, Succeeded
    <1>6. PICK b \in {"observed", "missing", "unknown"} : b = a OBVIOUS
    <1> HIDE DEF a
    <1> QED BY <1>1, <1>2, <1>3, <1>4, <1>6, <1>5, AnswerStep

(* The saved image of the archive's tag is the one held while it was saved.   *)
LEMMA SaveImageStep ==
    ASSUME RuntimeOK, AskInv, SaveImage, UNCHANGED cmd
    PROVE  AskInv'
    <1>1. request.at = "save" /\ spool' \in BOOLEAN /\ look' = look
        BY DEF SaveImage, AskInv, HistoryOK, RuntimeFrame, registryVars, lookVars
    <1>2. AskFrame
        BY RequestsFrame DEF Requests, SaveImage, AskFrame, RuntimeFrame, registryVars, repositoryVars,
                             runtimeVars, Routine, Fault
    <1>3. CASE Answer("unknown") BY <1>1, <1>2, <1>3, UnknownStep
    <1>4. CASE \E x \in Savable : request' = [request EXCEPT !.at = "saved", !.saved = x]
        <2>1. PICK x \in Savable : request' = [request EXCEPT !.at = "saved", !.saved = x] BY <1>4
        <2>2. /\ cmd.at \in Probing \cup {"user_save"} /\ request.image \in Images
              /\ request.image.origin \in {"registry", "archive"}
            BY <1>1, RequestOfCommand, RequestedImage
        <2>3. request.image.origin = "archive" => x = loaded /\ x # NoArchive /\ x \in Loadable
            BY DEF Savable, RuntimeOK
        <2>4. request.image.origin = "registry" => x \in Digests
            <3> SUFFICES ASSUME request.image.origin = "registry" PROVE x \in Digests OBVIOUS
            <3>1. request.image.config \in Digests /\ request.image.reference \in Tops
                BY <2>2, ImageFacts, RootsAreTops
            <3>2. \A m \in Manifests : Document[m].config \in Digests BY ManifestDocument DEF Manifests
            <3>3. names[request.image.reference] \in Manifests \cup {NoDigest} BY <3>1 DEF RuntimeOK
            <3> QED BY <3>1, <3>2, <3>3 DEF Savable
        <2>5. x \in Digests \cup Archives BY <2>2, <2>3, <2>4 DEF Loadable
        <2>6. request' \in RequestType BY <2>1, <2>5 DEF AskInv, RequestType, RequestPoints
        <2>7. /\ request'.at = "saved" /\ request'.image = request.image /\ request'.answer = request.answer
              /\ request'.user = request.user /\ request'.saved = x
            BY <2>1 DEF AskInv, RequestType
        <2>8. cmd' = cmd /\ runtime' = runtime /\ held' = held BY <1>2 DEF AskFrame
        <2>9. CommandInv' BY <1>1, <2>2, <2>7, <2>8 DEF AskInv, CommandInv, ProbePoints, Probing
        <2>10. RequestInv' BY <1>1, <2>7, <2>8 DEF AskInv, RequestInv
        <2>11. ObservedInv'
            <3>1. ASSUME request.image.origin = "archive", SameArchive(x, request.image.archive) PROVE held
                <4>1. Holds(request.image) BY <2>3, <3>1 DEF Holds, HoldsAs, ImageNames, SameArchive
                <4> QED BY <2>2, <4>1 DEF AskInv, HistoryInv
            <3> QED BY <2>3, <2>7, <2>8, <3>1 DEF ObservedInv, AskInv
        <2>12. AbsenceInv' /\ PresenceInv' /\ UserInv'
            BY <1>1, <2>7, <2>8 DEF AbsenceInv, PresenceInv, AskInv, UserInv
        <2>13. cmd.at # "returned" BY <2>2 DEF Probing
        <2> QED BY <1>1, <1>2, <2>6, <2>7, <2>9, <2>10, <2>11, <2>12, <2>13, OnwardStep
    <1> QED BY <1>3, <1>4 DEF SaveImage

LEMMA AnalyzeSavedStep ==
    ASSUME RuntimeOK, AskInv, AnalyzeSaved, UNCHANGED cmd
    PROVE  AskInv'
    <1>1. request.at = "saved" /\ spool' \in BOOLEAN /\ look' = look
        BY DEF AnalyzeSaved, RemoveSpool, RuntimeFrame, registryVars, lookVars
    <1>2. AskFrame
        BY RequestsFrame DEF Requests, AnalyzeSaved, AskFrame, RuntimeFrame, registryVars, repositoryVars,
                             runtimeVars, Routine, Fault
    <1>3. CASE Answer("unknown") BY <1>1, <1>2, <1>3, UnknownStep
    <1> DEFINE archive == request.image.origin = "archive"
               at == IF archive THEN "again" ELSE "done"
               user == IF archive THEN NoDigest ELSE request.saved
    <1>4. CASE /\ SavedMatches
               /\ request' = [request EXCEPT !.at = at, !.answer = "observed", !.user = user]
        <2>1. /\ cmd.at \in Probing \cup {"user_save"} /\ request.image \in Images
              /\ request.image.origin \in {"registry", "archive"}
            BY <1>1, RequestOfCommand, RequestedImage
        <2>2. archive => held
            <3> SUFFICES ASSUME archive PROVE held OBVIOUS
            <3>1. request.saved \in Loadable /\ (SameArchive(request.saved, request.image.archive) => held)
                BY <1>1 DEF AskInv, ObservedInv
            <3>2. ArchiveIdentity(Exported(request.saved), First) =
                  ArchiveIdentity(Archive[request.image.archive], Selector)
                BY <1>4 DEF SavedMatches
            <3>3. request.saved \in Archives BY <3>1 DEF Loadable
            <3>4. ArchiveIdentity(Exported(request.saved), First) =
                  ArchiveIdentity(Archive[request.saved], Selector)
                BY <3>3, ExportedKeepsTheIdentity
            <3>5. SameArchive(request.saved, request.image.archive) BY <3>2, <3>4 DEF SameArchive
            <3> QED BY <3>1, <3>5
        <2>3. ~archive => user = request.image.config /\ cmd.at = "user_save"
            BY <1>1, <1>4 DEF SavedMatches, SavedRegistryMatches, AskInv, RequestInv
        <2>4. user \in Digests \cup {NoDigest} BY <2>1, <2>3, ImageFacts
        <2>5. at \in RequestPoints BY DEF RequestPoints
        <2> HIDE DEF user, at
        <2>6. request' \in RequestType BY <1>4, <2>4, <2>5 DEF AskInv, RequestType
        <2>7. /\ request'.at = at /\ request'.image = request.image /\ request'.answer = "observed"
              /\ request'.user = user
            BY <1>4 DEF AskInv, RequestType
        <2>8. cmd' = cmd /\ runtime' = runtime /\ held' = held BY <1>2 DEF AskFrame
        <2>9. (archive => at = "again") /\ (~archive => at = "done") BY DEF at
        <2>10. archive => cmd.at \in Probing /\ cmd.at \notin UserPoints
            <3>1. cmd.at \in UserPoints => ~archive BY RequestedImage
            <3> QED BY <2>1, <3>1 DEF UserPoints
        <2>11. CommandInv'
            BY <1>1, <2>1, <2>3, <2>7, <2>8, <2>9, <2>10 DEF AskInv, CommandInv, ProbePoints, Probing
        <2>12. RequestInv' BY <1>1, <2>7, <2>8, <2>9 DEF AskInv, RequestInv
        <2>13. ObservedInv' BY <2>2, <2>3, <2>7, <2>8, <2>9 DEF ObservedInv, Probing, AskInv
        <2>14. AbsenceInv' /\ PresenceInv' BY <2>7, <2>9 DEF AbsenceInv, PresenceInv
        <2>15. UserInv' BY <2>3, <2>7, <2>8, <2>9, <2>10 DEF UserInv, UserPoints
        <2>16. cmd.at # "returned" BY <2>1 DEF Probing
        <2> QED BY <1>1, <1>2, <2>6, <2>7, <2>11, <2>12, <2>13, <2>14, <2>15, <2>16, OnwardStep
    <1> QED BY <1>3, <1>4 DEF AnalyzeSaved

LEMMA ReadUserLayersStep ==
    ASSUME AskInv, ReadUserLayers, UNCHANGED cmd
    PROVE  AskInv'
    <1>1. request.at = "layers" /\ spool' \in BOOLEAN /\ look' = look
        BY DEF ReadUserLayers, AskInv, HistoryOK, RuntimeFrame, registryVars, lookVars
    <1>2. AskFrame
        BY RequestsFrame DEF Requests, ReadUserLayers, AskFrame, RuntimeFrame, registryVars, repositoryVars,
                             runtimeVars, Routine, Fault
    <1>3. CASE Answer("unknown") BY <1>1, <1>2, <1>3, UnknownStep
    <1>4. CASE request' = [request EXCEPT !.at = "done", !.answer = "observed",
                                          !.user = Document[request.image.manifest].config]
        <2>1. /\ cmd.at = "user_save" /\ request.image \in Images /\ request.image.origin = "registry"
            BY <1>1, RequestOfCommand, RequestedImage
        <2>2. /\ Document[request.image.manifest].config = request.image.config
              /\ request.image.config \in Digests
            BY <2>1, ImageFacts
        <2>3. request' \in RequestType BY <1>4, <2>2 DEF AskInv, RequestType, RequestPoints
        <2>4. /\ request'.at = "done" /\ request'.image = request.image /\ request'.answer = "observed"
              /\ request'.user = request.image.config
            BY <1>4, <2>2 DEF AskInv, RequestType
        <2>5. cmd' = cmd /\ runtime' = runtime /\ held' = held BY <1>2 DEF AskFrame
        <2>6. CommandInv' BY <1>1, <2>1, <2>4, <2>5 DEF AskInv, CommandInv, Probing
        <2>7. RequestInv' BY <1>1, <2>4, <2>5 DEF AskInv, RequestInv
        <2>8. ObservedInv' /\ AbsenceInv' /\ PresenceInv' /\ UserInv'
            BY <2>1, <2>4, <2>5 DEF AskInv, ObservedInv, AbsenceInv, PresenceInv, UserInv, Probing
        <2> QED BY <1>1, <1>2, <2>1, <2>3, <2>4, <2>6, <2>7, <2>8, OnwardStep
    <1> QED BY <1>3, <1>4 DEF ReadUserLayers

(* The pull: nothing that an answer rests on changes.                         *)
LEMMA PullingStep ==
    ASSUME AskInv, AskFrame, spool' = spool, look' = look, request.at \in {"pull", "stream"},
           request' \in RequestType, request'.at \in {"stream", "done"},
           request'.image = request.image, request'.answer = request.answer
    PROVE  AskInv'
    <1>1. cmd.at = "pull" /\ cmd.kind = "pull" BY RequestOfCommand
    <1>2. cmd' = cmd /\ runtime' = runtime /\ held' = held BY DEF AskFrame
    <1>3. CommandInv' BY <1>1, <1>2 DEF AskInv, CommandInv, Probing, UserPoints
    <1>4. RequestInv' BY <1>2 DEF AskInv, RequestInv
    <1>5. ObservedInv' /\ AbsenceInv' /\ PresenceInv' /\ UserInv'
        BY <1>1, <1>2 DEF ObservedInv, AbsenceInv, PresenceInv, UserInv, Probing
    <1>6. spool' \in BOOLEAN BY DEF AskInv, HistoryOK
    <1> QED BY <1>1, <1>3, <1>4, <1>5, <1>6, OnwardStep

LEMMA PullRequestSteps ==
    ASSUME AskInv, PullImage \/ PullDeadline \/ PullFrameArrives \/ PullStreamEnds, UNCHANGED cmd
    PROVE  AskInv'
    <1>1. Requests BY DEF Requests
    <1>2. AskFrame /\ spool' = spool /\ look' = look
        BY <1>1, RequestsFrame DEF PullImage, PullDeadline, PullFrameArrives, PullStreamEnds, PullFrame,
                                   registryVars, lookVars, AskFrame, repositoryVars, Routine, Fault
    <1>3. request.at \in {"pull", "stream"} BY DEF PullImage, PullDeadline, PullFrameArrives, PullStreamEnds
    <1>4. ASSUME NEW r \in {"ok", "failed"}, request' = Applied(r) PROVE AskInv'
        <2>1. request' \in RequestType BY <1>4 DEF Applied, AskInv, RequestType, RequestPoints
        <2>2. request'.at = "done" /\ request'.image = request.image /\ request'.answer = request.answer
            BY <1>4 DEF Applied, AskInv, RequestType
        <2> QED BY <1>2, <1>3, <2>1, <2>2, PullingStep
    <1>5. CASE request' = [request EXCEPT !.at = "stream", !.identity = FALSE, !.success = FALSE]
        <2>1. request' \in RequestType BY <1>5 DEF AskInv, RequestType, RequestPoints
        <2>2. request'.at = "stream" /\ request'.image = request.image /\ request'.answer = request.answer
            BY <1>5 DEF AskInv, RequestType
        <2> QED BY <1>2, <1>3, <2>1, <2>2, PullingStep
    <1>6. CASE PullFrameArrives
        <2>1. request.at = "stream" BY <1>6 DEF PullFrameArrives
        <2>2. \/ request' = [request EXCEPT !.identity = TRUE]
              \/ request' = [request EXCEPT !.success = TRUE]
            BY <1>6 DEF PullFrameArrives
        <2>3. request' \in RequestType BY <2>2 DEF AskInv, RequestType
        <2>4. request'.at = "stream" /\ request'.image = request.image /\ request'.answer = request.answer
            BY <2>1, <2>2 DEF AskInv, RequestType
        <2> QED BY <1>2, <1>3, <2>3, <2>4, PullingStep
    <1>7. CASE PullImage \/ PullDeadline
        <2>1. PICK f \in {"ok", "failed"} : f = "failed" OBVIOUS
        <2> QED BY <1>4, <1>5, <1>7, <2>1 DEF PullImage, PullDeadline
    <1>8. CASE PullStreamEnds
        <2>1. PICK f, k \in {"ok", "failed"} : f = "failed" /\ k = "ok" OBVIOUS
        <2>2. request' = Applied(f) \/ request' = Applied(k) BY <1>8, <2>1 DEF PullStreamEnds
        <2> QED BY <1>4, <2>2
    <1> QED BY <1>6, <1>7, <1>8

LEMMA RequestsStep ==
    ASSUME RuntimeOK, AskInv, Requests, UNCHANGED cmd
    PROVE  AskInv'
    BY InspectRegistryImageStep, InspectArchiveImageStep, InspectAgainStep, ProbeResolvedStep, SaveImageStep,
       AnalyzeSavedStep, ReadUserLayersStep, PullRequestSteps DEF Requests

-----------------------------------------------------------------------------
(* The steps of others.                                                      *)
LEMMA PresenceKept ==
    ASSUME PresenceInv, UNCHANGED <<request, look>>, content' \subseteq content, held => held'
    PROVE  PresenceInv'
    <1>1. Left(request.image)' = Left(request.image) BY DEF Left, LayersFrom, GraphOf
    <1>2. Succeeded' <=> Succeeded BY DEF Succeeded
    <1> QED BY <1>1, <1>2 DEF PresenceInv

LEMMA OthersStep ==
    ASSUME AskInv,
           UNCHANGED <<request, cmd, look, spool, runtime, names, loaded, records, content, held, lacked>>
    PROVE  AskInv'
    <1>1. HistoryInv'
        <2>1. /\ Holds(request.image)' <=> Holds(request.image)
              /\ Lacks(request.image)' = Lacks(request.image)
            BY HoldsSame
        <2> QED BY <2>1 DEF AskInv, HistoryInv
    <1>2. CommandInv' /\ RequestInv' BY DEF AskInv, CommandInv, RequestInv
    <1>3. ObservedInv' /\ UserInv' BY DEF AskInv, ObservedInv, UserInv
    <1>4. PresenceInv' BY PresenceKept DEF AskInv
    <1>5. AbsenceInv' BY DEF AskInv, AbsenceInv, Missed
    <1>6. AnswersAreProved' BY DEF AskInv, AnswersAreProved, OkMeansHeld, Unprobed, MissingWasLacked, Running
    <1>7. UserIsOfTheImage' BY DEF AskInv, UserIsOfTheImage, Running
    <1> QED BY <1>1, <1>2, <1>3, <1>4, <1>5, <1>6, <1>7 DEF AskInv, HistoryOK

(* A change of what the runtime holds is noted.                               *)
LEMMA WitnessStep ==
    ASSUME AskInv, UNCHANGED <<request, cmd, look, spool, runtime>>, content' \subseteq content, Witness
    PROVE  AskInv'
    <1>1. /\ held' = (held \/ Holds(request.image)')
          /\ lacked' = lacked \cup Lacks(request.image)'
        BY DEF Witness
    <1>2. /\ held => held'
          /\ lacked \subseteq lacked' /\ lacked' \subseteq ImageNames
        BY <1>1 DEF AskInv, HistoryOK, Lacks
    <1>3. HistoryInv' BY <1>1 DEF HistoryInv
    <1>4. CommandInv' /\ RequestInv' BY DEF AskInv, CommandInv, RequestInv
    <1>5. ObservedInv' /\ UserInv' BY <1>2 DEF AskInv, ObservedInv, UserInv
    <1>6. Missed => Missed' BY <1>2 DEF Missed
    <1>7. AbsenceInv' /\ PresenceInv' BY <1>2, <1>6, PresenceKept DEF AskInv, AbsenceInv
    <1>8. AnswersAreProved'
        BY <1>2 DEF AskInv, AnswersAreProved, OkMeansHeld, Unprobed, MissingWasLacked, Running
    <1>9. UserIsOfTheImage' BY DEF AskInv, UserIsOfTheImage, Running
    <1>10. HistoryOK' BY <1>1, <1>2 DEF AskInv, HistoryOK
    <1> QED BY <1>3, <1>4, <1>5, <1>7, <1>8, <1>9, <1>10 DEF AskInv

LEMMA WorldStep ==
    ASSUME AskInv, TagMoves \/ StoreMoves \/ FileMoves \/ RuntimeMoves
    PROVE  AskInv'
    <1>1. CASE TagMoves
        BY <1>1, OthersStep DEF TagMoves, MoveTag, imageVars, runtimeVars, requestVars
    <1>2. CASE FileMoves
        BY <1>2, OthersStep DEF FileMoves, registryVars, repositoryVars, lookVars, imageVars, runtimeVars,
                                requestVars
    <1>3. CASE StoreMoves
        <2>1. UNCHANGED <<request, cmd, spool, runtime>> /\ Witness
            BY <1>3 DEF StoreMoves, runtimeVars
        <2>2. CASE MoveRecord BY <2>1, <2>2, WitnessStep DEF MoveRecord
        <2>3. ASSUME NEW reads, MoveContent(reads) PROVE AskInv'
            BY <2>1, <2>3, WitnessStep DEF MoveContent
        <2> QED BY <1>3, <2>2, <2>3 DEF StoreMoves
    <1>4. CASE RuntimeMoves
        BY <1>4, WitnessStep DEF RuntimeMoves, MoveLoaded, MoveImage, RuntimePulls, registryVars,
                                 repositoryVars, lookVars
    <1> QED BY <1>1, <1>2, <1>3, <1>4

-----------------------------------------------------------------------------
(* The resolver under a probe of containerd.                                  *)

(* What the history has noted of containerd's two names.                      *)
LEMMA ContainerdHistory ==
    ASSUME AskInv, request.at = "resolve"
    PROVE  LET i == request.image IN
           /\ i \in Images /\ i.origin = "registry" /\ runtime = "containerd"
           /\ i.reference # NoDigest /\ lacked \subseteq ImageNames
           /\ \A n \in ImageNames : records[n] # i.reference => n \in lacked
           /\ records["pinned"] \notin {NoDigest, i.reference} => Missed
           /\ ~(GraphOf(i) \subseteq content) => Missed
           /\ \A n \in ImageNames : records[n] = i.reference /\ GraphOf(i) \subseteq content => held
    <1> DEFINE i == request.image
    <1>1. i \in Images /\ i.origin = "registry" /\ runtime = "containerd"
        BY RequestedImage DEF AskInv, RequestInv
    <1>2. i.reference # NoDigest BY <1>1, ImageFacts, RootsAreTops
    <1>3. cmd.at \in Probing BY RequestOfCommand
    <1>4. (Holds(i) => held) /\ Lacks(i) \subseteq lacked /\ lacked \subseteq ImageNames
        BY <1>3 DEF AskInv, HistoryInv, HistoryOK
    <1>5. \A n : HoldsAs(i, n) <=> records[n] = i.reference /\ GraphOf(i) \subseteq content
        BY <1>1 DEF HoldsAs
    <1>6. \A n \in ImageNames : HoldsAs(i, n) => held BY <1>4 DEF Holds
    <1>7. \A n \in ImageNames : ~HoldsAs(i, n) => n \in lacked BY <1>4 DEF Lacks
    <1>8. Hidden(i, "tagged") => "tagged" \in lacked BY <1>4 DEF Lacks, ImageNames
    <1>9. records["pinned"] \notin {NoDigest, i.reference} => Missed
        BY <1>1, <1>4, <1>5, <1>7, <1>8 DEF Hidden, Missed, ImageNames
    <1>10. ~(GraphOf(i) \subseteq content) => Missed BY <1>4, <1>5, <1>7 DEF Missed
    <1> QED BY <1>1, <1>2, <1>4, <1>5, <1>6, <1>7, <1>9, <1>10

(* A document of the image that the store lacks shows the image absent.       *)
LEMMA MissingContent ==
    ASSUME AskInv, request.at = "resolve", NEW d \in GraphOf(request.image), d \notin content
    PROVE  Missed
    BY ContainerdHistory

(* The names and documents the resolver reads are those of the image.         *)
LEMMA ReadsOfTheImage ==
    ASSUME LookIInv, AskInv, request.at = "resolve"
    PROVE  /\ look.at \in {"manifest", "layers", "config"} => look.top = request.image.reference
           /\ look.at = "manifest" /\ Selectable(look.top) => Selected(look.top) = request.image.manifest
           /\ look.at \in {"layers", "config"} => look.manifest = request.image.manifest
           /\ look.repository = "local" /\ request.image.reference \in Roots
    <1>1. /\ request.image \in Images /\ request.image.origin = "registry"
        BY RequestedImage DEF AskInv, RequestInv
    <1>2. /\ request.image.reference \in Roots /\ request.image.manifest = Selected(request.image.reference)
        BY <1>1, ImageFacts
    <1>3. look.repository = "local" /\ look.source = request.image.reference BY DEF AskInv, RequestInv
    <1>4. look.at \in {"manifest", "layers", "config"} => look.top = request.image.reference
        BY <1>2, <1>3, RootsAreTops DEF LookIInv, LookInv, Referenced
    <1>5. look.at \in {"layers", "config"} => look.manifest = Selected(look.top)
        BY DEF LookIInv, LookInv, HasManifest
    <1> QED BY <1>2, <1>3, <1>4, <1>5

LEMMA ResolverFrames ==
    ASSUME ResolverRuns
    PROVE  UNCHANGED <<request, cmd, spool, runtime, names, loaded, records, content, held, lacked, moves>>
    BY ResolverFrame DEF repositoryVars, imageVars, runtimeVars, requestVars, Routine, Fault

(* A probe that ends with not found: neither name led to the image, each at a  *)
(* moment of its own.                                                        *)
LEMMA FetchFails ==
    ASSUME LookIInv, AskInv, request.at = "resolve", NEW d, d \in GraphOf(request.image) \/ Missed,
           \/ Fetched(d) # "ok"
           \/ RequestFails
    PROVE  look'.at = "done" /\ look'.result = "not_found" => Missed
    <1>1. look.repository = "local" BY ReadsOfTheImage
    <1>2. CASE Fetched(d) # "ok"
        <2>1. d \notin content BY <1>2 DEF Fetched
        <2> QED BY <2>1, MissingContent
    <1>3. CASE RequestFails
        <2>1. PICK e \in Failures \ {"platform"} : e # "not_found" /\ Finish(e) BY <1>1, <1>3 DEF RequestFails
        <2>2. look'.at = "done" /\ look'.result = e BY <2>1 DEF Finish, LookIInv, LookType
        <2> QED BY <2>1, <2>2
    <1> QED BY <1>2, <1>3

(* AbsenceInv, of a step that leaves the records and the history alone.       *)
LEMMA AbsenceFromLook ==
    ASSUME AskInv, request.at = "resolve",
           UNCHANGED <<request, lacked>>,
           look'.at = "tagged" => "pinned" \in lacked,
           look'.at = "top" => look'.top = request.image.reference \/ Missed,
           look'.at = "done" /\ look'.result = "not_found" => Missed
    PROVE  AbsenceInv'
    <1>1. Missed' <=> Missed BY DEF Missed
    <1> QED BY <1>1 DEF AbsenceInv

LEMMA LocalRecordAbsence ==
    ASSUME LookIInv, AskInv, request.at = "resolve",
           NEW name \in {"pinned", "tagged"}, LocalRecord(name), UNCHANGED <<request, lacked>>
    PROVE  AbsenceInv'
    <1>1. /\ lacked \subseteq ImageNames /\ request.image.reference # NoDigest
          /\ \A n \in ImageNames : records[n] # request.image.reference => n \in lacked
          /\ records["pinned"] \notin {NoDigest, request.image.reference} => Missed
        BY ContainerdHistory
    <1>2. look.at = name BY DEF LocalRecord, Resolving
    <1>3. look.at = "tagged" => "pinned" \in lacked BY DEF AskInv, AbsenceInv
    <1>4. name = "tagged" /\ records[name] # request.image.reference => Missed
        BY <1>1, <1>2, <1>3 DEF Missed, ImageNames
    <1>5. CASE look' = [look EXCEPT !.at = "top", !.top = records[name]] /\ records[name] # NoDigest
        <2>1. look'.at = "top" /\ look'.top = records[name] BY <1>5 DEF LookIInv, LookType
        <2>2. records[name] = request.image.reference \/ Missed BY <1>1, <1>4, <1>5
        <2> QED BY <2>1, <2>2, AbsenceFromLook
    <1>6. CASE records[name] = NoDigest /\ name = "pinned" /\ At("tagged")
        <2>1. look'.at = "tagged" BY <1>6 DEF At, LookIInv, LookType
        <2>2. "pinned" \in lacked BY <1>1, <1>6 DEF ImageNames
        <2> QED BY <2>1, <2>2, AbsenceFromLook
    <1>7. CASE records[name] = NoDigest /\ name = "tagged" /\ Finish("not_found")
        <2>1. look'.at = "done" BY <1>7 DEF Finish, LookIInv, LookType
        <2>2. Missed BY <1>1, <1>4, <1>7
        <2> QED BY <2>1, <2>2, AbsenceFromLook
    <1>8. CASE RequestFails
        <2>1. look.repository = "local" BY ReadsOfTheImage
        <2>2. PICK e \in Failures \ {"platform"} : e # "not_found" /\ Finish(e) BY <1>8, <2>1 DEF RequestFails
        <2>3. look'.at = "done" /\ look'.result = e BY <2>2 DEF Finish, LookIInv, LookType
        <2> QED BY <2>2, <2>3, AbsenceFromLook
    <1> QED BY <1>5, <1>6, <1>7, <1>8 DEF LocalRecord

(* A fetch under a probe: what it reads belongs to the image.                 *)
LEMMA FetchAbsence ==
    ASSUME LookIInv, AskInv, request.at = "resolve",
           UNCHANGED <<request, lacked>>,
           NEW d, d \in GraphOf(request.image) \/ Missed,
           \/ Fetched(d) # "ok" /\ Finish(Fetched(d))
           \/ RequestFails
    PROVE  AbsenceInv'
    <1>1. look'.at = "done" BY DEF Finish, RequestFails, LookIInv, LookType
    <1>2. look'.at = "done" /\ look'.result = "not_found" => Missed BY FetchFails
    <1> QED BY <1>1, <1>2, AbsenceFromLook

LEMMA OtherEndAbsence ==
    ASSUME AskInv, LookIInv, request.at = "resolve", UNCHANGED <<request, lacked>>,
           \/ Finish("protocol") \/ Finish("platform")
           \/ look'.at \in {"manifest", "layers", "config"}
           \/ look'.at = "done" /\ look'.result = "ok"
    PROVE  AbsenceInv'
    <1>1. Finish("protocol") \/ Finish("platform") => look'.at = "done" /\ look'.result \in {"protocol", "platform"}
        BY DEF Finish, LookIInv, LookType
    <1> QED BY <1>1, AbsenceFromLook

LEMMA ResolverAbsence ==
    ASSUME LookIInv, AskInv, ResolverRuns
    PROVE  AbsenceInv'
    <1>1. UNCHANGED <<request, lacked>> BY ResolverFrames
    <1> SUFFICES ASSUME request.at = "resolve" PROVE AbsenceInv' BY <1>1 DEF AbsenceInv
    <1>2. /\ request.image \in Images /\ request.image.origin = "registry"
          /\ look.repository = "local"
        BY RequestedImage, ReadsOfTheImage DEF AskInv, RequestInv
    <1>3. /\ request.image.manifest \in Digests /\ Kind(request.image.manifest) = "manifest"
          /\ request.image.config = Document[request.image.manifest].config
        BY <1>2, ImageFacts
    <1> DEFINE G == GraphOf(request.image)
    <1>4. /\ request.image.reference \in G /\ request.image.manifest \in G /\ request.image.config \in G
          /\ ToSet(Document[request.image.manifest].layers) \subseteq G
        BY DEF GraphOf
    <1>5. CASE Credential BY <1>2, <1>5 DEF Credential, Resolving, LookIInv, LookInv
    <1>6. CASE LocalRecord("pinned") \/ LocalRecord("tagged")
        <2>1. PICK p, t \in {"pinned", "tagged"} : p = "pinned" /\ t = "tagged" OBVIOUS
        <2> QED BY <1>1, <1>2, <1>6, <2>1, LocalRecordAbsence
    <1>7. CASE FetchReference
        <2>1. Top = look.top BY <1>2 DEF Top
        <2>2. Top \in G \/ Missed BY <1>4, <1>7, <2>1 DEF FetchReference, Resolving, AskInv, AbsenceInv
        <2>3. look' = [look EXCEPT !.at = "manifest", !.top = Top] => look'.at = "manifest"
            BY DEF LookIInv, LookType
        <2> QED BY <1>1, <1>7, <2>2, <2>3, FetchAbsence, OtherEndAbsence DEF FetchReference, Fetch
    <1>8. CASE FetchManifest
        <2>1. look.at = "manifest" BY <1>8 DEF FetchManifest, Resolving
        <2>2. Selectable(look.top) => Selected(look.top) \in G BY <1>4, <2>1, ReadsOfTheImage
        <2>3. look' = [look EXCEPT !.at = "layers", !.manifest = Selected(look.top)] => look'.at = "layers"
            BY DEF LookIInv, LookType
        <2> QED BY <1>1, <1>8, <2>2, <2>3, FetchAbsence, OtherEndAbsence DEF FetchManifest, Fetch
    <1>9. CASE VerifyLayers
        <2> DEFINE layers == Document[look.manifest].layers
        <2>1. look.at = "layers" BY <1>9 DEF VerifyLayers, Resolving
        <2>2. look.manifest = request.image.manifest BY <2>1, ReadsOfTheImage
        <2>3. ~(look.layer > Len(layers)) => layers[look.layer] \in G
            <3>1. layers \in Seq(Digests) BY <1>3, <2>2, ManifestDocument
            <3>2. look.layer \in Nat /\ look.layer >= 1 BY LookFields DEF LookIInv, LookInv
            <3>3. ~(look.layer > Len(layers)) => look.layer \in DOMAIN layers BY <3>1, <3>2
            <3>4. ~(look.layer > Len(layers)) => layers[look.layer] \in ToSet(layers) BY <3>3 DEF ToSet
            <3> QED BY <1>4, <2>2, <3>4
        <2>4. /\ At("config") => look'.at = "config"
              /\ look' = [look EXCEPT !.layer = @ + 1] => look'.at = "layers"
            BY <2>1 DEF At, LookIInv, LookType
        <2> QED BY <1>1, <1>2, <1>9, <2>3, <2>4, FetchAbsence, OtherEndAbsence DEF VerifyLayers, Fetch
    <1>10. CASE ReadConfig
        <2> DEFINE c == Document[look.manifest].config
        <2>1. look.at = "config" BY <1>10 DEF ReadConfig, Resolving
        <2>2. c \in G BY <1>3, <1>4, <2>1, ReadsOfTheImage
        <2>3. ConfigResult(look.top, look.manifest, c) \in {"ok", "protocol", "platform"} BY DEF ConfigResult
        <2>4. look' = [look EXCEPT !.at = "done", !.result = "ok", !.config = c] =>
                 look'.at = "done" /\ look'.result = "ok"
            BY DEF LookIInv, LookType
        <2> QED BY <1>1, <1>10, <2>2, <2>3, <2>4, FetchAbsence, OtherEndAbsence DEF ReadConfig, Fetch
    <1> QED BY <1>5, <1>6, <1>7, <1>8, <1>9, <1>10 DEF ResolverRuns, ResolverStep

(* A document that is read was there: what is left to read shrinks by it.      *)
LEMMA PresenceRead ==
    ASSUME AskInv, request.at = "resolve", UNCHANGED <<request, content, held>>,
           look.at \in {"top", "manifest", "layers", "config"},
           look.at = "top" => look.top = request.image.reference,
           look'.at \in {"manifest", "layers", "config"},
           NEW D, D \subseteq content, Left(request.image) \subseteq Left(request.image)' \cup D
    PROVE  PresenceInv'
    <1>1. Left(request.image)' \subseteq content => held BY DEF AskInv, PresenceInv
    <1>2. ~Succeeded' BY DEF Succeeded
    <1> QED BY <1>1, <1>2 DEF PresenceInv

LEMMA PresenceEnds ==
    ASSUME LookIInv, look.result = "none", NEW e, e # "ok", Finish(e)
    PROVE  PresenceInv'
    <1>1. look'.at = "done" /\ look'.result = e BY DEF Finish, LookIInv, LookType
    <1> QED BY <1>1 DEF PresenceInv, Succeeded

LEMMA PresenceFails ==
    ASSUME LookIInv, look.result = "none", RequestFails
    PROVE  PresenceInv'
    <1>1. PICK e \in Failures : Finish(e) BY DEF RequestFails
    <1> QED BY <1>1, PresenceEnds DEF Failures

LEMMA LocalRecordPresence ==
    ASSUME LookIInv, AskInv, request.at = "resolve", UNCHANGED <<request, content, held>>,
           NEW name \in {"pinned", "tagged"}, LocalRecord(name)
    PROVE  PresenceInv'
    <1>1. look.at = name /\ look.result = "none" BY DEF LocalRecord, Resolving, LookIInv, LookInv
    <1>2. CASE RequestFails BY <1>1, <1>2, PresenceFails
    <1>3. CASE Finish("not_found") BY <1>1, <1>3, PresenceEnds
    <1>4. CASE At("tagged")
        <2>1. look'.at = "tagged" BY <1>4 DEF At, LookIInv, LookType
        <2> QED BY <2>1 DEF PresenceInv, Succeeded
    <1>5. CASE look' = [look EXCEPT !.at = "top", !.top = records[name]]
        <2>1. look'.at = "top" /\ look'.top = records[name] BY <1>5 DEF LookIInv, LookType
        <2>2. Left(request.image)' = GraphOf(request.image) BY <2>1 DEF Left, GraphOf
        <2>3. records[name] = request.image.reference /\ GraphOf(request.image) \subseteq content => held
            BY ContainerdHistory DEF ImageNames
        <2> QED BY <2>1, <2>2, <2>3 DEF PresenceInv, Succeeded
    <1> QED BY <1>2, <1>3, <1>4, <1>5 DEF LocalRecord

LEMMA LayersFromAll ==
    ASSUME NEW i, Document[i.manifest].layers \in Seq(Digests)
    PROVE  LayersFrom(i, 1) = ToSet(Document[i.manifest].layers)
    BY DEF LayersFrom, ToSet

LEMMA LayersFromNext ==
    ASSUME NEW i, Document[i.manifest].layers \in Seq(Digests), NEW n \in Nat
    PROVE  /\ LayersFrom(i, n) \subseteq LayersFrom(i, n + 1) \cup {Document[i.manifest].layers[n]}
           /\ n > Len(Document[i.manifest].layers) => LayersFrom(i, n) = {}
    BY DEF LayersFrom

LEMMA ResolverPresence ==
    ASSUME LookIInv, AskInv, ResolverRuns
    PROVE  PresenceInv'
    <1>1. UNCHANGED <<request, content, held>> BY ResolverFrames
    <1> SUFFICES ASSUME request.at = "resolve" PROVE PresenceInv' BY <1>1 DEF PresenceInv
    <1> DEFINE i == request.image
               layers == Document[i.manifest].layers
    <1>2. /\ i \in Images /\ i.origin = "registry" /\ i.reference # NoDigest
          /\ look.repository = "local" /\ look.source = i.reference
        BY ContainerdHistory DEF AskInv, RequestInv
    <1>3. /\ i.manifest \in Digests /\ Kind(i.manifest) = "manifest" /\ i.reference \in Roots
          /\ i.config = Document[i.manifest].config /\ i.manifest = Selected(i.reference)
        BY <1>2, ImageFacts
    <1>4. layers \in Seq(Digests) BY <1>3, ManifestDocument
    <1>5. \A d : Fetched(d) = "ok" => d \in content BY <1>2 DEF Fetched
    <1>6. \A d : Fetched(d) # "ok" => Fetched(d) = "not_found" BY DEF Fetched
    <1>7. look.at # "done" => look.result = "none" BY DEF LookIInv, LookInv
    <1>8. ASSUME NEW e, e # "ok", Finish(e), look.at # "done" PROVE PresenceInv'
        BY <1>7, <1>8, PresenceEnds
    <1>9. CASE Credential BY <1>2, <1>9 DEF Credential, Resolving, LookIInv, LookInv
    <1>10. CASE LocalRecord("pinned") \/ LocalRecord("tagged")
        <2>1. PICK p, t \in {"pinned", "tagged"} : p = "pinned" /\ t = "tagged" OBVIOUS
        <2> QED BY <1>1, <1>10, <2>1, LocalRecordPresence
    <1>11. CASE FetchReference
        <2>1. look.at = "top" /\ Top = look.top BY <1>2, <1>11 DEF FetchReference, Resolving, Top
        <2>2. CASE RequestFails BY <1>7, <2>1, <2>2, PresenceFails
        <2>3. CASE Finish("protocol") \/ Finish("not_found") BY <1>8, <2>1, <2>3
        <2>4. CASE /\ Fetched(Top) = "ok" /\ look.source \in {NoDigest, Top}
                   /\ look' = [look EXCEPT !.at = "manifest", !.top = Top]
            <3>1. look'.at = "manifest" BY <2>4 DEF LookIInv, LookType
            <3>2. look.top = i.reference /\ {i.reference} \subseteq content BY <1>2, <1>5, <2>1, <2>4
            <3>3. Left(i) = GraphOf(i) BY <2>1 DEF Left
            <3>4. Left(i)' = ({i.manifest} \ {i.reference}) \cup {i.config} \cup LayersFrom(i, 1)
                BY <1>1, <3>1 DEF Left, LayersFrom
            <3>5. GraphOf(i) \subseteq Left(i)' \cup {i.reference} BY <1>4, <3>4, LayersFromAll DEF GraphOf
            <3> QED BY <1>1, <2>1, <3>1, <3>2, <3>3, <3>5, PresenceRead
        <2> QED BY <1>6, <1>11, <2>2, <2>3, <2>4 DEF FetchReference, Fetch
    <1>12. CASE FetchManifest
        <2>1. look.at = "manifest" /\ look.layer = 1 BY <1>12 DEF FetchManifest, Resolving, LookIInv, LookInv
        <2>2. look.top = i.reference /\ (Selectable(look.top) => Selected(look.top) = i.manifest)
            BY <2>1, ReadsOfTheImage
        <2>3. CASE RequestFails BY <1>7, <2>1, <2>3, PresenceFails
        <2>4. CASE Finish("protocol") \/ Finish("platform") \/ Finish("not_found") BY <1>8, <2>1, <2>4
        <2>5. CASE /\ look' = [look EXCEPT !.at = "layers", !.manifest = Selected(look.top)]
                   /\ {i.manifest} \ {i.reference} \subseteq content
            <3>1. look'.at = "layers" /\ look'.layer = 1 BY <2>1, <2>5 DEF LookIInv, LookType
            <3>2. Left(i) = ({i.manifest} \ {i.reference}) \cup {i.config} \cup LayersFrom(i, 1)
                BY <2>1 DEF Left
            <3>3. Left(i)' = {i.config} \cup LayersFrom(i, 1) BY <1>1, <3>1 DEF Left, LayersFrom
            <3>4. Left(i) \subseteq Left(i)' \cup ({i.manifest} \ {i.reference}) BY <3>2, <3>3
            <3> QED BY <1>1, <2>1, <2>5, <3>1, <3>4, PresenceRead
        <2>6. Kind(look.top) = "manifest" => i.manifest = i.reference BY <1>3, <2>2 DEF Selected
        <2>7. Selectable(look.top) /\ Fetched(Selected(look.top)) = "ok" => i.manifest \in content
            BY <1>5, <2>2
        <2> QED BY <1>6, <1>12, <2>3, <2>4, <2>5, <2>6, <2>7 DEF FetchManifest, Fetch
    <1>13. CASE VerifyLayers
        <2>1. look.at = "layers" /\ look.manifest = i.manifest
            BY <1>13, ReadsOfTheImage DEF VerifyLayers, Resolving
        <2>2. look.layer \in Nat BY LookFields DEF LookIInv
        <2>3. Left(i) = {i.config} \cup LayersFrom(i, look.layer) BY <2>1 DEF Left
        <2>4. CASE RequestFails BY <1>7, <2>1, <2>4, PresenceFails
        <2>5. CASE Finish("not_found") BY <1>8, <2>1, <2>5
        <2>6. CASE look.layer > Len(layers) /\ At("config")
            <3>1. look'.at = "config" BY <2>6 DEF At, LookIInv, LookType
            <3>2. Left(i)' = {i.config} BY <1>1, <3>1 DEF Left
            <3>3. Left(i) \subseteq Left(i)' \cup {} BY <1>4, <2>2, <2>3, <2>6, <3>2, LayersFromNext
            <3> QED BY <1>1, <2>1, <3>1, <3>3, PresenceRead
        <2>7. CASE Fetched(layers[look.layer]) = "ok" /\ look' = [look EXCEPT !.layer = @ + 1]
            <3>1. look'.at = "layers" /\ look'.layer = look.layer + 1 BY <2>1, <2>7 DEF LookIInv, LookType
            <3>2. Left(i)' = {i.config} \cup LayersFrom(i, look.layer + 1)
                BY <1>1, <3>1 DEF Left, LayersFrom
            <3>3. Left(i) \subseteq Left(i)' \cup {layers[look.layer]}
                BY <1>4, <2>2, <2>3, <3>2, LayersFromNext
            <3>4. {layers[look.layer]} \subseteq content BY <1>5, <2>7
            <3> QED BY <1>1, <2>1, <3>1, <3>3, <3>4, PresenceRead
        <2> QED BY <1>2, <1>6, <1>13, <2>1, <2>4, <2>5, <2>6, <2>7 DEF VerifyLayers, Fetch
    <1>14. CASE ReadConfig
        <2>1. look.at = "config" /\ Document[look.manifest].config = i.config
            BY <1>3, <1>14, ReadsOfTheImage DEF ReadConfig, Resolving
        <2>2. CASE RequestFails BY <1>7, <2>1, <2>2, PresenceFails
        <2>3. CASE \E e : e # "ok" /\ Finish(e) BY <1>8, <2>1, <2>3
        <2>4. CASE Fetched(i.config) = "ok"
            <3>1. Left(i) = {i.config} BY <2>1 DEF Left
            <3>2. held BY <1>5, <2>1, <2>4, <3>1 DEF AskInv, PresenceInv
            <3> QED BY <1>1, <3>2 DEF PresenceInv
        <2> QED BY <1>6, <1>14, <2>1, <2>2, <2>3, <2>4 DEF ReadConfig, Fetch
    <1> QED BY <1>9, <1>10, <1>11, <1>12, <1>13, <1>14 DEF ResolverRuns, ResolverStep

LEMMA ResolverAsk ==
    ASSUME RepositoryOK, LookIInv, AskInv, ResolverRuns
    PROVE  AskInv'
    <1>1. UNCHANGED <<request, cmd, spool, runtime, names, loaded, records, content, held, lacked, moves>>
        BY ResolverFrames
    <1>2. HistoryInv'
        <2>1. /\ Holds(request.image)' <=> Holds(request.image)
             /\ Lacks(request.image)' = Lacks(request.image)
            BY <1>1, HoldsSame
        <2> QED BY <1>1, <2>1 DEF AskInv, HistoryInv
    <1>3. CommandInv' BY <1>1 DEF AskInv, CommandInv
    <1>4. RequestInv'
        <2>1. SameLook(look', look) BY ResolverStepKeeps DEF ResolverRuns
        <2> QED BY <1>1, <2>1 DEF AskInv, RequestInv, SameLook
    <1>5. ObservedInv' /\ UserInv' BY <1>1 DEF AskInv, ObservedInv, UserInv
    <1>6. AbsenceInv' /\ PresenceInv' BY ResolverAbsence, ResolverPresence
    <1>7. AnswersAreProved' BY <1>1 DEF AskInv, AnswersAreProved, OkMeansHeld, Unprobed, MissingWasLacked, Running
    <1>8. UserIsOfTheImage' BY <1>1 DEF AskInv, UserIsOfTheImage, Running
    <1> QED BY <1>1, <1>2, <1>3, <1>4, <1>5, <1>6, <1>7, <1>8 DEF AskInv, HistoryOK

-----------------------------------------------------------------------------
(* The commands.                                                             *)

(* A probe begins: nothing of an earlier one is left in the history.          *)
LEMMA ProbeBegins ==
    ASSUME RuntimeOK, AskInv, NEW image \in Images, ProbeImage(image),
           UNCHANGED <<runtime, names, loaded, records, content, spool>>,
           cmd' \in CommandType, cmd'.at \in Probing, cmd'.kind = cmd.kind, cmd'.result = "none",
           image.origin = IF cmd.kind = "prove" THEN "archive" ELSE "registry",
           cmd'.at \in UserPoints => cmd.kind = "gen",
           cmd'.user => cmd'.at \in UserPoints,
           cmd'.at = "user_again" => request.user = image.config
    PROVE  AskInv'
    <1>1. /\ request' \in RequestType
          /\ request'.image = image /\ request'.answer = "none" /\ request'.user = request.user
          /\ request'.at = (IF runtime = "containerd" THEN "resolve" ELSE "inspect")
          /\ held' = Holds(image) /\ lacked' = Lacks(image)
          /\ runtime = "containerd" => /\ look'.repository = "local" /\ look'.source = image.reference
                                       /\ image.reference # NoDigest => look'.at = "pinned"
        BY ProbeImageStep DEF AskInv, RuntimeOK
    <1>2. cmd.kind = "prove" => runtime # "containerd" BY DEF AskInv, CommandInv
    <1>3. cmd'.at \in {"probe", "user_probe", "user_again"} BY DEF Probing
    <1>4. CommandInv' BY <1>1, <1>2, <1>3 DEF CommandInv, ProbePoints
    <1>5. RequestInv' BY <1>1, <1>2 DEF RequestInv
    <1>6. HistoryInv'
        <2>1. /\ Holds(request.image)' <=> Holds(image)
              /\ Lacks(request.image)' = Lacks(image)
            BY <1>1, HoldsSame
        <2> QED BY <1>1, <2>1 DEF HistoryInv
    <1>7. ObservedInv' BY <1>1, <1>3 DEF ObservedInv
    <1>8. AbsenceInv' /\ PresenceInv'
        <2>1. request'.at = "resolve" => image.origin = "registry" /\ runtime = "containerd" BY <1>1, <1>2
        <2>2. request'.at = "resolve" => image.reference # NoDigest BY <2>1, ImageFacts, RootsAreTops
        <2> QED BY <1>1, <2>1, <2>2 DEF AbsenceInv, PresenceInv, Succeeded
    <1>9. UserInv' BY <1>1, <1>3 DEF UserInv
    <1>10. AnswersAreProved' /\ UserIsOfTheImage'
        BY <1>1, <1>3 DEF AnswersAreProved, OkMeansHeld, Unprobed, MissingWasLacked, UserIsOfTheImage, Running
    <1>11. HistoryOK'
        <2>2. Holds(image) \in BOOLEAN BY DEF Holds
        <2> QED BY <1>1, <2>2 DEF AskInv, HistoryOK, Lacks
    <1> QED BY <1>1, <1>4, <1>5, <1>6, <1>7, <1>8, <1>9, <1>10, <1>11 DEF AskInv

(* A command returns.                                                        *)
LEMMA ReturnStep ==
    ASSUME AskInv, NEW r \in {"ok", "missing", "failed"}, Return(r),
           UNCHANGED <<runtime, names, loaded, records, content, spool, held, lacked, moves, request, look>>,
           request.at \in {"idle", "done"},
           r = "ok" /\ ~Unprobed => held,
           r = "ok" /\ cmd.user => request.user = request.image.config
    PROVE  AskInv'
    <1>1. cmd' = [cmd EXCEPT !.at = "returned", !.result = r] BY DEF Return
    <1>2. cmd' \in CommandType BY <1>1 DEF AskInv, CommandType, CommandPoints
    <1>3. cmd'.at = "returned" /\ cmd'.result = r /\ cmd'.kind = cmd.kind /\ cmd'.user = cmd.user
        BY <1>1 DEF AskInv, CommandType
    <1>4. CommandInv' BY <1>3 DEF AskInv, CommandInv, Probing, UserPoints
    <1>5. RequestInv' BY <1>3 DEF AskInv, RequestInv
    <1>6. HistoryInv' /\ ObservedInv' /\ UserInv'
        BY <1>3 DEF HistoryInv, ObservedInv, UserInv, Probing
    <1>7. AbsenceInv' /\ PresenceInv' BY DEF AbsenceInv, PresenceInv
    <1>8. AnswersAreProved'
        BY <1>3 DEF AskInv, AnswersAreProved, OkMeansHeld, Unprobed, MissingWasLacked, Running
    <1>9. UserIsOfTheImage' BY <1>3 DEF UserIsOfTheImage, Running
    <1> QED BY <1>2, <1>4, <1>5, <1>6, <1>7, <1>8, <1>9 DEF AskInv, HistoryOK

(* What a command leaves alone.                                              *)
LEMMA CommandsKeep ==
    ASSUME Commands \/ BeginArchive
    PROVE  UNCHANGED <<runtime, names, loaded, records, content, moves>>
    <1>1. WorldFrame BY CommandsFrame DEF BeginArchive
    <1> QED BY <1>1 DEF WorldFrame, repositoryVars, runtimeVars

LEMMA NoProbeKeeps ==
    ASSUME NoProbe
    PROVE  UNCHANGED <<look, request, spool, held, lacked>>
    BY DEF NoProbe, lookVars, requestVars

(* Before its first request a command has asked nothing.                      *)
LEMMA BeginSteps ==
    ASSUME RuntimeOK, AskInv, BeginGen \/ BeginPull \/ BeginProve \/ BeginArchive
    PROVE  AskInv'
    <1>1. /\ cmd.at = "idle" /\ request = NoRequest /\ ~cmd.user /\ cmd.result = "none"
        <2>1. cmd.at = "idle" BY DEF BeginGen, BeginPull, BeginProve, BeginArchive, Running
        <2> QED BY <2>1, CommandFields DEF AskInv, CommandInv, UserPoints
    <1>2. UNCHANGED <<runtime, names, loaded, records, content, moves>> BY CommandsKeep DEF Commands
    <1>3. ASSUME NEW at \in CommandPoints, Step(at)
          PROVE  /\ cmd' \in CommandType /\ cmd'.at = at /\ cmd'.kind = cmd.kind /\ cmd'.user = cmd.user
                 /\ cmd'.result = cmd.result
        BY <1>3 DEF Step, AskInv, CommandType
    <1>4. PICK r, p, q, a \in CommandPoints : r = "resolve" /\ p = "probe" /\ q = "pull" /\ a = "analyze"
        BY DEF CommandPoints
    <1>5. /\ request.at = "idle" /\ request.image = NoImage /\ request.answer = "none"
        BY <1>1 DEF NoRequest
    <1>6. CASE BeginGen \/ BeginArchive
        <2>1. /\ cmd' \in CommandType /\ cmd'.kind = cmd.kind /\ cmd'.user = cmd.user
              /\ cmd'.result = cmd.result
              /\ \/ cmd'.at = "resolve" /\ cmd.kind = "gen"
                 \/ cmd'.at = "analyze" /\ cmd.kind = "archive"
            BY <1>3, <1>4, <1>6 DEF BeginGen, BeginArchive
        <2>2. UNCHANGED <<request, spool, held, lacked>>
            BY <1>6, NoProbeKeeps DEF BeginGen, BeginArchive, requestVars
        <2>3. CommandInv' BY <1>1, <1>2, <2>1, <2>2 DEF AskInv, CommandInv, Probing, UserPoints
        <2>4. RequestInv' BY <1>5, <2>2 DEF RequestInv
        <2>5. HistoryInv' /\ ObservedInv' /\ AbsenceInv' /\ PresenceInv' /\ UserInv'
            BY <1>5, <2>1, <2>2 DEF HistoryInv, ObservedInv, AbsenceInv, PresenceInv, UserInv, Probing
        <2>6. AnswersAreProved' /\ UserIsOfTheImage'
            BY <1>5, <2>1, <2>2 DEF AnswersAreProved, OkMeansHeld, Unprobed, MissingWasLacked, UserIsOfTheImage, Running
        <2> QED BY <2>1, <2>2, <2>3, <2>4, <2>5, <2>6 DEF AskInv, HistoryOK
    <1>7. CASE BeginPull
        <2>1. PICK image \in Images :
                 /\ image.origin = "registry"
                 /\ \/ /\ Step("pull")
                       /\ request' = [NoRequest EXCEPT !.at = "pull", !.image = image]
                       /\ UNCHANGED <<lookVars, held, lacked>>
                    \/ /\ Step("probe")
                       /\ ProbeImage(image)
            BY <1>7 DEF BeginPull
        <2>2. cmd.kind = "pull" /\ spool' = spool BY <1>7 DEF BeginPull
        <2>3. CASE Step("probe") /\ ProbeImage(image)
            <3>1. /\ cmd' \in CommandType /\ cmd'.at = "probe" /\ cmd'.kind = cmd.kind /\ cmd'.user = cmd.user
                  /\ cmd'.result = cmd.result
                BY <1>3, <1>4, <2>3
            <3>2. /\ cmd'.at \in Probing /\ cmd'.at \notin UserPoints /\ cmd'.at # "user_again"
                BY <3>1 DEF Probing, UserPoints
            <3> QED BY <1>1, <1>2, <2>1, <2>2, <2>3, <3>1, <3>2, ProbeBegins
        <2>4. CASE /\ Step("pull") /\ request' = [NoRequest EXCEPT !.at = "pull", !.image = image]
                   /\ UNCHANGED <<lookVars, held, lacked>>
            <3>1. /\ cmd' \in CommandType /\ cmd'.at = "pull" /\ cmd'.kind = "pull" /\ cmd'.user = cmd.user
                  /\ cmd'.result = cmd.result
                BY <1>3, <1>4, <2>2, <2>4
            <3>2. request' \in RequestType
                <4>1. request \in RequestType BY DEF AskInv
                <4>2. request' = [request EXCEPT !.at = "pull", !.image = image] BY <1>1, <2>4
                <4> QED BY <4>1, <4>2 DEF RequestType, RequestPoints
            <3>3. request'.at = "pull" /\ request'.image = image /\ request'.answer = "none"
                BY <2>4 DEF NoRequest
            <3>4. CommandInv' BY <1>1, <3>1, <3>3 DEF AskInv, CommandInv, Probing, UserPoints
            <3>5. RequestInv' BY <2>1, <3>1, <3>3 DEF RequestInv
            <3>6. HistoryInv' /\ ObservedInv' /\ AbsenceInv' /\ PresenceInv' /\ UserInv'
                BY <3>1, <3>3 DEF HistoryInv, ObservedInv, AbsenceInv, PresenceInv, UserInv, Probing
            <3>7. AnswersAreProved' /\ UserIsOfTheImage'
                BY <3>1, <3>3 DEF AnswersAreProved, OkMeansHeld, Unprobed, MissingWasLacked, UserIsOfTheImage, Running
            <3> QED BY <2>2, <2>4, <3>1, <3>2, <3>4, <3>5, <3>6, <3>7 DEF AskInv, HistoryOK
        <2> QED BY <2>1, <2>3, <2>4
    <1>8. CASE BeginProve
        <2>1. PICK x \in Loadable : ProbeImage(ArchiveImage(x)) BY <1>8 DEF BeginProve
        <2>2. /\ ArchiveImage(x) \in Images /\ ArchiveImage(x).origin = "archive" BY ArchiveImageFacts
        <2>3. cmd.kind = "prove" /\ spool' = spool BY <1>8 DEF BeginProve
        <2>4. /\ cmd' \in CommandType /\ cmd'.at = "probe" /\ cmd'.kind = cmd.kind /\ cmd'.user = cmd.user
              /\ cmd'.result = cmd.result
            BY <1>3, <1>4, <1>8 DEF BeginProve
        <2>5. /\ cmd'.at \in Probing /\ cmd'.at \notin UserPoints /\ cmd'.at # "user_again"
            BY <2>4 DEF Probing, UserPoints
        <2> QED BY <1>1, <1>2, <2>1, <2>2, <2>3, <2>4, <2>5, ProbeBegins
    <1> QED BY <1>6, <1>7, <1>8

(* renderGen has an image.                                                   *)
LEMMA NeedsUserStep ==
    ASSUME cmd \in CommandType, NeedsUser
    PROVE  /\ cmd' \in CommandType /\ cmd'.at = "user_probe" /\ cmd'.kind = cmd.kind /\ cmd'.user = TRUE
           /\ cmd'.result = cmd.result
    BY DEF NeedsUser, CommandType, CommandPoints

LEMMA StepStep ==
    ASSUME cmd \in CommandType, NEW at \in CommandPoints, Step(at)
    PROVE  /\ cmd' \in CommandType /\ cmd'.at = at /\ cmd'.kind = cmd.kind /\ cmd'.user = cmd.user
           /\ cmd'.result = cmd.result
    BY DEF Step, CommandType

LEMMA GenResolvedStep ==
    ASSUME RuntimeOK, LookIInv, AskInv, GenResolved
    PROVE  AskInv'
    <1> DEFINE image == RegistryImage(ResolvedIdentity)
    <1>1. /\ cmd.at = "resolve" /\ request = NoRequest /\ cmd.kind = "gen" /\ ~cmd.user /\ cmd.result = "none"
        <2>1. cmd.at = "resolve" BY DEF GenResolved, Running
        <2> QED BY <2>1, CommandFields DEF AskInv, CommandInv, UserPoints
    <1>2. UNCHANGED <<runtime, names, loaded, records, content, moves>> BY CommandsKeep DEF Commands
    <1>3. /\ request.at = "idle" /\ request.answer = "none" /\ request.user = NoDigest BY <1>1 DEF NoRequest
    <1>4. look.result = "ok" => image \in Images /\ image.origin = "registry"
        BY ResolvedIsAnImage DEF GenResolved, Resolved, Succeeded
    <1>5. CASE NoProbe /\ \E r \in {"missing", "failed"} : Return(r)
        <2>1. PICK r \in {"missing", "failed"} : Return(r) BY <1>5
        <2>2. r \in {"ok", "missing", "failed"} /\ r # "ok" OBVIOUS
        <2> QED BY <1>2, <1>3, <1>5, <2>1, <2>2, NoProbeKeeps, ReturnStep
    <1>6. CASE look.result = "ok" /\ NeedsUser /\ ProbeImage(image) /\ UNCHANGED spool
        <2>1. /\ cmd' \in CommandType /\ cmd'.at = "user_probe" /\ cmd'.kind = cmd.kind /\ cmd'.user = TRUE
              /\ cmd'.result = "none"
            BY <1>1, <1>6, NeedsUserStep DEF AskInv
        <2>2. cmd'.at \in Probing /\ cmd'.at \in UserPoints /\ cmd'.at # "user_again"
            BY <2>1 DEF Probing, UserPoints
        <2> HIDE DEF image
        <2> QED BY <1>1, <1>2, <1>4, <1>6, <2>1, <2>2, ProbeBegins
    <1>7. CASE look.result = "ok" /\ Step("probe") /\ ProbeImage(image) /\ UNCHANGED spool
        <2>1. PICK p \in CommandPoints : p = "probe" BY DEF CommandPoints
        <2>2. /\ cmd' \in CommandType /\ cmd'.at = "probe" /\ cmd'.kind = cmd.kind /\ cmd'.user = cmd.user
              /\ cmd'.result = "none"
            BY <1>1, <1>7, <2>1, StepStep DEF AskInv
        <2>3. cmd'.at \in Probing /\ cmd'.at \notin UserPoints /\ cmd'.at # "user_again"
            BY <2>2 DEF Probing, UserPoints
        <2> HIDE DEF image
        <2> QED BY <1>1, <1>2, <1>4, <1>7, <2>2, <2>3, ProbeBegins
    <1>8. CASE /\ look.result = "ok" /\ runtime = "containerd" /\ Return("ok")
               /\ request' = [request EXCEPT !.image = image]
               /\ UNCHANGED <<lookVars, spool, held, lacked>>
        <2>1. cmd' = [cmd EXCEPT !.at = "returned", !.result = "ok"] BY <1>8 DEF Return
        <2>2. cmd' \in CommandType BY <2>1 DEF AskInv, CommandType, CommandPoints
        <2>3. cmd'.at = "returned" /\ cmd'.kind = "gen" /\ cmd'.user = cmd.user
            BY <1>1, <2>1 DEF AskInv, CommandType
        <2>4. request' \in RequestType BY <1>4, <1>8 DEF AskInv, RequestType
        <2>5. request'.at = "idle" /\ request'.answer = "none" BY <1>3, <1>8 DEF AskInv, RequestType
        <2>6. CommandInv' BY <1>1, <2>3, <2>5 DEF CommandInv, Probing, UserPoints
        <2>7. RequestInv' /\ AbsenceInv' /\ PresenceInv' BY <2>5 DEF RequestInv, AbsenceInv, PresenceInv
        <2>8. HistoryInv' /\ ObservedInv' /\ UserInv'
            BY <2>3, <2>5 DEF HistoryInv, ObservedInv, UserInv, Probing
        <2>9. AnswersAreProved' /\ UserIsOfTheImage'
            BY <1>1, <1>2, <1>8, <2>3, <2>5
            DEF AnswersAreProved, OkMeansHeld, Unprobed, MissingWasLacked, UserIsOfTheImage, Running
        <2> QED BY <1>8, <2>2, <2>4, <2>6, <2>7, <2>8, <2>9 DEF AskInv, HistoryOK
    <1> QED BY <1>5, <1>6, <1>7, <1>8 DEF GenResolved

(* What an observed image is held for, and the outcome it gives.              *)
LEMMA OutcomeFacts ==
    /\ Outcome \in {"ok", "missing", "failed"}
    /\ Outcome = "ok" => request.answer = "observed"
    BY DEF Outcome

LEMMA ProbedHeld ==
    ASSUME AskInv, request.at = "done", cmd.at \in Probing, request.answer = "observed"
    PROVE  held
    BY DEF AskInv, ObservedInv

LEMMA GenProbedStep ==
    ASSUME RuntimeOK, AskInv, GenProbed
    PROVE  AskInv'
    <1>1. cmd.at = "probe" /\ request.at = "done" /\ cmd.kind = "gen"
        BY DEF GenProbed, Probed, Running
    <1>2. ~cmd.user /\ cmd.result = "none" /\ cmd.at \in Probing
        BY <1>1, CommandFields DEF AskInv, CommandInv, UserPoints, Probing
    <1>3. UNCHANGED <<runtime, names, loaded, records, content, moves>> BY CommandsKeep DEF Commands
    <1>4. /\ request.image \in Images /\ request.image.origin = "registry"
        BY <1>1, RequestedImage DEF AskInv, RequestInv
    <1>5. CASE NeedsUser /\ ProbeImage(request.image) /\ UNCHANGED spool
        <2>1. /\ cmd' \in CommandType /\ cmd'.at = "user_probe" /\ cmd'.kind = cmd.kind /\ cmd'.user = TRUE
              /\ cmd'.result = "none"
            BY <1>2, <1>5, NeedsUserStep DEF AskInv
        <2>2. cmd'.at \in Probing /\ cmd'.at \in UserPoints /\ cmd'.at # "user_again"
            BY <2>1 DEF Probing, UserPoints
        <2> QED BY <1>1, <1>3, <1>4, <1>5, <2>1, <2>2, ProbeBegins
    <1>6. CASE Return(Outcome) /\ NoProbe
        <2>1. Outcome = "ok" => held BY <1>1, <1>2, OutcomeFacts, ProbedHeld
        <2>2. PICK r \in {"ok", "missing", "failed"} : r = Outcome BY OutcomeFacts
        <2> QED BY <1>1, <1>2, <1>3, <1>6, <2>1, <2>2, NoProbeKeeps, ReturnStep
    <1> QED BY <1>5, <1>6 DEF GenProbed

LEMMA UserProbedStep ==
    ASSUME AskInv, UserProbed
    PROVE  AskInv'
    <1>1. cmd.at = "user_probe" /\ request.at = "done" BY DEF UserProbed, Probed, Running
    <1>2. cmd.kind = "gen" /\ cmd.result = "none" BY <1>1, CommandFields DEF AskInv, CommandInv, UserPoints
    <1>3. UNCHANGED <<runtime, names, loaded, records, content, moves>> BY CommandsKeep DEF Commands
    <1>4. UNCHANGED <<look, spool, held, lacked>> BY DEF UserProbed, lookVars
    <1>5. CASE Return("failed") /\ UNCHANGED request
        <2>1. PICK r \in {"ok", "missing", "failed"} : r = "failed" OBVIOUS
        <2> QED BY <1>1, <1>3, <1>4, <1>5, <2>1, ReturnStep
    <1> DEFINE at == IF runtime = "containerd" THEN "layers" ELSE "save"
    <1>6. request.answer = "observed" => held BY <1>1, ProbedHeld DEF Probing
    <1>7. CASE /\ request.answer = "observed" /\ Step("user_save")
               /\ request' = [request EXCEPT !.at = at, !.answer = "none"]
        <2>1. PICK p \in CommandPoints : p = "user_save" BY DEF CommandPoints
        <2>2. /\ cmd' \in CommandType /\ cmd'.at = "user_save" /\ cmd'.kind = cmd.kind /\ cmd'.user = cmd.user
              /\ cmd'.result = cmd.result
            BY <1>7, <2>1, StepStep DEF AskInv
        <2>3. at \in {"layers", "save"} /\ (at = "layers" <=> runtime = "containerd") OBVIOUS
        <2> HIDE DEF at
        <2>4. request' \in RequestType BY <1>7, <2>3 DEF AskInv, RequestType, RequestPoints
        <2>5. request'.at = at /\ request'.answer = "none" /\ request'.image = request.image
            BY <1>7 DEF AskInv, RequestType
        <2>6. CommandInv' BY <1>2, <2>2, <2>3, <2>5 DEF AskInv, CommandInv, Probing, UserPoints
        <2>7. RequestInv' BY <1>1, <1>3, <2>2, <2>3, <2>5 DEF AskInv, RequestInv
        <2>8. HistoryInv'
            <3>1. /\ Holds(request.image)' <=> Holds(request.image)
                 /\ Lacks(request.image)' = Lacks(request.image)
                BY <1>3, <2>5, HoldsSame
            <3> QED BY <1>1, <1>4, <3>1 DEF AskInv, HistoryInv, Probing
        <2>9. ObservedInv' /\ AbsenceInv' /\ PresenceInv' /\ UserInv'
            BY <1>4, <1>7, <1>6, <2>2, <2>3, <2>5 DEF ObservedInv, AbsenceInv, PresenceInv, UserInv
        <2>10. AnswersAreProved' /\ UserIsOfTheImage'
            BY <2>2, <2>5 DEF AnswersAreProved, OkMeansHeld, Unprobed, MissingWasLacked, UserIsOfTheImage, Running
        <2> QED BY <1>4, <2>2, <2>4, <2>6, <2>7, <2>8, <2>9, <2>10 DEF AskInv, HistoryOK
    <1> QED BY <1>5, <1>7 DEF UserProbed

LEMMA UserSavedStep ==
    ASSUME RuntimeOK, AskInv, UserSaved
    PROVE  AskInv'
    <1>1. cmd.at = "user_save" /\ request.at = "done" BY DEF UserSaved, Probed, Running
    <1>2. cmd.kind = "gen" /\ cmd.result = "none" BY <1>1, CommandFields DEF AskInv, CommandInv, UserPoints
    <1>3. UNCHANGED <<runtime, names, loaded, records, content, moves>> BY CommandsKeep DEF Commands
    <1>4. request.answer = "observed" => request.user = request.image.config BY <1>1 DEF AskInv, UserInv
    <1>5. /\ request.image \in Images /\ request.image.origin = "registry"
        BY <1>1, RequestedImage DEF UserPoints
    <1>6. CASE Return("failed") /\ NoProbe
        <2>1. PICK r \in {"ok", "missing", "failed"} : r = "failed" OBVIOUS
        <2> QED BY <1>1, <1>3, <1>6, <2>1, NoProbeKeeps, ReturnStep
    <1>7. CASE request.answer = "observed" /\ runtime = "containerd" /\ Return("ok") /\ NoProbe
        <2>1. PICK r \in {"ok", "missing", "failed"} : r = "ok" OBVIOUS
        <2>2. held BY <1>1 DEF AskInv, ObservedInv
        <2> QED BY <1>1, <1>3, <1>4, <1>7, <2>1, <2>2, NoProbeKeeps, ReturnStep
    <1>8. CASE request.answer = "observed" /\ Step("user_again") /\ ProbeImage(request.image) /\ UNCHANGED spool
        <2>1. PICK p \in CommandPoints : p = "user_again" BY DEF CommandPoints
        <2>2. /\ cmd' \in CommandType /\ cmd'.at = "user_again" /\ cmd'.kind = cmd.kind /\ cmd'.user = cmd.user
              /\ cmd'.result = "none"
            BY <1>2, <1>8, <2>1, StepStep DEF AskInv
        <2>3. cmd'.at \in Probing /\ cmd'.at \in UserPoints BY <2>2 DEF Probing, UserPoints
        <2> QED BY <1>2, <1>3, <1>4, <1>5, <1>8, <2>2, <2>3, ProbeBegins
    <1> QED BY <1>6, <1>7, <1>8 DEF UserSaved

LEMMA UserProbedAgainStep ==
    ASSUME AskInv, UserProbedAgain
    PROVE  AskInv'
    <1>1. cmd.at = "user_again" /\ request.at = "done" /\ NoProbe BY DEF UserProbedAgain, Probed, Running
    <1>2. UNCHANGED <<runtime, names, loaded, records, content, moves>> BY CommandsKeep DEF Commands
    <1>3. cmd.at \in Probing /\ request.user = request.image.config BY <1>1 DEF AskInv, UserInv, Probing
    <1>4. PICK r \in {"ok", "missing", "failed"} : r = IF request.answer = "observed" THEN "ok" ELSE "failed"
        OBVIOUS
    <1>5. r = "ok" => held BY <1>1, <1>3, <1>4, ProbedHeld
    <1> QED BY <1>1, <1>2, <1>3, <1>4, <1>5, NoProbeKeeps, ReturnStep DEF UserProbedAgain

(* The pull effect is proved by a probe, whatever its stream said.             *)
LEMMA PullReturnedStep ==
    ASSUME RuntimeOK, AskInv, PullReturned
    PROVE  AskInv'
    <1>1. cmd.at = "pull" /\ request.at = "done" /\ spool' = spool /\ ProbeImage(request.image) /\ Step("probe")
        BY DEF PullReturned, Running
    <1>2. cmd.kind = "pull" /\ ~cmd.user /\ cmd.result = "none"
        BY <1>1, CommandFields DEF AskInv, CommandInv, UserPoints
    <1>3. UNCHANGED <<runtime, names, loaded, records, content, moves>> BY CommandsKeep DEF Commands
    <1>4. /\ request.image \in Images /\ request.image.origin = "registry"
        BY <1>1, <1>2, RequestedImage DEF AskInv, RequestInv
    <1>5. PICK p \in CommandPoints : p = "probe" BY DEF CommandPoints
    <1>6. /\ cmd' \in CommandType /\ cmd'.at = "probe" /\ cmd'.kind = cmd.kind /\ cmd'.user = cmd.user
          /\ cmd'.result = "none"
        BY <1>1, <1>2, <1>5, StepStep DEF AskInv
    <1>7. cmd'.at \in Probing /\ cmd'.at \notin UserPoints /\ cmd'.at # "user_again"
        BY <1>6 DEF Probing, UserPoints
    <1> QED BY <1>1, <1>2, <1>3, <1>4, <1>6, <1>7, ProbeBegins

LEMMA PullProbedStep ==
    ASSUME AskInv, PullProbed
    PROVE  AskInv'
    <1>1. cmd.at = "probe" /\ request.at = "done" /\ cmd.kind = "pull" BY DEF PullProbed, Probed, Running
    <1>2. ~cmd.user /\ cmd.result = "none" /\ cmd.at \in Probing
        BY <1>1, CommandFields DEF AskInv, CommandInv, UserPoints, Probing
    <1>3. UNCHANGED <<runtime, names, loaded, records, content, moves>> BY CommandsKeep DEF Commands
    <1>4. CASE Return(Outcome) /\ NoProbe
        <2>1. Outcome = "ok" => held BY <1>1, <1>2, OutcomeFacts, ProbedHeld
        <2>2. PICK r \in {"ok", "missing", "failed"} : r = Outcome BY OutcomeFacts
        <2> QED BY <1>1, <1>2, <1>3, <1>4, <2>1, <2>2, NoProbeKeeps, ReturnStep
    <1>5. CASE /\ Step("pull") /\ request' = [request EXCEPT !.at = "pull"]
               /\ UNCHANGED <<lookVars, spool, held, lacked>>
        <2>1. PICK p \in CommandPoints : p = "pull" BY DEF CommandPoints
        <2>2. /\ cmd' \in CommandType /\ cmd'.at = "pull" /\ cmd'.kind = "pull" /\ cmd'.user = cmd.user
              /\ cmd'.result = cmd.result
            BY <1>1, <1>5, <2>1, StepStep DEF AskInv
        <2>3. request' \in RequestType BY <1>5 DEF AskInv, RequestType, RequestPoints
        <2>4. request'.at = "pull" /\ request'.image = request.image /\ request'.answer = request.answer
            BY <1>5 DEF AskInv, RequestType
        <2>5. CommandInv' BY <1>2, <2>2, <2>4 DEF CommandInv, Probing, UserPoints
        <2>6. RequestInv' BY <1>1, <2>2, <2>4 DEF AskInv, RequestInv
        <2>7. HistoryInv' /\ ObservedInv' /\ AbsenceInv' /\ PresenceInv' /\ UserInv'
            BY <2>2, <2>4 DEF HistoryInv, ObservedInv, AbsenceInv, PresenceInv, UserInv, Probing
        <2>8. AnswersAreProved' /\ UserIsOfTheImage'
            BY <1>3, <1>5, <2>2, <2>4
            DEF AskInv, AnswersAreProved, OkMeansHeld, Unprobed, MissingWasLacked, UserIsOfTheImage, Running
        <2> QED BY <1>5, <2>2, <2>3, <2>5, <2>6, <2>7, <2>8 DEF AskInv, HistoryOK
    <1> QED BY <1>4, <1>5 DEF PullProbed

LEMMA ProvedStep ==
    ASSUME AskInv, Proved
    PROVE  AskInv'
    <1>1. cmd.at = "probe" /\ request.at = "done" /\ NoProbe /\ Return(Outcome)
        BY DEF Proved, Probed, Running
    <1>2. ~cmd.user /\ cmd.at \in Probing
        BY <1>1, CommandFields DEF AskInv, CommandInv, UserPoints, Probing
    <1>3. UNCHANGED <<runtime, names, loaded, records, content, moves>> BY CommandsKeep DEF Commands
    <1>4. Outcome = "ok" => held BY <1>1, <1>2, OutcomeFacts, ProbedHeld
    <1>5. PICK r \in {"ok", "missing", "failed"} : r = Outcome BY OutcomeFacts
    <1> QED BY <1>1, <1>2, <1>3, <1>4, <1>5, NoProbeKeeps, ReturnStep

LEMMA AnalyzedStep ==
    ASSUME AskInv, Analyzed
    PROVE  AskInv'
    <1>1. cmd.at = "analyze" /\ NoProbe BY DEF Analyzed, Running
    <1>2. request.at = "idle" /\ cmd.kind = "archive" /\ ~cmd.user
        BY <1>1, CommandFields DEF AskInv, CommandInv, NoRequest, UserPoints
    <1>3. UNCHANGED <<runtime, names, loaded, records, content, moves>> BY CommandsKeep DEF Commands
    <1>4. PICK r \in {"ok", "missing", "failed"} : r = IF job.result = "ok" THEN "ok" ELSE "failed"
        OBVIOUS
    <1> QED BY <1>1, <1>2, <1>3, <1>4, NoProbeKeeps, ReturnStep DEF Analyzed, Unprobed

LEMMA AskStep ==
    ASSUME RepositoryOK, LookIInv, RuntimeOK, AskInv, Next
    PROVE  AskInv'
    <1>1. CASE Commands
        BY <1>1, BeginSteps, GenResolvedStep, GenProbedStep, UserProbedStep, UserSavedStep, UserProbedAgainStep,
           PullReturnedStep, PullProbedStep, ProvedStep, AnalyzedStep DEF Commands
    <1>2. CASE BeginArchive BY <1>2, BeginSteps
    <1>3. CASE ResolverRuns BY <1>3, ResolverAsk
    <1>4. CASE AnalysisRuns
        BY <1>4, AnalysisFrame, OthersStep
            DEF registryVars, repositoryVars, lookVars, imageVars, runtimeVars, requestVars
    <1>5. CASE Requests /\ UNCHANGED cmd BY <1>5, RequestsStep
    <1>6. CASE TagMoves \/ StoreMoves \/ FileMoves \/ RuntimeMoves BY <1>6, WorldStep
    <1> QED BY <1>1, <1>2, <1>3, <1>4, <1>5, <1>6, NextCases

-----------------------------------------------------------------------------
(* The initial states.                                                       *)
LEMMA InitialRegistry ==
    ASSUME ImagesInit
    PROVE  RepositoryOK /\ LookIInv /\ Counters
    <1>1. RegistryInit BY DEF ImagesInit
    <1>2. RepositoryOK
        <2>1. PICK d \in Roots : records \in [{"pinned", "tagged"} -> {d, NoDigest}] BY <1>1 DEF RegistryInit
        <2>2. records \in [{"pinned", "tagged"} -> Roots \cup {NoDigest}] BY <2>1
        <2> QED BY <1>1, <2>2 DEF RegistryInit, RepositoryOK
    <1>3. look = NoLook /\ seen = {} BY <1>1 DEF RegistryInit
    <1>4. look \in LookType BY <1>3 DEF NoLook, LookType, LookPoints, Repositories
    <1>5. LookInv BY <1>3 DEF NoLook, LookInv, Succeeded, Referenced, HasManifest
    <1>6. Counters BY <1>1, BoundsAssumption DEF RegistryInit, Counters
    <1> QED BY <1>2, <1>3, <1>4, <1>5, <1>6 DEF LookIInv

LEMMA InitialArchive ==
    ASSUME ImagesInit
    PROVE  ArchiveIInv
    <1>1. ArchiveInit /\ moves = 0 BY DEF ImagesInit, RegistryInit
    <1>2. PICK x \in Archives : inodes = [n \in Inodes |-> [archive |-> x, changed |-> 0]]
        BY <1>1 DEF ArchiveInit
    <1>3. path = 1 /\ job = NoJob BY <1>1 DEF ArchiveInit
    <1>4. 1 \in Inodes /\ 0 \in 0..MaxMoves BY BoundsAssumption DEF Inodes
    <1>5. inodes \in [Inodes -> [archive : Archives, changed : 0..MaxMoves]] BY <1>2, <1>4
    <1>6. ArchiveTypeOK BY <1>3, <1>4, <1>5 DEF ArchiveTypeOK, NoJob, Identities
    <1>7. \A n \in Inodes : inodes[n].changed = 0 BY <1>2
    <1>8. JobInv BY <1>1, <1>3, <1>4, <1>7 DEF JobInv, NoJob, Current, Unwritten, Passed, Scanned, Decoded, Hashed,
                                               Described
    <1> QED BY <1>1, <1>4, <1>6, <1>8 DEF ArchiveIInv

LEMMA InitialRuntime ==
    ASSUME ImagesInit
    PROVE  RuntimeOK
    <1>1. RuntimeImagesInit BY DEF ImagesInit
    <1>2. NoNames \in [Tops -> Manifests \cup {NoDigest}] /\ \A d \in Tops : NoNames[d] = NoDigest
        BY DEF NoNames
    <1>3. names \in [Tops -> Manifests \cup {NoDigest}] /\ NamesInv
        <2>1. CASE names = NoNames BY <1>2, <2>1 DEF NamesInv
        <2>2. CASE \E d \in Roots : \E m \in ManifestsOf(d) : names = [NoNames EXCEPT ![d] = m]
            <3>1. PICK d \in Roots : \E m \in ManifestsOf(d) : names = [NoNames EXCEPT ![d] = m] BY <2>2
            <3>2. PICK m \in ManifestsOf(d) : names = [NoNames EXCEPT ![d] = m] BY <3>1
            <3>3. d \in Tops BY RootsAreTops
            <3>4. m \in Manifests \cup {NoDigest} /\ (Kind(d) = "manifest" => m \in {NoDigest, d})
                BY <3>3, ManifestsOfFacts
            <3> QED BY <1>2, <3>2, <3>3, <3>4 DEF NamesInv
        <2> QED BY <1>1, <2>1, <2>2 DEF RuntimeImagesInit
    <1> QED BY <1>1, <1>3 DEF RuntimeImagesInit, RuntimeOK

LEMMA InitialAsk ==
    ASSUME ImagesInit
    PROVE  AskInv
    <1>1. RuntimeImagesInit BY DEF ImagesInit
    <1>2. request = NoRequest /\ spool = FALSE /\ held = FALSE /\ lacked = {} BY <1>1 DEF RuntimeImagesInit
    <1>3. PICK k \in {"gen", "pull", "prove", "archive"} : cmd = [NoCommand EXCEPT !.kind = k] BY DEF ImagesInit
    <1>4. /\ cmd = [kind |-> k, at |-> "idle", user |-> FALSE, result |-> "none"] BY <1>3 DEF NoCommand
    <1>5. cmd \in CommandType BY <1>4 DEF CommandType, CommandPoints
    <1>6. request \in RequestType BY <1>2, NoImageFacts DEF NoRequest, RequestType, RequestPoints
    <1>7. cmd.at = "idle" /\ cmd.user = FALSE /\ cmd.result = "none" BY <1>4
    <1>8. request.at = "idle" /\ request.answer = "none" BY <1>2 DEF NoRequest
    <1>9. CommandInv
        <2>1. cmd.kind = "prove" => runtime # "containerd" BY DEF ImagesInit
        <2> QED BY <1>2, <1>7, <2>1 DEF CommandInv, Probing, UserPoints
    <1>10. RequestInv /\ HistoryInv /\ ObservedInv /\ AbsenceInv /\ PresenceInv /\ UserInv
        BY <1>7, <1>8 DEF RequestInv, HistoryInv, ObservedInv, AbsenceInv, PresenceInv, UserInv, Probing
    <1>11. AnswersAreProved /\ UserIsOfTheImage
        BY <1>7, <1>8 DEF AnswersAreProved, OkMeansHeld, Unprobed, MissingWasLacked, UserIsOfTheImage, Running
    <1> QED BY <1>2, <1>5, <1>6, <1>9, <1>10, <1>11 DEF AskInv, HistoryOK

-----------------------------------------------------------------------------
(* The invariant holds of every behaviour of the image commands: what the     *)
(* resolver, the archive analysis and the runtimes' probes hold between their   *)
(* requests survives every step of the command and of everybody else.          *)
THEOREM ImagesInvariant == ImagesSpec => []ImagesIInv
    <1>1. ImagesInit => ImagesIInv
        BY InitialRegistry, InitialArchive, InitialRuntime, InitialAsk, InvariantParts
    <1>2. ImagesIInv /\ [Next]_vars => ImagesIInv'
        <2> SUFFICES ASSUME ImagesIInv, [Next]_vars PROVE ImagesIInv' OBVIOUS
        <2>1. RepositoryOK /\ LookIInv /\ Counters /\ ArchiveIInv /\ RuntimeOK /\ AskInv BY InvariantParts
        <2>2. CASE Next
            <3>1. /\ RepositoryOK' /\ LookIInv' /\ Counters' /\ ArchiveIInv' /\ RuntimeOK' /\ AskInv'
                BY <2>1, <2>2, RepositoryStep, LookStep, CountersStep, AnalysisStep, RuntimeStep, AskStep
            <3>2. (RepositoryOK /\ LookIInv /\ Counters /\ ArchiveIInv /\ RuntimeOK /\ AskInv)' => ImagesIInv'
                BY InvariantParts, PTL
            <3> QED BY <3>1, <3>2
        <2>3. CASE UNCHANGED vars
            <3>1. UNCHANGED <<tag, records, content, look, seen, path, inodes, job, runtime, names, loaded, pulling,
                              puller, request, spool, held, lacked, cmd, moves, faults>>
                BY <2>3 DEF vars, registryVars, repositoryVars, lookVars, archiveVars, fileVars, imageVars,
                            runtimeVars, requestVars
            <3>2. RepositoryOK' /\ Counters' BY <2>1, <3>1 DEF RepositoryOK, Counters
            <3>3. moves \in Nat /\ moves \in 0..MaxMoves BY <2>1, BoundsAssumption DEF Counters
            <3>4. LookIInv' BY <2>1, <3>1, NoticeStep DEF LookIInv
            <3>5. ArchiveIInv' BY <2>1, <3>1, <3>3, OthersKeepTheAnalysis DEF archiveVars, fileVars
            <3>6. RuntimeOK' BY <2>1, <3>1, RuntimeKept DEF RuntimeOK
            <3>7. AskInv' BY <2>1, <3>1, OthersStep
            <3>8. (RepositoryOK /\ LookIInv /\ Counters /\ ArchiveIInv /\ RuntimeOK /\ AskInv)' => ImagesIInv'
                BY InvariantParts, PTL
            <3> QED BY <3>2, <3>4, <3>5, <3>6, <3>7, <3>8
        <2> QED BY <2>2, <2>3
    <1> QED BY <1>1, <1>2, PTL DEF ImagesSpec

(* ImagesInv, for every set of documents: an identity that Resolve or           *)
(* ResolveLocal returns is one image that its source named, however the tag and  *)
(* the records move between the requests; and every variable keeps its type.    *)
THEOREM ResolutionTheorem == ImagesSpec => []ImagesInv
    <1>1. ImagesIInv => ImagesInv
        BY InvariantParts, ResolutionIsOneImage DEF ImagesIInv, ImagesInv
    <1> QED BY <1>1, ImagesInvariant, PTL

(* AnalysisIsOneImage, for every set of archives and any number of writes and   *)
(* renames: what Analyze returns is of one content of the file, and the content  *)
(* reads one way.                                                            *)
THEOREM AnalysisTheorem == ImagesSpec => []AnalysisIsOneImage
    <1>1. ImagesIInv => AnalysisIsOneImage
        <2> SUFFICES ASSUME ImagesIInv, job.result = "ok"
                     PROVE  \E x \in Archives : job.parts = {x} /\ Cardinality(Readings(Archive[x])) = 1
            BY DEF AnalysisIsOneImage
        <2>1. PICK x \in Archives : job.parts = {x} /\ Accepts(Archive[x], Selector)
            BY DEF ImagesIInv, JobInv
        <2> QED BY <2>1, AcceptedReadsOneWay
    <1> QED BY <1>1, ImagesInvariant, PTL

(* AnswersAreProved, for Docker with either store, Podman and containerd and any *)
(* number of changes to them: a command that probes succeeds only with an image  *)
(* that the runtime held whole at one moment of the last probe, and a probe says  *)
(* missing only if each name of the image failed to lead to it at some moment.    *)
(* A gen on containerd that needs no user makes no probe: its answer is the       *)
(* resolution that ResolutionTheorem is about.                                  *)
THEOREM AnswersTheorem == ImagesSpec => []AnswersAreProved
    <1>1. ImagesIInv => AnswersAreProved BY DEF ImagesIInv
    <1> QED BY <1>1, ImagesInvariant, PTL

(* UserIsOfTheImage: the user that ResolveImageUser returns is the user in the   *)
(* config of the image asked for, however the name it is saved by moves.        *)
THEOREM UserTheorem == ImagesSpec => []UserIsOfTheImage
    <1>1. ImagesIInv => UserIsOfTheImage BY DEF ImagesIInv
    <1> QED BY <1>1, ImagesInvariant, PTL
=============================================================================
