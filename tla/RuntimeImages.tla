--------------------------- MODULE RuntimeImages ---------------------------
(***************************************************************************)
(* What the runtime plugins do to images: pull one, probe one, save one.    *)
(* Docker with its classic or its containerd image store, Podman, and       *)
(* containerd, whose probe is the local resolver of module Registry.        *)
(***************************************************************************)
EXTENDS ImageArchive

VARIABLES
    runtime,  \* the runtime of this installation
    names,    \* names[d]: the manifest of the image Docker or Podman holds under the digest d
    loaded,   \* the archive whose image Docker holds under the archive's tag
    pulling,  \* the pull the runtime carries out: "none", "running", "done" or "failed"
    puller,   \* the reference that pull is for
    request,  \* the plugin operation in progress
    spool,    \* the owner-private copy of a saved image is on disk
    held,     \* history: since the probe began the runtime held the image at some moment
    lacked    \* history: the names that did not lead to it at some moment since then

runtimeVars == <<runtime, names, loaded, pulling, puller>>
requestVars == <<request, spool, held, lacked>>
imageVars == <<runtimeVars, requestVars>>

RuntimeKinds == {"docker_classic", "docker_store", "podman", "containerd"}
Docker == {"docker_classic", "docker_store"}
NoArchive == "no_archive"
Loadable == {x \in Archives : Accepts(Archive[x], Selector)}
Manifests == {d \in Digests : Kind(d) = "manifest"}

(* A registry image is expected by its identity, an archive image by the     *)
(* archive it was analysed from.                                             *)
NoImage == [origin |-> "none", reference |-> NoDigest, manifest |-> NoDigest, config |-> NoDigest,
            archive |-> NoArchive]
RegistryImage(i) == [NoImage EXCEPT !.origin = "registry", !.reference = i.reference,
                                    !.manifest = i.manifest, !.config = i.config]
ArchiveImage(x) == [NoImage EXCEPT !.origin = "archive", !.archive = x]
Images == {NoImage} \cup {RegistryImage(i) : i \in UNION {IdentitiesOf(d) : d \in Roots}}
                    \cup {ArchiveImage(x) : x \in Loadable}

(* containerd knows an image by two names; Docker and Podman have the one    *)
(* digest, which stands for both.                                            *)
ImageNames == {"pinned", "tagged"}

NoRequest == [at |-> "idle", image |-> NoImage, first |-> NoArchive, saved |-> NoDigest,
              identity |-> FALSE, success |-> FALSE, answer |-> "none", applied |-> "none", user |-> NoDigest]

RuntimeImagesTypeOK ==
    /\ runtime \in RuntimeKinds
    /\ names \in [Tops -> Manifests \cup {NoDigest}]
    /\ loaded \in Loadable \cup {NoArchive}
    /\ pulling \in {"none", "running", "done", "failed"}
    /\ puller \in Roots \cup {NoDigest}
    /\ request \in [at : {"idle", "inspect", "resolve", "save", "saved", "again", "pull", "stream",
                          "layers", "done"},
                    image : Images, first : Archives \cup {NoArchive},
                    saved : Digests \cup Archives \cup {NoDigest},
                    identity : BOOLEAN, success : BOOLEAN,
                    answer : {"none", "observed", "missing", "unknown"},
                    applied : {"none", "ok", "failed"}, user : Digests \cup {NoDigest}]
    /\ spool \in BOOLEAN /\ held \in BOOLEAN /\ lacked \subseteq ImageNames

(* A runtime that holds nothing, or one image under one digest, of this      *)
(* platform or of another one.                                               *)
NoNames == [d \in Tops |-> NoDigest]
ManifestsOf(top) == IF Kind(top) = "manifest" THEN {top}
                    ELSE {e.digest : e \in ToSet(Document[top].entries)} \cap Manifests
RuntimeImagesInit ==
    /\ runtime \in RuntimeKinds
    /\ \/ names = NoNames
       \/ runtime # "containerd" /\ \E d \in Roots : \E m \in ManifestsOf(d) : names = [NoNames EXCEPT ![d] = m]
    /\ loaded \in IF runtime \in Docker THEN Loadable \cup {NoArchive} ELSE {NoArchive}
    /\ \/ pulling = "none" /\ puller = NoDigest
       \/ runtime # "containerd" /\ pulling = "running" /\ puller \in Roots
    /\ request = NoRequest
    /\ spool = FALSE /\ held = FALSE /\ lacked = {}

(* What the runtime holds, for the history: the image under a name of it,    *)
(* whole; and the names that do not lead to it.  A pinned record of another  *)
(* image hides the tagged one, which is looked up second.                    *)
GraphOf(i) == {i.reference, i.manifest, i.config} \cup ToSet(Document[i.manifest].layers)
HoldsAs(i, n) ==
    CASE i.origin = "archive" ->
            /\ loaded # NoArchive
            /\ ArchiveIdentity(Archive[loaded], Selector) = ArchiveIdentity(Archive[i.archive], Selector)
      [] i.origin = "registry" ->
            IF runtime = "containerd"
            THEN records[n] = i.reference /\ GraphOf(i) \subseteq content
            ELSE names[i.reference] = i.manifest
      [] i.origin = "none" -> FALSE
Hidden(i, n) == runtime = "containerd" /\ n = "tagged" /\ records["pinned"] \notin {NoDigest, i.reference}
Holds(i) == \E n \in ImageNames : HoldsAs(i, n)
Lacks(i) == {n \in ImageNames : ~HoldsAs(i, n) \/ Hidden(i, n)}
Witness ==
    /\ held' = (held \/ Holds(request.image)')
    /\ lacked' = lacked \cup Lacks(request.image)'

Answer(a) == request' = [request EXCEPT !.at = "done", !.answer = a]
RuntimeFrame == UNCHANGED <<registryVars, archiveVars, runtimeVars>>

-----------------------------------------------------------------------------
(* ProbeImage.                                                               *)

(* The probe of containerd resolves the pinned reference; the history of a   *)
(* probe starts with it.                                                     *)
ProbeImage(image) ==
    /\ request' = [request EXCEPT !.image = image, !.answer = "none", !.first = NoArchive,
                                  !.at = IF runtime = "containerd" THEN "resolve" ELSE "inspect"]
    /\ IF runtime = "containerd" THEN ResolveBegin("local", image.reference) ELSE look' = NoLook /\ seen' = {}
    /\ held' = Holds(image) /\ lacked' = Lacks(image)

(* The digests under which Podman lists an image.                            *)
RepoDigests(m) == {d \in Tops : names[d] = m}

(* decodeImage and podmanImageEvidence: the inspected image is the expected  *)
(* one.  The classic store tells no manifest, so it proves only a reference  *)
(* that is the manifest; Podman lists both digests and no third one.         *)
MatchesDocker(i) ==
    LET m == names[i.reference] IN
    IF runtime = "docker_classic"
    THEN Document[m].config = i.config /\ i.reference = i.manifest
    ELSE m = i.manifest
MatchesPodman(i) ==
    LET m == names[i.reference] IN
    /\ Document[m].config = i.config
    /\ RepoDigests(m) = {i.reference, i.manifest}
MatchesInspect(i) == IF runtime = "podman" THEN MatchesPodman(i) ELSE MatchesDocker(i)

(* probeRegistryImage: one request; only a well-formed 404 means missing.    *)
FailedIsMissing == "missing" \* Mutant: no answer is taken for no image
FailedProbe == "unknown"
InspectRegistryImage ==
    LET i == request.image IN
    /\ request.at = "inspect" /\ i.origin = "registry"
    /\ \/ /\ Routine
          /\ Answer(CASE names[i.reference] = NoDigest -> "missing"
                      [] names[i.reference] # NoDigest /\ MatchesInspect(i) -> "observed"
                      [] OTHER -> "unknown")
       \/ Fault /\ Answer(FailedProbe)
    /\ UNCHANGED <<spool, held, lacked>>
    /\ RuntimeFrame

(* archiveImageInspectSnapshot: the tag's image, which only the classic      *)
(* store names by the expected config.                                       *)
InspectsAs(x) ==
    /\ x # NoArchive
    /\ runtime = "docker_classic" =>
          ArchiveIdentity(Archive[x], Selector).config =
          ArchiveIdentity(Archive[request.image.archive], Selector).config

(* probeArchiveImage: inspect, save, inspect again.  Podman has no archives. *)
InspectArchiveImage ==
    /\ request.at = "inspect" /\ request.image.origin = "archive"
    /\ \/ /\ Routine
          /\ CASE runtime = "podman" -> Answer("unknown")
               [] runtime # "podman" /\ loaded = NoArchive -> Answer("missing")
               [] runtime # "podman" /\ InspectsAs(loaded) ->
                     request' = [request EXCEPT !.at = "save", !.first = loaded]
               [] OTHER -> Answer("unknown")
       \/ Fault /\ Answer("unknown")
    /\ UNCHANGED <<spool, held, lacked>>
    /\ RuntimeFrame

(* archiveImageSnapshot: the image ID, which in the classic store is the     *)
(* config and in the containerd store the manifest, and the manifest there.  *)
Snapshot(x) ==
    LET i == ArchiveIdentity(Archive[x], Selector) IN
    IF runtime = "docker_classic" THEN <<i.config>> ELSE i.manifest
InspectAgain ==
    /\ request.at = "again"
    /\ \/ /\ Routine
          /\ Answer(IF InspectsAs(loaded) /\ Snapshot(loaded) = Snapshot(request.first)
                    THEN "observed" ELSE "unknown")
       \/ Fault /\ Answer("unknown")
    /\ UNCHANGED <<spool, held, lacked>>
    /\ RuntimeFrame

(* containerd's ProbeImage: what the local resolver found.                   *)
ProbeResolved ==
    /\ request.at = "resolve" /\ Resolved
    /\ Answer(CASE look.result = "not_found" -> "missing"
                [] look.result = "ok" /\ RegistryImage(ResolvedIdentity) = request.image -> "observed"
                [] OTHER -> "unknown")
    /\ look' = NoLook /\ seen' = {}
    /\ Routine
    /\ UNCHANGED <<repositoryVars, archiveVars, runtimeVars, spool, held, lacked>>

-----------------------------------------------------------------------------
(* The saved image: a stream into an owner-private spool, analysed there.    *)

(* saveArchiveImage by the tag, ResolveImageUser by the digest reference     *)
(* (Docker) or by the config (Podman).                                       *)
Savable ==
    LET i == request.image IN
    CASE i.origin = "archive" -> {loaded} \ {NoArchive}
      [] i.origin = "registry" /\ runtime = "podman" ->
            {i.config} \cap {Document[m].config : m \in {names[d] : d \in Tops} \ {NoDigest}}
      [] OTHER -> {Document[m].config : m \in {names[i.reference]} \ {NoDigest}}
SaveImage ==
    /\ request.at = "save"
    /\ \/ /\ \E x \in Savable : request' = [request EXCEPT !.at = "saved", !.saved = x]
          /\ spool' = TRUE /\ Routine
       \/ /\ Savable = {} /\ Answer("unknown") /\ Routine /\ UNCHANGED spool
       \/ /\ Fault /\ Answer("unknown") /\ UNCHANGED spool
    /\ UNCHANGED <<held, lacked>>
    /\ RuntimeFrame

(* The archive Docker writes of the image that an archive brought in.        *)
Exported(x) == [Archive[x] EXCEPT !.entries = <<Entry(Archive[x], Selector)>>]

(* savedArchiveMatches and savedRegistryArchiveMatches.                      *)
SavedAnything == TRUE \* Mutant: any well-formed archive will do
SavedRegistryMatches == request.saved = request.image.config
SavedMatches ==
    IF request.image.origin = "archive"
    THEN /\ AcceptsSaved(Exported(request.saved))
         /\ ArchiveIdentity(Exported(request.saved), First) =
            ArchiveIdentity(Archive[request.image.archive], Selector)
    ELSE SavedRegistryMatches

(* AnalyzeStreamVisit: the spool is analysed, visited and removed, on every  *)
(* return.  A cut stream does not pass the analysis.                         *)
SpoolKept == ~SavedMatches \* Mutant: an early return keeps the spool
RemoveSpool == FALSE
AnalyzeSaved ==
    /\ request.at = "saved"
    /\ \/ /\ Routine
          /\ IF ~SavedMatches THEN Answer("unknown")
             ELSE request' = [request EXCEPT !.at = IF request.image.origin = "archive" THEN "again" ELSE "done",
                                             !.answer = "observed",
                                             !.user = IF request.image.origin = "archive" THEN NoDigest
                                                      ELSE request.saved]
       \/ Fault /\ Answer("unknown")
    /\ spool' = RemoveSpool
    /\ UNCHANGED <<held, lacked>>
    /\ RuntimeFrame

(* containerd's imageUserLayers and ResolveCompressedUser: the manifest and  *)
(* the layers, read again by digest.                                         *)
ReadUserLayers ==
    LET i == request.image IN
    /\ request.at = "layers"
    /\ \/ /\ Routine
          /\ IF {i.manifest} \cup ToSet(Document[i.manifest].layers) \subseteq content
             THEN request' = [request EXCEPT !.at = "done", !.answer = "observed",
                                             !.user = Document[i.manifest].config]
             ELSE Answer("unknown")
       \/ Fault /\ Answer("unknown")
    /\ UNCHANGED <<spool, held, lacked>>
    /\ RuntimeFrame

-----------------------------------------------------------------------------
(* PullImage.                                                                *)

Applied(r) == [request EXCEPT !.at = "done", !.applied = r]
PullFrame == UNCHANGED <<registryVars, archiveVars, runtime, names, loaded, spool, held, lacked>>

(* The request: credentials may fail before it, its answer may be lost after *)
(* the runtime took it.  containerd's API has no pull.  A pull whose client  *)
(* has gone gives way to the next one.                                       *)
PullImage ==
    /\ request.at = "pull"
    /\ \/ /\ runtime = "containerd"
          /\ request' = Applied("failed") /\ Routine /\ UNCHANGED <<pulling, puller>>
       \/ /\ runtime # "containerd"
          /\ pulling' = "running" /\ puller' = request.image.reference
          /\ \/ request' = [request EXCEPT !.at = "stream", !.identity = FALSE, !.success = FALSE] /\ Routine
             \/ request' = Applied("failed") /\ Fault
       \/ /\ runtime # "containerd"
          /\ request' = Applied("failed") /\ Fault /\ UNCHANGED <<pulling, puller>>
    /\ PullFrame

(* applyPodmanPullMessage: the frames Libpod sends once the image is there.  *)
PullFrameArrives ==
    /\ request.at = "stream" /\ pulling = "done"
    /\ \/ ~request.identity /\ request' = [request EXCEPT !.identity = TRUE]
       \/ ~request.success /\ request' = [request EXCEPT !.success = TRUE]
    /\ Routine
    /\ UNCHANGED <<pulling, puller>>
    /\ PullFrame

(* decodeImagePullStream and decodePodmanPullStream: an error frame, the end *)
(* of the stream, or a frame that is malformed, cut or beyond the limits.    *)
(* An end at a frame boundary is a clean one whatever came before it; Podman *)
(* asks for the image ID and, from 6.1, for the success status.              *)
CleanEnd(legacy) == runtime = "podman" => request.identity /\ (legacy \/ request.success)
PullStreamEnds ==
    /\ request.at = "stream"
    /\ \/ pulling = "failed" /\ request' = Applied("failed") /\ Routine
       \/ /\ pulling # "running"
          /\ \E legacy \in BOOLEAN : request' = Applied(IF CleanEnd(legacy) THEN "ok" ELSE "failed")
          /\ Routine
       \/ /\ Fault
          /\ \E legacy \in BOOLEAN, cut \in BOOLEAN :
                request' = Applied(IF ~cut /\ CleanEnd(legacy) THEN "ok" ELSE "failed")
    /\ UNCHANGED <<pulling, puller>>
    /\ PullFrame

(* The ten minutes of maximumImagePullDuration are over.                     *)
NoDeadline == FALSE \* Mutant: the pull has no time limit
PullDeadline ==
    /\ request.at = "stream"
    /\ request' = Applied("failed")
    /\ Routine
    /\ UNCHANGED <<pulling, puller>>
    /\ PullFrame

-----------------------------------------------------------------------------
(* The runtime and the people who use it.                                    *)

(* A pull finishes, also after its client has gone; Podman records the       *)
(* manifest's digest beside the reference.                                   *)
RuntimePulls ==
    /\ pulling = "running"
    /\ \/ /\ \E i \in IdentitiesOf(puller) :
                names' = [d \in Tops |-> IF d = puller \/ (runtime = "podman" /\ d = i.manifest)
                                         THEN i.manifest ELSE names[d]]
          /\ pulling' = "done" /\ Routine
       \/ pulling' = "failed" /\ UNCHANGED names /\ Fault
    /\ UNCHANGED <<registryVars, archiveVars, runtime, loaded, puller, request, spool>>
    /\ Witness

(* Somebody removes an image, or pulls another platform of an index.  Only   *)
(* Podman's answer depends on more than the digest asked for.                *)
MoveImage ==
    /\ runtime # "containerd"
    /\ Move
    /\ \E d \in IF runtime = "podman" THEN Roots ELSE {request.image.reference} :
       \E m \in ManifestsOf(d) \cup {NoDigest} :
          m # names[d] /\ names' = [names EXCEPT ![d] = m]
    /\ UNCHANGED <<registryVars, archiveVars, runtime, loaded, pulling, puller, request, spool>>
    /\ Witness

(* Somebody loads another archive under the tag, or removes it.              *)
MoveLoaded ==
    /\ runtime \in Docker
    /\ Move
    /\ \E x \in Loadable \cup {NoArchive} : x # loaded /\ loaded' = x
    /\ UNCHANGED <<registryVars, archiveVars, runtime, names, pulling, puller, request, spool>>
    /\ Witness
=============================================================================
