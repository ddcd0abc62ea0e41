------------------------------ MODULE Registry ------------------------------
(***************************************************************************)
(* The image resolver: one tag or pinned reference becomes the identity of  *)
(* one image for one platform, read document by document from a registry or *)
(* from containerd's content store while others move the tag and remove     *)
(* content.                                                                 *)
(*                                                                         *)
(* Content is addressed by digest, so a digest stands for the bytes it is   *)
(* the hash of, and Document[d] is what those bytes say.                    *)
(***************************************************************************)
EXTENDS Naturals, Sequences, FiniteSets, SequencesExt

CONSTANTS
    Digests,    \* the digests of every document and layer
    Document,   \* Document[d]: the index, manifest, config or layer with digest d
    Platform,   \* the platform asked for
    Roots,      \* the digests that tags, image records and references name
    MaxMoves,   \* bound on what others do to tags, images, content and files
    MaxFaults   \* bound on failed and falsified answers

NoDigest == "no_digest"

Kind(d) == Document[d].kind
Tops == {d \in Digests : Kind(d) \in {"index", "manifest"}}

ASSUME DigestsAssumption  == NoDigest \notin Digests /\ DOMAIN Document = Digests
ASSUME DocumentAssumption ==
    \A d \in Digests :
        \/ /\ Kind(d) = "index"
           /\ IsFiniteSet(DOMAIN Document[d].entries)
           /\ \A e \in ToSet(Document[d].entries) : e.digest \in Digests /\ e.image \in BOOLEAN
        \/ /\ Kind(d) = "manifest"
           /\ Document[d].config \in Digests
           /\ Document[d].layers \in Seq(Digests)
        \/ Kind(d) = "config" /\ Document[d].diffs \in Seq(Digests)
        \/ Kind(d) = "layer"
ASSUME RootsAssumption == Roots # {} /\ Roots \subseteq Tops
ASSUME BoundsAssumption == MaxMoves \in Nat /\ MaxFaults \in Nat

VARIABLES
    tag,       \* the digest the registry's tag names
    records,   \* containerd's image records: the pinned name and the tagged name
    content,   \* the digests containerd's content store holds
    look,      \* the resolution in progress
    seen,      \* history: every digest the source named since the resolution began
    moves, faults

lookVars == <<look, seen>>
repositoryVars == <<tag, records, content>>
registryVars == <<repositoryVars, lookVars>>

Repositories == {"registry", "local"}
Failures == {"not_found", "platform", "protocol", "rate_limited", "unauthorized",
             "unavailable", "cancelled"}

NoLook == [at |-> "idle", repository |-> "registry", source |-> NoDigest, top |-> NoDigest,
           manifest |-> NoDigest, layer |-> 1, result |-> "none", config |-> NoDigest]

RegistryTypeOK ==
    /\ tag \in Roots
    /\ records \in [{"pinned", "tagged"} -> Roots \cup {NoDigest}]
    /\ content \subseteq Digests
    /\ look \in [at : {"idle", "credential", "pinned", "tagged", "top", "manifest", "layers",
                       "config", "done"},
                 repository : Repositories, source : Roots \cup {NoDigest},
                 top : Digests \cup {NoDigest}, manifest : Digests \cup {NoDigest}, layer : Nat,
                 result : Failures \cup {"none", "ok"}, config : Digests \cup {NoDigest}]
    /\ seen \subseteq Digests
    /\ moves \in 0..MaxMoves
    /\ faults \in 0..MaxFaults

RegistryInit ==
    /\ tag \in Roots
    /\ \E d \in Roots : records \in [{"pinned", "tagged"} -> {d, NoDigest}]
    /\ content = Digests
    /\ look = NoLook
    /\ seen = {}
    /\ moves = 0 /\ faults = 0

Move    == moves < MaxMoves /\ moves' = moves + 1 /\ UNCHANGED faults
Fault   == faults < MaxFaults /\ faults' = faults + 1 /\ UNCHANGED moves
Routine == UNCHANGED <<moves, faults>>

-----------------------------------------------------------------------------
(* What the documents say.                                                   *)

(* An identity: the pinned top digest, the platform's manifest, its config.  *)
Identity(top, manifest) ==
    [reference |-> top, manifest |-> manifest, config |-> Document[manifest].config]

(* selectPlatform: of the entries that are image manifests, the only one     *)
(* for exactly this platform.                                                *)
PlatformEntries(top) ==
    {i \in DOMAIN Document[top].entries :
        Document[top].entries[i].image /\ Document[top].entries[i].platform = Platform}

(* resolveImageConfig: the config decodes, has one diff ID per layer and is  *)
(* for the platform.                                                         *)
ConfigResult(top, manifest, config) ==
    IF Kind(config) # "config" \/ Len(Document[config].diffs) # Len(Document[manifest].layers)
    THEN "protocol"
    ELSE IF Document[config].platform = Platform THEN "ok"
    ELSE IF top = manifest THEN "platform" ELSE "protocol"

(* The images a reference to `top` may denote on this platform.              *)
IdentitiesOf(top) ==
    {Identity(top, m) : m \in {d \in Digests :
        /\ Kind(d) = "manifest"
        /\ \/ Kind(top) = "manifest" /\ d = top
           \/ /\ Kind(top) = "index"
              /\ \E i \in PlatformEntries(top) :
                    PlatformEntries(top) = {i} /\ d = Document[top].entries[i].digest
        /\ ConfigResult(top, d, Document[d].config) = "ok"}}

-----------------------------------------------------------------------------
(* The resolver.                                                             *)

(* What the source names now: a pinned reference is fetched by its digest    *)
(* from a registry, and looked up by name in containerd.                     *)
Named(l) ==
    IF l.repository = "registry" THEN IF l.source = NoDigest THEN tag ELSE l.source
    ELSE IF l.source # NoDigest /\ records["pinned"] # NoDigest THEN records["pinned"]
    ELSE records["tagged"]

Finish(result) == look' = [look EXCEPT !.at = "done", !.result = result]
At(step) == look' = [look EXCEPT !.at = step]
Resolving(step) == look.at = step

(* classifyRemoteError and classifyRPCError: how any request can fail.       *)
(* containerd says not found only of what it does not hold.                  *)
AnyFailure == Fault /\ \E e \in Failures \ {"platform"} : Finish(e) \* Mutant: no answer is taken for no image
RequestFails ==
    /\ Fault
    /\ \E e \in Failures \ {"platform"} :
          (e = "not_found" => look.repository = "registry") /\ Finish(e)

(* readVerified: the bytes that arrive have the size and the digest of the   *)
(* descriptor; a registry or a proxy may answer with others.  containerd's   *)
(* store checks Info and then hashes the chunks it streams.                  *)
Fetched(d) == IF look.repository = "local" /\ d \notin content THEN "not_found" ELSE "ok"
Fetch(d, next) ==
    \/ /\ Fetched(d) = "ok" /\ Routine /\ next
    \/ /\ Fetched(d) # "ok" /\ Routine /\ Finish(Fetched(d))
    \/ RequestFails

(* Resolve and ResolveLocal.                                                 *)
ResolveBegin(repository, source) ==
    /\ look' = [NoLook EXCEPT !.repository = repository, !.source = source,
                              !.at = IF repository = "registry" THEN "credential"
                                     ELSE IF source = NoDigest THEN "tagged" ELSE "pinned"]
    /\ seen' = {}

(* dockerCredentialProvider: Docker's config, which may route to a helper,   *)
(* be unreadable or hold an oversized value; resolver.credential reduces     *)
(* what went wrong.                                                          *)
CredentialErrors == {"unavailable", "cancelled"}
Credential ==
    /\ Resolving("credential")
    /\ \/ At("top") /\ Routine
       \/ Fault /\ \E e \in CredentialErrors : Finish(e)
    /\ seen' = seen \cup {Named(look)}
    /\ UNCHANGED repositoryVars

(* localImageRecord: the pinned name, and only when it is not found the      *)
(* tagged one.                                                               *)
LocalRecord(name) ==
    /\ Resolving(name)
    /\ \/ /\ records[name] # NoDigest
          /\ look' = [look EXCEPT !.at = "top", !.top = records[name]] /\ Routine
       \/ /\ records[name] = NoDigest
          /\ IF name = "pinned" THEN At("tagged") ELSE Finish("not_found")
          /\ Routine
       \/ RequestFails
    /\ seen' = seen \cup ({records[name]} \ {NoDigest})
    /\ UNCHANGED repositoryVars

(* fetchReferenceManifest, decodeManifest and source.Pin: the tag is read    *)
(* once, and everything after it by digest.                                  *)
Top == IF look.repository = "local" THEN look.top ELSE Named(look)
FetchReference ==
    /\ Resolving("top")
    /\ Fetch(Top, IF Kind(Top) \notin {"index", "manifest"} \/ look.source \notin {NoDigest, Top}
                  THEN Finish("protocol")
                  ELSE look' = [look EXCEPT !.at = "manifest", !.top = Top])
    /\ seen' = (seen \cup {Named(look)}) \ {NoDigest}
    /\ UNCHANGED repositoryVars

(* manifestForPlatform: a top that is a manifest is the answer, the entry of *)
(* an index is fetched.                                                      *)
Selectable(top) == Kind(top) = "manifest" \/ Cardinality(PlatformEntries(top)) = 1
ChosenEntry(top) == Document[top].entries[CHOOSE i \in PlatformEntries(top) : TRUE]
SelectedByTag(top) == \* Mutant: the tag is read again
    LET now == IF look.repository = "registry" /\ Selectable(Named(look)) THEN Named(look) ELSE top
    IN  IF Kind(now) = "manifest" THEN now ELSE ChosenEntry(now).digest
Selected(top) == IF Kind(top) = "manifest" THEN top ELSE ChosenEntry(top).digest
FetchManifest ==
    /\ Resolving("manifest")
    /\ IF ~Selectable(look.top)
       THEN /\ Finish(IF PlatformEntries(look.top) = {} THEN "platform" ELSE "protocol")
            /\ Routine
       ELSE LET m == Selected(look.top)
                next == IF Kind(m) # "manifest" THEN Finish("protocol")
                        ELSE look' = [look EXCEPT !.at = "layers", !.manifest = m]
            IN  IF Kind(look.top) = "manifest" THEN Routine /\ next ELSE Fetch(m, next)
    /\ seen' = seen
    /\ UNCHANGED repositoryVars

(* verifyLocalLayers: every layer of a local image, hashed one by one.       *)
VerifyLayers ==
    /\ Resolving("layers")
    /\ LET layers == Document[look.manifest].layers IN
       IF look.repository = "registry" \/ look.layer > Len(layers)
       THEN At("config") /\ Routine
       ELSE Fetch(layers[look.layer], look' = [look EXCEPT !.layer = @ + 1])
    /\ seen' = seen
    /\ UNCHANGED repositoryVars

(* readConfig and resolveImageConfig.                                        *)
ReadConfig ==
    /\ Resolving("config")
    /\ LET c == Document[look.manifest].config IN
       Fetch(c, LET r == ConfigResult(look.top, look.manifest, c) IN
                IF r = "ok" THEN look' = [look EXCEPT !.at = "done", !.result = "ok", !.config = c]
                ELSE Finish(r))
    /\ seen' = seen
    /\ UNCHANGED repositoryVars

ResolverStep ==
    \/ Credential
    \/ LocalRecord("pinned") \/ LocalRecord("tagged")
    \/ FetchReference \/ FetchManifest \/ VerifyLayers \/ ReadConfig

Resolved == look.at = "done"
ResolvedIdentity == [reference |-> look.top, manifest |-> look.manifest, config |-> look.config]

-----------------------------------------------------------------------------
(* Other people: a tag is pushed over, an image record is moved or removed,  *)
(* garbage collection takes a blob.  Taking one earlier than just before it  *)
(* is read makes no difference, nor does one that is back by then; content   *)
(* that comes while the resolution runs is left out.                         *)
Notice ==
    seen' = IF look.at \in {"idle", "done"} THEN seen ELSE (seen \cup {Named(look)'}) \ {NoDigest}
MoveTag ==
    /\ Move
    /\ tag' \in Roots \ {tag}
    /\ UNCHANGED <<records, content, look>>
    /\ Notice

MoveRecord ==
    /\ Move
    /\ \E n \in {"pinned", "tagged"}, d \in Roots \cup {NoDigest} :
          d # records[n] /\ records' = [records EXCEPT ![n] = d]
    /\ UNCHANGED <<tag, content, look>>
    /\ Notice

ReadNext ==
    CASE look.at = "top" -> {Top}
      [] look.at = "manifest" /\ Kind(look.top) = "index" /\ Selectable(look.top) -> {Selected(look.top)}
      [] look.at = "layers" -> ToSet(Document[look.manifest].layers)
      [] look.at = "config" -> {Document[look.manifest].config}
      [] OTHER -> {}
MoveContent(reads) ==
    /\ Move
    /\ \E d \in content \cap reads : content' = content \ {d}
    /\ UNCHANGED <<tag, records, look, seen>>

=============================================================================
