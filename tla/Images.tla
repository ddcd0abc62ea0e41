------------------------------- MODULE Images -------------------------------
(***************************************************************************)
(* The commands that depend on images: `maniud gen` resolves one and proves *)
(* that the runtime holds it, an apply pulls one or proves an archive's      *)
(* image, `maniud gen docker-archive:` analyses a file.                      *)
(***************************************************************************)
EXTENDS RuntimeImages

VARIABLE cmd   \* the command that runs

vars == <<registryVars, archiveVars, imageVars, cmd, moves, faults>>

NoCommand == [kind |-> "none", at |-> "idle", user |-> FALSE, result |-> "none"]

ImagesTypeOK ==
    /\ RegistryTypeOK /\ ArchiveTypeOK /\ RuntimeImagesTypeOK
    /\ cmd \in [kind : {"none", "gen", "pull", "prove", "archive"},
                at : {"idle", "resolve", "probe", "user_probe", "user_save", "user_again", "pull",
                      "analyze", "returned"},
                user : BOOLEAN, result : {"none", "ok", "missing", "failed"}]

(* One command, with the repository, the runtime or the file it looks at in  *)
(* any state others left it in.                                              *)
ImagesInit ==
    /\ RegistryInit /\ ArchiveInit /\ RuntimeImagesInit
    /\ \E k \in {"gen", "pull", "prove", "archive"} : cmd = [NoCommand EXCEPT !.kind = k]
    /\ (cmd.kind # "gen" \/ runtime = "containerd") => tag = CHOOSE d \in Roots : TRUE
    /\ (cmd.kind \notin {"gen", "pull"} \/ runtime # "containerd") =>
          records = [n \in {"pinned", "tagged"} |-> NoDigest]
    /\ cmd.kind \notin {"gen", "pull"} => names = NoNames
    /\ cmd.kind # "prove" => loaded = NoArchive
    /\ cmd.kind # "pull" => pulling = "none"
    /\ cmd.kind = "prove" => runtime # "containerd"
    /\ IF cmd.kind = "archive" THEN runtime = "docker_store"
       ELSE inodes[1].archive = CHOOSE x \in Archives : TRUE

Step(at) == cmd' = [cmd EXCEPT !.at = at]
Return(result) == cmd' = [cmd EXCEPT !.at = "returned", !.result = result]
Running(at) == cmd.at = at
WorldFrame == UNCHANGED <<repositoryVars, fileVars, runtimeVars, moves, faults>>
NoProbe == UNCHANGED <<lookVars, requestVars>>

-----------------------------------------------------------------------------
(* renderGen.                                                                *)

(* A tag or a pinned reference.                                              *)
BeginGen ==
    /\ Running("idle") /\ cmd.kind = "gen"
    /\ \E source \in Roots \cup {NoDigest} :
          ResolveBegin(IF runtime = "containerd" THEN "local" ELSE "registry", source)
    /\ Step("resolve")
    /\ UNCHANGED <<job, requestVars>>
    /\ WorldFrame

(* Generated binds may need the image's user.                                *)
NeedsUser == cmd' = [cmd EXCEPT !.at = "user_probe", !.user = TRUE]

(* resolveGeneratedContainerdImage and resolveGeneratedClientImage: a local  *)
(* image is proved by its resolution, a registry image by a probe.           *)
GenResolved ==
    /\ Running("resolve") /\ Resolved
    /\ LET image == RegistryImage(ResolvedIdentity) IN
       \/ /\ look.result # "ok"
          /\ Return(IF runtime = "containerd" /\ look.result = "not_found" THEN "missing" ELSE "failed")
          /\ NoProbe
       \/ /\ look.result = "ok" /\ runtime = "containerd"
          /\ \/ NeedsUser /\ ProbeImage(image) /\ UNCHANGED spool
             \/ /\ Return("ok")
                /\ request' = [request EXCEPT !.image = image]
                /\ UNCHANGED <<lookVars, spool, held, lacked>>
       \/ /\ look.result = "ok" /\ runtime # "containerd"
          /\ Step("probe") /\ ProbeImage(image) /\ UNCHANGED spool
    /\ UNCHANGED job
    /\ WorldFrame

(* The switch on the probe's state that gen, the pull effect and             *)
(* proveArchiveImage share.                                                  *)
Outcome == CASE request.answer = "observed" -> "ok"
             [] request.answer = "missing" -> "missing"
             [] OTHER -> "failed"
Probed(at) == Running(at) /\ request.at = "done"

GenProbed ==
    /\ Probed("probe") /\ cmd.kind = "gen"
    /\ \/ request.answer = "observed" /\ NeedsUser /\ ProbeImage(request.image) /\ UNCHANGED spool
       \/ Return(Outcome) /\ NoProbe
    /\ UNCHANGED job
    /\ WorldFrame

(* ResolveImageUser: a probe, the saved image (Docker, Podman) or the layers *)
(* (containerd), and for the former a second probe.                          *)
UserProbed ==
    /\ Probed("user_probe")
    /\ IF request.answer = "observed"
       THEN /\ Step("user_save")
            /\ request' = [request EXCEPT !.at = IF runtime = "containerd" THEN "layers" ELSE "save",
                                          !.answer = "none"]
       ELSE Return("failed") /\ UNCHANGED request
    /\ UNCHANGED <<job, lookVars, spool, held, lacked>>
    /\ WorldFrame

UserSaved ==
    /\ Probed("user_save")
    /\ CASE request.answer # "observed" -> Return("failed") /\ NoProbe
         [] request.answer = "observed" /\ runtime = "containerd" -> Return("ok") /\ NoProbe
         [] OTHER -> Step("user_again") /\ ProbeImage(request.image) /\ UNCHANGED spool
    /\ UNCHANGED job
    /\ WorldFrame

UserProbedAgain ==
    /\ Probed("user_again")
    /\ Return(IF request.answer = "observed" THEN "ok" ELSE "failed")
    /\ UNCHANGED job /\ NoProbe
    /\ WorldFrame

-----------------------------------------------------------------------------
(* The image.pull effect: Apply and then Probe, or for an outcome unknown    *)
(* Probe first.  Module Apply has the journal around it.                     *)
BeginPull ==
    /\ Running("idle") /\ cmd.kind = "pull"
    /\ \E image \in Images :
          /\ image.origin = "registry"
          /\ \/ /\ Step("pull")
                /\ request' = [NoRequest EXCEPT !.at = "pull", !.image = image]
                /\ UNCHANGED <<lookVars, held, lacked>>
             \/ /\ Step("probe")
                /\ ProbeImage(image)
    /\ UNCHANGED <<job, spool>>
    /\ WorldFrame

(* PullImage has returned, with an error or without.                         *)
TrustStream == \* Mutant: a clean stream is the proof
    /\ Running("pull") /\ request.at = "done"
    /\ IF request.applied = "ok" THEN Return("ok") /\ NoProbe
       ELSE Step("probe") /\ ProbeImage(request.image) /\ UNCHANGED spool
    /\ UNCHANGED job
    /\ WorldFrame
PullReturned ==
    /\ Running("pull") /\ request.at = "done"
    /\ Step("probe") /\ ProbeImage(request.image) /\ UNCHANGED spool
    /\ UNCHANGED job
    /\ WorldFrame

(* probeRuntimeEffect, and recoverRuntimeEffect before its one retry.        *)
PullProbed ==
    /\ Probed("probe") /\ cmd.kind = "pull"
    /\ IF request.answer = "missing" /\ request.applied = "none"
       THEN /\ Step("pull")
            /\ request' = [request EXCEPT !.at = "pull"]
            /\ UNCHANGED <<lookVars, spool, held, lacked>>
       ELSE Return(Outcome) /\ NoProbe
    /\ UNCHANGED job
    /\ WorldFrame

-----------------------------------------------------------------------------
(* proveArchiveImage, of an image imported from an archive.                  *)
BeginProve ==
    /\ Running("idle") /\ cmd.kind = "prove"
    /\ \E x \in Loadable : ProbeImage(ArchiveImage(x))
    /\ Step("probe")
    /\ UNCHANGED <<job, spool>>
    /\ WorldFrame

Proved ==
    /\ Probed("probe") /\ cmd.kind = "prove"
    /\ Return(Outcome)
    /\ UNCHANGED job /\ NoProbe
    /\ WorldFrame

(* renderArchiveGen.                                                         *)
BeginArchive ==
    /\ Running("idle") /\ cmd.kind = "archive"
    /\ AnalyzeBegin
    /\ Step("analyze")
    /\ NoProbe
    /\ WorldFrame

Analyzed ==
    /\ Running("analyze") /\ job.at = "done"
    /\ Return(IF job.result = "ok" THEN "ok" ELSE "failed")
    /\ UNCHANGED job /\ NoProbe
    /\ WorldFrame

-----------------------------------------------------------------------------
ResolverRuns == ResolverStep /\ UNCHANGED <<archiveVars, imageVars, cmd>>
AnalysisRuns == AnalyzeStep /\ UNCHANGED <<registryVars, imageVars, cmd>>
RequestRuns ==
    /\ \/ InspectRegistryImage \/ InspectArchiveImage \/ InspectAgain \/ ProbeResolved
       \/ SaveImage \/ AnalyzeSaved \/ ReadUserLayers
       \/ PullImage \/ PullDeadline
    /\ UNCHANGED cmd

Begin == BeginGen \/ BeginPull \/ BeginProve \/ BeginArchive
Client ==
    \/ ResolverRuns \/ AnalysisRuns \/ RequestRuns
    \/ GenResolved \/ GenProbed \/ UserProbed \/ UserSaved \/ UserProbedAgain
    \/ PullReturned \/ PullProbed \/ Proved \/ Analyzed

Stream == (PullFrameArrives \/ PullStreamEnds) /\ UNCHANGED cmd

(* What others do matters while a command looks.                             *)
World ==
    \/ /\ look.at \notin {"idle", "done"} /\ MoveTag
       /\ look.repository = "registry" /\ UNCHANGED <<archiveVars, imageVars, cmd>>
    \/ /\ runtime = "containerd" /\ (look.at \notin {"idle", "done"} \/ request.at = "layers")
       /\ (MoveRecord \/ MoveContent(IF request.at = "layers" THEN GraphOf(request.image) ELSE ReadNext))
       /\ UNCHANGED <<archiveVars, runtimeVars, request, spool, cmd>> /\ Witness
    \/ job.at \notin {"idle", "done"} /\ FileWorld /\ UNCHANGED <<registryVars, imageVars, cmd>>
    \/ /\ request.at \notin {"idle", "done"}
       /\ IF request.image.origin = "archive" THEN MoveLoaded ELSE MoveImage
       /\ UNCHANGED cmd
    \/ RuntimePulls /\ UNCHANGED cmd

Next == Begin \/ Client \/ Stream \/ World

(* Every request has a deadline (30 s for a registry, 10 minutes for a pull  *)
(* or a save) and every read is of a finite file, so a command keeps going.  *)
ImagesSpec == ImagesInit /\ [][Next]_vars /\ WF_vars(Client)

-----------------------------------------------------------------------------
(* An identity that Resolve or ResolveLocal returns is one image: the top    *)
(* digest is one that the source named while it was resolved, the manifest   *)
(* is that index's only one for the platform and the config is the           *)
(* manifest's, however the tag moves between the requests.                   *)
ResolvedIsOneImage ==
    Resolved /\ look.result = "ok" =>
        /\ look.top \in seen
        /\ look.source \in {NoDigest, look.top}
        /\ ResolvedIdentity \in IdentitiesOf(look.top)

(* An analysis that Analyze returns is of one content of the file, although  *)
(* the manifest, the config, the layers, the index and the archive's digest  *)
(* are read by separate passes over a file its owner may write; and that     *)
(* content reads one way: every entry the selector can mean and every OCI    *)
(* manifest for the platform have the same config.                           *)
Readings(a) ==
    {ConfigOf(a, a.entries[i]) : i \in Matching(a, Selector)} \cup
    {Document[v.digest].config : v \in {v \in ToSet(OCIDescriptors(a)) :
                                          v.platform \in {"any", Platform} /\ Kind(v.digest) = "manifest"}}
AnalysisIsOneImage ==
    job.result = "ok" =>
        \E x \in Archives : job.parts = {x} /\ Cardinality(Readings(Archive[x])) = 1

(* A command succeeds only with an image that the runtime held whole, under  *)
(* a name of it, at some moment of the last probe: neither a clean pull      *)
(* stream nor a reference stands for the image, and containerd's record and  *)
(* documents, read one by one, were there together.  A gen on containerd     *)
(* that needs no user makes no probe; ResolvedIsOneImage is about it.        *)
Unprobed == cmd.kind = "archive" \/ (cmd.kind = "gen" /\ ~cmd.user /\ runtime = "containerd")
OkMeansHeld ==
    Running("returned") /\ cmd.result = "ok" /\ ~Unprobed => held

(* A probe says missing only if every name of the exact image failed to lead *)
(* to it at some moment of the probe: a failed request never proves absence. *)
(* For Docker and Podman that is one moment.  containerd's two names are     *)
(* read one after the other, and a record that moves from the second to the  *)
(* first between the reads is missed although one of them always had it.     *)
MissingWasLacked ==
    request.answer = "missing" => lacked = ImageNames

(* The user that ResolveImageUser reads is the user of the image asked for,  *)
(* although the image is saved by a name that may move between two probes.   *)
UserIsOfTheImage ==
    Running("returned") /\ cmd.result = "ok" /\ cmd.user => request.user = request.image.config

(* Every command returns, whatever the registry, the runtime and the owners  *)
(* of tags and files do, and leaves no spool of a saved image behind.        *)
CommandsReturn == ~Running("idle") ~> (Running("returned") /\ ~spool)

(* What a command says of an image was true: success that the runtime held   *)
(* it, missing that it did not.                                              *)
AnswersAreProved == OkMeansHeld /\ MissingWasLacked

(* What holds of a resolution after every step.                              *)
ImagesInv == ImagesTypeOK /\ ResolvedIsOneImage
=============================================================================
