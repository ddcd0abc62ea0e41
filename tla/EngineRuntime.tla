--------------------------- MODULE EngineRuntime ---------------------------
(***************************************************************************)
(* The Docker and Podman plugins (src/plugins/runtime/docker and podman).     *)
(* Both speak HTTP to an engine that carries out each request at one moment;  *)
(* a call is one or more requests, and everything may change between two.     *)
(*                                                                         *)
(* The engine itself is external: it keeps container names unique, refuses to  *)
(* remove a running container unless forced, and says "not modified" to a     *)
(* start or stop that is already the case.                                  *)
(***************************************************************************)
EXTENDS Runtimes

Request(kind, c, n) == [kind |-> kind, id |-> c, name |-> n]

NextId == IF box[2].born THEN 3 ELSE 2

(* What the engine carries out,                                             *)
Permitted(r) ==
    CASE r.kind = "create" -> r.name \in Free /\ ~box[NextId].born
      [] r.kind = "start" -> Life(r.id) \in {"created", "exited"}
      [] r.kind = "stop" -> Life(r.id) \in {"running", "paused"}
      [] r.kind = "rename" -> box[r.id].record /\ r.name \in Free
      [] r.kind = "remove" -> Life(r.id) \in {"created", "exited"}
      [] r.kind = "discard" -> box[r.id].record

(* what it calls not modified,                                             *)
NotModified(r) == \/ r.kind = "start" /\ Life(r.id) = "running"
                  \/ r.kind = "stop" /\ Life(r.id) \in {"created", "exited"}

(* and what it makes of it.                                                *)
Carried(r) ==
    CASE r.kind = "create" -> [box EXCEPT ![NextId] =
             [Unborn EXCEPT !.born = TRUE, !.record = TRUE, !.name = r.name,
                            !.owner = "tx", !.task = "created"]]
      [] r.kind = "start" -> [box EXCEPT ![r.id].task = "running", ![r.id].restart = TRUE]
      [] r.kind = "stop" -> [box EXCEPT ![r.id].task = "exited", ![r.id].restart = FALSE]
      [] r.kind = "rename" -> [box EXCEPT ![r.id].name = r.name]
      [] OTHER -> [box EXCEPT ![r.id] = [Unborn EXCEPT !.born = TRUE]]

(* A start ends what a stop achieved.                                       *)
MarkAs(r, stopped) ==
    [c \in Ids |-> IF c # r.id THEN marks[c]
                   ELSE IF r.kind = "start" THEN marks[c] \ {"stopped"}
                   ELSE IF r.kind = "stop" /\ stopped THEN marks[c] \cup {"stopped"}
                   ELSE marks[c]]

(* One request of the call and what its caller learns: the answer, or nothing   *)
(* although the engine did it, or nothing before it did it, or nothing and the   *)
(* engine does it later.  accepts says whether "not modified" is a success.      *)
Send(r, accepts) ==
    /\ UNCHANGED <<plugin, foreign>>
    /\ \/ /\ Permitted(r) /\ box' = Carried(r) /\ wire' = wire
          /\ \/ Return("ok") /\ Fine /\ marks' = MarkAs(r, TRUE)
             \/ Return("error") /\ Fault /\ marks' = MarkAs(r, FALSE)
       \/ /\ ~Permitted(r) /\ UNCHANGED <<box, wire>> /\ Fine
          /\ Return(IF NotModified(r) /\ accepts THEN "ok" ELSE "error")
          /\ UNCHANGED marks
       \/ Return("error") /\ Fault /\ UNCHANGED <<box, wire, marks>>
       \/ /\ Return("error") /\ Fault /\ wire' = wire \cup {r}
          /\ UNCHANGED <<box, marks>>

(* A request is carried out after its caller gave up.                         *)
EngineDeliver ==
    /\ plugin # "containerd"
    /\ \E r \in wire :
          /\ wire' = wire \ {r}
          /\ box' = IF Permitted(r) THEN Carried(r) ELSE box
          /\ marks' = IF Permitted(r) THEN MarkAs(r, FALSE) ELSE marks
    /\ UNCHANGED <<plugin, call, answer, faults, foreign>>

(* GET /containers/<name>/json and /containers/<id>/json                     *)
ByName(n) == IF Holders(n) = {} THEN Missing ELSE Snapshot(CHOOSE c \in Holders(n) : TRUE)
ById(c)   == IF box[c].record THEN Snapshot(c) ELSE Missing

EffectOps     == {"start", "discard", "probe"}
TransitionOps == {"stop", "rename", "remove", "restart"}
ProbeOps      == {"probeStop", "probeRename", "probeRemove"}

(* The lifecycle a transition starts from: WorkloadTransition.Valid            *)
BeforeLife(op) == IF op = "stop" THEN "running" ELSE "exited"

-----------------------------------------------------------------------------
(* Mutant: a creation first clears away an unlabelled container of its name. *)
CreateReplacing ==
    /\ At({"create"}, "begin")
    /\ LET others == {c \in Holders("app") : box[c].owner = "none"} IN
       IF others = {} THEN Send(Request("create", 0, "app"), FALSE)
       ELSE /\ box' = [c \in Ids |-> IF c \in others THEN [Unborn EXCEPT !.born = TRUE]
                                     ELSE box[c]]
            /\ UNCHANGED <<plugin, call, wire, answer, marks, faults, foreign>>

(* CreateWorkload: one request that names the container.                      *)
CreateNamed == At({"create"}, "begin") /\ Send(Request("create", 0, "app"), FALSE)

(* The two selectors: first the container of the name,                        *)
ReadNamed ==
    /\ At(EffectOps, "begin")
    /\ \/ FailRead
       \/ /\ call' = [call EXCEPT !.step = "list", !.named = ByName("app")]
          /\ answer' = answer /\ Fine /\ Read

(* selectCreatedContainer                                                  *)
SelectCreatedContainer(named, owned) == IF named.id # 0 THEN named ELSE owned

(* Two different containers are no answer, nor is one that has the labels but   *)
(* is not in the list of the labels.                                        *)
Consistent(named, owned) ==
    /\ named.id # 0 /\ owned.id # 0 => named.id = owned.id
    /\ named.id # 0 /\ owned.id = 0 => named.owner # "tx"

(* The container a started or discarded workload has to be: name, labels and   *)
(* configuration are exactly those of the transaction.                        *)
Exact(s) == s.id # 0 /\ s.name = "app" /\ s.owner = "tx"

MayStart(s)   == Exact(s) /\ s.life = "created"
MayDiscard(s) == Exact(s) /\ s.life \in {"created", "running", "exited"}

(* applicationWorkloadLifecycle, and evidence of a container of somebody else   *)
Evidence(s) == IF s.id = 0 THEN "missing" ELSE IF s.owner = "tx" THEN s.life ELSE "other"

(* Mutant: the selector by name decides alone. *)
DecideNamed(named, owned) ==
    IF named.id = 0 THEN Return("missing")
    ELSE Return(Evidence(named))

(* What the two selectors say decides the call.                             *)
Decide(named, owned) ==
    LET s == SelectCreatedContainer(named, owned) IN
    IF ~Consistent(named, owned) THEN Return("error")
    ELSE IF call.op = "probe" THEN Return(Evidence(s))
    ELSE IF \/ call.op = "start" /\ MayStart(s)
            \/ call.op = "discard" /\ MayDiscard(s)
         THEN call' = [call EXCEPT !.step = "send", !.owned = s] /\ answer' = answer
         ELSE Return("error")

(* ownedContainerID: the list of the transaction's labels has at most one,     *)
ListOwned ==
    /\ At(EffectOps, "list")
    /\ \/ FailRead
       \/ /\ IF Cardinality(Owned) > 1 THEN Return("error")
             ELSE IF Owned = {} THEN Decide(call.named, Missing)
             ELSE /\ call' = [call EXCEPT !.step = "inspect",
                                 !.owned = Snapshot(CHOOSE c \in Owned : TRUE)]
                  /\ answer' = answer
          /\ Fine /\ Read

(* probeOwnedContainer: and that one is inspected by its ID.                  *)
InspectOwned ==
    /\ At(EffectOps, "inspect")
    /\ \/ FailRead
       \/ /\ LET owned == ById(call.owned.id) IN
             IF owned.owner # "tx" THEN Return("error") ELSE Decide(call.named, owned)
          /\ Fine /\ Read

(* StartWorkload and DiscardWorkload: the request names the ID that was proved.  *)
StartOwned(accepts) == /\ At({"start"}, "send")
                       /\ Send(Request("start", call.owned.id, "none"), accepts)

DiscardOwned == /\ At({"discard"}, "send")
                /\ Send(Request("discard", call.owned.id, "none"), FALSE)

(* ApplyWorkloadTransition: the predecessor has to be exactly what was recorded. *)
ReadBefore ==
    /\ At(TransitionOps, "begin")
    /\ \/ FailRead
       \/ /\ IF /\ ById(Predecessor).life = BeforeLife(call.op)
                /\ ById(Predecessor).name = call.from
             THEN Continue("send") ELSE Return("error")
          /\ Fine /\ Read

(* workloadTransitionRequest: a removal is not forced.                        *)
TransitionKind == IF call.op = "restart" THEN "start" ELSE call.op

SendTransition(accepts) ==
    /\ At(TransitionOps, "send")
    /\ Send(Request(TransitionKind, Predecessor,
                    IF call.op = "rename" THEN call.to ELSE "none"), accepts)

(* ProbeWorkloadTransition: the predecessor by its ID,                       *)
ReadTransition ==
    /\ At(ProbeOps, "begin")
    /\ \/ FailRead
       \/ /\ LET s == ById(Predecessor) IN
             IF call.op = "probeRemove" \/ (call.op = "probeRename" /\ s.id # 0)
             THEN call' = [call EXCEPT !.step = "name", !.owned = s] /\ answer' = answer
             ELSE Return(IF s.id = 0 THEN "missing" ELSE s.life)
          /\ Fine /\ Read

(* probeRemovedWorkload, and who holds the name a rename was to free           *)
ReadOldName ==
    /\ At(ProbeOps, "name")
    /\ \/ FailRead
       \/ /\ LET n == ByName(call.from) IN
             Return(CASE call.op = "probeRename" ->
                             (IF n.id = 0 THEN call.owned.life ELSE "error")
                      [] call.owned.id = 0 /\ n.id = 0 -> "missing"
                      [] call.owned.id # 0 /\ n.id = call.owned.id -> call.owned.life
                      [] OTHER -> "error")
          /\ Fine /\ Read

-----------------------------------------------------------------------------
(* Docker takes only 204 for an answer: "not modified" is an error.            *)
DockerNext == /\ plugin = "docker"
              /\ \/ CreateNamed \/ ReadNamed \/ ListOwned \/ InspectOwned
                 \/ StartOwned(FALSE) \/ DiscardOwned
                 \/ ReadBefore \/ SendTransition(FALSE)
                 \/ ReadTransition \/ ReadOldName

(* Podman: the same requests in the same order; a start or stop that is already  *)
(* the case is a success, a rename or a removal has to be reported as done.       *)
PodmanCreate     == CreateNamed
PodmanCandidates == ReadNamed \/ ListOwned \/ InspectOwned
PodmanStart      == StartOwned(TRUE)
PodmanDiscard    == DiscardOwned
PodmanTransition == ReadBefore \/ SendTransition(call.op \in {"stop", "restart"})
PodmanProbe      == ReadTransition \/ ReadOldName

PodmanNext == /\ plugin = "podman"
              /\ \/ PodmanCreate \/ PodmanCandidates \/ PodmanStart \/ PodmanDiscard
                 \/ PodmanTransition \/ PodmanProbe
=============================================================================
