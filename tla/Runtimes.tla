------------------------------ MODULE Runtimes ------------------------------
(***************************************************************************)
(* The world the three runtime plugins share (src/plugins/runtime): the      *)
(* containers of one host, one client that makes one call at a time, the      *)
(* requests that are carried out after their caller gave up, and what happens *)
(* without the client.  Modules EngineRuntime (Docker and Podman) and         *)
(* ContainerdRuntime add the calls.                                         *)
(*                                                                         *)
(* The application layer asks for the replacement of one transaction by its   *)
(* name and its labels, and for the predecessor by its ID.  The client here    *)
(* makes any of these calls at any time, so every order the application could *)
(* choose is among its behaviours.                                          *)
(***************************************************************************)
EXTENDS Naturals, FiniteSets

CONSTANTS
    Plugins,    \* the plugins linked into the binary
    Scopes,     \* <<plugin, subjects>>: which workloads there are with which plugin
    MaxFaults,  \* bound on failed, lost or delayed requests and dead clients
    MaxForeign  \* bound on what others do to the containers

ASSUME PluginAssumption == Plugins \subseteq {"docker", "podman", "containerd"}
ASSUME ScopeAssumption == Scopes \subseteq Plugins \X SUBSET {"old", "new"}
ASSUME RuntimeBounds == MaxFaults \in Nat /\ MaxForeign \in Nat

Ids         == 1 .. 3   \* the predecessor, and two containers made later
Predecessor == 1
Names       == {"app", "backup", "other"}
Owners      == {"none", "old", "tx"}
Tasks       == {"none", "created", "running", "paused", "exited"}
Lives       == {"none", "created", "running", "paused", "exited", "removing"}

(* What a containerd workload consists of beside its metadata record: "host" is *)
(* its state directory, "volume" the directories of its volumes.             *)
Parts == {"lease", "snapshot", "host", "volume", "netns", "network"}

VARIABLES
    plugin,     \* the runtime the operation selected
    subjects,   \* the workloads it is about: predecessor "old", replacement "new"
    box,        \* box[c]: the container with ID c
    call,       \* the call the client is in
    wire,       \* requests that will be carried out without an answer; of equal ones, one
    seen,       \* what was true since the call began
    answer,     \* what the last call returned
    marks,      \* marks[c]: what happened to c that explains a property
    faults,     \* failures so far
    foreign     \* foreign changes so far

vars == <<plugin, subjects, box, call, wire, seen, answer, marks, faults, foreign>>

BoxType == [born : BOOLEAN, record : BOOLEAN, name : Names \cup {"none"}, owner : Owners,
            task : Tasks, restart : BOOLEAN, parts : SUBSET Parts]

Unborn == [born |-> FALSE, record |-> FALSE, name |-> "none", owner |-> "none",
           task |-> "none", restart |-> FALSE, parts |-> {}]

Workload == {"snapshot", "host", "volume", "netns"}

RequestType == [kind : {"create", "start", "stop", "rename", "remove", "discard", "run", "kill"},
                id : Ids \cup {0}, name : Names \cup {"none"}]

Operations == {"idle", "create", "start", "discard", "probe", "stop", "rename", "remove",
               "restart", "resume", "probeStop", "probeRename", "probeRemove"}

Missing == [id |-> 0, life |-> "none", name |-> "none", owner |-> "none"]

SnapshotType == [id : Ids \cup {0}, life : Lives, name : Names \cup {"none"}, owner : Owners]

IdleCall == [op |-> "idle", sub |-> "none", from |-> "none", to |-> "none",
             step |-> "none", named |-> Missing, owned |-> Missing, keep |-> FALSE]

Unseen == [at |-> {}, free |-> FALSE]

-----------------------------------------------------------------------------
(* The lifecycle a container is in: the task says, and a containerd record     *)
(* that has lost its snapshot or its namespace is being removed.              *)
Life(c) ==
    IF ~box[c].record THEN "none"
    ELSE IF plugin = "containerd" /\ ~({"snapshot", "netns"} \subseteq box[c].parts)
         THEN "removing"
    ELSE IF box[c].task = "none" THEN "created" ELSE box[c].task

Snapshot(c) == [id |-> c, life |-> Life(c), name |-> box[c].name, owner |-> box[c].owner]

Holders(n) == {c \in Ids : box[c].record /\ box[c].name = n}
Owned      == {c \in Ids : box[c].record /\ box[c].owner = "tx"}
Free       == {n \in Names : Holders(n) = {}}

(* The containers of a subject: of the predecessor also what a removal that    *)
(* is not complete left behind.  One that has run and has no task any more is   *)
(* cleared: the restart monitor may still bring it back.                       *)
ViewLife(c) == IF Life(c) = "created" /\ box[c].restart THEN "cleared"
               ELSE IF box[c].task \in {"running", "paused"} /\ "revived" \in marks[c] THEN "revived"
               ELSE Life(c)

View == [s \in {"old", "new"} |->
            IF s = "new" THEN {<<ViewLife(c), box[c].name>> : c \in Owned}
            ELSE IF box[Predecessor].record
                 THEN {<<ViewLife(Predecessor), box[Predecessor].name>>}
            ELSE IF box[Predecessor].parts # {} THEN {<<"debris", box[Predecessor].name>>}
            ELSE {}]

LivesOf(v) == {w[1] : w \in v}

(* Of what is true after every step of a call, the lives of its subject and      *)
(* whether the name it is about is free are remembered until it returns.       *)
Watch ==
    /\ seen' = IF call'.op = "idle" THEN Unseen
               ELSE [at |-> {LivesOf(View'[call'.sub])}
                            \cup (IF call.op = "idle" THEN {} ELSE seen.at),
                     free |-> (call.op # "idle" /\ seen.free) \/ call'.from \in Free']
    /\ subjects' = subjects

RuntimesInit ==
    /\ \E s \in Scopes : plugin = s[1] /\ subjects = s[2]
    /\ box = [c \in Ids |-> IF c = Predecessor /\ "old" \in subjects
                THEN [born |-> TRUE, record |-> TRUE, name |-> "app", owner |-> "old",
                      task |-> "running", restart |-> TRUE,
                      parts |-> IF plugin = "containerd" THEN Workload \cup {"network"}
                                ELSE {}]
                ELSE Unborn]
    /\ call = IdleCall
    /\ wire = {}
    /\ seen = Unseen
    /\ answer = "none"
    /\ marks = [c \in Ids |-> {}]
    /\ faults = 0 /\ foreign = 0

-----------------------------------------------------------------------------
(* Steps of a call                                                         *)

At(op, step) == call.op \in op /\ call.step = step

(* The call goes on, with what it has read so far in f.                     *)
Continue(step) == call' = [call EXCEPT !.step = step] /\ answer' = answer

Return(a) == call' = IdleCall /\ answer' = a

Fine  == faults' = faults
Fault == faults < MaxFaults /\ faults' = faults + 1

Read == UNCHANGED <<plugin, box, wire, marks, foreign>>

(* A request of the call fails before anything is done about it.             *)
FailRead == Fault /\ Read /\ Return("error")

(* A call of the application.  The predecessor is asked for under the name it   *)
(* had (from) and a rename gives it the other one.                           *)
Begin(op) ==
    /\ call.op = "idle"
    /\ \E from \in {"app", "backup"} :
          /\ op \in {"create", "start", "discard", "probe"} => from = "app"
          /\ call' = [IdleCall EXCEPT
                         !.op = op,
                         !.sub = IF op \in {"create", "start", "discard", "probe"}
                                 THEN "new" ELSE "old",
                         !.from = from,
                         !.to = IF op \in {"rename", "probeRename"}
                                THEN (IF from = "app" THEN "backup" ELSE "app") ELSE from,
                         !.step = "begin"]
    /\ call'.sub \in subjects
    /\ answer' = "none"
    /\ Fine /\ Read

(* The client dies.                                                        *)
Crash ==
    /\ call.op # "idle"
    /\ Fault
    /\ call' = IdleCall /\ answer' = "none"
    /\ marks' = [c \in Ids |->
                    IF call.op = "create" /\ plugin = "containerd" /\ c = call.owned.id
                    THEN marks[c] \cup {"abandoned"} ELSE marks[c]]
    /\ UNCHANGED <<plugin, box, wire, foreign>>

-----------------------------------------------------------------------------
(* What happens without the client                                         *)

Outside == UNCHANGED <<plugin, call, wire, answer, marks, faults>>

Exit(c) == /\ box[c].task = "running"
           /\ box' = [box EXCEPT ![c].task = "exited"]
           /\ Outside /\ UNCHANGED foreign

(* The restart policy of the engine, or containerd's restart monitor, which      *)
(* makes a new task where there is none, if the snapshot and the namespace are   *)
(* there.                                                                  *)
Monitor(c) == /\ box[c].record /\ box[c].restart
              /\ \/ box[c].task = "exited"
                 \/ plugin = "containerd" /\ box[c].task = "none"
              /\ plugin = "containerd" => {"snapshot", "netns"} \subseteq box[c].parts
              /\ box' = [box EXCEPT ![c].task = "running"]
              /\ marks' = [marks EXCEPT ![c] = IF box[c].task = "none" THEN @ \cup {"revived"}
                                               ELSE @]
              /\ UNCHANGED <<plugin, call, wire, answer, faults, foreign>>

ForeignStep == foreign < MaxForeign /\ foreign' = foreign + 1

(* Others rename a container of ours, if the name is free,                   *)
ForeignRename(c) ==
    /\ box[c].record /\ "other" \in Free
    /\ box' = [box EXCEPT ![c].name = "other"]
    /\ ForeignStep /\ Outside

(* make one of their own,                                                  *)
ForeignCreate(c) ==
    /\ ~box[c].born /\ c = 3
    /\ \E n \in Free \ {"other"} :
          box' = [box EXCEPT ![c] = [Unborn EXCEPT !.born = TRUE, !.record = TRUE,
                                                   !.name = n, !.task = "running"]]
    /\ ForeignStep /\ Outside

(* pause one,                                                              *)
ForeignPause(c) ==
    /\ box[c].task = "running"
    /\ box' = [box EXCEPT ![c].task = "paused"]
    /\ ForeignStep /\ Outside

(* or remove one with the engine's own tools.                               *)
ForeignRemove(c) ==
    /\ plugin # "containerd" /\ box[c].record
    /\ box' = [box EXCEPT ![c] = [Unborn EXCEPT !.born = TRUE]]
    /\ ForeignStep /\ Outside

Environment == \E c \in Ids : \/ Exit(c) \/ Monitor(c) \/ ForeignRename(c)
                              \/ ForeignCreate(c) \/ ForeignPause(c) \/ ForeignRemove(c)
=============================================================================
