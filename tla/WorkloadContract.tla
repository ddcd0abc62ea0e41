-------------------------- MODULE WorkloadContract --------------------------
(***************************************************************************)
(* What the application layer (module Apply) relies on when it talks to a    *)
(* runtime plugin about two workloads, the predecessor "old" and the         *)
(* replacement "new":                                                       *)
(*   - a workload changes only as an unsettled request asks for, or by       *)
(*     itself, or by foreign hands;                                         *)
(*   - a request that succeeds has had its effect before it returns, one      *)
(*     that fails may still have it later;                                   *)
(*   - a probe answers what was true at some moment of the probe, or that it  *)
(*     does not know.                                                       *)
(* The three plugins implement it with several requests per call.            *)
(***************************************************************************)
EXTENDS Naturals

VARIABLES
    view,       \* view[s]: the set of <<life, name>> of the workloads of subject s
    free,       \* the container names nobody holds
    task,       \* the call in progress: its operation, subject and names
    open,       \* the requests that may still take effect
    seen,       \* what was true since the call began: lives, and whether its name was free
    answer,     \* what the last call returned
    foreign     \* how often foreign hands touched a container

contractVars == <<view, free, task, open, seen, answer, foreign>>

Requests == {"create", "start", "stop", "rename", "remove", "restart", "discard"}

Idle    == [op |-> "idle", sub |-> "none", from |-> "none", to |-> "none"]
Unseen  == [at |-> {}, free |-> FALSE]

LivesOf(v) == {w[1] : w \in v}

ContractInit == /\ view \in [{"old", "new"} -> SUBSET ({"running"} \X {"app"})]
                /\ free = {"app", "backup", "other"} \ {v[2] : v \in view["old"]}
                /\ task = Idle /\ open = {} /\ seen = Unseen
                /\ answer = "none" /\ foreign = 0

(* A workload whose task is gone is cleared, and a restart policy may revive it:   *)
(* then it runs, and a removal that is already under way does not notice.       *)
Up   == {"running", "revived"}
Down == {"created", "cleared", "exited"}

(* How an unsettled request may change the one workload it is about.  A creation  *)
(* that cannot take its record back takes the rest away nevertheless.            *)
Permits(op, from, to) ==
    IF op = "rename" THEN to[1] = from[1]
    ELSE /\ to[2] = from[2]
         /\ \/ op \in {"start", "restart"} /\ from[1] \in Down /\ to[1] \in Up
            \/ op \in {"start", "restart"} /\ from[1] = "exited" /\ to[1] \in Down
            \/ op \in {"stop", "discard"} /\ from[1] = "paused" /\ to[1] \in Up
            \/ op \in {"stop", "discard"} /\ from[1] \in Up \cup {"paused"} /\ to[1] = "exited"
            \/ op \in {"stop", "discard"} /\ from[1] = "cleared" /\ to[1] = "created"
            \/ op \in {"remove", "discard"} /\ from[1] = "exited" /\ to[1] \in Down
            \/ op \in {"remove", "discard"} /\ from[1] \in Down \cup {"revived"}
                  /\ to[1] = "removing"
            \/ op = "create" /\ from[1] = "created" /\ to[1] = "removing"

(* A request may make or end a workload of its subject: an end is only for a  *)
(* workload that does not run, unless it is to be discarded.                 *)
Effect ==
    \E r \in open :
        /\ \/ \E v \in view[r.sub], w \in view'[r.sub] :
                 /\ Permits(r.op, v, w)
                 /\ view' = [view EXCEPT ![r.sub] = (@ \ {v}) \cup {w}]
           \/ /\ r.op = "create"
              /\ \A v \in view["new"] : v[2] # "app"
              /\ view' = [view EXCEPT !["new"] = @ \cup {<<"created", "app">>}]
           \/ \E v \in view[r.sub] :
                 /\ \/ r.op = "remove" /\ v[1] \in Down \cup {"removing", "revived"}
                    \/ r.op \in {"discard", "create"}
                 /\ view' = [view EXCEPT ![r.sub] = @ \ {v}]
        /\ foreign' = foreign

(* A container exits, and a restart policy starts it again.                  *)
World ==
    /\ \E s \in {"old", "new"} : \E v \in view[s] :
          \E life \in Up \cup {"exited", "removing"} :
             /\ \/ v[1] \in Up /\ life = "exited"
                \/ v[1] = "revived" /\ life = "removing"
                \/ v[1] \in {"exited", "cleared"} /\ life \in Up
             /\ view' = [view EXCEPT ![s] = (@ \ {v}) \cup {<<life, v[2]>>}]
    /\ foreign' = foreign

Foreign == foreign' = foreign + 1

(* What a success or an observation has to rest on: something seen.  After       *)
(* foreign hands renamed the replacement a late creation may have made a second   *)
(* one, and a discard ends only the one it proved.                            *)
Holds(a, at, freed) ==
    \/ a = "error"
    \/ a = "missing" /\ {} \in at /\ (task.op \in {"probe", "probeRemove"} => freed)
    \/ a = "ok" /\ CASE task.op = "create" -> \E V \in at : V # {}
                     [] task.op \in {"start", "restart"} -> \E V \in at : V \cap Up # {}
                     [] task.op = "stop" -> \E V \in at : V \cap Up = {}
                     [] task.op = "rename" -> TRUE
                     [] task.op = "discard" -> {} \in at \/ foreign > 0
                     [] OTHER -> {} \in at
    \/ \E V \in at : \E life \in V :
          \/ a = life
          \/ a \in {"running", "paused"} /\ life = "revived"
          \/ a = "created" /\ life = "cleared"
          \/ a = "removing" /\ life \in Down
    \/ a = "other" /\ {} \in at

(* Of a request nobody waits for any more nobody will learn.                  *)
Late == {[r EXCEPT !.late = TRUE] : r \in open}

Begin == /\ task = Idle
         /\ task' # Idle
         /\ open' = IF task'.op \in Requests
                    THEN open \cup {[op |-> task'.op, sub |-> task'.sub, late |-> FALSE]}
                    ELSE open
         /\ seen' = [at |-> {LivesOf(view[task'.sub])}, free |-> task'.from \in free]
         /\ answer' = "none"
         /\ UNCHANGED <<view, free, foreign>>

(* What goes on during a call or between calls.                             *)
Go == /\ \/ view' = view /\ foreign' = foreign
         \/ Effect \/ World \/ Foreign
      /\ task' = task
      /\ answer' = answer
      /\ open' \subseteq open \cup Late
      /\ seen' = IF task = Idle THEN Unseen
                 ELSE [at |-> seen.at \cup {LivesOf(view'[task.sub])},
                       free |-> seen.free \/ task.from \in free']

Return == /\ task # Idle
          /\ task' = Idle
          /\ view' = view \/ Effect
          /\ foreign' = foreign
          /\ Holds(answer', seen.at \cup {LivesOf(view'[task.sub])}, seen.free \/ task.from \in free')
          /\ answer' = "ok" /\ task.op = "rename" => \E v \in view'[task.sub] : v[2] = task.to
          /\ open' \subseteq (IF answer' = "error" THEN Late ELSE {r \in open : r.late})
          /\ seen' = Unseen

(* The client dies, or foreign hands act: nothing is answered.               *)
Die == /\ task # Idle /\ task' = Idle
       /\ open' \subseteq Late /\ seen' = Unseen /\ answer' = "none"
       /\ UNCHANGED <<view, free, foreign>>

ContractNext == Begin \/ Go \/ Return \/ Die

ContractSpec == ContractInit /\ [][ContractNext]_contractVars
=============================================================================
