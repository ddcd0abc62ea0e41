---------------------------- MODULE ApplyProofs ----------------------------
(***************************************************************************)
(* Safety of bootstrap, adopt, upgrade and restore, for every set of           *)
(* scenarios, storages, late requests and exits and any number of faults.      *)
(*                                                                         *)
(* The journal is ordered: an action is recorded only after the ones before    *)
(* it are satisfied, and the process works on the next one.  What the runtime   *)
(* shows follows from the rows, because a request is sent, and may be carried   *)
(* out late, only for a row marked before.  The name of the service has one     *)
(* container, so a predecessor that has it excludes a replacement.  Requests    *)
(* of an earlier, failed upgrade may still change the predecessor or take the   *)
(* name: what they break is excused by name (strayed, stray), and no more.     *)
(***************************************************************************)
EXTENDS Apply, TLAPS

Sat(k) == row[k] = "satisfied"

EffectPoints == {"apply", "probe", "recover", "resume", "reprobe", "complete"}
StagePoints  == {"settle", "mark"} \cup EffectPoints
Dead         == {"removing", "gone"}

(* The predecessor was removed by the request of an earlier transaction, or    *)
(* started again by one.                                                     *)
Lost    == "remove" \in strayed
Revived == "restore_start" \in strayed

USE DEF Lost, Revived, Explained

(* What has to be satisfied before an upgrade records action k.               *)
CoreBefore(k) ==
    /\ k \in StorageKinds => storage # "none"
    /\ k \in {"inventory", "stop"} => row["pull"] \in {"absent", "satisfied"}
    /\ k = "stop" /\ storage # "none" => Sat("inventory") \/ Lost
    /\ k \in {"backup", "rename"} => Sat("stop")
    /\ k = "rename" /\ storage # "none" => Sat("backup")
    /\ k = "create" => Sat("rename")
    /\ k \in {"restore", "start"} => Sat("create")
    /\ k = "start" /\ storage # "none" => Sat("restore")
    /\ k = "remove" => Sat("start")

(* The same of a restore.                                                   *)
RestoreBefore(k) ==
    /\ k \in RestoreKinds => /\ Sat("stop") /\ ~Sat("remove")
                             /\ Recorded("create") => Sat("rename")
    /\ k = "discard" => Recorded("create")
    /\ k \in {"reverse_rename", "restore_start"} /\ Recorded("create") => Sat("discard")
    /\ k = "reverse_rename" => Sat("rename")
    /\ k = "restore_start" /\ Sat("rename") => Sat("reverse_rename")

Before(k) ==
    \/ tx.kind = "upgrade" /\ CoreBefore(k) /\ RestoreBefore(k)
    \/ tx.kind = "bootstrap" /\ k \in {"pull", "create", "start"} /\ (k = "start" => Sat("create"))

-----------------------------------------------------------------------------
(* Transactions and baselines.                                              *)
TxOK ==
    /\ tx.kind = "none" <=> tx.state = "none"
    /\ tx.kind \in {"adopt", "bootstrap"} => tx.state \in {"active", "succeeded"}
    /\ tx.kind = "upgrade" => applied # "none"
    /\ tx.state = "succeeded" => applied \in {"adopted", "new"}

(* The rows of the transaction.                                             *)
RowsOK ==
    /\ \A k \in ActionKinds : Recorded(k) => Before(k)
    /\ \A k \in {"inventory", "rename", "reverse_rename"} : row[k] \in Digests => Sat(k)
    /\ tx.state \notin {"degraded", "failed"} => \A k \in RestoreKinds : ~Recorded(k)
    /\ tx.state \in {"degraded", "failed"} => \A k \in CoreKinds : row[k] \notin Pending
    /\ tx.state = "failed" => \A k \in RestoreKinds : row[k] \notin Pending
    /\ tx.kind = "upgrade" /\ Recorded("restore") => published # 0
    /\ storage # "none" /\ Sat("stop") => Sat("inventory")

(* The process at each of its points.                                       *)
StageOK(k) ==
    /\ Before(k)
    /\ (tx.state = "active" /\ k \in CoreKinds) \/ (tx.state = "degraded" /\ k \in RestoreKinds)
    /\ k = "pull" /\ ~Recorded("pull") => row = NoRows
    /\ at = "mark" => row[k] = "intent"
    /\ at \in EffectPoints => row[k] = "unknown"
    /\ at \in {"resume", "reprobe"} => k = "remove"
    /\ at = "complete" => /\ post \in Digests
                          /\ k \in {"inventory", "rename", "reverse_rename"} => post = "satisfied"

ProcessOK ==
    /\ at \in StagePoints => \E k \in ActionKinds : k = stage /\ StageOK(k)
    /\ at = "bind" => /\ tx.state \notin Unresolved /\ stage \in {"bootstrap", "adopt", "upgrade"}
                      /\ stage = "upgrade" => applied = "old"
                      /\ stage # "upgrade" => tx.kind = "none"
    /\ at = "image" => tx.kind \in {"bootstrap", "upgrade"} /\ tx.state = "active"
    /\ at = "capacity" => /\ tx.kind = "upgrade" /\ tx.state = "active"
                          /\ storage # "none" /\ Sat("inventory")
                          /\ row["pull"] \in {"absent", "satisfied"}
    /\ at = "adopt" => tx.kind = "adopt" /\ tx.state = "active"
    /\ at \in {"prove", "commit"} =>
           /\ tx.state = "active"
           /\ tx.kind = "adopt" => at = "commit"
           /\ tx.kind = "upgrade" => Sat("remove")
    /\ at = "restored" => tx.kind = "upgrade" /\ tx.state = "degraded"
    /\ at = "fail" => /\ tx.kind = "upgrade" /\ post \in {"failed", "degraded"}
                      /\ tx.state = "active" \/ (tx.state = "degraded" /\ post = "failed")

(* What the process remembers of the storage it observed.                     *)
AtWork == at \notin {"idle", "bind"} /\ tx.kind = "upgrade" /\ tx.state = "active" /\ storage # "none"

SourcesOK ==
    /\ storage = "none" => sources = "none"
    /\ at = "bind" /\ stage = "upgrade" /\ storage # "none" => Copies
    /\ AtWork /\ ~Copies /\ ~Lost =>
           Sat("inventory") /\ row["pull"] \in {"absent", "satisfied"}
    /\ AtWork /\ at \in StagePoints
              /\ stage \in {"backup", "rename", "create", "restore", "start", "remove"} => Copies
    /\ AtWork /\ at \in StagePoints /\ stage = "stop" /\ at # "settle" => Copies \/ Lost
    /\ AtWork /\ Copies /\ "create" \in late =>
           stray \/ at = "fail" \/ (stage = "create" /\ at \in {"probe", "complete"})

-----------------------------------------------------------------------------
(* The runtime and the rows.                                                *)
ExplainedOK ==
    /\ \A k \in late : Sent(k)
    /\ repl # "gone" => Sent("create")
    /\ repl \in {"running", "exited"} => Sent("start")
    /\ pred.name = "retained" => Sent("rename")
    /\ published # 0 => Sent("backup")
    /\ tx.kind = "upgrade" => /\ copy # 0 => Sent("restore")
                              /\ pred.life \in Dead => Explained("remove")
    /\ tx.kind = "upgrade" /\ "pred" \notin Exits /\ pred.life = "exited" => Explained("stop")

(* What is left of earlier transactions: no rename, and nothing before the      *)
(* first upgrade has failed.                                                *)
EarlierOK ==
    /\ "rename" \notin stale /\ "reverse_rename" \notin stale
    /\ tx.kind # "upgrade" => stale = {} /\ strayed = {} /\ ~stray
    /\ stray => ~PredNamed /\ repl = "gone"
    /\ Lost => pred.life \in Dead

(* One container has the name, and the predecessor has it until the rename and    *)
(* from the reverse rename on.                                               *)
NamesOK ==
    /\ PredNamed => repl = "gone"
    /\ "rename" \in late => pred.name = "service" /\ row["rename"] = "unknown"
    /\ "reverse_rename" \in late => pred.name = "retained" /\ row["reverse_rename"] = "unknown"
    /\ Sat("rename") /\ ~Sent("reverse_rename") => pred.name = "retained"
    /\ Sat("reverse_rename") => pred.name = "service"

LivesOK ==
    /\ Sat("stop") /\ ~Sent("restore_start") /\ ~Revived =>
           pred.life # "running" \/ (tx.state = "failed" /\ PredNamed)
    /\ Sat("remove") => pred.life = "gone"
    /\ tx.kind = "bootstrap" => pred.life = "gone"
    /\ tx.kind = "adopt" => pred.life \in {"running", "exited"} /\ pred.name = "service"
    /\ Sat("create") /\ ~Sent("discard") => repl # "gone"
    /\ tx.state = "succeeded" /\ tx.kind # "adopt" =>
           pred.life = "gone" /\ repl \in {"running", "exited"}

StorageOK ==
    tx.kind = "upgrade" /\ storage # "none" =>
        /\ "create" \in late => repl = "gone" /\ ~Sat("create")
        /\ Sat("restore") /\ repl = "created" =>
               ReplContent = published \/ (storage = "shared" /\ Revived)

(* Without late removals a removal that did not happen never will.             *)
SurvivesOK ==
    "remove" \notin LateKinds =>
        /\ "remove" \notin late /\ "remove" \notin stale /\ ~Lost
        /\ row["remove"] \in {"unsatisfied", "missing"} => pred.life \notin Dead
        /\ Sent("discard") => pred.life \notin Dead

(* Without storage, late stops and exits the predecessor runs until its stop.   *)
Steady == Storages \subseteq {"none"} /\ "stop" \notin LateKinds /\ "pred" \notin Exits

RestoredOK ==
    Steady =>
        /\ "stop" \notin late /\ "stop" \notin stale /\ "stop" \notin strayed
        /\ tx.kind = "upgrade" /\ row["stop"] \notin {"unknown", "satisfied"} =>
               pred.life = "running"
        /\ tx.state = "failed" => pred.life = "running" /\ pred.name = "service" /\ "rename" \notin late

-----------------------------------------------------------------------------
(* What an answer the process is about to write says of the runtime.            *)
AnswerOK ==
    at = "complete" =>
        /\ stage = "rename" => pred.name = "retained"
        /\ stage = "reverse_rename" => pred.name = "service"
        /\ stage = "stop" /\ post = "satisfied" =>
               /\ pred.life # "running" \/ Revived
               /\ storage # "none" => Sat("inventory") /\ Copies
        /\ stage = "stop" /\ post # "satisfied" /\ Steady => pred.life = "running"
        /\ stage = "remove" /\ post = "satisfied" => pred.life = "gone"
        /\ stage = "remove" /\ post # "satisfied" /\ "remove" \notin LateKinds => pred.life \notin Dead
        /\ stage = "create" /\ post = "satisfied" => repl # "gone"
        /\ stage = "restore" /\ post = "satisfied" /\ repl = "created" =>
               ReplContent = published \/ (storage = "shared" /\ Revived)

PointOK ==
    /\ at = "bind" =>
           /\ late = {} /\ pred.name = "service" /\ repl = "gone"
           /\ stage = "bootstrap" => pred.life = "gone"
           /\ stage # "bootstrap" => pred.life \in {"running", "exited"} \/ Lost
           /\ stage # "bootstrap" /\ "pred" \notin Exits => pred.life = "running" \/ "stop" \in strayed
    /\ at = "apply" /\ stage = "rename" => "rename" \notin late
    /\ at = "apply" /\ stage = "reverse_rename" => "reverse_rename" \notin late
    /\ at = "apply" /\ stage = "create" /\ tx.kind = "upgrade" /\ storage # "none" =>
           "create" \notin late /\ repl = "gone"
    /\ at = "commit" /\ tx.kind # "adopt" => pred.life = "gone" /\ repl \in {"running", "exited"}
    /\ at = "fail" /\ post = "failed" /\ Steady =>
           pred.life = "running" /\ pred.name = "service" /\ "rename" \notin late

(* The inductive invariant: the journal with the runtime, and the process.      *)
Static == /\ TxOK /\ RowsOK /\ ExplainedOK /\ EarlierOK /\ NamesOK /\ LivesOK
          /\ StorageOK /\ SurvivesOK /\ RestoredOK
Moving == ProcessOK /\ SourcesOK /\ AnswerOK /\ PointOK

ApplyIInv == ApplyTypeOK /\ Static /\ Moving

-----------------------------------------------------------------------------
(* The containers, and what the probes and the requests see and change.         *)

Containers == [name : {"service", "retained"}, life : Lifecycles]

LEMMA PredIs ==
  ASSUME pred \in Containers, NEW n, NEW l
  PROVE  Pred(n, l) <=> pred.name = n /\ pred.life = l
  BY DEF Pred, Containers

LEMMA WithLife ==
  ASSUME NEW p \in Containers, NEW l \in Lifecycles
  PROVE  /\ [p EXCEPT !.life = l] \in Containers
         /\ [p EXCEPT !.life = l].name = p.name /\ [p EXCEPT !.life = l].life = l
  BY DEF Containers

LEMMA WithName ==
  ASSUME NEW p \in Containers, NEW n \in {"service", "retained"}
  PROVE  /\ [p EXCEPT !.name = n] \in Containers
         /\ [p EXCEPT !.name = n].name = n /\ [p EXCEPT !.name = n].life = p.life
  BY DEF Containers

(* What a satisfied effect says of the runtime.                              *)
Witnessed(k) ==
    /\ k = "stop" => pred.life = "exited"
    /\ k = "rename" => pred.name = "retained" /\ pred.life = "exited"
    /\ k = "reverse_rename" => pred.name = "service" /\ pred.life = "exited"
    /\ k = "remove" => pred.life = "gone"
    /\ k = "create" => repl = "created"
    /\ k = "start" => repl = "running"
    /\ k = "restore" => ReplContent = published

LEMMA Satisfied ==
  ASSUME pred \in Containers, NEW k \in ActionKinds, EffectProbe(k) = "satisfied"
  PROVE  Witnessed(k)
  <1>1. CASE k \in {"pull", "inventory", "backup", "discard"}
    BY <1>1 DEF Witnessed
  <1>2. CASE k \in {"create", "start"}
    BY <1>2 DEF Witnessed, EffectProbe, CreateProbe, StartProbe, Labelled
  <1>3. CASE k = "restore"
    BY <1>3 DEF Witnessed, EffectProbe, RestoreProbe
  <1>4. CASE k \in {"stop", "rename", "reverse_rename", "remove", "restore_start"}
    <2>1. TransitionProbe(k) = "satisfied"
      BY <1>4 DEF EffectProbe
    <2>2. /\ k = "stop" => Pred("service", "exited")
          /\ k = "rename" => Pred("retained", "exited")
          /\ k = "reverse_rename" => Pred("service", "exited")
          /\ k = "remove" => pred.life = "gone"
      BY <1>4, <2>1 DEF TransitionProbe
    <2> QED BY <1>4, <2>2, PredIs DEF Witnessed
  <1> QED BY <1>1, <1>2, <1>3, <1>4 DEF ActionKinds, CoreKinds, StorageKinds, RestoreKinds

(* A digest that is not satisfied, and an incomplete effect.                  *)
LEMMA Unsatisfied ==
  ASSUME pred \in Containers, NEW k \in ActionKinds,
         EffectProbe(k) \in {"unsatisfied", "missing"}
  PROVE  /\ k \notin {"inventory", "rename", "reverse_rename"}
         /\ k = "stop" => pred.life = "running"
         /\ k = "remove" => pred.life = "exited"
         /\ k = "create" => repl = "gone" /\ ~stray
  <1>1. CASE k \in {"pull", "backup", "discard", "start", "restore"}
    BY <1>1
  <1>2. CASE k = "inventory"
    BY <1>2 DEF EffectProbe, InventoryProbe
  <1>3. CASE k = "create"
    BY <1>3 DEF EffectProbe, CreateProbe, Labelled
  <1>4. CASE k \in {"stop", "rename", "reverse_rename", "remove", "restore_start"}
    <2>1. TransitionProbe(k) \in {"unsatisfied", "missing"}
      BY <1>4 DEF EffectProbe
    <2>2. /\ k \notin {"rename", "reverse_rename"}
          /\ k = "stop" => Pred("service", "running")
          /\ k = "remove" => Pred("retained", "exited")
      BY <1>4, <2>1 DEF TransitionProbe
    <2> QED BY <1>4, <2>2, PredIs
  <1> QED BY <1>1, <1>2, <1>3, <1>4 DEF ActionKinds, CoreKinds, StorageKinds, RestoreKinds

LEMMA Incomplete ==
  ASSUME NEW k \in ActionKinds, EffectProbe(k) = "incomplete"
  PROVE  k = "remove"
  <1>1. CASE k \in {"pull", "backup", "discard", "start", "restore", "inventory", "create"}
    BY <1>1 DEF EffectProbe, PullProbe, BackupProbe, DiscardProbe, StartProbe, RestoreProbe,
       InventoryProbe, CreateProbe
  <1>2. CASE k \in {"stop", "rename", "reverse_rename", "remove", "restore_start"}
    BY <1>2 DEF EffectProbe, TransitionProbe
  <1> QED BY <1>1, <1>2 DEF ActionKinds, CoreKinds, StorageKinds, RestoreKinds

(* What a request that is carried out may change, one container at a time.       *)
PredStep(k) ==
    \/ pred' = pred
    \/ k = "stop" /\ pred'.name = pred.name /\ pred.life = "running" /\ pred'.life = "exited"
    \/ k = "restore_start" /\ pred'.name = pred.name /\ pred.life = "exited" /\ pred'.life = "running"
    \/ k = "remove" /\ pred'.name = pred.name /\ pred.life = "exited" /\ pred'.life \in Dead
    \/ k = "rename" /\ pred.life # "gone" /\ pred'.name = "retained" /\ pred'.life = pred.life
    \/ k = "reverse_rename" /\ pred.life # "gone" /\ repl = "gone" /\ ~stray /\ pred'.name = "service"
          /\ pred'.life = pred.life

LEMMA AfterPred ==
  ASSUME pred \in Containers, NEW k, pred' \in PredAfter(k)
  PROVE  pred' \in Containers /\ PredStep(k)
  <1>1. pred' \in PredAfter(k)
    OBVIOUS
  <1>2. \A l \in Lifecycles : /\ [pred EXCEPT !.life = l] \in Containers
                              /\ [pred EXCEPT !.life = l].name = pred.name
                              /\ [pred EXCEPT !.life = l].life = l
    BY WithLife
  <1>3. \A n \in {"service", "retained"} : /\ [pred EXCEPT !.name = n] \in Containers
                                           /\ [pred EXCEPT !.name = n].name = n
                                           /\ [pred EXCEPT !.name = n].life = pred.life
    BY WithName
  <1>4. {"running", "exited", "removing", "gone"} \subseteq Lifecycles
    BY DEF Lifecycles
  <1>5. CASE k = "stop"
    BY <1>1, <1>2, <1>4, <1>5 DEF PredAfter, PredStep
  <1>6. CASE k = "restore_start"
    BY <1>1, <1>2, <1>4, <1>6 DEF PredAfter, PredStep
  <1>7. CASE k = "remove"
    <2>1. CASE pred.life = "exited"
      <3>1. PredAfter(k) = {[pred EXCEPT !.life = "removing"], [pred EXCEPT !.life = "gone"]}
        BY <1>7, <2>1 DEF PredAfter
      <3>2. \E l \in {"removing", "gone"} : pred' = [pred EXCEPT !.life = l]
        BY <1>1, <3>1
      <3> QED BY <1>2, <1>4, <1>7, <2>1, <3>2 DEF PredStep, Dead
    <2>2. CASE pred.life # "exited"
      BY <1>1, <1>7, <2>2 DEF PredAfter, PredStep
    <2> QED BY <2>1, <2>2
  <1>8. CASE k \in {"rename", "reverse_rename"}
    BY <1>1, <1>3, <1>8 DEF PredAfter, PredStep
  <1>9. CASE k \notin {"stop", "restore_start", "remove", "rename", "reverse_rename"}
    BY <1>1, <1>9 DEF PredAfter, PredStep
  <1> QED BY <1>5, <1>6, <1>7, <1>8, <1>9

ReplStep(k) ==
    \/ repl' = repl
    \/ k = "create" /\ NameFree /\ repl' = "created"
    \/ k = "start" /\ repl \in {"created", "exited"} /\ repl' = "running"
    \/ k = "discard" /\ repl' = "gone"

ContentStep(k) ==
    /\ published' = published \/ (k = "backup" /\ published = 0 /\ published' = archive)
    /\ data' = data \/ (k = "restore" /\ storage = "shared" /\ data' = published)
    /\ \/ copy' = copy
       \/ k = "create" /\ copy' = 0
       \/ k = "restore" /\ storage = "private" /\ repl # "gone" /\ copy' = published
    /\ k = "restore" /\ storage = "shared" => data' = published
    /\ k = "restore" /\ storage = "private" /\ repl # "gone" => copy' = published

LEMMA PerformsRest ==
  ASSUME NEW k, Perform(k)
  PROVE  ReplStep(k) /\ ContentStep(k)
  <1>1. ReplStep(k)
    BY DEF Perform, ReplAfter, ReplStep
  <1>2. ContentStep(k)
    BY DEF Perform, ContentStep
  <1> QED BY <1>1, <1>2

-----------------------------------------------------------------------------
(* Steps of the process alone.                                              *)

LEMMA StaticKept ==
  ASSUME Static, UNCHANGED <<durable, runtime>>
  PROVE  Static'
  <1> USE DEF durable, runtime, containers, contents, earlier, Sat, Sent, Recorded
  <1>1. TxOK' /\ RowsOK'
    BY DEF Static, TxOK, RowsOK, Before, CoreBefore, RestoreBefore
  <1>2. ExplainedOK' /\ NamesOK' /\ EarlierOK'
    BY DEF Static, ExplainedOK, NamesOK, EarlierOK, PredNamed
  <1>3. LivesOK' /\ StorageOK'
    BY DEF Static, LivesOK, StorageOK, ReplContent, PredNamed
  <1>4. SurvivesOK' /\ RestoredOK'
    BY DEF Static, SurvivesOK, RestoredOK
  <1> QED BY <1>1, <1>2, <1>3, <1>4 DEF Static

(* Nothing is asked of a process that has returned.                          *)
LEMMA Idle ==
  ASSUME at' = "idle", sources' = "none"
  PROVE  Moving'
  BY DEF Moving, ProcessOK, SourcesOK, AnswerOK, PointOK, AtWork, StagePoints, EffectPoints

Memories == {"none", "old", "new"}
Posts    == Digests \cup {"none", "failed", "degraded"}

LEMMA TypeOfMove ==
  ASSUME ApplyTypeOK, UNCHANGED <<durable, runtime>>, faults' \in 0..MaxFaults,
         at' \in Points, stage' \in ActionKinds \cup TxKinds, post' \in Posts,
         sources' \in Memories, archive' \in 0..MaxContent
  PROVE  ApplyTypeOK'
  BY DEF ApplyTypeOK, durable, runtime, containers, contents, earlier, Memories, Posts

LEMMA TypeOfFault ==
  ASSUME ApplyTypeOK, Fault \/ Works
  PROVE  faults' \in 0..MaxFaults
  BY MaxFaultsAssumption DEF ApplyTypeOK, Fault, Works

LEMMA ReturnKeeps ==
  ASSUME ApplyIInv, UNCHANGED <<durable, runtime>>, Fault \/ Works, Return
  PROVE  ApplyIInv'
  <1>1. faults' \in 0..MaxFaults
    BY TypeOfFault DEF ApplyIInv
  <1>2. ApplyTypeOK'
    <2>1. /\ at' \in Points /\ stage' \in ActionKinds \cup TxKinds /\ post' \in Posts
          /\ sources' \in Memories /\ archive' \in 0..MaxContent
      BY MaxContentAssumption DEF Return, Goto, Points, TxKinds, Posts, Memories
    <2> QED BY <1>1, <2>1, TypeOfMove DEF ApplyIInv
  <1>3. Moving'
    BY Idle DEF Return, Goto
  <1> QED BY <1>2, <1>3, StaticKept DEF ApplyIInv

LEMMA MoveKeeps ==
  ASSUME ApplyIInv, UNCHANGED <<durable, runtime>>, Fault \/ Works,
         at' \in Points, stage' \in ActionKinds \cup TxKinds, post' \in Posts,
         sources' \in Memories, archive' \in 0..MaxContent, Moving'
  PROVE  ApplyIInv'
  <1>1. faults' \in 0..MaxFaults
    BY TypeOfFault DEF ApplyIInv
  <1>2. ApplyTypeOK'
    BY <1>1, TypeOfMove DEF ApplyIInv
  <1> QED BY <1>2, StaticKept DEF ApplyIInv

(* A failed stage of an upgrade: the transaction is about to end.               *)
LEMMA FailKeeps ==
  ASSUME ApplyIInv, UNCHANGED <<durable, runtime>>, Fault \/ Works, UNCHANGED memory,
         NEW k \in ActionKinds \cup TxKinds, NEW v \in {"failed", "degraded"}, Goto("fail", k, v),
         at \notin {"idle", "bind"}, tx.kind = "upgrade",
         tx.state = "active" \/ (tx.state = "degraded" /\ v = "failed"),
         v = "failed" /\ Steady =>
             pred.life = "running" /\ pred.name = "service" /\ "rename" \notin late
  PROVE  ApplyIInv'
  <1>1. Moving'
    BY DEF ApplyIInv, Moving, ProcessOK, SourcesOK, AnswerOK, PointOK, AtWork, Copies, StagePoints,
       EffectPoints, Goto, memory, durable, runtime, containers, contents, earlier, Sat, Recorded
  <1>2. sources' \in Memories /\ archive' \in 0..MaxContent
    BY DEF ApplyIInv, ApplyTypeOK, memory, Memories
  <1> QED BY <1>1, <1>2, MoveKeeps DEF Goto, Points, Posts

-----------------------------------------------------------------------------
(* From one action to the next.                                             *)

(* The process may turn to action k.                                         *)
Ready(k) ==
    /\ k \in ActionKinds /\ Before(k)
    /\ (tx.state = "active" /\ k \in CoreKinds) \/ (tx.state = "degraded" /\ k \in RestoreKinds)
    /\ k = "pull" /\ ~Recorded("pull") => row = NoRows
    /\ tx.kind = "upgrade" /\ tx.state = "active" /\ storage # "none" =>
           /\ k \in {"backup", "rename", "create", "restore", "start", "remove"} => Copies
           /\ ~Copies /\ ~Lost => Sat("inventory") /\ row["pull"] \in {"absent", "satisfied"}
           /\ Copies /\ ~stray => "create" \notin late

(* Action k is satisfied, and the process knows it.                          *)
Through(k) ==
    /\ Sat(k) /\ Before(k)
    /\ storage = "none" => ~Copies
    /\ (tx.state = "active" /\ k \in CoreKinds) \/ (tx.state = "degraded" /\ k \in RestoreKinds)
    /\ tx.kind = "upgrade" /\ tx.state = "active" /\ storage # "none" =>
           /\ k \notin {"pull", "inventory"} => Copies
           /\ ~Copies /\ ~Lost => Sat("inventory") /\ row["pull"] \in {"absent", "satisfied"}
           /\ Copies /\ ~stray => "create" \notin late

NextIsReady ==
    \A k \in ActionKinds \ {"remove", "restore_start", "inventory"} :
        Through(k) /\ ~(k = "start" /\ tx.kind = "bootstrap") =>
            \A n : n = Following(k) => Ready(n)

LEMMA Chain == NextIsReady
  <1> SUFFICES ASSUME NEW k \in ActionKinds \ {"remove", "restore_start", "inventory"},
                      Through(k), ~(k = "start" /\ tx.kind = "bootstrap")
               PROVE  Ready(Following(k))
    BY DEF NextIsReady
  <1> USE DEF Sat, Recorded, ActionKinds, CoreKinds, StorageKinds, RestoreKinds
  <1>1. CASE tx.kind = "bootstrap"
    BY <1>1 DEF Through, Before, Ready, Following
  <1>2. CASE tx.kind = "upgrade"
    <2>1. CoreBefore(k) /\ RestoreBefore(k)
      BY <1>2 DEF Through, Before
    <2>2. Following(k) = StageAfter(k)
      BY <1>2 DEF Following
    <2>a. CASE k = "pull"
      BY <1>2, <2>1, <2>2, <2>a
      DEF Through, Ready, Before, StageAfter, CoreBefore, RestoreBefore
    <2>b. CASE k = "stop"
      BY <1>2, <2>1, <2>2, <2>b
      DEF Through, Ready, Before, StageAfter, CoreBefore, RestoreBefore
    <2>c. CASE k = "backup"
      BY <1>2, <2>1, <2>2, <2>c
      DEF Through, Ready, Before, StageAfter, CoreBefore, RestoreBefore
    <2>d. CASE k = "rename"
      BY <1>2, <2>1, <2>2, <2>d
      DEF Through, Ready, Before, StageAfter, CoreBefore, RestoreBefore
    <2>e. CASE k = "create"
      BY <1>2, <2>1, <2>2, <2>e
      DEF Through, Ready, Before, StageAfter, CoreBefore, RestoreBefore
    <2>f. CASE k = "restore"
      BY <1>2, <2>1, <2>2, <2>f
      DEF Through, Ready, Before, StageAfter, CoreBefore, RestoreBefore
    <2>g. CASE k = "start"
      BY <1>2, <2>1, <2>2, <2>g
      DEF Through, Ready, Before, StageAfter, CoreBefore, RestoreBefore
    <2>4. CASE k \in {"discard", "reverse_rename"}
      BY <1>2, <2>1, <2>2, <2>4
      DEF Through, Ready, Before, StageAfter, CoreBefore, RestoreBefore
    <2> QED BY <2>4, <2>a, <2>b, <2>c, <2>d, <2>e, <2>f, <2>g
  <1> QED BY <1>1, <1>2 DEF Through, Before

LEMMA ChainAfter == NextIsReady'
  BY Chain, PTL

(* Before depends on the journal, and on a loss it did not cause.             *)
LEMMA BeforeKept ==
  ASSUME NEW k, UNCHANGED <<durable, strayed>>
  PROVE  Before(k)' <=> Before(k)
  BY DEF durable, Before, CoreBefore, RestoreBefore, Sat, Recorded

LEMMA SettleKeeps ==
  ASSUME ApplyIInv, UNCHANGED <<durable, runtime>>, Fault \/ Works,
         NEW k, Ready(k), Goto("settle", k, "none"), archive' \in 0..MaxContent,
         sources' = sources \/ (tx.state = "degraded" /\ sources' \in Memories),
         storage = "none" => sources' = "none"
  PROVE  ApplyIInv'
  <1> USE DEF Goto, durable, runtime, containers, contents, earlier
  <1>a. k \in ActionKinds /\ at' = "settle" /\ stage' = k
    BY DEF Ready
  <1>1. StageOK(k)'
    BY <1>a, BeforeKept DEF Ready, StageOK, Recorded, EffectPoints
  <1>2. ProcessOK'
    BY <1>a, <1>1 DEF ProcessOK, StagePoints, EffectPoints
  <1>3. SourcesOK'
    BY <1>a DEF ApplyIInv, Moving, SourcesOK, AtWork, Copies, Ready, Sat, Recorded
  <1>4. AnswerOK' /\ PointOK'
    BY <1>a DEF AnswerOK, PointOK
  <1>5. sources' \in Memories
    BY DEF ApplyIInv, ApplyTypeOK, Memories
  <1>6. "settle" \in Points /\ "none" \in Posts
    BY DEF Points, Posts
  <1> QED BY <1>a, <1>2, <1>3, <1>4, <1>5, <1>6, MoveKeeps DEF Moving

(* What runs after a satisfied action, seen from the state it leads to.            *)
LEMMA AdvanceMoves ==
  ASSUME NEW k \in ActionKinds, Through(k)', Advance(k), UNCHANGED <<tx, sources>>,
         k = "discard" => row'["rename"] = row["rename"]
  PROVE  /\ Moving'
         /\ at' \in Points /\ stage' \in ActionKinds \cup TxKinds /\ post' \in Posts
  <1>a. storage' = "none" => sources' = "none"
    BY DEF Through, Copies
  <1>b. {"settle", "prove", "restored", "capacity"} \subseteq Points /\ "none" \in Posts /\ "none" \in TxKinds
    BY DEF Points, Posts, TxKinds
  <1>1. CASE k = "remove" \/ (k = "start" /\ tx.kind = "bootstrap")
    <2>1. at' = "prove" /\ stage' = "none" /\ post' = "none"
      BY <1>1 DEF Advance, Goto
    <2>2. tx'.state = "active" /\ (tx'.kind = "upgrade" => Sat("remove")') /\ tx'.kind # "adopt"
      BY <1>1 DEF Through, Before, CoreKinds, RestoreKinds
    <2>3. ProcessOK'
      BY <2>1, <2>2 DEF ProcessOK, StagePoints, EffectPoints
    <2>4. SourcesOK'
      BY <1>1, <1>a, <2>1, <2>2 DEF SourcesOK, AtWork, Through, StagePoints, EffectPoints
    <2>5. AnswerOK' /\ PointOK'
      BY <2>1 DEF AnswerOK, PointOK
    <2> QED BY <1>b, <2>1, <2>3, <2>4, <2>5 DEF Moving
  <1>2. CASE k = "restore_start"
    <2>1. at' = "restored" /\ stage' = "none" /\ post' = "none"
      BY <1>2 DEF Advance, Goto
    <2>2. tx'.state = "degraded" /\ tx'.kind = "upgrade"
      BY <1>2 DEF Through, Before, CoreKinds, StorageKinds, RestoreKinds
    <2>3. ProcessOK'
      BY <2>1, <2>2 DEF ProcessOK, StagePoints, EffectPoints
    <2>4. SourcesOK'
      BY <1>a, <2>1, <2>2 DEF SourcesOK, AtWork
    <2>5. AnswerOK' /\ PointOK'
      BY <2>1 DEF AnswerOK, PointOK
    <2> QED BY <1>b, <2>1, <2>3, <2>4, <2>5 DEF Moving
  <1>3. CASE k = "inventory"
    <2>1. at' = "capacity" /\ stage' = "none" /\ post' = "none"
      BY <1>3 DEF Advance, Goto
    <2>2. /\ tx'.state = "active" /\ tx'.kind = "upgrade" /\ storage' # "none"
          /\ Sat("inventory")' /\ row'["pull"] \in {"absent", "satisfied"}
      BY <1>3 DEF Through, Before, CoreBefore, CoreKinds, StorageKinds, RestoreKinds
    <2>3. ProcessOK'
      BY <2>1, <2>2 DEF ProcessOK, StagePoints, EffectPoints
    <2>4. SourcesOK'
      BY <1>a, <2>1, <2>2 DEF SourcesOK, AtWork, Through, StagePoints, EffectPoints
    <2>5. AnswerOK' /\ PointOK'
      BY <2>1 DEF AnswerOK, PointOK
    <2> QED BY <1>b, <2>1, <2>3, <2>4, <2>5 DEF Moving
  <1>4. CASE k \notin {"remove", "restore_start", "inventory"} /\ ~(k = "start" /\ tx.kind = "bootstrap")
    <2>1. PICK n : n = Following(k)
      OBVIOUS
    <2>2. Following(k)' = Following(k)
      BY DEF Following, StageAfter, Copies
    <2>3. Ready(n)'
      BY <1>4, <2>1, <2>2, ChainAfter DEF NextIsReady
    <2>4. at' = "settle" /\ stage' = n /\ post' = "none" /\ n \in ActionKinds
      BY <1>4, <2>1, <2>3 DEF Advance, Goto, Ready
    <2>5. StageOK(n)'
      BY <2>3, <2>4 DEF Ready, StageOK, EffectPoints
    <2>6. ProcessOK'
      BY <2>4, <2>5 DEF ProcessOK, StagePoints, EffectPoints
    <2>7. SourcesOK'
      BY <1>a, <2>3, <2>4 DEF SourcesOK, AtWork, Ready
    <2>8. AnswerOK' /\ PointOK'
      BY <2>4 DEF AnswerOK, PointOK
    <2> QED BY <1>b, <2>4, <2>6, <2>7, <2>8 DEF Moving
  <1> QED BY <1>1, <1>2, <1>3, <1>4

LEMMA AdvanceKeeps ==
  ASSUME ApplyIInv, UNCHANGED <<durable, runtime>>, Fault \/ Works, UNCHANGED sources,
         archive' \in 0..MaxContent, NEW k \in ActionKinds, Through(k), Advance(k)
  PROVE  ApplyIInv'
  <1> USE DEF durable, runtime, earlier
  <1>1. Through(k)'
    BY BeforeKept DEF Through, Sat, Copies
  <1>2. /\ Moving'
        /\ at' \in Points /\ stage' \in ActionKinds \cup TxKinds /\ post' \in Posts
    BY <1>1, AdvanceMoves
  <1>3. sources' \in Memories
    BY DEF ApplyIInv, ApplyTypeOK, Memories
  <1> QED BY <1>2, <1>3, MoveKeeps

-----------------------------------------------------------------------------
(* Binding a transaction.                                                   *)

(* The order of the rows of an upgrade, from its end to its beginning.          *)
LEMMA UpgradeOrder ==
  ASSUME RowsOK, tx.kind = "upgrade"
  PROVE  /\ Recorded("remove") => Sat("start")
         /\ Recorded("start") => Sat("create") /\ (storage # "none" => Sat("restore"))
         /\ Recorded("restore") => Sat("create")
         /\ Recorded("create") => Sat("rename")
         /\ Recorded("rename") => Sat("stop") /\ (storage # "none" => Sat("backup"))
         /\ Recorded("stop") => /\ row["pull"] \in {"absent", "satisfied"}
                                /\ storage # "none" => Sat("inventory") \/ Lost
         /\ Sat("stop") /\ storage # "none" => Sat("inventory")
  BY DEF RowsOK, Before, CoreBefore, ActionKinds, CoreKinds, StorageKinds

(* Only an upgrade renames, restores and discards.                            *)
LEMMA OtherRows ==
  ASSUME RowsOK, tx.kind # "upgrade"
  PROVE  /\ \A k \in ActionKinds \ {"pull", "create", "start"} : ~Recorded(k)
         /\ tx.kind # "bootstrap" => \A k \in ActionKinds : ~Recorded(k)
  BY DEF RowsOK, Before

(* A new plan finds the journal at rest: no action pending, and a predecessor that   *)
(* earlier transactions have neither removed nor left without its name.           *)
LEMMA AtRest ==
  ASSUME ApplyIInv, Prepare
  PROVE  /\ tx.state \in {"none", "failed"}
         /\ tx.kind # "upgrade" => late = {}
         /\ "rename" \notin late /\ "reverse_rename" \notin late
         /\ NewPlan \in {"bootstrap", "adopt", "upgrade"} /\ (NewPlan = "upgrade" => applied = "old")
         /\ NewPlan # "upgrade" => applied = "none"
         /\ pred.name = "service" /\ repl = "gone" /\ ~Lost
         /\ NewPlan = "bootstrap" => pred.life = "gone"
         /\ NewPlan # "bootstrap" => pred.life = "running"
         /\ tx.kind = "upgrade" => pred.life = "running"
  <1>a. ApplyTypeOK /\ TxOK /\ RowsOK /\ ExplainedOK /\ NamesOK /\ EarlierOK /\ pred \in Containers
    BY DEF ApplyIInv, Static, ApplyTypeOK, Containers
  <1> DEFINE k == NewPlan
  <1>1. /\ k \in {"bootstrap", "adopt", "upgrade"}
        /\ k = "bootstrap" => applied = "none" /\ NameFree
        /\ k = "adopt" => applied = "none" /\ Pred("service", "running")
        /\ k = "upgrade" => applied = "old" /\ Pred("service", "running")
    BY DEF Prepare, NewPlan
  <1> HIDE DEF k
  <1>3. tx.state \in {"none", "failed"}
    BY <1>1, <1>a DEF Prepare, TxOK, ApplyTypeOK, TxStates, Unresolved
  <1>4. tx.kind # "upgrade" => late = {}
    <2> SUFFICES ASSUME tx.kind # "upgrade" PROVE late = {}
      OBVIOUS
    <2>1. tx.state = "none" /\ tx.kind = "none"
      BY <1>3, <1>a DEF TxOK, ApplyTypeOK, TxKinds
    <2>2. \A j \in ActionKinds : ~Recorded(j)
      BY <1>a, <2>1, OtherRows
    <2> QED BY <1>a, <2>2 DEF ExplainedOK, Sent, Recorded, Digests, ApplyTypeOK
  <1>5. "rename" \notin late /\ "reverse_rename" \notin late
    <2>1. CASE tx.kind = "upgrade"
      <3>1. tx.state = "failed"
        BY <1>3, <1>a, <2>1 DEF TxOK
      <3>2. row["rename"] # "unknown" /\ row["reverse_rename"] # "unknown"
        BY <1>a, <3>1 DEF RowsOK, Pending, CoreKinds, RestoreKinds
      <3> QED BY <1>a, <3>2 DEF NamesOK
    <2> QED BY <1>4, <2>1
  <1>7. pred.name = "service" /\ repl = "gone" /\ (k = "bootstrap" => pred.life = "gone")
        /\ (k # "bootstrap" => pred.life = "running")
    <2>1. CASE k = "bootstrap"
      <3>1. tx.kind # "upgrade"
        BY <1>1, <2>1, <1>a DEF TxOK
      <3>2. ~Recorded("rename")
        BY <1>a, <3>1, OtherRows DEF ActionKinds, CoreKinds
      <3>3. pred.name = "service"
        BY <1>a, <3>2 DEF ExplainedOK, Sent, Recorded, Digests, Containers
      <3> QED BY <1>1, <2>1, <3>3 DEF NameFree, PredNamed
    <2>2. CASE k \in {"adopt", "upgrade"}
      <3>1. pred.name = "service" /\ pred.life = "running"
        BY <1>1, <2>2, <1>a, PredIs
      <3> QED BY <1>a, <2>2, <3>1 DEF NamesOK, PredNamed
    <2> QED BY <1>1, <2>1, <2>2
  <1>8. tx.kind = "upgrade" => k # "bootstrap"
    BY <1>1, <1>a DEF TxOK
  <1>9. ~Lost
    <2>1. CASE tx.kind = "upgrade"
      BY <1>a, <1>7, <1>8, <2>1 DEF EarlierOK, Dead
    <2>2. CASE tx.kind # "upgrade"
      BY <1>a, <2>2 DEF EarlierOK
    <2> QED BY <2>1, <2>2
  <1> QED BY <1>1, <1>3, <1>4, <1>5, <1>7, <1>8, <1>9 DEF k

LEMMA PrepareKeeps ==
  ASSUME ApplyIInv, Prepare
  PROVE  ApplyIInv'
  <1>a. ApplyTypeOK /\ Static /\ pred \in Containers
    BY DEF ApplyIInv, ApplyTypeOK, Containers
  <1>b. /\ UNCHANGED <<storage, applied, tx, row, inventoried, pred, repl, image, data, copy, published>>
        /\ stray' = stray /\ faults' = faults
        /\ stale' = stale \cup late /\ late' = {} /\ strayed' = {}
    BY DEF Prepare, Supersede, durable, containers, contents
  <1>1. PICK k : k = NewPlan
    OBVIOUS
  <1>2. at' = "bind" /\ stage' = k /\ post' = "none" /\ sources' = ObservedSources /\ archive' = 0
    BY <1>1 DEF Prepare, Goto, Observe
  <1>3. /\ tx.state \in {"none", "failed"}
        /\ tx.kind # "upgrade" => late = {}
        /\ "rename" \notin late /\ "reverse_rename" \notin late
        /\ k \in {"bootstrap", "adopt", "upgrade"} /\ (k = "upgrade" => applied = "old")
        /\ k # "upgrade" => applied = "none"
        /\ pred.name = "service" /\ repl = "gone" /\ ~Lost
        /\ k = "bootstrap" => pred.life = "gone"
        /\ k # "bootstrap" => pred.life = "running"
        /\ tx.kind = "upgrade" => pred.life = "running"
    BY <1>1, AtRest
  <1>4. ~Lost'
    BY <1>b
  <1>5. Static'
    <2> USE DEF Sat, Sent, Recorded
    <2>1. TxOK'
      BY <1>a, <1>b DEF Static, TxOK
    <2>2. RowsOK'
      BY <1>a, <1>b, <1>3, <1>4 DEF Static, RowsOK, Before, CoreBefore, RestoreBefore
    <2>3. ExplainedOK'
      BY <1>a, <1>b, <1>3 DEF Static, ExplainedOK, Dead
    <2>4. NamesOK'
      BY <1>a, <1>b DEF Static, NamesOK, PredNamed
    <2>5. EarlierOK'
      BY <1>a, <1>b, <1>3, <1>4 DEF Static, EarlierOK, PredNamed
    <2>6. LivesOK'
      <3>1. tx.kind # "upgrade" => row["stop"] # "satisfied"
        BY <1>a, OtherRows DEF Static, ActionKinds, CoreKinds
      <3>2. tx.kind = "upgrade" => tx.state = "failed" /\ PredNamed'
        BY <1>a, <1>b, <1>3 DEF Static, TxOK, PredNamed
      <3> QED BY <1>a, <1>b, <1>3, <3>1, <3>2 DEF Static, LivesOK
    <2>7. StorageOK' /\ SurvivesOK' /\ RestoredOK'
      BY <1>a, <1>b, <1>3 DEF Static, StorageOK, SurvivesOK, RestoredOK, ReplContent, Steady
    <2> QED BY <2>1, <2>2, <2>3, <2>4, <2>5, <2>6, <2>7 DEF Static
  <1>8. ProcessOK'
    <2>1. k # "upgrade" => tx.kind = "none"
      BY <1>a, <1>3 DEF Static, TxOK, ApplyTypeOK, TxKinds
    <2> QED BY <1>2, <1>3, <1>b, <2>1 DEF ProcessOK, StagePoints, EffectPoints, Unresolved
  <1>9. SourcesOK'
    <2>1. storage = "none" => ObservedSources = "none"
      BY DEF ObservedSources
    <2>2. k = "upgrade" /\ storage # "none" => ObservedSources = "old"
      BY <1>3 DEF ObservedSources, PredNamed, NameFree
    <2> QED BY <1>2, <1>b, <2>1, <2>2 DEF SourcesOK, AtWork, StagePoints, EffectPoints, Copies
  <1>c. AnswerOK' /\ PointOK'
    BY <1>2, <1>3, <1>b DEF AnswerOK, PointOK
  <1>d. ApplyTypeOK'
    <2>1. sources' \in {"none", "old", "new"}
      BY <1>2 DEF ObservedSources
    <2>2. "bind" \in Points /\ k \in TxKinds
      BY <1>3 DEF Points, TxKinds
    <2> QED BY <1>a, <1>b, <1>2, <2>1, <2>2, MaxContentAssumption DEF ApplyTypeOK
  <1> QED BY <1>5, <1>8, <1>9, <1>c, <1>d DEF ApplyIInv, Moving

(* A process that finds an upgrade at work and no storage to observe knows that    *)
(* the inventory is there, and finds no create under way where it observes some,    *)
(* unless an earlier transaction's request took the predecessor or its name.       *)
LEMMA Observed ==
  ASSUME ApplyIInv, tx.kind = "upgrade", tx.state = "active", storage # "none"
  PROVE  /\ ObservedSources = "none" /\ ~Lost => Sat("inventory") /\ row["pull"] \in {"absent", "satisfied"}
         /\ ObservedSources # "none" /\ ~stray => "create" \notin late
  <1>a. ApplyTypeOK /\ RowsOK /\ ExplainedOK /\ NamesOK /\ StorageOK /\ pred \in Containers
    BY DEF ApplyIInv, Static, ApplyTypeOK, Containers
  <1>b. \A k : Sent(k) \/ Sat(k) => Recorded(k)
    BY DEF Sent, Sat, Recorded, Digests
  <1>1. ASSUME ObservedSources = "none", ~Lost PROVE Sat("inventory") /\ row["pull"] \in {"absent", "satisfied"}
    <2>1. NameFree
      BY <1>1 DEF ObservedSources
    <2>2. pred.name = "retained" \/ pred.life = "gone"
      BY <1>a, <2>1 DEF NameFree, PredNamed, Containers
    <2>3. Recorded("rename")
      BY <1>1, <1>a, <1>b, <2>2, UpgradeOrder DEF ExplainedOK, Dead
    <2> QED BY <1>a, <1>b, <2>3, UpgradeOrder
  <1>2. ASSUME "create" \in late, ~stray PROVE ObservedSources = "none"
    <2>1. repl = "gone" /\ Recorded("create")
      BY <1>2, <1>a, <1>b DEF StorageOK, ExplainedOK
    <2>2. Sat("rename")
      BY <1>a, <2>1, UpgradeOrder
    <2>3. ~Recorded("reverse_rename")
      BY <1>a DEF RowsOK, RestoreKinds
    <2>4. pred.name = "retained"
      BY <1>a, <1>b, <2>2, <2>3 DEF NamesOK
    <2> QED BY <1>2, <2>1, <2>4 DEF ObservedSources, NameFree, PredNamed
  <1> QED BY <1>1, <1>2

LEMMA ResumeKeeps ==
  ASSUME ApplyIInv, Resume
  PROVE  ApplyIInv'
  <1>a. ApplyTypeOK /\ TxOK
    BY DEF ApplyIInv, Static
  <1>b. UNCHANGED <<durable, runtime, faults>>
    BY DEF Resume
  <1>1. /\ at' = IF tx.kind = "adopt" THEN "adopt" ELSE "image"
        /\ stage' = "none" /\ post' = "none" /\ sources' = ObservedSources /\ archive' = 0
    BY DEF Resume, Goto, Observe
  <1>2. tx.state = "active" /\ tx.kind \in {"bootstrap", "adopt", "upgrade"}
    BY <1>a DEF Resume, TxOK, ApplyTypeOK, TxKinds
  <1>3. ProcessOK'
    BY <1>1, <1>2, <1>b DEF ProcessOK, StagePoints, EffectPoints, durable
  <1>4. SourcesOK'
    <2>1. storage = "none" => ObservedSources = "none"
      BY DEF ObservedSources
    <2>2. tx.kind = "upgrade" /\ storage # "none" =>
            /\ ObservedSources = "none" /\ ~Lost => Sat("inventory") /\ row["pull"] \in {"absent", "satisfied"}
            /\ ObservedSources # "none" /\ ~stray => "create" \notin late
      BY <1>2, Observed
    <2> QED BY <1>1, <1>2, <1>b, <2>1, <2>2
            DEF SourcesOK, AtWork, StagePoints, EffectPoints, Copies, durable, runtime, earlier, Sat
  <1>5. AnswerOK' /\ PointOK'
    BY <1>1 DEF AnswerOK, PointOK
  <1>6. sources' \in Memories /\ archive' \in 0..MaxContent
    BY <1>1, MaxContentAssumption DEF ObservedSources, Memories
  <1> QED BY <1>1, <1>3, <1>4, <1>5, <1>6, <1>b, MoveKeeps DEF Moving, Works, Points, Posts, TxKinds

LEMMA RestoreKeeps ==
  ASSUME ApplyIInv, Restore
  PROVE  ApplyIInv'
  <1>a. ApplyTypeOK /\ TxOK
    BY DEF ApplyIInv, Static
  <1>1. tx.kind = "upgrade" /\ tx.state = "degraded"
    BY <1>a DEF Restore, TxOK, ApplyTypeOK, TxKinds
  <1>2. Ready(FirstRestoreKind)
    <2>1. CoreBefore(FirstRestoreKind)
      BY DEF FirstRestoreKind, CoreBefore, StorageKinds
    <2>2. RestoreBefore(FirstRestoreKind)
      BY DEF Restore, RestoreAdmitted, FirstRestoreKind, RestoreBefore, Sat, Recorded
    <2>3. FirstRestoreKind \in RestoreKinds
      BY DEF FirstRestoreKind, RestoreKinds
    <2> QED BY <1>1, <2>1, <2>2, <2>3 DEF Ready, Before, ActionKinds, RestoreKinds
  <1>3. sources' = ObservedSources /\ archive' = 0
    BY DEF Restore, Observe
  <1>4. sources' \in Memories /\ archive' \in 0..MaxContent /\ (storage = "none" => sources' = "none")
    BY <1>3, MaxContentAssumption DEF ObservedSources, Memories
  <1> QED BY <1>1, <1>2, <1>4, SettleKeeps DEF Restore, Works

LEMMA SettleImageKeeps ==
  ASSUME ApplyIInv, SettleImage
  PROVE  ApplyIInv'
  <1>a. ApplyTypeOK /\ SourcesOK /\ at = "image" /\ tx.state = "active"
        /\ tx.kind \in {"bootstrap", "upgrade"}
    BY DEF ApplyIInv, Moving, ProcessOK, SettleImage
  <1>b. UNCHANGED <<durable, runtime>>
    BY DEF SettleImage
  <1>c. tx.kind = "upgrade" /\ storage # "none" =>
           /\ ~Copies /\ ~Lost => Sat("inventory") /\ row["pull"] \in {"absent", "satisfied"}
           /\ Copies /\ ~stray => "create" \notin late
    BY <1>a DEF SourcesOK, AtWork
  <1>d. storage = "none" => ~Copies
    BY <1>a DEF SourcesOK, Copies
  <1>1. ASSUME Recorded("pull") \/ row = NoRows PROVE Ready("pull")
    BY <1>1, <1>a, <1>c DEF Ready, Before, CoreBefore, RestoreBefore, ActionKinds, CoreKinds,
       StorageKinds, RestoreKinds
  <1>2. ASSUME ~Recorded("pull") PROVE Ready(Following("pull"))
    <2>1. row["pull"] = "absent"
      BY <1>2 DEF Recorded
    <2>2. Ready(Following("pull"))
      <3>1. CASE tx.kind = "bootstrap"
        BY <1>a, <3>1 DEF Ready, Following, Before, ActionKinds, CoreKinds
      <3>2. CASE tx.kind = "upgrade" /\ Copies
        BY <1>a, <1>c, <1>d, <2>1, <3>2 DEF Ready, Following, StageAfter, Before, CoreBefore, RestoreBefore,
           ActionKinds, CoreKinds, StorageKinds, RestoreKinds
      <3>3. CASE tx.kind = "upgrade" /\ ~Copies
        BY <1>a, <1>c, <1>d, <2>1, <3>3 DEF Ready, Following, StageAfter, Before, CoreBefore, RestoreBefore,
           ActionKinds, CoreKinds, StorageKinds, RestoreKinds
      <3> QED BY <1>a, <3>1, <3>2, <3>3
    <2> QED BY <2>2
  <1>3. ASSUME NEW k, Ready(k), To("settle", k, "none"), Works PROVE ApplyIInv'
    <2>1. /\ sources' = sources /\ archive' \in 0..MaxContent /\ (storage = "none" => sources' = "none")
      BY <1>3, <1>a DEF To, memory, SourcesOK, ApplyTypeOK
    <2> QED BY <1>3, <1>b, <2>1, SettleKeeps DEF To
  <1> QED BY <1>1, <1>2, <1>3, <1>b, ReturnKeeps DEF SettleImage

LEMMA CapacityKeeps ==
  ASSUME ApplyIInv, PrepareBackupCapacity
  PROVE  ApplyIInv'
  <1>a. /\ ApplyTypeOK /\ SourcesOK /\ at = "capacity" /\ tx.kind = "upgrade" /\ tx.state = "active"
        /\ storage # "none" /\ Sat("inventory") /\ row["pull"] \in {"absent", "satisfied"}
    BY DEF ApplyIInv, Moving, ProcessOK, PrepareBackupCapacity
  <1>b. UNCHANGED <<durable, runtime>>
    BY DEF PrepareBackupCapacity
  <1>1. Ready("stop")
    BY <1>a DEF Ready, Before, CoreBefore, RestoreBefore, ActionKinds, CoreKinds, StorageKinds,
       RestoreKinds, SourcesOK, AtWork
  <1>2. ~Steady
    BY <1>a DEF Steady, ApplyTypeOK
  <1>3. ASSUME To("settle", "stop", "none"), Works PROVE ApplyIInv'
    <2>1. sources' = sources /\ archive' \in 0..MaxContent
      BY <1>3, <1>a DEF To, memory, ApplyTypeOK
    <2> QED BY <1>1, <1>3, <1>a, <1>b, <2>1, SettleKeeps DEF To
  <1>4. ASSUME To("fail", "stop", "failed"), Fault \/ Works PROVE ApplyIInv'
    <2>1. "stop" \in ActionKinds \cup TxKinds
      BY DEF ActionKinds, CoreKinds
    <2> QED BY <1>2, <1>4, <1>a, <1>b, <2>1, FailKeeps DEF To
  <1> QED BY <1>3, <1>4 DEF PrepareBackupCapacity

-----------------------------------------------------------------------------
(* Working on one action.                                                   *)

(* An upgrade that has not tried to stop its predecessor has touched nothing.     *)
LEMMA Untouched ==
  ASSUME ApplyIInv, Steady, tx.kind = "upgrade", row["stop"] \notin {"unknown", "satisfied"}
  PROVE  pred.life = "running" /\ pred.name = "service" /\ "rename" \notin late
  <1>a. ApplyTypeOK /\ RowsOK /\ ExplainedOK /\ RestoredOK /\ pred \in Containers
    BY DEF ApplyIInv, Static, ApplyTypeOK, Containers
  <1>1. ~Recorded("rename")
    BY <1>a, UpgradeOrder DEF Sat
  <1>2. ~Sent("rename")
    BY <1>1 DEF Sent, Recorded, Digests
  <1> QED BY <1>a, <1>2 DEF ExplainedOK, RestoredOK, Containers

LEMMA FailureKeeps ==
  ASSUME ApplyIInv, UNCHANGED <<durable, runtime>>, Fault \/ Works, at \in StagePoints,
         NEW k \in ActionKinds, StageOK(k), Failure(k),
         k \in {"pull", "stop"} => row[k] \in {"unsatisfied", "missing"}
  PROVE  ApplyIInv'
  <1>1. CASE tx.kind # "upgrade" \/ tx.state = "degraded"
    BY <1>1, ReturnKeeps DEF Failure
  <1>2. CASE ~(tx.kind # "upgrade" \/ tx.state = "degraded")
    <2>a. RowsOK
      BY DEF ApplyIInv, Static
    <2>1. tx.state = "active" /\ at \notin {"idle", "bind"}
      BY <1>2 DEF StageOK, StagePoints, EffectPoints
    <2>2. CASE k \in {"pull", "stop"}
      <3>1. row["stop"] \notin {"unknown", "satisfied"}
        BY <1>2, <2>2, <2>a, UpgradeOrder DEF Recorded
      <3>2. To("fail", k, "failed")
        BY <1>2, <2>2 DEF Failure
      <3>3. Steady => pred.life = "running" /\ pred.name = "service" /\ "rename" \notin late
        BY <1>2, <3>1, Untouched
      <3> QED BY <1>2, <2>1, <3>2, <3>3, FailKeeps DEF To
    <2>3. CASE k \notin {"pull", "stop"}
      <3>1. To("fail", k, "degraded")
        BY <1>2, <2>3 DEF Failure
      <3> QED BY <1>2, <2>1, <3>1, FailKeeps DEF To
    <2> QED BY <2>2, <2>3
  <1> QED BY <1>1, <1>2

(* Where the process works on an effect.                                     *)
LEMMA EffectKeeps ==
  ASSUME ApplyIInv, UNCHANGED <<durable, runtime>>, Fault \/ Works, at \in StagePoints,
         NEW k \in ActionKinds, StageOK(k), row[k] = "unknown", UNCHANGED memory,
         NEW p \in {"recover", "apply", "resume"}, Goto(p, k, "none"),
         p = "apply" => k # "rename" /\ k # "reverse_rename", p = "resume" => k = "remove",
         p = "apply" /\ k = "create" => repl = "gone" /\ ~stray,
         AtWork /\ k \in {"backup", "rename", "create", "restore", "start", "remove"} => Copies,
         AtWork /\ k = "stop" => Copies \/ Lost,
         AtWork /\ Copies /\ ~stray => "create" \notin late
  PROVE  ApplyIInv'
  <1> USE DEF Goto, durable, runtime, containers, contents, earlier, memory
  <1>a. at' = p /\ stage' = k /\ post' = "none"
    OBVIOUS
  <1>1. StageOK(k)'
    BY <1>a, BeforeKept DEF StageOK, Recorded, EffectPoints
  <1>2. ProcessOK'
    BY <1>a, <1>1 DEF ProcessOK, StagePoints, EffectPoints
  <1>3. AtWork' <=> AtWork
    BY <1>a DEF AtWork, StagePoints, EffectPoints
  <1>4. SourcesOK'
    BY <1>a, <1>3 DEF ApplyIInv, Moving, SourcesOK, Copies, Sat
  <1>5. AnswerOK' /\ PointOK'
    <2>1. p = "apply" /\ k = "create" /\ tx.kind = "upgrade" /\ storage # "none" => AtWork
      BY DEF AtWork, StageOK, StagePoints, EffectPoints, RestoreKinds
    <2> QED BY <1>a, <2>1 DEF AnswerOK, PointOK
  <1>6. p \in Points /\ "none" \in Posts /\ sources' \in Memories /\ archive' \in 0..MaxContent
    BY DEF Points, Posts, ApplyIInv, ApplyTypeOK, Memories
  <1> QED BY <1>a, <1>2, <1>4, <1>5, <1>6, MoveKeeps DEF Moving

(* The answer of a probe is what it saw.                                     *)
LEMMA AnswerKeeps ==
  ASSUME ApplyIInv, UNCHANGED <<durable, runtime>>, at \in {"probe", "recover", "reprobe"},
         NEW k \in ActionKinds, k = stage, StageOK(k),
         NEW v \in Digests, EffectProbe(k) = v, Answered(v)
  PROVE  ApplyIInv'
  <1> USE DEF Goto, durable, runtime, containers, contents, earlier
  <1>a. /\ at' = "complete" /\ stage' = k /\ post' = v /\ sources' = sources
        /\ archive' \in {archive, data} /\ Works
    BY DEF Answered
  <1>b. pred \in Containers /\ ApplyTypeOK
    BY DEF ApplyIInv, ApplyTypeOK, Containers
  <1>c. v = "satisfied" => Witnessed(k)
    BY <1>b, Satisfied
  <1>d. v # "satisfied" => /\ k \notin {"inventory", "rename", "reverse_rename"}
                           /\ k = "stop" => pred.life = "running"
                           /\ k = "remove" => pred.life = "exited"
    BY <1>b, Unsatisfied DEF Digests
  <1>1. StageOK(k)'
    BY <1>a, <1>d, BeforeKept DEF StageOK, Recorded, EffectPoints
  <1>2. ProcessOK'
    BY <1>a, <1>1 DEF ProcessOK, StagePoints, EffectPoints
  <1>3. SourcesOK'
    BY <1>a DEF ApplyIInv, Moving, SourcesOK, Copies, Sat, AtWork, StagePoints, EffectPoints
  <1>e. k = "stop" /\ v = "satisfied" /\ storage # "none" => Sat("inventory") /\ Copies
    <2> SUFFICES ASSUME k = "stop", v = "satisfied", storage # "none" PROVE Sat("inventory") /\ Copies
      OBVIOUS
    <2>1. ~Lost
      BY <1>c DEF Witnessed, ApplyIInv, Static, EarlierOK, Dead
    <2>2. tx.kind = "upgrade" /\ Sat("inventory")
      BY <2>1 DEF StageOK, Before, CoreBefore
    <2>3. AtWork
      BY <2>2 DEF AtWork, StageOK, RestoreKinds
    <2> QED BY <2>1, <2>2, <2>3 DEF ApplyIInv, Moving, SourcesOK, StagePoints, EffectPoints
  <1>4. AnswerOK'
    BY <1>a, <1>c, <1>d, <1>e DEF AnswerOK, Witnessed, ReplContent, Dead, Sat, Copies
  <1>5. PointOK'
    BY <1>a DEF PointOK
  <1>6. "complete" \in Points /\ v \in Posts /\ sources' \in Memories /\ archive' \in 0..MaxContent
    BY <1>a, <1>b, MaxContentAssumption DEF Points, Posts, ApplyTypeOK, Memories
  <1> QED BY <1>a, <1>2, <1>3, <1>4, <1>5, <1>6, MoveKeeps DEF Moving

(* The action of the current stage.                                         *)
LEMMA AtStage ==
  ASSUME ApplyIInv, at \in StagePoints
  PROVE  \E k \in ActionKinds : k = stage /\ StageOK(k)
  BY DEF ApplyIInv, Moving, ProcessOK

LEMMA ConflictKeeps ==
  ASSUME ApplyIInv, ConflictingIntent
  PROVE  ApplyIInv'
  BY ReturnKeeps DEF ConflictingIntent, Works

(* An observation that agrees with the rows found the storage of an upgrade that    *)
(* has stopped its predecessor.                                             *)
LEMMA Matched ==
  ASSUME ApplyIInv, Settling, NEW k \in ActionKinds, k = stage, StageOK(k), AtWork
  PROVE  /\ k \in {"backup", "rename", "create", "restore", "start", "remove"} => Copies
         /\ k = "stop" => Copies \/ Lost
         /\ ~Copies /\ ~Lost => Sat("inventory") /\ row["pull"] \in {"absent", "satisfied"}
         /\ Copies /\ ~stray => "create" \notin late
  <1>a. SourcesOK /\ at = "settle"
    BY DEF ApplyIInv, Moving, Settling
  <1>1. k = "stop" => Copies \/ Lost
    BY DEF Settling, IntentMatches, StageOK, Before, CoreBefore, AtWork, Sat, Recorded
  <1> QED BY <1>a, <1>1 DEF SourcesOK, StagePoints, EffectPoints

LEMMA RecoverUnknownKeeps ==
  ASSUME ApplyIInv, RecoverUnknown
  PROVE  ApplyIInv'
  <1>a. at \in StagePoints
    BY DEF RecoverUnknown, Settling, StagePoints
  <1>1. PICK k \in ActionKinds : k = stage /\ StageOK(k)
    BY <1>a, AtStage
  <1>2. AtWork => /\ k \in {"backup", "rename", "create", "restore", "start", "remove"} => Copies
                  /\ k = "stop" => Copies \/ Lost
                  /\ Copies /\ ~stray => "create" \notin late
    BY <1>1, Matched DEF RecoverUnknown
  <1> QED BY <1>a, <1>1, <1>2, EffectKeeps DEF RecoverUnknown, To, Works

(* Working on an effect, the process has seen the storage it copies, and a create   *)
(* under way is its own.                                                    *)
LEMMA AtEffect ==
  ASSUME ApplyIInv, at \in {"probe", "recover"}, NEW k \in ActionKinds, k = stage,
         k = "create" => at = "recover", AtWork
  PROVE  /\ k \in {"backup", "rename", "create", "restore", "start", "remove"} => Copies
         /\ k = "stop" => Copies \/ Lost
         /\ Copies /\ ~stray => "create" \notin late
  BY DEF ApplyIInv, Moving, SourcesOK, StagePoints, EffectPoints

LEMMA ProbeEffectKeeps ==
  ASSUME ApplyIInv, ProbeEffect
  PROVE  ApplyIInv'
  <1>a. at = "probe" /\ at \in StagePoints
    BY DEF ProbeEffect, StagePoints, EffectPoints
  <1>b. UNCHANGED <<durable, runtime>>
    BY DEF ProbeEffect
  <1>1. PICK k \in ActionKinds : k = stage /\ StageOK(k)
    BY <1>a, AtStage
  <1>2. CASE EffectProbe(k) \in Digests /\ Answered(EffectProbe(k))
    BY <1>1, <1>2, <1>a, <1>b, AnswerKeeps
  <1>3. CASE EffectProbe(k) = "incomplete" /\ To("resume", k, "none") /\ Works
    <2>1. k = "remove"
      BY <1>3, Incomplete
    <2>2. AtWork => Copies /\ (~stray => "create" \notin late)
      BY <1>1, <1>a, <2>1, AtEffect
    <2>3. row[k] = "unknown"
      BY <1>1, <1>a DEF StageOK, EffectPoints
    <2> QED BY <1>1, <1>3, <1>a, <1>b, <2>1, <2>2, <2>3, EffectKeeps DEF To
  <1>4. CASE Return /\ (Fault \/ Works)
    BY <1>4, <1>b, ReturnKeeps
  <1> QED BY <1>1, <1>2, <1>3, <1>4 DEF ProbeEffect

LEMMA RecoverEffectKeeps ==
  ASSUME ApplyIInv, RecoverEffect
  PROVE  ApplyIInv'
  <1>a. at = "recover" /\ at \in StagePoints /\ pred \in Containers
    BY DEF RecoverEffect, StagePoints, EffectPoints, ApplyIInv, ApplyTypeOK, Containers
  <1>b. UNCHANGED <<durable, runtime>>
    BY DEF RecoverEffect
  <1>1. PICK k \in ActionKinds : k = stage /\ StageOK(k)
    BY <1>a, AtStage
  <1>c. row[k] = "unknown"
    BY <1>1, <1>a DEF StageOK, EffectPoints
  <1>d. AtWork => /\ k \in {"backup", "rename", "create", "restore", "start", "remove"} => Copies
                  /\ k = "stop" => Copies \/ Lost
                  /\ Copies /\ ~stray => "create" \notin late
    BY <1>1, <1>a, AtEffect
  <1>2. CASE EffectProbe(k) = "satisfied" /\ Answered("satisfied")
    BY <1>1, <1>2, <1>a, <1>b, AnswerKeeps DEF Digests
  <1>3. CASE EffectProbe(k) = "incomplete" /\ To("resume", k, "none") /\ Works
    <2>1. k = "remove"
      BY <1>3, Incomplete
    <2> QED BY <1>1, <1>3, <1>a, <1>b, <1>c, <1>d, <2>1, EffectKeeps DEF To
  <1>4. CASE EffectProbe(k) \in Digests \ {"satisfied"} /\ To("apply", k, "none") /\ Works
    <2>1. k # "rename" /\ k # "reverse_rename" /\ (k = "create" => repl = "gone" /\ ~stray)
      BY <1>4, <1>a, Unsatisfied DEF Digests
    <2> QED BY <1>1, <1>4, <1>a, <1>b, <1>c, <1>d, <2>1, EffectKeeps DEF To
  <1>5. CASE Return /\ (Fault \/ Works)
    BY <1>5, <1>b, ReturnKeeps
  <1> QED BY <1>1, <1>2, <1>3, <1>4, <1>5 DEF RecoverEffect

LEMMA ProbeResumedKeeps ==
  ASSUME ApplyIInv, ProbeResumed
  PROVE  ApplyIInv'
  <1>a. at = "reprobe" /\ at \in StagePoints
    BY DEF ProbeResumed, StagePoints, EffectPoints
  <1>b. UNCHANGED <<durable, runtime>>
    BY DEF ProbeResumed
  <1>1. PICK k \in ActionKinds : k = stage /\ StageOK(k)
    BY <1>a, AtStage
  <1>2. CASE EffectProbe(k) = "satisfied" /\ Answered("satisfied")
    BY <1>1, <1>2, <1>a, <1>b, AnswerKeeps DEF Digests
  <1>3. CASE Return /\ (Fault \/ Works)
    BY <1>3, <1>b, ReturnKeeps
  <1> QED BY <1>1, <1>2, <1>3 DEF ProbeResumed

-----------------------------------------------------------------------------
(* Actions completed before the process was run again.                         *)

LEMMA ThroughHere ==
  ASSUME ApplyIInv, Settling, NEW k \in ActionKinds, k = stage, StageOK(k), Sat(k)
  PROVE  Through(k)
  <1>a. SourcesOK /\ at = "settle"
    BY DEF ApplyIInv, Moving, Settling
  <1>1. tx.kind = "upgrade" /\ tx.state = "active" /\ storage # "none" =>
           /\ k \notin {"pull", "inventory"} => Copies
           /\ ~Copies /\ ~Lost => Sat("inventory") /\ row["pull"] \in {"absent", "satisfied"}
           /\ Copies /\ ~stray => "create" \notin late
    <2>1. tx.kind = "upgrade" /\ tx.state = "active" /\ storage # "none" => AtWork /\ k \in CoreKinds
      BY <1>a DEF AtWork, StageOK
    <2>2. k = "stop" /\ AtWork => Copies
      BY DEF ApplyIInv, Static, RowsOK, Settling, IntentMatches, AtWork, Sat, Recorded
    <2> QED BY <2>1, <2>2, Matched DEF CoreKinds, StorageKinds
  <1> QED BY <1>a, <1>1 DEF Through, StageOK, SourcesOK, Copies

(* A completed action that is trusted or proved again.                         *)
LEMMA ProceedKeeps ==
  ASSUME ApplyIInv, Settling, NEW k \in ActionKinds, k = stage, StageOK(k), Sat(k),
         Proceed(k), UNCHANGED <<durable, runtime>>
  PROVE  ApplyIInv'
  <1>1. Through(k)
    BY ThroughHere
  <1>2. sources' = sources /\ archive' \in 0..MaxContent
    BY DEF Proceed, memory, ApplyIInv, ApplyTypeOK
  <1> QED BY <1>1, <1>2, AdvanceKeeps DEF Proceed

LEMMA AtCompleted ==
  ASSUME ApplyIInv, NEW kinds, Completed(kinds)
  PROVE  /\ Settling /\ at \in StagePoints /\ stage \in kinds /\ row[stage] \in Digests
         /\ \E k \in ActionKinds : k = stage /\ StageOK(k)
  <1>1. Settling /\ at \in StagePoints /\ stage \in kinds /\ row[stage] \in Digests
    BY DEF Completed, Settling, StagePoints
  <1> QED BY <1>1, AtStage

LEMMA CompletedTransitionKeeps ==
  ASSUME ApplyIInv, SettleCompletedTransition
  PROVE  ApplyIInv'
  <1>a. UNCHANGED <<durable, runtime>>
    BY DEF SettleCompletedTransition
  <1>b. /\ Settling /\ at \in StagePoints /\ row[stage] \in Digests
        /\ stage \in {"stop", "rename", "remove"} \cup RestoreKinds
        /\ \E k \in ActionKinds : k = stage /\ StageOK(k)
    BY AtCompleted DEF SettleCompletedTransition
  <1>1. PICK k \in ActionKinds : k = stage /\ StageOK(k)
    BY <1>b
  <1>2. CASE Sat(k) /\ Proceed(k)
    BY <1>1, <1>2, <1>a, <1>b, ProceedKeeps
  <1>3. CASE ~Sat(k) /\ Failure(k) /\ Works
    BY <1>1, <1>3, <1>a, <1>b, FailureKeeps DEF Sat, Digests
  <1> QED BY <1>1, <1>2, <1>3 DEF SettleCompletedTransition, Sat

LEMMA CompletedPullKeeps ==
  ASSUME ApplyIInv, SettleCompletedPull
  PROVE  ApplyIInv'
  <1>a. UNCHANGED <<durable, runtime>>
    BY DEF SettleCompletedPull
  <1>b. /\ Settling /\ at \in StagePoints /\ row[stage] \in Digests /\ stage = "pull"
        /\ \E k \in ActionKinds : k = stage /\ StageOK(k)
    BY AtCompleted DEF SettleCompletedPull
  <1>1. PICK k \in ActionKinds : k = stage /\ StageOK(k)
    BY <1>b
  <1>2. CASE Sat(k) /\ Proceed(k)
    BY <1>1, <1>2, <1>a, <1>b, ProceedKeeps
  <1>3. CASE row[k] = "missing" /\ Failure(k) /\ Works
    BY <1>1, <1>3, <1>a, <1>b, FailureKeeps
  <1>4. CASE Return /\ (Fault \/ Works)
    BY <1>4, <1>a, ReturnKeeps
  <1> QED BY <1>1, <1>2, <1>3, <1>4, <1>b DEF SettleCompletedPull, Sat

LEMMA CompletedInventoryKeeps ==
  ASSUME ApplyIInv, SettleCompletedInventory
  PROVE  ApplyIInv'
  <1>a. UNCHANGED <<durable, runtime>>
    BY DEF SettleCompletedInventory
  <1>b. /\ Settling /\ at \in StagePoints /\ row[stage] \in Digests /\ stage = "inventory"
        /\ \E k \in ActionKinds : k = stage /\ StageOK(k)
    BY AtCompleted DEF SettleCompletedInventory
  <1>1. PICK k \in ActionKinds : k = stage /\ StageOK(k)
    BY <1>b
  <1>2. CASE Advance(k) /\ archive' = data /\ UNCHANGED sources /\ Works
    <2>1. Sat(k)
      BY <1>1, <1>b DEF ApplyIInv, Static, RowsOK
    <2>2. archive' \in 0..MaxContent
      BY <1>2, MaxContentAssumption DEF ApplyIInv, ApplyTypeOK
    <2>3. Through(k)
      BY <1>1, <1>b, <2>1, ThroughHere
    <2> QED BY <1>2, <1>a, <2>2, <2>3, AdvanceKeeps
  <1>3. CASE Return /\ (Fault \/ Works)
    BY <1>3, <1>a, ReturnKeeps
  <1> QED BY <1>1, <1>2, <1>3, <1>b DEF SettleCompletedInventory

LEMMA CompletedCreateKeeps ==
  ASSUME ApplyIInv, SettleCompletedCreate
  PROVE  ApplyIInv'
  <1>a. UNCHANGED <<durable, runtime>>
    BY DEF SettleCompletedCreate
  <1>b. /\ Settling /\ at \in StagePoints /\ row[stage] \in Digests /\ stage = "create"
        /\ \E k \in ActionKinds : k = stage /\ StageOK(k)
    BY AtCompleted DEF SettleCompletedCreate
  <1>1. PICK k \in ActionKinds : k = stage /\ StageOK(k)
    BY <1>b
  <1>2. CASE Sat(k) /\ Proceed(k)
    BY <1>1, <1>2, <1>a, <1>b, ProceedKeeps
  <1>3. CASE Failure(k) /\ (Fault \/ Works)
    BY <1>1, <1>3, <1>a, <1>b, FailureKeeps
  <1> QED BY <1>1, <1>2, <1>3, <1>b DEF SettleCompletedCreate, Sat

LEMMA CompletedProbeKeeps ==
  ASSUME ApplyIInv, SettleCompletedProbe
  PROVE  ApplyIInv'
  <1>a. UNCHANGED <<durable, runtime>>
    BY DEF SettleCompletedProbe
  <1>b. /\ Settling /\ at \in StagePoints /\ row[stage] \in Digests
        /\ stage \in {"backup", "restore", "start"}
        /\ \E k \in ActionKinds : k = stage /\ StageOK(k)
    BY AtCompleted DEF SettleCompletedProbe
  <1>1. PICK k \in ActionKinds : k = stage /\ StageOK(k)
    BY <1>b
  <1>2. CASE Sat(k) /\ Proceed(k)
    BY <1>1, <1>2, <1>a, <1>b, ProceedKeeps
  <1>3. CASE Failure(k) /\ Works
    BY <1>1, <1>3, <1>a, <1>b, FailureKeeps
  <1>4. CASE Return /\ (Fault \/ Works)
    BY <1>4, <1>a, ReturnKeeps
  <1> QED BY <1>1, <1>2, <1>3, <1>4 DEF SettleCompletedProbe, Sat

-----------------------------------------------------------------------------
(* The last proofs of a transaction.                                        *)

LEMMA CommitNext ==
  ASSUME ApplyIInv, UNCHANGED <<durable, runtime>>, Works, To("commit", "none", "none"),
         at \in {"prove", "adopt"}, tx.kind # "adopt" => repl \in {"running", "exited"}
  PROVE  ApplyIInv'
  <1> USE DEF Goto, durable, runtime, containers, contents, earlier
  <1>a. /\ at' = "commit" /\ stage' = "none" /\ post' = "none" /\ sources' = sources /\ archive' = archive
    BY DEF To, memory
  <1>b. /\ tx.state = "active" /\ tx.kind # "none"
        /\ tx.kind = "upgrade" => Sat("remove")
        /\ tx.kind # "adopt" => pred.life = "gone"
    BY DEF ApplyIInv, Moving, Static, ProcessOK, TxOK, LivesOK, ApplyTypeOK, TxKinds
  <1>1. ProcessOK'
    BY <1>a, <1>b DEF ProcessOK, StagePoints, EffectPoints, Sat
  <1>2. SourcesOK'
    BY <1>a DEF ApplyIInv, Moving, SourcesOK, Copies, Sat, AtWork, StagePoints, EffectPoints
  <1>3. AnswerOK' /\ PointOK'
    BY <1>a, <1>b DEF AnswerOK, PointOK
  <1>4. sources' \in Memories /\ archive' \in 0..MaxContent
    BY <1>a DEF ApplyIInv, ApplyTypeOK, Memories
  <1>5. "commit" \in Points /\ "none" \in TxKinds /\ "none" \in Posts
    BY DEF Points, TxKinds, Posts
  <1> QED BY <1>a, <1>1, <1>2, <1>3, <1>4, <1>5, MoveKeeps DEF Moving

LEMMA ProveStartedKeeps ==
  ASSUME ApplyIInv, ProveStarted
  PROVE  ApplyIInv'
  <1>a. UNCHANGED <<durable, runtime>> /\ at = "prove"
    BY DEF ProveStarted
  <1>1. CASE EffectProbe("start") = "satisfied" /\ To("commit", "none", "none") /\ Works
    <2>1. pred \in Containers /\ "start" \in ActionKinds
      BY DEF ApplyIInv, ApplyTypeOK, Containers, ActionKinds, CoreKinds
    <2>2. repl = "running"
      BY <1>1, <2>1, Satisfied DEF Witnessed
    <2> QED BY <1>1, <1>a, <2>2, CommitNext
  <1>2. CASE Return /\ (Fault \/ Works)
    BY <1>2, <1>a, ReturnKeeps
  <1> QED BY <1>1, <1>2 DEF ProveStarted

LEMMA ProveAdoptedKeeps ==
  ASSUME ApplyIInv, ProveAdopted
  PROVE  ApplyIInv'
  <1>a. UNCHANGED <<durable, runtime>> /\ at = "adopt" /\ tx.kind = "adopt"
    BY DEF ProveAdopted, ApplyIInv, Moving, ProcessOK
  <1>1. CASE To("commit", "none", "none") /\ Works
    BY <1>1, <1>a, CommitNext
  <1>2. CASE Return /\ (Fault \/ Works)
    BY <1>2, <1>a, ReturnKeeps
  <1> QED BY <1>1, <1>2 DEF ProveAdopted

LEMMA ProveRestoredKeeps ==
  ASSUME ApplyIInv, ProveRestored
  PROVE  ApplyIInv'
  <1>a. /\ UNCHANGED <<durable, runtime>> /\ at = "restored" /\ tx.kind = "upgrade" /\ tx.state = "degraded"
        /\ pred \in Containers /\ RowsOK /\ NamesOK
    BY DEF ProveRestored, ApplyIInv, Moving, Static, ProcessOK, ApplyTypeOK, Containers
  <1>1. CASE Pred("service", "running") /\ To("fail", "none", "failed") /\ Works
    <2>1. pred.name = "service" /\ pred.life = "running"
      BY <1>1, <1>a, PredIs
    <2>2. "rename" \notin late
      BY <1>a DEF RowsOK, NamesOK, CoreKinds, Pending
    <2>3. "none" \in ActionKinds \cup TxKinds
      BY DEF TxKinds
    <2> QED BY <1>1, <1>a, <2>1, <2>2, <2>3, FailKeeps DEF To
  <1>2. CASE Return /\ (Fault \/ Works)
    BY <1>2, <1>a, ReturnKeeps
  <1> QED BY <1>1, <1>2 DEF ProveRestored

LEMMA CrashKeeps ==
  ASSUME ApplyIInv, Crash
  PROVE  ApplyIInv'
  BY ReturnKeeps DEF Crash

-----------------------------------------------------------------------------
(* Steps that write the journal.                                            *)

LEMMA KindsAre ==
  /\ "pull" \in ActionKinds /\ "inventory" \in ActionKinds /\ "stop" \in ActionKinds
  /\ "backup" \in ActionKinds /\ "rename" \in ActionKinds /\ "create" \in ActionKinds
  /\ "restore" \in ActionKinds /\ "start" \in ActionKinds /\ "remove" \in ActionKinds
  /\ "discard" \in ActionKinds /\ "reverse_rename" \in ActionKinds /\ "restore_start" \in ActionKinds
  BY DEF ActionKinds, CoreKinds, StorageKinds, RestoreKinds

(* One row of the journal changes.                                           *)
RowWritten(k, v) == \A j \in ActionKinds : row'[j] = IF j = k THEN v ELSE row[j]

LEMMA Written ==
  ASSUME ApplyTypeOK, NEW k \in ActionKinds, NEW v \in RowStates, row' = [row EXCEPT ![k] = v]
  PROVE  RowWritten(k, v) /\ row' \in [ActionKinds -> RowStates]
  BY DEF ApplyTypeOK, RowWritten

(* The kinds of the two halves.                                              *)
LEMMA Halves ==
  ASSUME NEW k \in ActionKinds
  PROVE  (k \in CoreKinds) # (k \in RestoreKinds)
  BY DEF ActionKinds, CoreKinds, StorageKinds, RestoreKinds

LEMMA RecordKeeps ==
  ASSUME ApplyIInv, RecordActionIntent
  PROVE  ApplyIInv'
  <1>a. at \in StagePoints /\ at = "settle" /\ Settling
    BY DEF RecordActionIntent, Settling, StagePoints
  <1>1. PICK k \in ActionKinds : k = stage /\ StageOK(k)
    BY <1>a, AtStage
  <1>b. /\ row[k] \in {"absent", "intent"} /\ row' = [row EXCEPT ![k] = "intent"]
        /\ at' = "mark" /\ stage' = k /\ post' = "none" /\ sources' = sources /\ archive' = archive
        /\ UNCHANGED <<storage, applied, tx, inventoried, pred, repl, image, late, stale, strayed, stray, data, copy, published, faults>>
    BY <1>1 DEF RecordActionIntent, To, Goto, memory, runtime, containers, contents, earlier
  <1>c. ApplyTypeOK /\ Static /\ Moving
    BY DEF ApplyIInv
  <1>d. RowWritten(k, "intent") /\ row' \in [ActionKinds -> RowStates]
    BY <1>b, <1>c, Written DEF RowStates, Pending
  <1>2. \A j \in ActionKinds : /\ Sat(j)' <=> Sat(j)
                               /\ Sent(j)' <=> Sent(j)
                               /\ Recorded(j)' <=> Recorded(j) \/ j = k
    BY <1>b, <1>d DEF RowWritten, Sat, Sent, Recorded, Digests
  <1>3. ApplyTypeOK'
    BY <1>b, <1>c, <1>d, KindsAre DEF ApplyTypeOK, Points
  <1>4. row'["pull"] \in {"absent", "satisfied"} <=> row["pull"] \in {"absent", "satisfied"} /\ k # "pull"
    BY <1>b, <1>d, KindsAre DEF RowWritten
  <1>5. k = "pull" => row = NoRows \/ row["pull"] = "intent"
    BY <1>1, <1>b DEF StageOK, Recorded
  <1>6. \A j \in ActionKinds : Recorded(j)' => Before(j)'
    <2> SUFFICES ASSUME NEW j \in ActionKinds, Recorded(j)' PROVE Before(j)'
      OBVIOUS
    <2>1. Before(j)
      BY <1>1, <1>2, <1>c DEF Static, RowsOK, StageOK
    <2>2. CASE tx.kind = "bootstrap"
      BY <1>2, <1>b, <2>1, <2>2, KindsAre DEF Before
    <2>3. CASE tx.kind = "upgrade"
      <3>1. CoreBefore(j) /\ RestoreBefore(j)
        BY <2>1, <2>3 DEF Before
      <3>2. k = "pull" => j \notin {"inventory", "stop"}
        BY <1>2, <1>5, <3>1, KindsAre DEF NoRows, Recorded, CoreBefore
      <3>3. CoreBefore(j)'
        BY <1>2, <1>4, <1>b, <3>1, <3>2, KindsAre DEF CoreBefore
      <3>4. j \in RestoreKinds => k # "create"
        <4>1. k = "create" => tx.state = "active"
          BY <1>1, Halves DEF StageOK, CoreKinds
        <4>2. tx.state = "active" => ~Recorded(j) \/ j \notin RestoreKinds
          BY <1>c DEF Static, RowsOK
        <4> QED BY <1>2, <4>1, <4>2 DEF RestoreKinds
      <3>5. RestoreBefore(j)'
        BY <1>2, <1>b, <3>1, <3>4, KindsAre DEF RestoreBefore, RestoreKinds
      <3> QED BY <1>b, <2>3, <3>3, <3>5 DEF Before
    <2> QED BY <2>1, <2>2, <2>3 DEF Before
  <1>7. RowsOK'
    <2>1. \A j \in {"inventory", "rename", "reverse_rename"} : row'[j] \in Digests => Sat(j)'
      BY <1>2, <1>c, <1>d, KindsAre DEF Static, RowsOK, RowWritten, Digests
    <2>2. tx'.state \notin {"degraded", "failed"} => \A j \in RestoreKinds : ~Recorded(j)'
      BY <1>1, <1>2, <1>b, <1>c, Halves DEF Static, RowsOK, StageOK, ActionKinds
    <2>3. tx'.state \in {"degraded", "failed"} => \A j \in CoreKinds : row'[j] \notin Pending
      BY <1>1, <1>b, <1>c, <1>d, Halves DEF Static, RowsOK, StageOK, RowWritten, ActionKinds
    <2>4. tx'.kind = "upgrade" /\ Recorded("restore")' => published' # 0
      BY <1>1, <1>2, <1>a, <1>b, <1>c, KindsAre DEF Static, RowsOK, Settling, IntentMatches
    <2>5. tx'.state # "failed" /\ (storage' # "none" /\ Sat("stop")' => Sat("inventory")')
      BY <1>1, <1>2, <1>b, <1>c, KindsAre DEF Static, RowsOK, StageOK
    <2> QED BY <1>6, <2>1, <2>2, <2>3, <2>4, <2>5 DEF RowsOK
  <1>8. TxOK' /\ ExplainedOK'
    BY <1>2, <1>b, <1>c, KindsAre DEF Static, TxOK, ExplainedOK, ApplyTypeOK
  <1>9. NamesOK' /\ EarlierOK' /\ LivesOK' /\ StorageOK'
    BY <1>2, <1>b, <1>c, <1>d, KindsAre DEF Static, NamesOK, EarlierOK, LivesOK, StorageOK, PredNamed, ReplContent, RowWritten
  <1>10. SurvivesOK' /\ RestoredOK'
    BY <1>2, <1>b, <1>c, <1>d, KindsAre DEF Static, SurvivesOK, RestoredOK, RowWritten
  <1>11. ProcessOK'
    <2>1. Before(k)'
      BY <1>2, <1>6
    <2>2. StageOK(k)'
      BY <1>1, <1>2, <1>b, <1>d, <2>1 DEF StageOK, RowWritten, EffectPoints
    <2> QED BY <1>b, <2>2 DEF ProcessOK, StagePoints, EffectPoints
  <1>12. SourcesOK'
    <2>1. AtWork' => AtWork
      BY <1>a, <1>b DEF AtWork
    <2>2. AtWork => /\ k \in {"backup", "rename", "create", "restore", "start", "remove"} => Copies
                    /\ k = "stop" => Copies \/ Lost
                    /\ ~Copies /\ ~Lost => Sat("inventory") /\ row["pull"] \in {"absent", "satisfied"}
                    /\ Copies /\ ~stray => "create" \notin late
      BY <1>1, <1>a, Matched
    <2>3. Sat("inventory") => k # "pull" \/ row["pull"] = "intent"
      BY <1>5, KindsAre DEF Sat, NoRows
    <2>4. storage = "none" => sources = "none"
      BY <1>c DEF Moving, SourcesOK
    <2> QED BY <1>2, <1>4, <1>b, <2>1, <2>2, <2>3, <2>4, KindsAre DEF SourcesOK, Copies
  <1>13. AnswerOK' /\ PointOK'
    BY <1>b DEF AnswerOK, PointOK
  <1> QED BY <1>3, <1>7, <1>8, <1>9, <1>10, <1>11, <1>12, <1>13 DEF ApplyIInv, Static, Moving

LEMMA MarkKeeps ==
  ASSUME ApplyIInv, MarkActionEffectOutcomeUnknown
  PROVE  ApplyIInv'
  <1>a. at \in StagePoints /\ at = "mark"
    BY DEF MarkActionEffectOutcomeUnknown, StagePoints
  <1>1. PICK k \in ActionKinds : k = stage /\ StageOK(k)
    BY <1>a, AtStage
  <1>b. /\ row[k] = "intent" /\ row' = [row EXCEPT ![k] = "unknown"]
        /\ at' = "apply" /\ stage' = k /\ post' = "none" /\ sources' = sources /\ archive' = archive
        /\ UNCHANGED <<storage, applied, tx, inventoried, pred, repl, image, late, stale, strayed, stray, data, copy, published, faults>>
    BY <1>1, <1>a DEF MarkActionEffectOutcomeUnknown, StageOK, To, Goto, memory, runtime, containers, contents, earlier
  <1>c. ApplyTypeOK /\ Static /\ Moving
    BY DEF ApplyIInv
  <1>d. RowWritten(k, "unknown") /\ row' \in [ActionKinds -> RowStates]
    BY <1>b, <1>c, Written DEF RowStates, Pending
  <1>2. \A j \in ActionKinds : /\ Sat(j)' <=> Sat(j)
                               /\ Sent(j)' <=> Sent(j) \/ j = k
                               /\ Recorded(j)' <=> Recorded(j)
    BY <1>b, <1>d DEF RowWritten, Sat, Sent, Recorded, Digests
  <1>3. ApplyTypeOK'
    BY <1>b, <1>c, <1>d, KindsAre DEF ApplyTypeOK, Points
  <1>4. row'["pull"] \in {"absent", "satisfied"} <=> row["pull"] \in {"absent", "satisfied"}
    BY <1>b, <1>d, KindsAre DEF RowWritten
  <1>5. \A j \in ActionKinds : Before(j) => Before(j)'
    BY <1>2, <1>4, <1>b, KindsAre DEF Before, CoreBefore, RestoreBefore
  <1>6. RowsOK'
    <2>1. \A j \in ActionKinds : Recorded(j)' => Before(j)'
      BY <1>2, <1>5, <1>c DEF Static, RowsOK
    <2>2. \A j \in {"inventory", "rename", "reverse_rename"} : row'[j] \in Digests => Sat(j)'
      BY <1>2, <1>c, <1>d, KindsAre DEF Static, RowsOK, RowWritten, Digests
    <2>3. tx'.state \notin {"degraded", "failed"} => \A j \in RestoreKinds : ~Recorded(j)'
      BY <1>2, <1>b, <1>c DEF Static, RowsOK, ActionKinds
    <2>4. tx'.state \in {"degraded", "failed"} => \A j \in CoreKinds : row'[j] \notin Pending
      BY <1>1, <1>b, <1>c, <1>d, Halves DEF Static, RowsOK, StageOK, RowWritten, ActionKinds
    <2>5. tx'.kind = "upgrade" /\ Recorded("restore")' => published' # 0
      BY <1>2, <1>b, <1>c, KindsAre DEF Static, RowsOK
    <2>6. tx'.state # "failed" /\ (storage' # "none" /\ Sat("stop")' => Sat("inventory")')
      BY <1>1, <1>2, <1>b, <1>c, KindsAre DEF Static, RowsOK, StageOK
    <2> QED BY <2>1, <2>2, <2>3, <2>4, <2>5, <2>6 DEF RowsOK
  <1>7. TxOK' /\ ExplainedOK'
    BY <1>2, <1>b, <1>c, KindsAre DEF Static, TxOK, ExplainedOK, ApplyTypeOK
  <1>8. NamesOK' /\ EarlierOK' /\ LivesOK' /\ StorageOK'
    BY <1>2, <1>b, <1>c, <1>d, KindsAre DEF Static, NamesOK, EarlierOK, LivesOK, StorageOK, PredNamed, ReplContent, RowWritten
  <1>9. SurvivesOK' /\ RestoredOK'
    <2>1. k = "discard" /\ "remove" \notin LateKinds => pred.life \notin Dead
      <3> SUFFICES ASSUME k = "discard", "remove" \notin LateKinds PROVE pred.life \notin Dead
        OBVIOUS
      <3>1. ~Sat("remove") /\ tx.state = "degraded" /\ tx.kind = "upgrade"
        BY <1>1 DEF StageOK, Before, RestoreBefore, RestoreKinds, CoreKinds, StorageKinds
      <3>2. row["remove"] \in {"absent", "unsatisfied", "missing"}
        BY <1>c, <3>1, KindsAre DEF Static, RowsOK, ApplyTypeOK, RowStates, Pending, Digests, Sat, CoreKinds
      <3>3. row["remove"] = "absent" => ~Sent("remove")
        BY DEF Sent, Digests
      <3> QED BY <1>c, <3>1, <3>2, <3>3 DEF Static, SurvivesOK, ExplainedOK
    <2>2. SurvivesOK'
      BY <1>2, <1>b, <1>c, <1>d, <2>1, KindsAre DEF Static, SurvivesOK, RowWritten
    <2>3. RestoredOK'
      BY <1>b, <1>c, <1>d, KindsAre DEF Static, RestoredOK, RowWritten
    <2> QED BY <2>2, <2>3
  <1>10. ProcessOK'
    <2>1. StageOK(k)'
      BY <1>1, <1>2, <1>5, <1>b, <1>d DEF StageOK, RowWritten, Recorded
    <2> QED BY <1>b, <2>1 DEF ProcessOK, StagePoints, EffectPoints
  <1>11. SourcesOK'
    BY <1>1, <1>2, <1>4, <1>a, <1>b, <1>c, KindsAre
    DEF Moving, SourcesOK, AtWork, Copies, StagePoints, EffectPoints
  <1>12. AnswerOK' /\ PointOK'
    <2>1. k \notin late /\ (k = "create" => repl = "gone")
      BY <1>b, <1>c DEF Static, ExplainedOK, Sent, Digests
    <2> QED BY <1>b, <2>1 DEF AnswerOK, PointOK
  <1> QED BY <1>3, <1>6, <1>7, <1>8, <1>9, <1>10, <1>11, <1>12 DEF ApplyIInv, Static, Moving

LEMMA CompleteKeeps ==
  ASSUME ApplyIInv, CompleteAction
  PROVE  ApplyIInv'
  <1>a. at \in StagePoints /\ at = "complete"
    BY DEF CompleteAction, StagePoints, EffectPoints
  <1>1. PICK k \in ActionKinds : k = stage /\ StageOK(k)
    BY <1>a, AtStage
  <1>z. PICK v : v = post
    OBVIOUS
  <1>b. /\ row[k] = "unknown" /\ v \in Digests /\ row' = [row EXCEPT ![k] = v]
        /\ k \in {"inventory", "rename", "reverse_rename"} => v = "satisfied"
        /\ inventoried' \in {archive, inventoried}
        /\ UNCHANGED <<storage, applied, tx, pred, repl, image, late, stale, strayed, stray, data, copy, published, faults>>
    BY <1>1, <1>a, <1>z DEF CompleteAction, StageOK, EffectPoints, runtime, containers, contents, earlier
  <1>c. ApplyTypeOK /\ Static /\ Moving
    BY DEF ApplyIInv
  <1>d. RowWritten(k, v) /\ row' \in [ActionKinds -> RowStates]
    BY <1>b, <1>c, Written DEF RowStates
  <1>e. /\ k = "rename" => pred.name = "retained"
        /\ k = "reverse_rename" => pred.name = "service"
        /\ k = "stop" /\ v = "satisfied" => /\ pred.life # "running" \/ Revived
                                            /\ storage # "none" => Sat("inventory") /\ Copies
        /\ k = "stop" /\ v # "satisfied" /\ Steady => pred.life = "running"
        /\ k = "remove" /\ v = "satisfied" => pred.life = "gone"
        /\ k = "remove" /\ v # "satisfied" /\ "remove" \notin LateKinds => pred.life \notin Dead
        /\ k = "create" /\ v = "satisfied" => repl # "gone"
        /\ k = "restore" /\ v = "satisfied" /\ repl = "created" =>
               ReplContent = published \/ (storage = "shared" /\ Revived)
    BY <1>1, <1>a, <1>c, <1>z DEF Moving, AnswerOK
  <1>2. \A j \in ActionKinds : /\ Sat(j)' <=> Sat(j) \/ (j = k /\ v = "satisfied")
                               /\ Sent(j)' <=> Sent(j)
                               /\ Recorded(j)' <=> Recorded(j)
    BY <1>b, <1>d DEF RowWritten, Sat, Sent, Recorded, Digests
  <1>3. row["pull"] \in {"absent", "satisfied"} => row'["pull"] = row["pull"]
    BY <1>b, <1>d, KindsAre DEF RowWritten
  <1>4. \A j \in ActionKinds : Recorded(j)' => Before(j)'
    <2> SUFFICES ASSUME NEW j \in ActionKinds, Recorded(j)' PROVE Before(j)'
      OBVIOUS
    <2>1. Before(j)
      BY <1>2, <1>c DEF Static, RowsOK
    <2>2. CASE tx.kind = "bootstrap"
      BY <1>2, <1>b, <2>1, <2>2, KindsAre DEF Before
    <2>3. CASE tx.kind = "upgrade"
      <3>1. CoreBefore(j) /\ RestoreBefore(j)
        BY <2>1, <2>3 DEF Before
      <3>2. CoreBefore(j)'
        BY <1>2, <1>3, <1>b, <3>1, KindsAre DEF CoreBefore
      <3>3. j \in RestoreKinds => k \notin {"remove", "rename"}
        <4>1. k \in {"remove", "rename"} => tx.state = "active"
          BY <1>1, Halves DEF StageOK, CoreKinds
        <4>2. tx.state = "active" => ~Recorded(j) \/ j \notin RestoreKinds
          BY <1>c DEF Static, RowsOK
        <4> QED BY <1>2, <4>1, <4>2 DEF RestoreKinds
      <3>4. RestoreBefore(j)'
        BY <1>2, <1>b, <3>1, <3>3, KindsAre DEF RestoreBefore, RestoreKinds
      <3> QED BY <1>b, <2>3, <3>2, <3>4 DEF Before
    <2> QED BY <2>1, <2>2, <2>3 DEF Before
  <1>5. RowsOK'
    <2>1. \A j \in {"inventory", "rename", "reverse_rename"} : row'[j] \in Digests => Sat(j)'
      BY <1>2, <1>b, <1>c, <1>d, KindsAre DEF Static, RowsOK, RowWritten
    <2>2. tx'.state \notin {"degraded", "failed"} => \A j \in RestoreKinds : ~Recorded(j)'
      BY <1>2, <1>b, <1>c DEF Static, RowsOK, ActionKinds
    <2>3. tx'.state \in {"degraded", "failed"} => \A j \in CoreKinds : row'[j] \notin Pending
      BY <1>b, <1>c, <1>d DEF Static, RowsOK, RowWritten, ActionKinds, Digests, Pending
    <2>4. tx'.kind = "upgrade" /\ Recorded("restore")' => published' # 0
      BY <1>2, <1>b, <1>c, KindsAre DEF Static, RowsOK
    <2>5. tx'.state # "failed" /\ (storage' # "none" /\ Sat("stop")' => Sat("inventory")')
      BY <1>1, <1>2, <1>b, <1>c, <1>e, KindsAre DEF Static, RowsOK, StageOK
    <2> QED BY <1>4, <2>1, <2>2, <2>3, <2>4, <2>5 DEF RowsOK
  <1>6. TxOK' /\ ExplainedOK'
    BY <1>2, <1>b, <1>c, KindsAre DEF Static, TxOK, ExplainedOK, ApplyTypeOK
  <1>7. NamesOK' /\ EarlierOK'
    BY <1>2, <1>b, <1>c, <1>d, <1>e, KindsAre DEF Static, NamesOK, EarlierOK, PredNamed, RowWritten
  <1>8. LivesOK'
    BY <1>2, <1>b, <1>c, <1>e, KindsAre DEF Static, LivesOK, PredNamed
  <1>9. StorageOK'
    BY <1>2, <1>b, <1>c, <1>e, KindsAre DEF Static, StorageOK, ReplContent
  <1>10. SurvivesOK' /\ RestoredOK'
    BY <1>2, <1>b, <1>c, <1>d, <1>e, KindsAre DEF Static, SurvivesOK, RestoredOK, RowWritten
  <1>11. /\ archive' \in 0..MaxContent /\ sources' \in Memories /\ Moving'
         /\ at' \in Points /\ stage' \in ActionKinds \cup TxKinds /\ post' \in Posts
    <2>a. sources \in Memories /\ archive \in 0..MaxContent /\ 0 \in 0..MaxContent /\ "none" \in Memories
      BY <1>c, MaxContentAssumption DEF ApplyTypeOK, Memories
    <2>1. CASE v = "satisfied"
      <3>1. Advance(k) /\ UNCHANGED memory
        BY <1>1, <1>z, <2>1 DEF CompleteAction
      <3>2. sources' = sources /\ archive' = archive
        BY <3>1 DEF memory
      <3>3. Before(k)' /\ Sat(k)'
        BY <1>2, <1>4, <1>b, <2>1 DEF Recorded
      <3>4. tx.kind = "upgrade" /\ tx.state = "active" /\ storage # "none" => AtWork /\ k \in CoreKinds
        BY <1>1, <1>a DEF AtWork, StageOK
      <3>5. Through(k)'
        <4>1. k \in CoreKinds \ {"pull", "inventory"} /\ AtWork => Copies
          BY <1>1, <1>a, <1>c, <1>e, <2>1 DEF Moving, SourcesOK, StagePoints, EffectPoints, CoreKinds, StorageKinds, AtWork
        <4>2. AtWork /\ ~Copies /\ ~Lost => Sat("inventory") /\ row["pull"] \in {"absent", "satisfied"}
          BY <1>c DEF Moving, SourcesOK
        <4>3. AtWork /\ Copies /\ ~stray => "create" \notin late
          <5>1. k = "create" => Sat("create")'
            BY <3>3
          <5> QED BY <1>1, <1>9, <1>a, <1>b, <1>c, <5>1 DEF Moving, SourcesOK, StorageOK, AtWork
        <4>4. storage = "none" => ~Copies
          BY <1>c DEF Moving, SourcesOK, Copies
        <4>5. (tx.state = "active" /\ k \in CoreKinds) \/ (tx.state = "degraded" /\ k \in RestoreKinds)
          BY <1>1 DEF StageOK
        <4>6. Copies' <=> Copies
          BY <3>2 DEF Copies
        <4> QED BY <1>2, <1>3, <1>b, <3>3, <3>4, <4>1, <4>2, <4>3, <4>4, <4>5, <4>6, KindsAre DEF Through
      <3>6. k = "discard" => row'["rename"] = row["rename"]
        BY <1>d, KindsAre DEF RowWritten
      <3> QED BY <1>b, <2>a, <3>1, <3>2, <3>5, <3>6, AdvanceMoves
    <2>2. CASE v # "satisfied"
      <3>1. Failure(k)
        BY <1>1, <1>z, <2>2 DEF CompleteAction
      <3>2. CASE tx.kind # "upgrade" \/ tx.state = "degraded"
        <4>1. /\ at' = "idle" /\ stage' = "none" /\ post' = "none" /\ sources' = "none" /\ archive' = 0
          BY <3>1, <3>2 DEF Failure, Return, Goto
        <4> QED BY <2>a, <4>1, Idle DEF Points, Posts, TxKinds
      <3>3. CASE ~(tx.kind # "upgrade" \/ tx.state = "degraded")
        <4>1. /\ at' = "fail" /\ stage' = k /\ sources' = sources /\ archive' = archive
              /\ post' = IF k \in {"pull", "stop"} THEN "failed" ELSE "degraded"
          BY <3>1, <3>3 DEF Failure, To, Goto, memory
        <4>2. tx.kind = "upgrade" /\ tx.state = "active"
          BY <1>1, <3>3 DEF StageOK
        <4>3. ProcessOK'
          BY <1>b, <4>1, <4>2 DEF ProcessOK, StagePoints, EffectPoints
        <4>4. SourcesOK'
          <5>1. AtWork' <=> AtWork
            BY <1>a, <1>b, <4>1 DEF AtWork
          <5> QED BY <1>2, <1>3, <1>c, <4>1, <5>1, <1>b, KindsAre
                  DEF Moving, SourcesOK, Copies, StagePoints, EffectPoints
        <4>5. k \in {"pull", "stop"} /\ Steady =>
                pred.life = "running" /\ pred.name = "service" /\ "rename" \notin late
          <5>1. CASE k = "pull"
            <6>1. row["stop"] = "absent"
              BY <1>b, <1>c, <4>2, <5>1, UpgradeOrder DEF Static, Recorded
            <6> QED BY <4>2, <6>1, Untouched
          <5>2. CASE k = "stop"
            <6>1. ~Recorded("rename")
              BY <1>b, <1>c, <4>2, <5>2, UpgradeOrder DEF Static, Sat
            <6>2. ~Sent("rename")
              BY <6>1 DEF Sent, Recorded, Digests
            <6> QED BY <1>c, <1>e, <2>2, <5>2, <6>2 DEF Static, ExplainedOK, ApplyTypeOK
          <5> QED BY <5>1, <5>2
        <4>6. AnswerOK' /\ PointOK'
          BY <1>b, <4>1, <4>5 DEF AnswerOK, PointOK
        <4> QED BY <2>a, <4>1, <4>3, <4>4, <4>6 DEF Moving, Points, Posts
      <3> QED BY <3>2, <3>3
    <2> QED BY <2>1, <2>2
  <1>12. ApplyTypeOK'
    BY <1>11, <1>b, <1>c, <1>d DEF ApplyTypeOK, Memories, Posts
  <1> QED BY <1>5, <1>6, <1>7, <1>8, <1>9, <1>10, <1>11, <1>12 DEF ApplyIInv, Static

-----------------------------------------------------------------------------
(* How a transaction begins and ends.                                       *)

LEMMA BeginKeeps ==
  ASSUME ApplyIInv, Begin
  PROVE  ApplyIInv'
  <1>1. PICK k : k = stage
    OBVIOUS
  <1>a. /\ at = "bind" /\ late = {} /\ pred.name = "service" /\ repl = "gone"
        /\ k \in {"bootstrap", "adopt", "upgrade"}
        /\ k = "upgrade" => applied = "old"
        /\ k = "bootstrap" => pred.life = "gone"
        /\ k # "bootstrap" => pred.life \in {"running", "exited"} \/ Lost
        /\ k # "bootstrap" /\ "pred" \notin Exits => pred.life = "running" \/ "stop" \in strayed
        /\ k # "upgrade" => stale = {} /\ strayed = {} /\ ~stray
        /\ storage = "none" => sources = "none"
        /\ k = "upgrade" /\ storage # "none" => Copies
    BY <1>1 DEF Begin, ApplyIInv, Static, EarlierOK, Moving, ProcessOK, PointOK, SourcesOK
  <1>b. /\ tx' = [kind |-> k, state |-> "active"] /\ row' = NoRows
        /\ inventoried' = 0 /\ published' = 0 /\ copy' = 0
        /\ at' = (IF k = "adopt" THEN "adopt" ELSE "image") /\ stage' = "none" /\ post' = "none"
        /\ UNCHANGED <<sources, archive, storage, applied, pred, repl, image, late, data, faults>>
        /\ UNCHANGED <<stale, strayed, stray>>
    BY <1>1 DEF Begin, To, Goto, memory, containers, earlier
  <1>c. tx'.kind = k /\ tx'.state = "active"
    BY <1>b
  <1>2. \A j \in ActionKinds : row'[j] = "absent"
    BY <1>b DEF NoRows
  <1>3. \A j \in ActionKinds : ~Sat(j)' /\ ~Sent(j)' /\ ~Recorded(j)'
    BY <1>2 DEF Sat, Sent, Recorded, Digests
  <1>4. ApplyTypeOK'
    <2>1. tx' \in [kind : TxKinds, state : TxStates]
      BY <1>a, <1>b DEF TxKinds, TxStates, Unresolved
    <2>2. row' \in [ActionKinds -> RowStates]
      BY <1>b DEF NoRows, RowStates
    <2>3. at' \in Points /\ "none" \in TxKinds /\ 0 \in 0..MaxContent
      BY <1>b, MaxContentAssumption DEF Points, TxKinds
    <2> QED BY <1>b, <2>1, <2>2, <2>3 DEF ApplyIInv, ApplyTypeOK
  <1>5. TxOK' /\ ExplainedOK' /\ NamesOK'
    BY <1>3, <1>a, <1>b, <1>c, KindsAre DEF TxOK, ExplainedOK, NamesOK, Dead
  <1>6. RowsOK'
    BY <1>2, <1>3, <1>c, KindsAre DEF RowsOK, ActionKinds, Digests
  <1>7. LivesOK' /\ StorageOK'
    BY <1>3, <1>a, <1>b, <1>c, KindsAre DEF LivesOK, StorageOK
  <1>8. SurvivesOK' /\ RestoredOK'
    BY <1>2, <1>3, <1>a, <1>b, <1>c, KindsAre DEF ApplyIInv, Static, SurvivesOK, RestoredOK, Steady
  <1>d. EarlierOK'
    BY <1>a, <1>b, <1>c DEF ApplyIInv, Static, EarlierOK, PredNamed
  <1>9. ProcessOK' /\ AnswerOK' /\ PointOK'
    BY <1>a, <1>b, <1>c DEF ProcessOK, AnswerOK, PointOK, StagePoints, EffectPoints
  <1>10. SourcesOK'
    BY <1>a, <1>b, <1>c DEF SourcesOK, AtWork, Copies, StagePoints, EffectPoints
  <1> QED BY <1>4, <1>5, <1>6, <1>7, <1>8, <1>9, <1>10, <1>d DEF ApplyIInv, Static, Moving

(* The state of the transaction changes, and the process returns.               *)
LEMMA EndType ==
  ASSUME ApplyTypeOK, Return, NEW s \in TxStates, tx' = [tx EXCEPT !.state = s],
         applied' \in {"none", "old", "adopted", "new"},
         UNCHANGED <<storage, row, inventoried, runtime, faults>>
  PROVE  /\ ApplyTypeOK' /\ Moving' /\ tx'.kind = tx.kind /\ tx'.state = s
         /\ \A j : (Sat(j)' <=> Sat(j)) /\ (Sent(j)' <=> Sent(j)) /\ (Recorded(j)' <=> Recorded(j))
         /\ \A j : Before(j)' <=> Before(j)
  <1>1. tx' \in [kind : TxKinds, state : TxStates] /\ tx'.kind = tx.kind /\ tx'.state = s
    BY DEF ApplyTypeOK
  <1>2. at' \in Points /\ stage' \in TxKinds /\ post' \in Posts /\ sources' = "none" /\ archive' = 0
        /\ 0 \in 0..MaxContent
    BY MaxContentAssumption DEF Return, Goto, Points, TxKinds, Posts
  <1>3. ApplyTypeOK'
    BY <1>1, <1>2 DEF ApplyTypeOK, runtime, containers, contents, earlier, Posts
  <1>4. Moving'
    BY Idle DEF Return, Goto
  <1>5. \A j : (Sat(j)' <=> Sat(j)) /\ (Sent(j)' <=> Sent(j)) /\ (Recorded(j)' <=> Recorded(j))
    BY DEF Sat, Sent, Recorded
  <1>6. \A j : Before(j)' <=> Before(j)
    BY <1>1 DEF Before, CoreBefore, RestoreBefore, Sat, Recorded, runtime, earlier
  <1> QED BY <1>1, <1>3, <1>4, <1>5, <1>6

LEMMA SetStateKeeps ==
  ASSUME ApplyIInv, SetTransactionState
  PROVE  ApplyIInv'
  <1>a. /\ Static /\ ApplyTypeOK /\ tx.kind = "upgrade" /\ post \in {"failed", "degraded"}
        /\ tx.state = "active" \/ (tx.state = "degraded" /\ post = "failed")
        /\ post = "failed" /\ Steady =>
               pred.life = "running" /\ pred.name = "service" /\ "rename" \notin late
    BY DEF SetTransactionState, ApplyIInv, Moving, ProcessOK, PointOK
  <1>b. UNCHANGED <<storage, applied, row, inventoried, runtime, faults>> /\ Return
    BY DEF SetTransactionState
  <1>1. CASE PendingKinds # {}
    <2>1. UNCHANGED <<durable, runtime>> /\ Works
      BY <1>1, <1>b DEF SetTransactionState, durable, Works
    <2> QED BY <1>b, <2>1, ReturnKeeps
  <1>2. CASE PendingKinds = {}
    <2>1. PICK s : s = post
      OBVIOUS
    <2>2. tx' = [tx EXCEPT !.state = s] /\ s \in TxStates
      BY <1>2, <1>a, <2>1 DEF SetTransactionState, TxStates, Unresolved
    <2>3. /\ ApplyTypeOK' /\ Moving' /\ tx'.kind = tx.kind /\ tx'.state = s
          /\ \A j : (Sat(j)' <=> Sat(j)) /\ (Sent(j)' <=> Sent(j)) /\ (Recorded(j)' <=> Recorded(j))
          /\ \A j : Before(j)' <=> Before(j)
      BY <1>a, <1>b, <2>2, EndType DEF ApplyTypeOK
    <2>4. \A j \in ActionKinds : row[j] \notin Pending
      BY <1>2 DEF PendingKinds
    <2> USE DEF runtime, containers, contents, earlier
    <2>5. TxOK' /\ RowsOK'
      BY <1>a, <1>b, <2>1, <2>3, <2>4 DEF Static, TxOK, RowsOK, ActionKinds
    <2>6. ExplainedOK' /\ NamesOK' /\ EarlierOK'
      BY <1>a, <1>b, <2>3 DEF Static, ExplainedOK, NamesOK, EarlierOK, PredNamed
    <2>7. LivesOK' /\ StorageOK'
      BY <1>a, <1>b, <2>1, <2>3 DEF Static, LivesOK, StorageOK, ReplContent, PredNamed
    <2>8. SurvivesOK' /\ RestoredOK'
      BY <1>a, <1>b, <2>1, <2>3 DEF Static, SurvivesOK, RestoredOK
    <2> QED BY <2>3, <2>5, <2>6, <2>7, <2>8 DEF ApplyIInv, Static
  <1> QED BY <1>1, <1>2

LEMMA CommitKeeps ==
  ASSUME ApplyIInv, CommitAppliedService
  PROVE  ApplyIInv'
  <1>a. /\ Static /\ ApplyTypeOK /\ tx.state = "active"
        /\ tx.kind # "adopt" => pred.life = "gone" /\ repl \in {"running", "exited"}
    BY DEF CommitAppliedService, ApplyIInv, Moving, ProcessOK, PointOK
  <1>b. /\ UNCHANGED <<storage, row, inventoried, runtime, faults>> /\ Return
        /\ applied' \in {"adopted", "new"} /\ tx' = [tx EXCEPT !.state = "succeeded"]
    BY DEF CommitAppliedService
  <1>1. /\ ApplyTypeOK' /\ Moving' /\ tx'.kind = tx.kind /\ tx'.state = "succeeded"
        /\ \A j : (Sat(j)' <=> Sat(j)) /\ (Sent(j)' <=> Sent(j)) /\ (Recorded(j)' <=> Recorded(j))
        /\ \A j : Before(j)' <=> Before(j)
    BY <1>a, <1>b, EndType DEF ApplyTypeOK, TxStates
  <1> USE DEF runtime, containers, contents, earlier
  <1>2. TxOK' /\ RowsOK'
    BY <1>1, <1>a, <1>b DEF Static, TxOK, RowsOK, ActionKinds
  <1>3. ExplainedOK' /\ NamesOK' /\ EarlierOK'
    BY <1>1, <1>a, <1>b DEF Static, ExplainedOK, NamesOK, EarlierOK, PredNamed
  <1>4. LivesOK' /\ StorageOK'
    BY <1>1, <1>a, <1>b DEF Static, LivesOK, StorageOK, ReplContent, PredNamed
  <1>5. SurvivesOK' /\ RestoredOK'
    BY <1>1, <1>a, <1>b DEF Static, SurvivesOK, RestoredOK
  <1> QED BY <1>1, <1>2, <1>3, <1>4, <1>5 DEF ApplyIInv, Static

-----------------------------------------------------------------------------
(* Steps of the runtime.                                                    *)

(* Where a request comes from: the caller that waits for it, or one that gave up.   *)
Carried(k) ==
    \/ k \in late /\ late' = late \ {k}
    \/ /\ at = "apply" /\ k = stage /\ StageOK(k) /\ late' = late
       /\ k \in {"rename", "reverse_rename"} => k \notin late
       /\ k = "create" /\ tx.kind = "upgrade" /\ storage # "none" => "create" \notin late

LEMMA CarriedRow ==
  ASSUME ApplyIInv, NEW k \in ActionKinds, Carried(k)
  PROVE  /\ Sent(k) /\ Recorded(k) /\ Before(k) /\ tx.kind \in {"bootstrap", "upgrade"}
         /\ k \in late \/ row[k] = "unknown"
         /\ k \in late \/ (tx.state = "active" /\ k \in CoreKinds) \/ (tx.state = "degraded" /\ k \in RestoreKinds)
         /\ late' \subseteq late
         /\ k \in {"rename", "reverse_rename"} => row[k] = "unknown" /\ k \notin late'
         /\ k \in late' => k \in late /\ row[k] = "unknown"
         /\ k = "create" /\ tx.kind = "upgrade" /\ storage # "none" => "create" \notin late' /\ ~Sat("create")
  <1>a. RowsOK /\ ExplainedOK /\ NamesOK /\ StorageOK
    BY DEF ApplyIInv, Static
  <1>1. k \in late \/ row[k] = "unknown"
    BY DEF Carried, StageOK, EffectPoints
  <1>2. Sent(k)
    BY <1>1, <1>a DEF ExplainedOK, Sent
  <1>3. Recorded(k) /\ Before(k)
    BY <1>2, <1>a DEF RowsOK, Sent, Recorded, Digests
  <1>4. tx.kind \in {"bootstrap", "upgrade"}
    BY <1>3 DEF Before
  <1>5. late' \subseteq late /\ (k \in late' => k \in late /\ row[k] = "unknown")
    BY DEF Carried, StageOK, EffectPoints
  <1>6. k \in {"rename", "reverse_rename"} => row[k] = "unknown" /\ k \notin late'
    BY <1>1, <1>a DEF Carried, NamesOK
  <1>7. k = "create" /\ tx.kind = "upgrade" /\ storage # "none" => "create" \notin late' /\ ~Sat("create")
    BY <1>1, <1>a DEF Carried, StorageOK, Sat
  <1>8. k \in late \/ (tx.state = "active" /\ k \in CoreKinds) \/ (tx.state = "degraded" /\ k \in RestoreKinds)
    BY DEF Carried, StageOK
  <1> QED BY <1>1, <1>2, <1>3, <1>4, <1>5, <1>6, <1>7, <1>8

(* The same rows.                                                          *)
LEMMA SameRows ==
  ASSUME UNCHANGED <<durable, earlier>>
  PROVE  /\ \A j : (Sat(j)' <=> Sat(j)) /\ (Sent(j)' <=> Sent(j)) /\ (Recorded(j)' <=> Recorded(j))
         /\ \A j : Before(j)' <=> Before(j)
         /\ storage' = storage /\ applied' = applied /\ tx' = tx /\ row' = row /\ inventoried' = inventoried
         /\ stale' = stale /\ strayed' = strayed /\ stray' = stray
  BY DEF durable, earlier, Sat, Sent, Recorded, Before, CoreBefore, RestoreBefore

LEMMA PerformType ==
  ASSUME ApplyIInv, NEW k \in ActionKinds, Carried(k), Perform(k), UNCHANGED <<durable, earlier>>
  PROVE  /\ pred' \in Containers /\ PredStep(k) /\ ReplStep(k) /\ ContentStep(k)
         /\ repl' \in Lifecycles /\ image' \in BOOLEAN /\ late' \subseteq ActionKinds
         /\ data' \in 1..MaxContent /\ copy' \in 0..MaxContent /\ published' \in 0..MaxContent
         /\ k = "restore" => published # 0
  <1>a. ApplyTypeOK /\ RowsOK /\ pred \in Containers
    BY DEF ApplyIInv, Static, ApplyTypeOK, Containers
  <1>1. pred' \in Containers /\ PredStep(k) /\ ReplStep(k) /\ ContentStep(k)
    BY <1>a, AfterPred, PerformsRest DEF Perform
  <1>2. k = "restore" => published # 0
    BY <1>a, CarriedRow DEF RowsOK, Before
  <1>3. image' \in BOOLEAN /\ late' \subseteq ActionKinds
    BY <1>a, CarriedRow DEF Perform, ApplyTypeOK
  <1>4. repl' \in Lifecycles
    BY <1>1, <1>a DEF ReplStep, ApplyTypeOK, Lifecycles
  <1>5. data' \in 1..MaxContent /\ copy' \in 0..MaxContent /\ published' \in 0..MaxContent
    BY <1>1, <1>2, <1>a, MaxContentAssumption DEF ContentStep, ApplyTypeOK
  <1> QED BY <1>1, <1>2, <1>3, <1>4, <1>5

(* A request that is carried out keeps the runtime in agreement with the journal.    *)
LEMMA PerformKeeps ==
  ASSUME ApplyIInv, NEW k \in ActionKinds, Carried(k), Perform(k), UNCHANGED <<durable, earlier>>
  PROVE  Static'
  <1>a. /\ Sent(k) /\ Recorded(k) /\ Before(k) /\ tx.kind \in {"bootstrap", "upgrade"}
        /\ k \in late \/ row[k] = "unknown"
        /\ k \in late \/ (tx.state = "active" /\ k \in CoreKinds) \/ (tx.state = "degraded" /\ k \in RestoreKinds)
        /\ late' \subseteq late
        /\ k \in {"rename", "reverse_rename"} => row[k] = "unknown" /\ k \notin late'
        /\ k \in late' => k \in late /\ row[k] = "unknown"
        /\ k = "create" /\ tx.kind = "upgrade" /\ storage # "none" => "create" \notin late' /\ ~Sat("create")
    BY CarriedRow
  <1>b. /\ pred' \in Containers /\ PredStep(k) /\ ReplStep(k) /\ ContentStep(k)
        /\ k = "restore" => published # 0
    BY PerformType
  <1>c. /\ \A j : (Sat(j)' <=> Sat(j)) /\ (Sent(j)' <=> Sent(j)) /\ (Recorded(j)' <=> Recorded(j))
        /\ \A j : Before(j)' <=> Before(j)
        /\ storage' = storage /\ applied' = applied /\ tx' = tx /\ row' = row /\ inventoried' = inventoried
        /\ stale' = stale /\ strayed' = strayed /\ stray' = stray
    BY SameRows
  <1>d. Static /\ ApplyTypeOK
    BY DEF ApplyIInv
  <1>e. \A j \in ActionKinds : Recorded(j) => Before(j)
    BY <1>d DEF Static, RowsOK
  <1>1. TxOK' /\ RowsOK'
    BY <1>b, <1>c, <1>d DEF Static, TxOK, RowsOK, ContentStep
  <1>2. ExplainedOK'
    BY <1>a, <1>b, <1>c, <1>d DEF Static, ExplainedOK, PredStep, ReplStep, ContentStep, Dead
  <1>3. k = "rename" => ~Recorded("reverse_rename")
    BY <1>a, <1>e, KindsAre DEF Before, RestoreBefore, Sat
  <1>4. k = "reverse_rename" => Sent("reverse_rename")
    BY <1>a
  <1>f. \A j : Sat(j) => Recorded(j)
    BY DEF Sat, Recorded
  <1>5. NamesOK'
    <2>1. PredNamed' => repl' = "gone"
      BY <1>b, <1>d DEF Static, NamesOK, PredNamed, NameFree, PredStep, ReplStep, Dead
    <2>2. "rename" \in late' => pred'.name = "service" /\ row'["rename"] = "unknown"
      BY <1>a, <1>b, <1>c, <1>d DEF Static, NamesOK, PredStep
    <2>3. Sat("rename")' /\ ~Sent("reverse_rename")' => pred'.name = "retained"
      BY <1>4, <1>b, <1>c, <1>d DEF Static, NamesOK, PredStep
    <2>4. Sat("reverse_rename")' => pred'.name = "service"
      BY <1>3, <1>b, <1>c, <1>d, <1>f DEF Static, NamesOK, PredStep
    <2>5. "reverse_rename" \in late' => pred'.name = "retained" /\ row'["reverse_rename"] = "unknown"
      BY <1>a, <1>b, <1>c, <1>d DEF Static, NamesOK, PredStep
    <2> QED BY <2>1, <2>2, <2>3, <2>4, <2>5 DEF NamesOK
  <1>g. EarlierOK'
    BY <1>b, <1>c, <1>d DEF Static, EarlierOK, PredNamed, NameFree, PredStep, ReplStep, Dead
  <1>h. k = "rename" => tx.state # "failed"
    BY <1>a, <1>d DEF Static, RowsOK, CoreKinds, Pending
  <1>6. k = "discard" => tx.state \in {"degraded", "failed"}
    BY <1>a, <1>d DEF Static, RowsOK, RestoreKinds
  <1>7. LivesOK'
    <2>1. Sat("stop")' /\ ~Sent("restore_start")' /\ ~Revived' =>
             pred'.life # "running" \/ (tx'.state = "failed" /\ PredNamed')
      BY <1>a, <1>b, <1>c, <1>d, <1>h DEF Static, LivesOK, PredStep, PredNamed, Dead
    <2>2. /\ Sat("remove")' => pred'.life = "gone"
          /\ tx'.kind = "bootstrap" => pred'.life = "gone"
      BY <1>b, <1>c, <1>d DEF Static, LivesOK, PredStep, Dead
    <2>3. Sat("create")' /\ ~Sent("discard")' => repl' # "gone"
      BY <1>a, <1>b, <1>c, <1>d DEF Static, LivesOK, ReplStep
    <2>4. tx'.state = "succeeded" /\ tx'.kind # "adopt" =>
             pred'.life = "gone" /\ repl' \in {"running", "exited"}
      BY <1>6, <1>b, <1>c, <1>d DEF Static, LivesOK, PredStep, ReplStep, NameFree, Dead
    <2> QED BY <1>a, <1>c, <2>1, <2>2, <2>3, <2>4 DEF LivesOK
  <1>8. StorageOK'
    <2> SUFFICES ASSUME tx.kind = "upgrade", storage # "none"
                 PROVE  /\ "create" \in late' => repl' = "gone" /\ ~Sat("create")'
                        /\ Sat("restore")' /\ repl' = "created" =>
                               ReplContent' = published' \/ (storage = "shared" /\ Revived)
      BY <1>c DEF StorageOK
    <2>1. "create" \in late' => repl' = "gone" /\ ~Sat("create")'
      BY <1>a, <1>b, <1>c, <1>d DEF Static, StorageOK, ReplStep
    <2>2. ASSUME Sat("restore"), repl' = "created", ~(storage = "shared" /\ Revived)
          PROVE  ReplContent' = published'
      <3>1. published # 0 /\ Sat("create")
        BY <1>d, <1>f, <2>2, UpgradeOrder DEF Static, RowsOK
      <3>2. repl = "created" /\ k # "create"
        BY <1>a, <1>b, <2>2, <3>1 DEF ReplStep
      <3>3. published' = published
        BY <1>b, <3>1 DEF ContentStep
      <3>4. storage \in {"shared", "private"}
        BY <1>d, StoragesAssumption DEF ApplyTypeOK
      <3>5. ReplContent = published
        BY <1>d, <2>2, <3>2 DEF Static, StorageOK
      <3> QED BY <1>b, <1>c, <3>2, <3>3, <3>4, <3>5 DEF ContentStep, ReplContent
    <2> QED BY <1>c, <2>1, <2>2
  <1>9. SurvivesOK'
    <2> SUFFICES ASSUME "remove" \notin LateKinds
                 PROVE  /\ "remove" \notin late' /\ "remove" \notin stale /\ ~Lost
                        /\ row["remove"] \in {"unsatisfied", "missing"} => pred'.life \notin Dead
                        /\ Sent("discard") => pred'.life \notin Dead
      BY <1>c DEF SurvivesOK
    <2>1. "remove" \notin late
      BY <1>d DEF Static, SurvivesOK
    <2>2. k = "remove" => row["remove"] = "unknown" /\ ~Sent("discard")
      <3>1. k = "remove" => row["remove"] = "unknown" /\ tx.state = "active"
        BY <1>a, <2>1 DEF RestoreKinds
      <3>2. tx.state = "active" => ~Recorded("discard")
        BY <1>d DEF Static, RowsOK, RestoreKinds
      <3> QED BY <3>1, <3>2 DEF Sent, Recorded, Digests
    <2> QED BY <1>a, <1>b, <1>d, <2>1, <2>2 DEF Static, SurvivesOK, PredStep, Dead
  <1>10. RestoredOK'
    <2> SUFFICES ASSUME Steady
                 PROVE  /\ "stop" \notin late' /\ "stop" \notin stale /\ "stop" \notin strayed
                        /\ tx.kind = "upgrade" /\ row["stop"] \notin {"unknown", "satisfied"} =>
                               pred'.life = "running"
                        /\ tx.state = "failed" =>
                               pred'.life = "running" /\ pred'.name = "service" /\ "rename" \notin late'
      BY <1>c DEF RestoredOK
    <2>1. "stop" \notin late
      BY <1>d DEF Static, RestoredOK
    <2>2. k = "stop" => row["stop"] = "unknown" /\ tx.state # "failed"
      BY <1>a, <2>1
    <2>3. k = "rename" /\ tx.state = "failed" => k \in late
      BY <1>a
    <2> QED BY <1>a, <1>b, <1>d, <2>1, <2>2, <2>3 DEF Static, RestoredOK, PredStep, Dead
  <1> QED BY <1>1, <1>2, <1>5, <1>7, <1>8, <1>9, <1>10, <1>g DEF Static

LEMMA LateKeeps ==
  ASSUME ApplyIInv, NEW k \in ActionKinds, LateEffect(k)
  PROVE  ApplyIInv'
  <1>a. /\ k \in late /\ late' = late \ {k} /\ Perform(k)
        /\ UNCHANGED <<durable, earlier>> /\ UNCHANGED <<at, stage, post, sources, archive, faults>>
    BY DEF LateEffect, process, memory
  <1>b. Carried(k)
    BY <1>a DEF Carried
  <1>c. /\ Sent(k) /\ Recorded(k) /\ Before(k)
        /\ k \in {"rename", "reverse_rename"} => row[k] = "unknown" /\ k \notin late'
        /\ k = "create" /\ tx.kind = "upgrade" /\ storage # "none" => "create" \notin late' /\ ~Sat("create")
    BY <1>b, CarriedRow
  <1>d. /\ pred' \in Containers /\ PredStep(k) /\ ReplStep(k) /\ ContentStep(k)
        /\ repl' \in Lifecycles /\ image' \in BOOLEAN /\ late' \subseteq ActionKinds
        /\ data' \in 1..MaxContent /\ copy' \in 0..MaxContent /\ published' \in 0..MaxContent
    BY <1>a, <1>b, PerformType
  <1>e. /\ \A j : (Sat(j)' <=> Sat(j)) /\ (Sent(j)' <=> Sent(j)) /\ (Recorded(j)' <=> Recorded(j))
        /\ \A j : Before(j)' <=> Before(j)
        /\ storage' = storage /\ applied' = applied /\ tx' = tx /\ row' = row /\ inventoried' = inventoried
        /\ stale' = stale /\ strayed' = strayed /\ stray' = stray
    BY <1>a, SameRows
  <1>f. ApplyTypeOK /\ Static /\ Moving
    BY DEF ApplyIInv
  <1>g. \A j : Sat(j) => Recorded(j)
    BY DEF Sat, Recorded
  <1>h. k \in RestoreKinds => tx.state \in {"degraded", "failed"} /\ Sat("stop")
    BY <1>c, <1>f DEF Static, RowsOK, Before, RestoreBefore, RestoreKinds
  <1>1. ApplyTypeOK'
    BY <1>a, <1>d, <1>e, <1>f DEF ApplyTypeOK, Containers
  <1>2. Static'
    BY <1>a, <1>b, PerformKeeps
  <1>3. ProcessOK'
    <2>1. \A j \in ActionKinds : StageOK(j) => StageOK(j)'
      BY <1>a, <1>e DEF StageOK
    <2> QED BY <1>a, <1>e, <1>f, <2>1 DEF Moving, ProcessOK
  <1>4. SourcesOK'
    BY <1>a, <1>e, <1>f DEF Moving, SourcesOK, AtWork, Copies
  <1>5. AnswerOK'
    <2> SUFFICES ASSUME at = "complete" PROVE AnswerOK'
      BY <1>a DEF AnswerOK
    <2>1. PICK s \in ActionKinds : s = stage /\ StageOK(s)
      BY AtStage DEF StagePoints, EffectPoints
    <2>2. /\ row[s] = "unknown" /\ ~Sat(s) /\ Before(s) /\ Recorded(s)
          /\ (tx.state = "active" /\ s \in CoreKinds) \/ (tx.state = "degraded" /\ s \in RestoreKinds)
      BY <2>1 DEF StageOK, Sat, Recorded, EffectPoints
    <2>3. s = "rename" => k # "reverse_rename"
      BY <1>c, <2>2 DEF Before, RestoreBefore
    <2>4. s = "reverse_rename" => k # "rename"
      BY <1>c, <2>2 DEF Before, RestoreBefore, Sat
    <2>5. s = "stop" => k # "restore_start" /\ (Steady => k # "stop")
      BY <1>a, <1>f, <1>h, <2>2 DEF Static, RestoredOK, RestoreKinds
    <2>6. s = "remove" /\ "remove" \notin LateKinds => k # "remove"
      BY <1>a, <1>f DEF Static, SurvivesOK
    <2>7. s = "create" => k # "discard"
      BY <1>h, <2>2 DEF RestoreKinds, CoreKinds, StorageKinds
    <2>8. s = "restore" => k # "create" /\ published # 0 /\ storage \in {"shared", "private"}
      <3> SUFFICES ASSUME s = "restore" PROVE k # "create" /\ published # 0 /\ storage \in {"shared", "private"}
        OBVIOUS
      <3>1. tx.kind = "upgrade" /\ storage # "none" /\ Sat("create")
        BY <2>2 DEF Before, CoreBefore, StorageKinds
      <3> QED BY <1>c, <1>f, <2>2, <3>1, StoragesAssumption DEF Static, RowsOK, ApplyTypeOK
    <2>9. s = "restore" /\ post = "satisfied" /\ repl' = "created" =>
             ReplContent' = published' \/ (storage = "shared" /\ Revived)
      <3> SUFFICES ASSUME s = "restore", post = "satisfied", repl' = "created",
                          ~(storage = "shared" /\ Revived)
                   PROVE  ReplContent' = published'
        OBVIOUS
      <3>1. repl = "created"
        BY <1>d, <2>8 DEF ReplStep
      <3>2. ReplContent = published
        BY <1>f, <2>1, <3>1 DEF Moving, AnswerOK
      <3> QED BY <1>d, <1>e, <2>8, <3>1, <3>2 DEF ContentStep, ReplContent
    <2> QED BY <1>a, <1>d, <1>e, <1>f, <2>1, <2>3, <2>4, <2>5, <2>6, <2>7, <2>9
            DEF Moving, AnswerOK, PredStep, ReplStep, Dead, Copies
  <1>6. PointOK'
    <2>1. at # "bind"
      BY <1>a, <1>f DEF Moving, PointOK
    <2>2. at = "apply" /\ stage = "create" /\ tx.kind = "upgrade" /\ storage # "none" =>
            "create" \notin late' /\ repl' = "gone"
      BY <1>a, <1>d, <1>f DEF Moving, PointOK, ReplStep
    <2>3. at = "commit" /\ tx.kind # "adopt" => pred'.life = "gone" /\ repl' \in {"running", "exited"}
      <3>1. at = "commit" => k # "discard"
        BY <1>f, <1>h DEF Moving, ProcessOK, RestoreKinds
      <3> QED BY <1>d, <1>f, <3>1 DEF Moving, PointOK, PredStep, ReplStep, NameFree, Dead
    <2>4. at = "fail" /\ post = "failed" /\ Steady =>
            pred'.life = "running" /\ pred'.name = "service" /\ "rename" \notin late'
      <3>1. Steady => k # "stop"
        BY <1>a, <1>f DEF Static, RestoredOK
      <3> QED BY <1>a, <1>d, <1>f, <3>1 DEF Moving, PointOK, PredStep, Dead
    <2> QED BY <1>a, <1>e, <1>f, <2>1, <2>2, <2>3, <2>4 DEF Moving, PointOK
  <1> QED BY <1>1, <1>2, <1>3, <1>4, <1>5, <1>6 DEF ApplyIInv, Moving

(* A request of an earlier transaction is carried out: whatever it changes of the       *)
(* predecessor, strayed records.                                             *)
LEMMA StaleKeeps ==
  ASSUME ApplyIInv, NEW k \in ActionKinds, StaleEffect(k)
  PROVE  ApplyIInv'
  <1>a. ApplyTypeOK /\ Static /\ Moving /\ pred \in Containers
    BY DEF ApplyIInv, ApplyTypeOK, Containers
  <1>b. /\ k \in stale /\ stale' = stale \ {k} /\ image' = (image \/ k = "pull")
        /\ stray' = (stray \/ (k = "create" /\ NameFree))
        /\ pred' # pred => k \in strayed'
        /\ strayed \subseteq strayed' /\ strayed' \subseteq strayed \cup {k}
        /\ UNCHANGED <<storage, applied, tx, row, inventoried, repl, late, data, copy, published>>
        /\ UNCHANGED <<at, stage, post, sources, archive, faults>>
    BY DEF StaleEffect, durable, contents, process, memory
  <1>c. tx.kind = "upgrade" /\ k # "rename" /\ k # "reverse_rename"
    BY <1>a, <1>b DEF Static, EarlierOK
  <1>d. pred' \in Containers /\ PredStep(k)
    BY <1>a, AfterPred DEF StaleEffect
  <1>e. /\ pred'.name = pred.name
        /\ pred'.life = pred.life \/ k \in strayed'
        /\ pred'.life # pred.life =>
               \/ k = "stop" /\ pred.life = "running" /\ pred'.life = "exited"
               \/ k = "restore_start" /\ pred.life = "exited" /\ pred'.life = "running"
               \/ k = "remove" /\ pred.life = "exited" /\ pred'.life \in Dead
    BY <1>b, <1>c, <1>d DEF PredStep
  <1>f. \A j : (Sat(j)' <=> Sat(j)) /\ (Sent(j)' <=> Sent(j)) /\ (Recorded(j)' <=> Recorded(j))
    BY <1>b DEF Sat, Sent, Recorded
  <1>g. (Lost => Lost') /\ (Revived => Revived') /\ (stray => stray')
    BY <1>b
  <1>h. \A j : Before(j) => Before(j)'
    BY <1>b, <1>f, <1>g DEF Before, CoreBefore, RestoreBefore
  <1>1. ApplyTypeOK'
    <2>1. image' \in BOOLEAN /\ stray' \in BOOLEAN
      BY <1>b DEF NameFree
    <2> QED BY <1>a, <1>b, <1>d, <2>1 DEF ApplyTypeOK, Containers
  <1>2. TxOK' /\ RowsOK'
    BY <1>a, <1>b, <1>f, <1>h DEF Static, TxOK, RowsOK
  <1>3. ExplainedOK'
    BY <1>a, <1>b, <1>e, <1>f DEF Static, ExplainedOK, Dead
  <1>4. NamesOK'
    BY <1>a, <1>b, <1>e, <1>f DEF Static, NamesOK, PredNamed, Dead
  <1>5. EarlierOK'
    <2>1. stray' => ~PredNamed' /\ repl' = "gone"
      BY <1>a, <1>b, <1>e DEF Static, EarlierOK, PredNamed, NameFree, Dead
    <2>2. Lost' => pred'.life \in Dead
      <3>1. Lost => pred'.life \in Dead
        BY <1>a, <1>e DEF Static, EarlierOK, Dead
      <3>2. "remove" \in strayed' => Lost \/ (k = "remove" /\ pred' # pred)
        BY DEF StaleEffect
      <3>3. k = "remove" /\ pred' # pred => pred'.life \in Dead
        BY <1>d DEF PredStep
      <3> QED BY <3>1, <3>2, <3>3
    <2> QED BY <1>a, <1>b, <1>c, <2>1, <2>2 DEF Static, EarlierOK
  <1>6. LivesOK'
    BY <1>a, <1>b, <1>c, <1>e, <1>f, <1>g DEF Static, LivesOK, PredNamed, Dead
  <1>7. StorageOK'
    BY <1>a, <1>b, <1>f, <1>g DEF Static, StorageOK, ReplContent
  <1>8. SurvivesOK' /\ RestoredOK'
    BY <1>a, <1>b, <1>e, <1>f DEF Static, SurvivesOK, RestoredOK, Dead
  <1>9. ProcessOK'
    <2>1. \A j \in ActionKinds : StageOK(j) => StageOK(j)'
      BY <1>b, <1>f, <1>h DEF StageOK
    <2> QED BY <1>a, <1>b, <1>f, <2>1 DEF Moving, ProcessOK
  <1>10. SourcesOK'
    BY <1>a, <1>b, <1>f, <1>g DEF Moving, SourcesOK, AtWork, Copies
  <1>11. AnswerOK'
    BY <1>8, <1>a, <1>b, <1>e, <1>f, <1>g DEF Static, SurvivesOK, RestoredOK, Moving, AnswerOK, ReplContent, Copies, Dead
  <1>12. PointOK'
    BY <1>a, <1>b, <1>e, <1>g DEF Static, RestoredOK, Moving, PointOK, Dead
  <1> QED BY <1>1, <1>2, <1>3, <1>4, <1>5, <1>6, <1>7, <1>8, <1>9, <1>10, <1>11, <1>12
          DEF ApplyIInv, Static, Moving

(* A request given up on is still to come.                                   *)
LEMMA SentLate ==
  ASSUME ApplyIInv, NEW k \in ActionKinds, k = stage, StageOK(k), at = "apply", Requested(k),
         k \in LateKinds, late' = late \cup {k}, UNCHANGED <<durable, containers, contents, earlier>>
  PROVE  Static'
  <1>a. Static /\ ApplyTypeOK /\ PointOK /\ row[k] = "unknown" /\ tx.state # "failed" /\ pred \in Containers
    BY DEF ApplyIInv, Moving, StageOK, EffectPoints, ApplyTypeOK, Containers
  <1>b. /\ \A j : (Sat(j)' <=> Sat(j)) /\ (Sent(j)' <=> Sent(j)) /\ (Recorded(j)' <=> Recorded(j))
        /\ \A j : Before(j)' <=> Before(j)
        /\ storage' = storage /\ applied' = applied /\ tx' = tx /\ row' = row /\ inventoried' = inventoried
        /\ stale' = stale /\ strayed' = strayed /\ stray' = stray
    BY SameRows
  <1> USE DEF containers, contents, earlier
  <1>1. TxOK' /\ RowsOK'
    BY <1>a, <1>b DEF Static, TxOK, RowsOK
  <1>2. ExplainedOK'
    BY <1>a, <1>b DEF Static, ExplainedOK, Sent
  <1>3. NamesOK'
    <2>1. /\ k = "rename" => pred.name = "service"
          /\ k = "reverse_rename" => pred.name = "retained"
      BY <1>a, PredIs DEF Requested
    <2> QED BY <1>a, <1>b, <2>1 DEF Static, NamesOK, PredNamed
  <1>4. LivesOK' /\ EarlierOK'
    BY <1>a, <1>b DEF Static, LivesOK, EarlierOK, PredNamed
  <1>5. StorageOK'
    BY <1>a, <1>b DEF Static, StorageOK, PointOK, Sat, ReplContent
  <1>6. SurvivesOK' /\ RestoredOK'
    BY <1>a, <1>b DEF Static, SurvivesOK, RestoredOK, Steady
  <1> QED BY <1>1, <1>2, <1>3, <1>4, <1>5, <1>6 DEF Static

LEMMA ApplyEffectKeeps ==
  ASSUME ApplyIInv, ApplyEffect
  PROVE  ApplyIInv'
  <1>a. at = "apply" /\ at \in StagePoints
    BY DEF ApplyEffect, StagePoints, EffectPoints
  <1>1. PICK k \in ActionKinds : k = stage /\ StageOK(k)
    BY <1>a, AtStage
  <1>b. /\ UNCHANGED <<durable, earlier>> /\ at' = "probe" /\ stage' = k /\ post' = "none"
        /\ sources' = sources /\ archive' = archive
    BY <1>1 DEF ApplyEffect, To, Goto, memory, runtime
  <1>c. /\ \A j : (Sat(j)' <=> Sat(j)) /\ (Sent(j)' <=> Sent(j)) /\ (Recorded(j)' <=> Recorded(j))
        /\ \A j : Before(j)' <=> Before(j)
        /\ storage' = storage /\ applied' = applied /\ tx' = tx /\ row' = row /\ inventoried' = inventoried
        /\ stale' = stale /\ strayed' = strayed /\ stray' = stray
    BY <1>b, SameRows
  <1>d. faults' \in 0..MaxFaults
    BY TypeOfFault DEF ApplyEffect, ApplyIInv
  <1>e. ApplyTypeOK /\ Moving
    BY DEF ApplyIInv
  <1>2. /\ Static' /\ pred' \in Containers
        /\ repl' \in Lifecycles /\ image' \in BOOLEAN /\ late' \subseteq late \cup {k}
        /\ data' \in 1..MaxContent /\ copy' \in 0..MaxContent /\ published' \in 0..MaxContent
    <2>1. CASE Perform(k) /\ UNCHANGED late
      <3>1. Carried(k)
        BY <1>1, <1>a, <1>e, <2>1 DEF Carried, Moving, PointOK
      <3>2. Static'
        BY <1>b, <2>1, <3>1, PerformKeeps
      <3> QED BY <1>b, <2>1, <3>1, <3>2, PerformType
    <2>2. CASE UNCHANGED runtime
      <3>1. Static'
        BY <1>b, <2>2, StaticKept DEF ApplyIInv
      <3> QED BY <1>e, <2>2, <3>1 DEF runtime, containers, contents, earlier, ApplyTypeOK, Containers
    <2>3. CASE /\ Requested(k) /\ k \in LateKinds
               /\ late' = late \cup {k} /\ UNCHANGED <<containers, contents, earlier>>
      <3>1. Static'
        BY <1>1, <1>a, <1>b, <2>3, SentLate
      <3> QED BY <1>e, <2>3, <3>1 DEF containers, contents, earlier, ApplyTypeOK, Containers
    <2> QED BY <1>1, <2>1, <2>2, <2>3 DEF ApplyEffect
  <1>3. ApplyTypeOK'
    BY <1>2, <1>b, <1>c, <1>d, <1>e DEF ApplyTypeOK, Containers, Points
  <1>4. ProcessOK'
    <2>1. StageOK(k)'
      BY <1>1, <1>a, <1>b, <1>c DEF StageOK, EffectPoints
    <2> QED BY <1>b, <2>1 DEF ProcessOK, StagePoints, EffectPoints
  <1>5. SourcesOK'
    BY <1>1, <1>2, <1>a, <1>b, <1>c, <1>e DEF Moving, SourcesOK, AtWork, Copies, StagePoints, EffectPoints
  <1>6. AnswerOK' /\ PointOK'
    BY <1>b DEF AnswerOK, PointOK
  <1> QED BY <1>2, <1>3, <1>4, <1>5, <1>6 DEF ApplyIInv, Moving

(* A process that stays where it is.                                         *)
LEMMA ProcessKept ==
  ASSUME ApplyIInv, UNCHANGED <<durable, late, earlier, process, memory>>
  PROVE  ProcessOK' /\ SourcesOK'
  <1>a. /\ \A j : (Sat(j)' <=> Sat(j)) /\ (Sent(j)' <=> Sent(j)) /\ (Recorded(j)' <=> Recorded(j))
        /\ \A j : Before(j)' <=> Before(j)
        /\ storage' = storage /\ applied' = applied /\ tx' = tx /\ row' = row /\ inventoried' = inventoried
        /\ stale' = stale /\ strayed' = strayed /\ stray' = stray
    BY SameRows
  <1> USE DEF process, memory
  <1>1. \A j \in ActionKinds : StageOK(j) => StageOK(j)'
    BY <1>a DEF StageOK
  <1>2. ProcessOK'
    BY <1>1, <1>a DEF ApplyIInv, Moving, ProcessOK
  <1>3. SourcesOK'
    BY <1>a DEF ApplyIInv, Moving, SourcesOK, AtWork, Copies
  <1> QED BY <1>2, <1>3

LEMMA FinishKeeps ==
  ASSUME ApplyIInv, FinishRemoval
  PROVE  ApplyIInv'
  <1>a. /\ pred.life = "removing" /\ ApplyTypeOK /\ Static /\ Moving /\ pred \in Containers
        /\ UNCHANGED <<durable, repl, image, late, contents, earlier, process, memory, faults>>
    BY DEF FinishRemoval, ApplyIInv, ApplyTypeOK, Containers
  <1>b. pred' \in Containers /\ pred'.name = pred.name /\ pred'.life = "gone"
    BY <1>a, WithLife DEF FinishRemoval, Lifecycles
  <1>c. /\ \A j : (Sat(j)' <=> Sat(j)) /\ (Sent(j)' <=> Sent(j)) /\ (Recorded(j)' <=> Recorded(j))
        /\ \A j : Before(j)' <=> Before(j)
        /\ storage' = storage /\ applied' = applied /\ tx' = tx /\ row' = row /\ inventoried' = inventoried
        /\ stale' = stale /\ strayed' = strayed /\ stray' = stray
    BY <1>a, SameRows
  <1> USE DEF contents, process, memory
  <1>1. ApplyTypeOK'
    BY <1>a, <1>b, <1>c DEF ApplyTypeOK, Containers
  <1>2. TxOK' /\ RowsOK' /\ ExplainedOK'
    BY <1>a, <1>b, <1>c DEF Static, TxOK, RowsOK, ExplainedOK, Dead
  <1>3. NamesOK' /\ EarlierOK' /\ LivesOK' /\ StorageOK'
    BY <1>a, <1>b, <1>c DEF Static, NamesOK, EarlierOK, LivesOK, StorageOK, PredNamed, ReplContent, Dead
  <1>4. SurvivesOK' /\ RestoredOK'
    BY <1>a, <1>b, <1>c DEF Static, SurvivesOK, RestoredOK, Dead
  <1>5. AnswerOK' /\ PointOK'
    BY <1>a, <1>b, <1>c DEF Moving, AnswerOK, PointOK, ReplContent, Dead, Copies
  <1>6. ProcessOK' /\ SourcesOK'
    BY <1>a, ProcessKept
  <1> QED BY <1>1, <1>2, <1>3, <1>4, <1>5, <1>6 DEF ApplyIInv, Static, Moving

LEMMA ExitPredKeeps ==
  ASSUME ApplyIInv, ExitPredecessor
  PROVE  ApplyIInv'
  <1>a. /\ pred.life = "running" /\ "pred" \in Exits /\ ApplyTypeOK /\ Static /\ Moving /\ pred \in Containers
        /\ UNCHANGED <<durable, repl, image, late, contents, earlier, process, memory>>
        /\ faults' \in 0..MaxFaults
    BY TypeOfFault DEF ExitPredecessor, ApplyIInv, ApplyTypeOK, Containers
  <1>b. pred' \in Containers /\ pred'.name = pred.name /\ pred'.life = "exited"
    BY <1>a, WithLife DEF ExitPredecessor, Lifecycles
  <1>c. /\ \A j : (Sat(j)' <=> Sat(j)) /\ (Sent(j)' <=> Sent(j)) /\ (Recorded(j)' <=> Recorded(j))
        /\ \A j : Before(j)' <=> Before(j)
        /\ storage' = storage /\ applied' = applied /\ tx' = tx /\ row' = row /\ inventoried' = inventoried
        /\ stale' = stale /\ strayed' = strayed /\ stray' = stray
    BY <1>a, SameRows
  <1> USE DEF contents, process, memory
  <1>1. ApplyTypeOK'
    BY <1>a, <1>b, <1>c DEF ApplyTypeOK, Containers
  <1>2. TxOK' /\ RowsOK' /\ ExplainedOK'
    BY <1>a, <1>b, <1>c DEF Static, TxOK, RowsOK, ExplainedOK, Dead
  <1>3. NamesOK' /\ EarlierOK' /\ LivesOK' /\ StorageOK'
    BY <1>a, <1>b, <1>c DEF Static, NamesOK, EarlierOK, LivesOK, StorageOK, PredNamed, ReplContent, Dead
  <1>4. SurvivesOK' /\ RestoredOK'
    BY <1>a, <1>b, <1>c DEF Static, SurvivesOK, RestoredOK, Steady, Dead
  <1>5. AnswerOK' /\ PointOK'
    BY <1>a, <1>b, <1>c DEF Moving, AnswerOK, PointOK, ReplContent, Steady, Dead, Copies
  <1>6. ProcessOK' /\ SourcesOK'
    BY <1>a, ProcessKept
  <1> QED BY <1>1, <1>2, <1>3, <1>4, <1>5, <1>6 DEF ApplyIInv, Static, Moving

LEMMA ExitReplKeeps ==
  ASSUME ApplyIInv, ExitReplacement
  PROVE  ApplyIInv'
  <1>a. /\ repl = "running" /\ repl' = "exited" /\ ApplyTypeOK /\ Static /\ Moving
        /\ UNCHANGED <<durable, pred, image, late, contents, earlier, process, memory>>
        /\ faults' \in 0..MaxFaults
    BY TypeOfFault DEF ExitReplacement, ApplyIInv
  <1>c. /\ \A j : (Sat(j)' <=> Sat(j)) /\ (Sent(j)' <=> Sent(j)) /\ (Recorded(j)' <=> Recorded(j))
        /\ \A j : Before(j)' <=> Before(j)
        /\ storage' = storage /\ applied' = applied /\ tx' = tx /\ row' = row /\ inventoried' = inventoried
        /\ stale' = stale /\ strayed' = strayed /\ stray' = stray
    BY <1>a, SameRows
  <1> USE DEF contents, process, memory
  <1>1. ApplyTypeOK'
    BY <1>a, <1>c DEF ApplyTypeOK, Lifecycles
  <1>2. TxOK' /\ RowsOK' /\ ExplainedOK'
    BY <1>a, <1>c DEF Static, TxOK, RowsOK, ExplainedOK
  <1>3. NamesOK' /\ EarlierOK' /\ LivesOK' /\ StorageOK'
    BY <1>a, <1>c DEF Static, NamesOK, EarlierOK, LivesOK, StorageOK, PredNamed, ReplContent, Dead
  <1>4. SurvivesOK' /\ RestoredOK'
    BY <1>a, <1>c DEF Static, SurvivesOK, RestoredOK
  <1>5. AnswerOK' /\ PointOK'
    BY <1>a, <1>c DEF Moving, AnswerOK, PointOK, ReplContent, Copies
  <1>6. ProcessOK' /\ SourcesOK'
    BY <1>a, ProcessKept
  <1> QED BY <1>1, <1>2, <1>3, <1>4, <1>5, <1>6 DEF ApplyIInv, Static, Moving

LEMMA ResumeIncompleteKeeps ==
  ASSUME ApplyIInv, ResumeIncomplete
  PROVE  ApplyIInv'
  <1>a. at = "resume" /\ at \in StagePoints
    BY DEF ResumeIncomplete, StagePoints, EffectPoints
  <1>1. PICK k \in ActionKinds : k = stage /\ StageOK(k)
    BY <1>a, AtStage
  <1>b. /\ k = "remove" /\ row[k] = "unknown" /\ Before(k) /\ tx.state = "active"
        /\ ApplyTypeOK /\ Static /\ Moving /\ pred \in Containers
    BY <1>1, <1>a DEF StageOK, EffectPoints, RestoreKinds, ApplyIInv, ApplyTypeOK, Containers
  <1>c. /\ UNCHANGED <<durable, repl, image, late, contents, earlier>> /\ at' = "reprobe" /\ stage' = k /\ post' = "none"
        /\ sources' = sources /\ archive' = archive /\ faults' \in 0..MaxFaults
    BY <1>1, <1>b, TypeOfFault DEF ResumeIncomplete, To, Goto, memory
  <1>d. pred' \in Containers /\ pred'.name = pred.name /\ pred'.life \in {pred.life, "gone"}
    <2>1. CASE pred' = pred
      BY <1>b, <2>1
    <2>2. CASE pred' = [pred EXCEPT !.life = "gone"]
      <3>1. "gone" \in Lifecycles
        BY DEF Lifecycles
      <3> QED BY <1>b, <2>2, <3>1, WithLife
    <2> QED BY <2>1, <2>2 DEF ResumeIncomplete
  <1>e. /\ \A j : (Sat(j)' <=> Sat(j)) /\ (Sent(j)' <=> Sent(j)) /\ (Recorded(j)' <=> Recorded(j))
        /\ \A j : Before(j)' <=> Before(j)
        /\ storage' = storage /\ applied' = applied /\ tx' = tx /\ row' = row /\ inventoried' = inventoried
        /\ stale' = stale /\ strayed' = strayed /\ stray' = stray
    BY <1>c, SameRows
  <1>f. /\ tx.kind = "upgrade" /\ Sent("remove") /\ ~Sent("discard") /\ Sat("stop")
    <2>1. tx.kind = "upgrade" /\ Sent("remove")
      BY <1>b DEF Before, Sent
    <2>2. ~Sent("discard")
      BY <1>b DEF Static, RowsOK, RestoreKinds, Sent, Recorded, Digests
    <2>3. Recorded("remove") /\ \A j : Sat(j) => Recorded(j)
      BY <1>b DEF Sat, Recorded
    <2>4. Sat("stop")
      BY <1>b, <2>1, <2>3, UpgradeOrder DEF Static
    <2> QED BY <2>1, <2>2, <2>4
  <1> USE DEF contents
  <1>2. ApplyTypeOK'
    BY <1>b, <1>c, <1>d, <1>e DEF ApplyTypeOK, Containers, Points
  <1>3. TxOK' /\ RowsOK' /\ ExplainedOK'
    BY <1>b, <1>c, <1>d, <1>e, <1>f DEF Static, TxOK, RowsOK, ExplainedOK, Dead
  <1>4. NamesOK' /\ EarlierOK' /\ LivesOK' /\ StorageOK'
    BY <1>b, <1>c, <1>d, <1>e, <1>f DEF Static, NamesOK, EarlierOK, LivesOK, StorageOK, PredNamed, ReplContent, Dead
  <1>5. SurvivesOK' /\ RestoredOK'
    BY <1>b, <1>c, <1>d, <1>e, <1>f DEF Static, SurvivesOK, RestoredOK, Sat
  <1>6. ProcessOK'
    <2>1. StageOK(k)'
      BY <1>1, <1>a, <1>b, <1>c, <1>e DEF StageOK, EffectPoints
    <2> QED BY <1>c, <2>1 DEF ProcessOK, StagePoints, EffectPoints
  <1>7. SourcesOK'
    BY <1>1, <1>a, <1>b, <1>c, <1>e DEF Moving, SourcesOK, AtWork, Copies, StagePoints, EffectPoints
  <1>8. AnswerOK' /\ PointOK'
    BY <1>c DEF AnswerOK, PointOK
  <1> QED BY <1>2, <1>3, <1>4, <1>5, <1>6, <1>7, <1>8 DEF ApplyIInv, Static, Moving

(* A stopped predecessor does not run beside its replacement: restore discards it     *)
(* and takes the name back first.  Only an earlier upgrade's request revives it.    *)
LEMMA Quiet ==
  ASSUME ApplyIInv, tx.kind = "upgrade", Sat("stop"), repl # "gone"
  PROVE  pred.life # "running" \/ Revived
  <1>a. RowsOK /\ NamesOK /\ LivesOK /\ ExplainedOK /\ pred \in Containers
    BY DEF ApplyIInv, Static, ApplyTypeOK, Containers
  <1>1. CASE ~Sent("restore_start")
    BY <1>1, <1>a DEF LivesOK, NamesOK
  <1>2. CASE Sent("restore_start")
    <2>1. Recorded("restore_start") /\ \A j : Sat(j) \/ Sent(j) => Recorded(j)
      BY <1>2 DEF Sent, Sat, Recorded, Digests
    <2>2. Recorded("create")
      BY <1>a, <2>1 DEF ExplainedOK
    <2>3. RestoreBefore("restore_start")
      BY <1>a, <2>1, KindsAre DEF RowsOK, Before
    <2>4. Sat("reverse_rename")
      BY <2>2, <2>3 DEF RestoreBefore, RestoreKinds
    <2> QED BY <1>a, <2>4 DEF NamesOK, PredNamed
  <1> QED BY <1>1, <1>2

LEMMA WriteKeeps ==
  ASSUME ApplyIInv, WriteContent
  PROVE  ApplyIInv'
  <1>a. /\ storage # "none" /\ ApplyTypeOK /\ Static /\ Moving
        /\ UNCHANGED <<durable, pred, repl, image, late, published, earlier, process, memory, faults>>
    BY DEF WriteContent, ApplyIInv, containers
  <1>b. /\ data' = data \/ pred.life = "running" \/ repl = "running"
        /\ copy' = copy \/ repl = "running"
        /\ data' \in 1..MaxContent /\ copy' \in 0..MaxContent
    BY <1>a, MaxContentAssumption DEF WriteContent, ApplyTypeOK
  <1>c. /\ \A j : (Sat(j)' <=> Sat(j)) /\ (Sent(j)' <=> Sent(j)) /\ (Recorded(j)' <=> Recorded(j))
        /\ \A j : Before(j)' <=> Before(j)
        /\ storage' = storage /\ applied' = applied /\ tx' = tx /\ row' = row /\ inventoried' = inventoried
        /\ stale' = stale /\ strayed' = strayed /\ stray' = stray
    BY <1>a, SameRows
  <1>d. \A j : Sat(j) \/ Sent(j) => Recorded(j)
    BY DEF Sat, Sent, Recorded, Digests
  <1> USE DEF process, memory
  <1>1. ApplyTypeOK'
    BY <1>a, <1>b, <1>c DEF ApplyTypeOK
  <1>2. TxOK' /\ RowsOK'
    BY <1>a, <1>c DEF Static, TxOK, RowsOK
  <1>3. ExplainedOK'
    <2>1. tx.kind = "upgrade" /\ repl = "running" => Sent("restore")
      <3> SUFFICES ASSUME tx.kind = "upgrade", repl = "running" PROVE Sent("restore")
        OBVIOUS
      <3>1. Recorded("start")
        BY <1>a, <1>d DEF Static, ExplainedOK
      <3> QED BY <1>a, <3>1, UpgradeOrder DEF Static, Sat, Sent, Digests
    <2> QED BY <1>a, <1>b, <1>c, <2>1 DEF Static, ExplainedOK
  <1>4. NamesOK' /\ EarlierOK' /\ LivesOK'
    BY <1>a, <1>c DEF Static, NamesOK, EarlierOK, LivesOK, PredNamed
  <1>5. tx.kind = "upgrade" /\ Recorded("restore") /\ repl = "created" =>
           (data' = data \/ Revived) /\ copy' = copy
    <2> SUFFICES ASSUME tx.kind = "upgrade", Recorded("restore"), repl = "created"
                 PROVE  (data' = data \/ Revived) /\ copy' = copy
      OBVIOUS
    <2>1. Sat("stop")
      BY <1>a, <1>d, UpgradeOrder DEF Static
    <2>2. pred.life # "running" \/ Revived
      BY <2>1, Quiet
    <2> QED BY <1>b, <2>2
  <1>e. storage \in {"shared", "private"}
    BY <1>a, StoragesAssumption DEF ApplyTypeOK
  <1>6. StorageOK'
    BY <1>5, <1>a, <1>c, <1>d, <1>e DEF Static, StorageOK, ReplContent
  <1>7. SurvivesOK' /\ RestoredOK'
    BY <1>a, <1>c DEF Static, SurvivesOK, RestoredOK
  <1>8. AnswerOK'
    <2>1. at = "complete" /\ stage = "restore" => tx.kind = "upgrade" /\ Recorded("restore")
      <3> SUFFICES ASSUME at = "complete", stage = "restore" PROVE tx.kind = "upgrade" /\ Recorded("restore")
        OBVIOUS
      <3>1. PICK k \in ActionKinds : k = stage /\ StageOK(k)
        BY AtStage DEF StagePoints, EffectPoints
      <3> QED BY <3>1 DEF StageOK, Before, Recorded, EffectPoints
    <2> QED BY <1>5, <1>a, <1>c, <1>e, <2>1 DEF Moving, AnswerOK, ReplContent, Copies
  <1>9. PointOK'
    BY <1>a, <1>c DEF Moving, PointOK
  <1>10. ProcessOK' /\ SourcesOK'
    BY <1>a, ProcessKept
  <1> QED BY <1>1, <1>2, <1>3, <1>4, <1>6, <1>7, <1>8, <1>9, <1>10 DEF ApplyIInv, Static, Moving

-----------------------------------------------------------------------------
(* The inductive invariant.                                                 *)

LEMMA InitHolds ==
  ASSUME Init
  PROVE  ApplyIInv
  <1>a. /\ storage \in Storages /\ applied \in {"none", "old"} /\ pred.name = "service"
        /\ pred \in Containers
        /\ tx = [kind |-> "none", state |-> "none"] /\ row = NoRows /\ repl = "gone" /\ image \in BOOLEAN
        /\ late = {} /\ stale = {} /\ strayed = {} /\ stray = FALSE /\ data = 1 /\ copy = 0 /\ published = 0 /\ inventoried = 0 /\ archive = 0
        /\ sources = "none" /\ at = "idle" /\ stage = "none" /\ post = "none" /\ faults = 0
    BY DEF Init, Containers, Lifecycles
  <1>b. tx.kind = "none" /\ tx.state = "none"
    BY <1>a
  <1>1. \A j \in ActionKinds : row[j] = "absent"
    BY <1>a DEF NoRows
  <1>2. \A j \in ActionKinds : ~Sat(j) /\ ~Sent(j) /\ ~Recorded(j)
    BY <1>1 DEF Sat, Sent, Recorded, Digests
  <1>3. ApplyTypeOK
    <2>1. tx \in [kind : TxKinds, state : TxStates] /\ row \in [ActionKinds -> RowStates]
      BY <1>a DEF TxKinds, TxStates, NoRows, RowStates
    <2>2. "idle" \in Points /\ "none" \in TxKinds /\ 0 \in 0..MaxContent /\ 1 \in 1..MaxContent /\ 0 \in 0..MaxFaults
      BY MaxContentAssumption, MaxFaultsAssumption DEF Points, TxKinds
    <2>3. repl \in Lifecycles
      BY <1>a DEF Lifecycles
    <2> QED BY <1>a, <2>1, <2>2, <2>3 DEF ApplyTypeOK, Containers
  <1>4. TxOK /\ ExplainedOK /\ NamesOK /\ EarlierOK
    BY <1>2, <1>a, <1>b, KindsAre DEF TxOK, ExplainedOK, NamesOK, EarlierOK
  <1>5. RowsOK
    BY <1>1, <1>2, <1>b, KindsAre DEF RowsOK, ActionKinds, Digests
  <1>6. LivesOK /\ StorageOK /\ SurvivesOK /\ RestoredOK
    BY <1>1, <1>2, <1>a, <1>b, KindsAre DEF LivesOK, StorageOK, SurvivesOK, RestoredOK
  <1>7. Moving
    BY <1>a DEF Moving, ProcessOK, SourcesOK, AnswerOK, PointOK, AtWork, StagePoints, EffectPoints
  <1> QED BY <1>3, <1>4, <1>5, <1>6, <1>7 DEF ApplyIInv, Static

LEMMA StutterKeeps ==
  ASSUME ApplyIInv, UNCHANGED vars
  PROVE  ApplyIInv'
  <1>1. UNCHANGED <<durable, runtime, process, memory, faults>>
    BY DEF vars
  <1>2. /\ \A j : (Sat(j)' <=> Sat(j)) /\ (Sent(j)' <=> Sent(j)) /\ (Recorded(j)' <=> Recorded(j))
        /\ \A j : Before(j)' <=> Before(j)
        /\ storage' = storage /\ applied' = applied /\ tx' = tx /\ row' = row /\ inventoried' = inventoried
        /\ stale' = stale /\ strayed' = strayed /\ stray' = stray
    BY <1>1, SameRows DEF runtime
  <1> USE DEF runtime, containers, contents, earlier, process, memory
  <1>3. ApplyTypeOK'
    BY <1>1, <1>2 DEF ApplyIInv, ApplyTypeOK
  <1>4. Static'
    BY <1>1, StaticKept DEF ApplyIInv
  <1>5. AnswerOK' /\ PointOK'
    BY <1>1, <1>2 DEF ApplyIInv, Moving, AnswerOK, PointOK, ReplContent, Copies
  <1>6. ProcessOK' /\ SourcesOK'
    BY <1>1, ProcessKept
  <1> QED BY <1>3, <1>4, <1>5, <1>6 DEF ApplyIInv, Moving

LEMMA NextKeeps ==
  ASSUME ApplyIInv, Next
  PROVE  ApplyIInv'
  <1>1. CASE Bind
    BY <1>1, PrepareKeeps, BeginKeeps, ResumeKeeps, RestoreKeeps DEF Bind
  <1>2. CASE Settle
    BY <1>2, SettleImageKeeps, CapacityKeeps, CompletedTransitionKeeps, CompletedPullKeeps,
       CompletedInventoryKeeps, CompletedCreateKeeps, CompletedProbeKeeps DEF Settle
  <1>3. CASE Effect
    BY <1>3, ConflictKeeps, RecordKeeps, RecoverUnknownKeeps, MarkKeeps, ApplyEffectKeeps, ProbeEffectKeeps,
       RecoverEffectKeeps, ResumeIncompleteKeeps, ProbeResumedKeeps, CompleteKeeps DEF Effect
  <1>4. CASE Finish
    BY <1>4, SetStateKeeps, ProveStartedKeeps, ProveAdoptedKeeps, CommitKeeps, ProveRestoredKeeps DEF Finish
  <1>5. CASE Runtime
    BY <1>5, LateKeeps, StaleKeeps, FinishKeeps, ExitPredKeeps, ExitReplKeeps, WriteKeeps DEF Runtime
  <1> QED BY <1>1, <1>2, <1>3, <1>4, <1>5, CrashKeeps DEF Next, Step

(* The journal is ordered, the runtime shows nothing the journal does not explain,   *)
(* and the process is where its rows say, in every reachable state: crashes,        *)
(* refused, lost and late requests, exits and retries included.                    *)
THEOREM ApplyInvariant == Spec => []ApplyIInv
  <1>1. Init => ApplyIInv
    BY InitHolds
  <1>2. ApplyIInv /\ [Next]_vars => ApplyIInv'
    BY NextKeeps, StutterKeeps
  <1> QED BY <1>1, <1>2, PTL DEF Spec

-----------------------------------------------------------------------------
(* What it says of the properties.                                          *)

(* The predecessor and its replacement never run at the same time, whatever fails or    *)
(* is run again, and whatever of the transaction is late: only a restore's start of an   *)
(* earlier, failed upgrade that comes after this one's stop makes both run.            *)
THEOREM NeverBothRunningTheorem == Spec => []NeverBothRunning
  <1>1. ApplyIInv => NeverBothRunning
    <2> SUFFICES ASSUME ApplyIInv, ~Revived, pred.life = "running", repl = "running" PROVE FALSE
      BY DEF NeverBothRunning
    <2>a. ApplyTypeOK /\ RowsOK /\ ExplainedOK /\ LivesOK
      BY DEF ApplyIInv, Static
    <2>b. \A j : Sat(j) \/ Sent(j) => Recorded(j)
      BY DEF Sat, Sent, Recorded, Digests
    <2>1. Recorded("start")
      BY <2>a, <2>b DEF ExplainedOK
    <2>2. tx.kind = "upgrade"
      BY <2>1, <2>a, KindsAre DEF RowsOK, Before, LivesOK
    <2>3. Sat("stop")
      BY <2>1, <2>2, <2>a, <2>b, UpgradeOrder
    <2> QED BY <2>2, <2>3, Quiet
  <1> QED BY <1>1, ApplyInvariant, PTL

(* A replacement with storage is not asked to start before its backup is published    *)
(* and its storage was proved to hold it, and the storage holds it until the start      *)
(* unless an earlier upgrade's request revived the predecessor that shares it.         *)
THEOREM StartsTheorem == Spec => []StartsOnRestoredContent
  <1>1. ApplyIInv => StartsOnRestoredContent
    <2> SUFFICES ASSUME ApplyIInv, tx.kind = "upgrade", storage # "none"
                 PROVE  /\ Sent("start") => published # 0 /\ row["restore"] = "satisfied"
                        /\ row["restore"] = "satisfied" /\ repl = "created" =>
                               ReplContent = published \/ (storage = "shared" /\ Revived)
      BY DEF StartsOnRestoredContent
    <2>a. RowsOK /\ StorageOK
      BY DEF ApplyIInv, Static
    <2>1. Sent("start") => Sat("restore")
      BY <2>a, UpgradeOrder DEF Sent, Recorded, Digests
    <2>2. Sat("restore") => published # 0
      BY <2>a DEF RowsOK, Sat, Recorded
    <2> QED BY <2>1, <2>2, <2>a DEF StorageOK, Sat
  <1> QED BY <1>1, ApplyInvariant, PTL

(* A committed transaction deployed what it promises, and nothing else.              *)
THEOREM SucceededTheorem == Spec => []SucceededMeansDeployed
  <1>1. ApplyIInv => SucceededMeansDeployed
    BY DEF ApplyIInv, Static, LivesOK, NamesOK, EarlierOK, PredNamed, SucceededMeansDeployed
  <1> QED BY <1>1, ApplyInvariant, PTL

(* Where the predecessor does not exit by itself, every trace of a transaction in the  *)
(* runtime has a row that says it may be there, and the predecessor is given up only    *)
(* after the proof of its replacement.  A stop or a removal that neither explains was   *)
(* a request of an earlier, failed upgrade, carried out since this one was planned.    *)
THEOREM ExplainedTheorem == "pred" \notin Exits => (Spec => []ApplyInv)
  <1> SUFFICES ASSUME "pred" \notin Exits PROVE Spec => []ApplyInv
    OBVIOUS
  <1>1. ApplyIInv => ApplyInv
    <2> SUFFICES ASSUME ApplyIInv PROVE ApplyInv
      OBVIOUS
    <2>a. ApplyTypeOK /\ RowsOK /\ ExplainedOK
      BY DEF ApplyIInv, Static
    <2>1. JournalExplainsRuntime
      BY <2>a DEF JournalExplainsRuntime, ExplainedOK, Dead
    <2>2. RemovedAfterProof
      <3> SUFFICES ASSUME tx.kind = "upgrade", pred.life \in Dead, ~Lost PROVE Sat("start")
        BY DEF RemovedAfterProof, Dead, Sat
      <3>1. Recorded("remove")
        BY <2>a DEF ExplainedOK, Sent, Recorded, Digests
      <3> QED BY <2>a, <3>1, UpgradeOrder
    <2> QED BY <2>a, <2>1, <2>2 DEF ApplyInv
  <1> QED BY <1>1, ApplyInvariant, PTL

(* Where no removal is carried out after its caller gave up, one of the two containers   *)
(* is always left.                                                          *)
THEOREM SurvivesTheorem == "remove" \notin LateKinds => (Spec => []ServiceSurvives)
  <1> SUFFICES ASSUME "remove" \notin LateKinds PROVE Spec => []ServiceSurvives
    OBVIOUS
  <1>1. ApplyIInv => ServiceSurvives
    <2> SUFFICES ASSUME ApplyIInv, tx.kind = "upgrade", pred.life \in Dead PROVE repl # "gone"
      BY DEF ServiceSurvives, Dead
    <2>a. RowsOK /\ ExplainedOK /\ SurvivesOK /\ LivesOK
      BY DEF ApplyIInv, Static
    <2>b. \A j : Sat(j) \/ Sent(j) => Recorded(j)
      BY DEF Sat, Sent, Recorded, Digests
    <2>1. Recorded("remove")
      BY <2>a, <2>b DEF ExplainedOK, SurvivesOK
    <2>2. Sat("create")
      BY <2>1, <2>a, <2>b, UpgradeOrder
    <2>3. ~Sent("discard")
      BY <2>a DEF SurvivesOK
    <2> QED BY <2>2, <2>3, <2>a DEF LivesOK
  <1> QED BY <1>1, ApplyInvariant, PTL

(* Without storage, late stops and exits of the predecessor, a failed upgrade leaves the  *)
(* service as it was.                                                       *)
THEOREM FailedTheorem == Steady => (Spec => []FailedMeansRestored)
  <1> SUFFICES ASSUME Steady PROVE Spec => []FailedMeansRestored
    OBVIOUS
  <1>1. ApplyIInv => FailedMeansRestored
    <2> SUFFICES ASSUME ApplyIInv, tx.state = "failed" PROVE Pred("service", "running") /\ repl = "gone" /\ ~stray
      BY DEF FailedMeansRestored
    <2>a. RestoredOK /\ NamesOK /\ EarlierOK /\ pred \in Containers
      BY DEF ApplyIInv, Static, ApplyTypeOK, Containers
    <2>1. pred.life = "running" /\ pred.name = "service"
      BY <2>a DEF RestoredOK
    <2> QED BY <2>1, <2>a, PredIs DEF NamesOK, EarlierOK, PredNamed
  <1> QED BY <1>1, ApplyInvariant, PTL DEF Steady
=============================================================================
