--------------------------- MODULE RuntimesProofs ---------------------------
(***************************************************************************)
(* Proofs about module RuntimePlugins, for any linked plugins, workloads and   *)
(* bounds on failures and foreign changes.                                  *)
(*                                                                         *)
(* What holds of the containers is not kept by one request alone: a plugin     *)
(* looks before it acts, and what it saw may have changed.  The invariant says *)
(* what is still true at each step of a call, of the container b the call is    *)
(* about and of its marks m.                                                *)
(*                                                                         *)
(* The second half shows that the plugins implement module WorkloadContract.  *)
(* Its invariant adds what a call has read to what was true since the call      *)
(* began, and which parts of its subject each step of a call finds.            *)
(***************************************************************************)
EXTENDS RuntimePlugins, TLAPS

(* The steps of the calls.                                                  *)
Points == {"none", "begin", "list", "inspect", "send", "name", "decode", "complete",
           "mk.lease", "mk.snapshot", "mk.host", "mk.netns", "mk.record", "mk.release",
           "cl.record", "cl.snapshot", "cl.netns", "cl.host", "cl.lease",
           "start.get", "start.net", "start.look", "start.clear", "start.make", "start.run",
           "start.doubt", "start.undo", "start.label",
           "stop.get", "stop.label", "stop.look", "stop.resume", "stop.term", "stop.wait",
           "stop.kill", "stop.last", "rename", "rename.label",
           "rm.get", "rm.look", "rm.task", "rm.network", "rm.netns", "rm.snapshot", "rm.volume",
           "rm.host", "rm.record"}

CallType == [op : Operations, sub : {"none", "old", "new"}, from : {"none", "app", "backup"},
             to : {"none", "app", "backup"}, step : Points, named : SnapshotType,
             owned : SnapshotType, keep : BOOLEAN]

MarkNames == {"stopped", "stray", "revived", "abandoned"}

Types ==
    /\ plugin \in Plugins /\ box \in [Ids -> BoxType] /\ call \in CallType
    /\ marks \in [Ids -> SUBSET MarkNames]
    /\ faults \in 0 .. MaxFaults /\ foreign \in 0 .. MaxForeign

(* The calls of the replacement and those of the predecessor.               *)
NewOps == {"create", "start", "discard", "probe"}
CallForm(k) == k.op # "idle" => k.sub = IF k.op \in NewOps THEN "new" ELSE "old"

-----------------------------------------------------------------------------
(* The containers.                                                         *)

Excused(m) == m \cap {"stray", "revived"} # {}

(* Others own only what they made; what has no record has no task, unless the   *)
(* monitor made one in the middle of a removal; a stopped workload stays so.     *)
BoxOK(c, b, m) ==
    /\ b.record /\ b.owner = "none" => c = 3 /\ ~b.restart
    /\ ~b.record /\ b.task # "none" => "revived" \in m
    /\ "stopped" \in m => c = Predecessor /\ b.task \notin {"running", "paused"} /\ ~b.restart

EngineBox(b) == b.parts = {} /\ (b.record => b.born)

(* A container of containerd that has run is connected.                      *)
Connected(b, m) ==
    b.owner # "none" /\ b.task \in {"running", "paused", "exited"} =>
        "network" \in b.parts \/ Excused(m)

PluginBox(b, m) == IF Containerd THEN Connected(b, m) ELSE EngineBox(b)

(* Parts without a record, and a lease beside one, are left by creations.      *)
Leak(b, m) == /\ "abandoned" \notin m
              /\ \/ ~b.record /\ b.parts \ {"snapshot"} # {}
                 \/ b.record /\ "lease" \in b.parts

LeakOK(k, c, b, m) == Leak(b, m) => k.op = "create" /\ c = TxId

-----------------------------------------------------------------------------
(* Engines: what the client and the engine know by its ID is not somebody        *)
(* else's, whoever has the name now.                                         *)
OurBox(b) == b.born /\ (b.record => b.owner # "none")
Ours(c) == c \in Ids /\ OurBox(box[c])

Known(s) == s.owner = "tx" => Ours(s.id)

RequestOK(r) ==
    /\ r \in RequestType
    /\ IF Containerd THEN r.kind \in {"run", "kill"} /\ r.id \in {TxId, Predecessor}
       ELSE r.kind \notin {"run", "kill"} /\ (IF r.kind = "create" THEN r.id = 0 ELSE Ours(r.id))

WireOK == \A r \in wire : RequestOK(r)

(* A step leaves of the late requests what there was, and what it sent.       *)
WireKept == \A r \in wire' : r \in wire \/ RequestOK(r)

EngineCall(k) ==
    /\ Known(k.named) /\ Known(k.owned)
    /\ k.step = "inspect" => k.owned.id # 0
    /\ k.step = "send" /\ k.op \in {"start", "discard"} => Ours(k.owned.id)
    /\ k.step = "send" /\ k.op \in TransitionOps => Ours(Predecessor)

-----------------------------------------------------------------------------
(* containerd: what each step of a call rests on.                             *)

Within(b, m, parts) == "abandoned" \in m \/ b.parts \subseteq parts

(* The replacement while it is made, and while that is undone.                *)
CreateCall(k, b, m) ==
    k.op = "create" =>
        /\ k.step \notin {"begin", "decode"} => k.owned.id = TxId
        /\ k.step \in {"begin", "decode", "mk.lease"} => ~Leak(b, m)
        /\ k.step \in {"mk.lease", "mk.snapshot", "mk.host", "mk.netns", "mk.record"} => ~b.record
        /\ k.step \in {"mk.snapshot", "mk.host", "cl.lease"} => Within(b, m, {"lease", "snapshot"})
        /\ k.step \in {"mk.netns", "cl.host"} => Within(b, m, {"lease", "snapshot", "host", "volume"})
        /\ k.step \in {"mk.record", "mk.release", "cl.record", "cl.snapshot", "cl.netns"} =>
               Within(b, m, {"lease", "snapshot", "host", "volume", "netns"})
        /\ k.step = "mk.release" => b.record
        /\ k.step \in {"mk.release", "cl.record"} /\ b.record => b.task = "none" /\ ~b.restart
        /\ k.step \in {"cl.snapshot", "cl.netns", "cl.host", "cl.lease"} =>
               "abandoned" \in m \/ ~b.record
        /\ k.step \in {"mk.netns", "mk.record", "mk.release"} => k.keep
        /\ k.step \in {"cl.record", "cl.snapshot", "cl.netns", "cl.host"} =>
               k.keep \/ Within(b, m, {"lease", "snapshot", "host", "netns"})

(* A container while it is started: it has its network, and if it had none       *)
(* before, nothing runs on it until the task is started.                       *)
Quiet(b, m) == b.task \in {"none", "created"} \/ Excused(m)

StartCall(k, b, m) ==
    /\ k.step = "start.net" => b.record
    /\ k.step \in {"start.look", "start.clear", "start.make", "start.run", "start.label"} =>
           "network" \in b.parts
    /\ k.step \in {"start.look", "start.clear", "start.make"} /\ ~k.keep => Quiet(b, m)
    /\ k.step = "start.undo" => Quiet(b, m)
    /\ k.step = "start.label" => "stopped" \notin m

(* While it is stopped, the monitor leaves it alone.                          *)
StopCall(k, b) ==
    k.step \in {"stop.look", "stop.resume", "stop.term", "stop.wait", "stop.kill", "stop.last"} =>
        ~b.restart

(* While it is removed, it has no task but one the monitor made, and what was     *)
(* taken away is gone.                                                      *)
RemoveCall(k, b, m) ==
    /\ k.step \in {"rm.network", "rm.netns", "rm.snapshot", "rm.volume", "rm.host", "rm.record"} =>
           b.task = "none" \/ "revived" \in m
    /\ k.step \in {"rm.netns", "rm.snapshot", "rm.volume", "rm.host", "rm.record"} =>
           "network" \notin b.parts
    /\ k.step \in {"rm.snapshot", "rm.volume", "rm.host", "rm.record"} => "netns" \notin b.parts
    /\ k.step \in {"rm.volume", "rm.host", "rm.record"} => "snapshot" \notin b.parts
    /\ k.step \in {"rm.host", "rm.record"} => "volume" \notin b.parts
    /\ k.step = "rm.record" => "host" \notin b.parts

CallOK(k, b, m) == CreateCall(k, b, m) /\ StartCall(k, b, m) /\ StopCall(k, b) /\ RemoveCall(k, b, m)

(* The inductive invariant.                                                 *)
Boxes == \A c \in Ids : /\ BoxOK(c, box[c], marks[c])
                        /\ PluginBox(box[c], marks[c])
                        /\ LeakOK(call, c, box[c], marks[c])

RuntimesIInv ==
    /\ Types /\ CallForm(call) /\ WireOK /\ Boxes
    /\ IF Containerd THEN CallOK(call, box[Subject], marks[Subject]) ELSE EngineCall(call)

USE PluginAssumption, ScopeAssumption, RuntimeBounds
    DEF Ids, Predecessor, TxId, Containerd

-----------------------------------------------------------------------------
(* The types, and the beginning.                                            *)

LEMMA MissingType == Missing \in SnapshotType /\ Missing.owner = "none" /\ Missing.id = 0
  BY DEF Missing, SnapshotType, Lives, Names, Owners

LEMMA IdleType ==
  /\ IdleCall \in CallType /\ IdleCall.op = "idle" /\ IdleCall.step = "none"
  /\ IdleCall.named = Missing /\ IdleCall.owned = Missing /\ ~IdleCall.keep
  <1> HIDE DEF SnapshotType
  <1>1. IdleCall \in CallType
    BY MissingType DEF IdleCall, CallType, Operations, Points
  <1> QED BY <1>1 DEF IdleCall

LEMMA IdleOK ==
  /\ CallForm(IdleCall)
  /\ \A b, m : CallOK(IdleCall, b, m)
  /\ EngineCall(IdleCall)
  BY MissingType, IdleType
     DEF CallForm, CallOK, CreateCall, StartCall, StopCall, RemoveCall, EngineCall, Known

LEMMA FaultsOK ==
  ASSUME Types, Fine \/ Fault
  PROVE  faults' \in 0 .. MaxFaults
  BY DEF Types, Fine, Fault

LEMMA SnapshotOK ==
  ASSUME Types, NEW c \in Ids
  PROVE  /\ Snapshot(c) \in SnapshotType /\ Snapshot(c).id = c
         /\ Snapshot(c).owner = box[c].owner /\ Snapshot(c).name = box[c].name
         /\ Snapshot(c).life = Life(c) /\ Life(c) \in Lives
  BY DEF Types, BoxType, Snapshot, SnapshotType, Life, Lives, Tasks, Names, Owners

(* The subject of a call is the predecessor or the container of the transaction. *)
LEMMA SubjectIs ==
  /\ Subject \in {1, 2}
  /\ CallForm(call) /\ call.op \in NewOps => Subject = TxId
  /\ CallForm(call) /\ call.op \notin NewOps \cup {"idle"} => Subject = Predecessor
  BY DEF Subject, CallForm, NewOps

LEMMA InitOK == RuntimesInit => RuntimesIInv
  <1> SUFFICES ASSUME RuntimesInit PROVE RuntimesIInv
    OBVIOUS
  <1>1. plugin \in Plugins /\ call = IdleCall /\ wire = {} /\ faults = 0 /\ foreign = 0
        /\ marks = [c \in Ids |-> {}]
    BY DEF RuntimesInit
  <1>2. box \in [Ids -> BoxType]
    BY DEF RuntimesInit, BoxType, Unborn, Names, Owners, Tasks, Parts, Workload
  <1>3. Types
    BY <1>1, <1>2, IdleType DEF Types, MarkNames
  <1>4. ASSUME NEW c \in Ids
        PROVE  BoxOK(c, box[c], marks[c]) /\ PluginBox(box[c], marks[c]) /\ ~Leak(box[c], marks[c])
    <2>1. marks[c] = {}
      BY <1>1
    <2>2. CASE c = Predecessor /\ "old" \in subjects
      <3>1. /\ box[c].record /\ box[c].born /\ box[c].owner = "old" /\ box[c].task = "running"
            /\ box[c].parts = IF plugin = "containerd" THEN Workload \cup {"network"} ELSE {}
        BY <2>2 DEF RuntimesInit
      <3> QED BY <2>1, <3>1 DEF BoxOK, PluginBox, Connected, EngineBox, Leak, Workload
    <2>3. CASE ~(c = Predecessor /\ "old" \in subjects)
      <3>1. box[c] = Unborn
        BY <2>3 DEF RuntimesInit
      <3> QED BY <2>1, <3>1 DEF BoxOK, PluginBox, Connected, EngineBox, Leak, Unborn
    <2> QED BY <2>2, <2>3
  <1> QED BY <1>1, <1>3, <1>4, IdleOK DEF RuntimesIInv, WireOK, Boxes, LeakOK

-----------------------------------------------------------------------------
(* Steps of the client over containerd: they change the subject of the call.    *)

Apart ==
    /\ box' \in [Ids -> BoxType] /\ marks' \in [Ids -> SUBSET MarkNames]
    /\ \A c \in Ids \ {Subject} : box'[c] = box[c] /\ marks'[c] = marks[c]

(* The call has returned, or is at a step whose facts hold.                   *)
CallMoves ==
    \/ call' = IdleCall
    \/ /\ call' \in CallType /\ call'.op = call.op /\ call'.sub = call.sub
       /\ CallOK(call', box'[Subject], marks'[Subject])

SubjectStep ==
    /\ Apart /\ plugin' = plugin /\ foreign' = foreign /\ (Fine \/ Fault)
    /\ WireKept
    /\ BoxOK(Subject, box'[Subject], marks'[Subject])
    /\ Connected(box'[Subject], marks'[Subject])
    /\ LeakOK(call', Subject, box'[Subject], marks'[Subject])
    /\ CallMoves

LEMMA SubjectStepOK ==
  ASSUME RuntimesIInv, Containerd, call.op # "idle", SubjectStep
  PROVE  RuntimesIInv'
  <1>1. plugin' = plugin /\ foreign' = foreign /\ Containerd' /\ faults' \in 0 .. MaxFaults
    BY FaultsOK DEF SubjectStep, RuntimesIInv
  <1>2. call' \in CallType /\ CallForm(call')
    BY IdleType, IdleOK DEF SubjectStep, CallMoves, CallForm, RuntimesIInv
  <1>3. Types'
    BY <1>1, <1>2 DEF SubjectStep, Apart, Types, RuntimesIInv
  <1>4. WireOK'
    BY <1>1 DEF SubjectStep, RuntimesIInv, WireOK, WireKept, RequestOK
  <1>5. Boxes'
    <2> SUFFICES ASSUME NEW c \in Ids
                 PROVE  /\ BoxOK(c, box'[c], marks'[c]) /\ Connected(box'[c], marks'[c])
                        /\ LeakOK(call', c, box'[c], marks'[c])
      BY <1>1 DEF Boxes, PluginBox
    <2>1. CASE c = Subject
      BY <2>1 DEF SubjectStep
    <2>2. CASE c # Subject
      <3>1. box'[c] = box[c] /\ marks'[c] = marks[c]
        BY <2>2 DEF SubjectStep, Apart
      <3>2. BoxOK(c, box[c], marks[c]) /\ Connected(box[c], marks[c])
            /\ LeakOK(call, c, box[c], marks[c])
        BY DEF RuntimesIInv, Boxes, PluginBox
      <3>3. ~Leak(box[c], marks[c])
        BY <2>2, <3>2, SubjectIs DEF LeakOK, RuntimesIInv, NewOps
      <3> QED BY <3>1, <3>2, <3>3 DEF LeakOK
    <2> QED BY <2>1, <2>2
  <1>6. CallOK(call', box'[Subject'], marks'[Subject'])
    <2>1. CASE call' = IdleCall
      BY <2>1, IdleOK
    <2>2. CASE call' # IdleCall
      BY <2>2 DEF SubjectStep, CallMoves, Subject
    <2> QED BY <2>1, <2>2
  <1> QED BY <1>1, <1>2, <1>3, <1>4, <1>5, <1>6 DEF RuntimesIInv

LEMMA SubjectFacts ==
  ASSUME RuntimesIInv, Containerd, call.op # "idle"
  PROVE  /\ Types /\ CallForm(call) /\ Subject \in Ids /\ call \in CallType
         /\ box[Subject] \in BoxType /\ marks[Subject] \in SUBSET MarkNames
         /\ BoxOK(Subject, box[Subject], marks[Subject])
         /\ Connected(box[Subject], marks[Subject])
         /\ LeakOK(call, Subject, box[Subject], marks[Subject])
         /\ CallOK(call, box[Subject], marks[Subject])
  <1>1. Subject \in Ids
    BY SubjectIs
  <1> QED BY <1>1 DEF RuntimesIInv, Types, Boxes, PluginBox

(* A call that goes on with its next step keeps what else it has.             *)
AtPoint(k, x) == [k EXCEPT !.step = x]

LEMMA NextPoint ==
  ASSUME NEW k \in CallType, NEW x \in Points
  PROVE  /\ AtPoint(k, x) \in CallType /\ AtPoint(k, x).step = x
         /\ AtPoint(k, x).op = k.op /\ AtPoint(k, x).sub = k.sub
         /\ AtPoint(k, x).owned = k.owned /\ AtPoint(k, x).named = k.named
         /\ AtPoint(k, x).keep = k.keep
  <1> HIDE DEF SnapshotType
  <1> QED BY DEF CallType, AtPoint

(* Before anything is made, and in every other call, nothing leaks.           *)
Untouched(k) == k.op = "create" => k.step \in {"begin", "decode", "mk.lease"}

LEMMA NoLeak ==
  ASSUME RuntimesIInv, Containerd, call.op # "idle", Untouched(call)
  PROVE  ~Leak(box[Subject], marks[Subject])
  BY SubjectFacts DEF LeakOK, CallOK, CreateCall, Untouched

(* A request that only reads: the call returns, or goes on.                   *)
LEMMA ReadReturns ==
  ASSUME RuntimesIInv, Containerd, call.op # "idle", Untouched(call),
         Read, Fine \/ Fault, call' = IdleCall
  PROVE  SubjectStep
  <1>1. box' = box /\ marks' = marks
    BY DEF Read
  <1>2. Apart
    BY <1>1, SubjectFacts DEF Apart, Types
  <1> QED BY <1>1, <1>2, SubjectFacts, NoLeak
       DEF SubjectStep, Read, CallMoves, LeakOK, WireKept

LEMMA ReadGoesOn ==
  ASSUME RuntimesIInv, Containerd, call.op # "idle", Read, Fine \/ Fault,
         call' \in CallType, call'.op = call.op, call'.sub = call.sub,
         CallOK(call', box[Subject], marks[Subject])
  PROVE  SubjectStep
  <1>1. box' = box /\ marks' = marks
    BY DEF Read
  <1>2. Apart
    BY <1>1, SubjectFacts DEF Apart, Types
  <1> QED BY <1>1, <1>2, SubjectFacts DEF SubjectStep, Read, CallMoves, LeakOK, WireKept

(* The steps that rest on nothing: a request of them looks again.             *)
Plain == {"decode", "name", "complete", "start.get", "start.doubt", "stop.get", "stop.label",
          "rename", "rename.label", "rm.get", "rm.look", "rm.task"}

LEMMA PlainOK ==
  ASSUME NEW k, k.step \in Plain, k.op # "create", NEW b, NEW m
  PROVE  CallOK(k, b, m)
  BY DEF Plain, CallOK, CreateCall, StartCall, StopCall, RemoveCall

LEMMA PlainStep ==
  ASSUME RuntimesIInv, Containerd, call.op \notin {"idle", "create"},
         Read, Fine \/ Fault, NEW x \in Plain, call' = [call EXCEPT !.step = x]
  PROVE  SubjectStep
  <1>1. call \in CallType /\ x \in Points
    BY SubjectFacts DEF Plain, Points
  <1>2. call' \in CallType /\ call'.op = call.op /\ call'.sub = call.sub /\ call'.step = x
    BY <1>1, NextPoint DEF AtPoint
  <1>3. CallOK(call', box[Subject], marks[Subject])
    BY <1>2, PlainOK
  <1> QED BY <1>2, <1>3, ReadGoesOn

-----------------------------------------------------------------------------
(* containerd: reading.                                                     *)

LEMMA ListCandidatesOK ==
  ASSUME RuntimesIInv, ListCandidates
  PROVE  SubjectStep
  <1>a. /\ Containerd /\ call.op \in NewOps /\ call.op # "idle" /\ call.step = "begin"
        /\ Read /\ (Fine \/ Fault) /\ Untouched(call)
    BY DEF ListCandidates, At, FailRead, NewOps, Untouched
  <1>b. Types /\ call \in CallType
    BY <1>a, SubjectFacts
  <1>1. CASE call' = IdleCall
    BY <1>1, <1>a, ReadReturns
  <1>2. CASE call' # IdleCall
    <2>1. PICK n, o : /\ call' = [call EXCEPT !.step = "decode", !.named = n, !.owned = o]
                      /\ n = Missing \/ \E c \in Ids : n = Snapshot(c)
                      /\ o = Missing \/ \E c \in Ids : o = Snapshot(c)
      <3>1. (Holders("app") # {} => (CHOOSE c \in Holders("app") : TRUE) \in Ids)
            /\ (Owned # {} => (CHOOSE c \in Owned : TRUE) \in Ids)
        BY DEF Holders, Owned
      <3> QED BY <1>2, <3>1 DEF ListCandidates, FailRead, Return
    <2>2. n \in SnapshotType /\ o \in SnapshotType
      BY <2>1, <1>b, MissingType, SnapshotOK
    <2>3. /\ call' \in CallType /\ call'.op = call.op /\ call'.sub = call.sub
          /\ call'.step = "decode"
      <3> HIDE DEF SnapshotType
      <3> QED BY <2>1, <2>2, <1>b DEF CallType, Points
    <2>4. CallOK(call', box[Subject], marks[Subject])
      BY <1>a, <2>3, NoLeak DEF CallOK, CreateCall, StartCall, StopCall, RemoveCall
    <2> QED BY <1>a, <2>3, <2>4, ReadGoesOn
  <1> QED BY <1>1, <1>2

LEMMA DecodeCandidatesOK ==
  ASSUME RuntimesIInv, DecodeCandidates
  PROVE  SubjectStep
  <1>a. /\ Containerd /\ call.op \in NewOps /\ call.op # "idle" /\ call.step = "decode"
        /\ Read /\ (Fine \/ Fault) /\ Untouched(call)
    BY DEF DecodeCandidates, At, FailRead, NewOps, Untouched
  <1>b. Types /\ call \in CallType /\ CallForm(call)
    BY <1>a, SubjectFacts
  <1>c. \/ call' = IdleCall
        \/ call.op = "start" /\ call' = [call EXCEPT !.step = "start.get"]
        \/ call.op = "discard" /\ call' = [call EXCEPT !.step = "rm.get"]
        \/ /\ call.op = "create" /\ ~box[TxId].record
           /\ call' = [call EXCEPT !.step = "mk.lease", !.owned.id = TxId]
    BY DEF DecodeCandidates, FailRead, Return, Continue, At
  <1>1. CASE call' = IdleCall
    BY <1>1, <1>a, ReadReturns
  <1>2. CASE call.op = "start" /\ call' = [call EXCEPT !.step = "start.get"]
    BY <1>2, <1>a, PlainStep DEF Plain
  <1>3. CASE call.op = "discard" /\ call' = [call EXCEPT !.step = "rm.get"]
    BY <1>3, <1>a, PlainStep DEF Plain
  <1>4. CASE /\ call.op = "create" /\ ~box[TxId].record
             /\ call' = [call EXCEPT !.step = "mk.lease", !.owned.id = TxId]
    <2>1. [call.owned EXCEPT !.id = TxId] \in SnapshotType
      BY <1>b DEF CallType, SnapshotType
    <2>2. /\ call' \in CallType /\ call'.op = call.op /\ call'.sub = call.sub
          /\ call'.step = "mk.lease" /\ call'.owned.id = TxId
      <3>1. call'.owned.id = TxId
        BY <1>4, <1>b DEF CallType, SnapshotType
      <3> HIDE DEF SnapshotType
      <3> QED BY <1>4, <1>b, <2>1, <3>1 DEF CallType, Points
    <2>3. CallOK(call', box[Subject], marks[Subject])
      BY <1>4, <1>a, <1>b, <2>2, NoLeak, SubjectIs DEF CallOK, CreateCall, StartCall, StopCall, RemoveCall
    <2> QED BY <1>a, <2>2, <2>3, ReadGoesOn
  <1> QED BY <1>c, <1>1, <1>2, <1>3, <1>4

LEMMA ReadExistingOK ==
  ASSUME RuntimesIInv, ReadExisting
  PROVE  SubjectStep
  <1>a. /\ Containerd /\ call.op \notin {"idle", "create"} /\ Read /\ (Fine \/ Fault)
        /\ Untouched(call)
    BY DEF ReadExisting, At, FailRead, Refuse, Untouched
  <1>b. call' = IdleCall \/ \E x \in Plain : call' = [call EXCEPT !.step = x]
    BY DEF ReadExisting, At, FailRead, Refuse, Return, Continue, Plain
  <1> QED BY <1>a, <1>b, ReadReturns, PlainStep

LEMMA ProbesOK ==
  ASSUME RuntimesIInv, ProbeExisting \/ ProbeRemoved \/ ProbeName \/ RemovalComplete
  PROVE  SubjectStep
  <1>a. /\ Containerd /\ call.op \notin {"idle", "create"} /\ Read /\ (Fine \/ Fault)
        /\ Untouched(call)
    BY DEF ProbeExisting, ProbeRemoved, ProbeName, RemovalComplete, At, FailRead, Refuse, Untouched
  <1>b. Types /\ call \in CallType
    BY <1>a, SubjectFacts
  <1>c. \/ call' = IdleCall
        \/ \E x \in Plain : call' = [call EXCEPT !.step = x]
        \/ \E s \in {WorkloadOf(Predecessor)} : call' = [call EXCEPT !.step = "name", !.owned = s]
    <2>1. CASE ProbeExisting
      BY <2>1 DEF ProbeExisting, FailRead, Return
    <2>2. CASE ProbeRemoved
      BY <2>2 DEF ProbeRemoved, FailRead, Return, Continue, Plain
    <2>3. CASE ProbeName
      BY <2>3 DEF ProbeName, FailRead, Return, Continue, Plain
    <2>4. CASE RemovalComplete
      BY <2>4 DEF RemovalComplete, FailRead, Return
    <2> QED BY <2>1, <2>2, <2>3, <2>4
  <1>1. ASSUME NEW s, s = WorkloadOf(Predecessor), call' = [call EXCEPT !.step = "name", !.owned = s]
        PROVE  SubjectStep
    <2>1. s \in SnapshotType
      BY <1>1, <1>b, SnapshotOK, MissingType DEF WorkloadOf
    <2>2. /\ call' \in CallType /\ call'.op = call.op /\ call'.sub = call.sub
          /\ call'.step = "name"
      <3> HIDE DEF SnapshotType
      <3> QED BY <1>1, <1>b, <2>1 DEF CallType, Points
    <2>3. CallOK(call', box[Subject], marks[Subject])
      BY <1>a, <2>2, PlainOK DEF Plain
    <2> QED BY <1>a, <2>2, <2>3, ReadGoesOn
  <1> QED BY <1>a, <1>c, <1>1, ReadReturns, PlainStep

-----------------------------------------------------------------------------
(* containerd: the parts of the subject.                                     *)

(* b with other parts                                                       *)
Having(b, parts) == [b EXCEPT !.parts = parts]

LEMMA HavingOK ==
  ASSUME NEW b \in BoxType, NEW parts \in SUBSET Parts, NEW c, NEW m,
         BoxOK(c, b, m), Connected(b, m), "network" \in b.parts => "network" \in parts \/ Quiet(b, m)
  PROVE  LET d == Having(b, parts) IN
         /\ d \in BoxType /\ d.parts = parts
         /\ d.record = b.record /\ d.task = b.task /\ d.restart = b.restart
         /\ d.owner = b.owner /\ d.born = b.born
         /\ BoxOK(c, d, m) /\ Connected(d, m)
  BY DEF Having, BoxType, BoxOK, Connected, Quiet

LEMMA PartsIs ==
  ASSUME Types, NEW c \in Ids, NEW part \in Parts
  PROVE  /\ With(c, part) = [box EXCEPT ![c] = Having(box[c], box[c].parts \cup {part})]
         /\ Without(c, part) = [box EXCEPT ![c] = Having(box[c], box[c].parts \ {part})]
         /\ box[c].parts \cup {part} \in SUBSET Parts
         /\ box[c].parts \ {part} \in SUBSET Parts
         /\ box = [box EXCEPT ![c] = Having(box[c], box[c].parts)]
         /\ box[c].parts \in SUBSET Parts
  BY DEF Types, With, Without, Having, BoxType

(* Steps that mark the subject as well.                                     *)
LEMMA MarkStep ==
  ASSUME RuntimesIInv, Containerd, call.op # "idle",
         NEW b \in BoxType, box' = [box EXCEPT ![Subject] = b],
         NEW m \in SUBSET MarkNames, marks' = [marks EXCEPT ![Subject] = m],
         UNCHANGED <<plugin, foreign>>, Fine \/ Fault,
         WireKept,
         BoxOK(Subject, b, m), Connected(b, m),
         \/ call' = IdleCall /\ ~Leak(b, m)
         \/ /\ call' \in CallType /\ call'.op = call.op /\ call'.sub = call.sub
            /\ LeakOK(call, Subject, b, m) /\ CallOK(call', b, m)
  PROVE  SubjectStep
  <1>1. box'[Subject] = b /\ marks'[Subject] = m
    BY SubjectFacts DEF Types
  <1>2. Apart
    BY <1>1, SubjectFacts DEF Apart, Types
  <1> QED BY <1>1, <1>2, SubjectFacts DEF SubjectStep, CallMoves, LeakOK

-----------------------------------------------------------------------------
(* containerd: creation.                                                    *)

LEMMA CreateFacts ==
  ASSUME RuntimesIInv, Containerd, call.op = "create"
  PROVE  /\ call.op # "idle" /\ Subject = TxId /\ Types /\ call \in CallType
         /\ box[TxId] \in BoxType /\ marks[TxId] \in SUBSET MarkNames
         /\ BoxOK(TxId, box[TxId], marks[TxId]) /\ Connected(box[TxId], marks[TxId])
         /\ CreateCall(call, box[TxId], marks[TxId])
         /\ \A b, m : LeakOK(call, Subject, b, m)
  <1>1. call.op # "idle" /\ CallForm(call)
    BY DEF RuntimesIInv
  <1>2. Subject = TxId
    BY <1>1, SubjectIs DEF NewOps
  <1> QED BY <1>1, <1>2, SubjectFacts DEF CallOK, LeakOK

CreatePoints == {"mk.lease", "mk.snapshot", "mk.host", "mk.netns", "mk.record", "mk.release",
                 "cl.record", "cl.snapshot", "cl.netns", "cl.host", "cl.lease"}

(* A request of a creation that goes on, or ends it.                          *)
LEMMA CreateGoesOn ==
  ASSUME RuntimesIInv, Containerd, call.op = "create", UNCHANGED <<plugin, wire, foreign>>,
         Fine \/ Fault, NEW b \in BoxType, NEW m \in SUBSET MarkNames,
         box' = [box EXCEPT ![TxId] = b], marks' = [marks EXCEPT ![TxId] = m],
         BoxOK(TxId, b, m), Connected(b, m),
         NEW n \in CallType, call' = n, n.op = "create", n.sub = call.sub,
         n.step \in CreatePoints, CreateCall(n, b, m)
  PROVE  SubjectStep
  <1>1. CallOK(n, b, m)
    BY DEF CallOK, StartCall, StopCall, RemoveCall, CreatePoints
  <1>2. WireKept
    BY DEF WireKept
  <1> QED BY <1>1, <1>2, CreateFacts, MarkStep

LEMMA CreateEnds ==
  ASSUME RuntimesIInv, Containerd, call.op = "create", UNCHANGED <<plugin, wire, foreign>>,
         Fine \/ Fault, NEW b \in BoxType, NEW m \in SUBSET MarkNames,
         box' = [box EXCEPT ![TxId] = b], marks' = [marks EXCEPT ![TxId] = m],
         BoxOK(TxId, b, m), Connected(b, m), call' = IdleCall, ~Leak(b, m)
  PROVE  SubjectStep
  <1>1. WireKept
    BY DEF WireKept
  <1> QED BY <1>1, CreateFacts, MarkStep

(* Giving up on a part marks the replacement as abandoned.                    *)
Abandoned(m) == m \cup {"abandoned"}

LEMMA AbandonedOK ==
  ASSUME NEW b, NEW m \in SUBSET MarkNames, BoxOK(TxId, b, m), Connected(b, m)
  PROVE  /\ Abandoned(m) \in SUBSET MarkNames /\ "abandoned" \in Abandoned(m)
         /\ BoxOK(TxId, b, Abandoned(m)) /\ Connected(b, Abandoned(m)) /\ ~Leak(b, Abandoned(m))
  BY DEF Abandoned, MarkNames, BoxOK, Connected, Excused, Leak

LEMMA CreateLeaseOK ==
  ASSUME RuntimesIInv, CreateLease
  PROVE  SubjectStep
  <1>a. Containerd /\ call.op = "create" /\ call.step = "mk.lease" /\ Untouched(call)
    BY DEF CreateLease, At, Untouched
  <1> PICK k, b, m : k = call /\ b = box[TxId] /\ m = marks[TxId]
    OBVIOUS
  <1> DEFINE d == [b EXCEPT !.born = TRUE, !.parts = b.parts \cup {"lease"}]
  <1>0. /\ b \in BoxType /\ m \in SUBSET MarkNames /\ k \in CallType /\ k.op = "create"
        /\ BoxOK(TxId, b, m) /\ Connected(b, m) /\ CreateCall(k, b, m) /\ k.step = "mk.lease"
    BY <1>a, CreateFacts
  <1>c. [With(TxId, "lease") EXCEPT ![TxId].born = TRUE] = [box EXCEPT ![TxId] = d]
        /\ marks = [marks EXCEPT ![TxId] = m]
    BY <1>a, CreateFacts DEF With, Types, BoxType
  <1>d. /\ d \in BoxType /\ d.parts = b.parts \cup {"lease"} /\ d.record = b.record
        /\ d.task = b.task /\ d.restart = b.restart /\ d.owner = b.owner
    BY <1>0 DEF BoxType, Parts
  <1>e. BoxOK(TxId, d, m) /\ Connected(d, m)
    BY <1>0, <1>d DEF BoxOK, Connected
  <1>f. k.owned.id = TxId /\ ~b.record /\ ("abandoned" \in m \/ b.parts \ {"snapshot"} = {})
    BY <1>0 DEF CreateCall, Leak
  <1>g. Within(d, m, {"lease", "snapshot"}) /\ ~d.record
    BY <1>f, <1>d DEF Within
  <1> HIDE DEF d
  <1>1. CASE Read /\ (Fine \/ Fault) /\ call' = IdleCall
    BY <1>1, <1>a, CreateFacts, ReadReturns
  <1>2. CASE Fine /\ Kept /\ box' = [box EXCEPT ![TxId] = d] /\ Continue("mk.snapshot")
    <2>1. PICK n : n = AtPoint(k, "mk.snapshot")
      OBVIOUS
    <2>2. n \in CallType /\ n.step = "mk.snapshot" /\ n.op = "create" /\ n.sub = k.sub /\ n.owned = k.owned
      BY <2>1, <1>0, NextPoint DEF Points
    <2>3. CreateCall(n, d, m)
      BY <2>2, <1>f, <1>g DEF CreateCall
    <2>4. call' = n /\ marks' = [marks EXCEPT ![TxId] = m]
      BY <1>2, <2>1, <1>c DEF Kept, Continue, AtPoint
    <2> QED BY <1>2, <1>a, <1>0, <1>d, <1>e, <2>2, <2>3, <2>4, CreateGoesOn DEF Kept, CreatePoints
  <1>3. CASE /\ Fault /\ call' = IdleCall /\ box' = [box EXCEPT ![TxId] = d]
             /\ marks' = [marks EXCEPT ![TxId] = Abandoned(m)]
             /\ UNCHANGED <<plugin, wire, foreign>>
    <2>1. /\ Abandoned(m) \in SUBSET MarkNames /\ BoxOK(TxId, d, Abandoned(m))
          /\ Connected(d, Abandoned(m)) /\ ~Leak(d, Abandoned(m))
      BY <1>0, <1>e, AbandonedOK
    <2> QED BY <1>3, <1>a, <1>d, <2>1, CreateEnds
  <1> QED BY <1>1, <1>2, <1>3, <1>c DEF CreateLease, Refuse, FailRead, Return, Abandoned

(* A request of a creation that changes the parts only, to P.                 *)
MadeOf(P) == box' = [box EXCEPT ![TxId] = Having(box[TxId], P)]

PointFits(n, P, record, m) == \A d : d.parts = P /\ d.record = record => CreateCall(n, d, m)

LEMMA CreateParts ==
  ASSUME RuntimesIInv, Containerd, call.op = "create", Kept, Fine \/ Fault,
         NEW P \in SUBSET Parts, MadeOf(P),
         "network" \in box[TxId].parts => "network" \in P,
         NEW n \in CallType, call' = n, n.op = "create", n.sub = call.sub,
         n.step \in CreatePoints, PointFits(n, P, box[TxId].record, marks[TxId])
  PROVE  SubjectStep
  <1>1. PICK d : d = Having(box[TxId], P)
    OBVIOUS
  <1>2. /\ d \in BoxType /\ BoxOK(TxId, d, marks[TxId]) /\ Connected(d, marks[TxId])
        /\ d.parts = P /\ d.record = box[TxId].record
    BY <1>1, CreateFacts, HavingOK
  <1>3. marks' = [marks EXCEPT ![TxId] = marks[TxId]] /\ box' = [box EXCEPT ![TxId] = d]
    BY <1>1, CreateFacts DEF Kept, Types, MadeOf
  <1>4. CreateCall(n, d, marks[TxId])
    BY <1>2 DEF PointFits
  <1> QED BY <1>1, <1>2, <1>3, <1>4, CreateFacts, CreateGoesOn DEF Kept

LEMMA PrepareSnapshotOK ==
  ASSUME RuntimesIInv, PrepareSnapshot
  PROVE  SubjectStep
  <1>a. Containerd /\ call.op = "create" /\ call.step = "mk.snapshot"
    BY DEF PrepareSnapshot, At
  <1> PICK k, b, m : k = call /\ b = box[TxId] /\ m = marks[TxId]
    OBVIOUS
  <1>0. Types /\ k \in CallType /\ CreateCall(k, b, m)
    BY <1>a, CreateFacts
  <1>b. /\ Kept /\ (Fine \/ Fault)
        /\ box' \in {box, With(TxId, "snapshot")}
        /\ call' \in {AtPoint(k, "mk.host"), AtPoint(k, "cl.lease")}
    BY DEF PrepareSnapshot, Try, Read, Kept, Continue, AtPoint
  <1>1. PICK P \in {b.parts, b.parts \cup {"snapshot"}} :
          MadeOf(P) /\ P \in SUBSET Parts
    BY <1>0, <1>b, PartsIs DEF Parts, MadeOf
  <1>2. PICK x \in {"mk.host", "cl.lease"} : call' = AtPoint(k, x)
    BY <1>b
  <1>3. PICK n : n = AtPoint(k, x)
    OBVIOUS
  <1>4. n \in CallType /\ n.step = x /\ n.op = k.op /\ n.sub = k.sub /\ n.owned = k.owned
    BY <1>0, <1>3, NextPoint DEF Points
  <1>5. k.owned.id = TxId /\ ~b.record /\ Within(b, m, {"lease", "snapshot"})
    BY <1>0, <1>a DEF CreateCall
  <1>6. PointFits(n, P, b.record, m)
    BY <1>a, <1>4, <1>5 DEF PointFits, CreateCall, Within
  <1> QED BY <1>a, <1>b, <1>1, <1>2, <1>3, <1>4, <1>6, CreateParts DEF CreatePoints

LEMMA PrepareHostOK ==
  ASSUME RuntimesIInv, PrepareHost
  PROVE  SubjectStep
  <1>a. Containerd /\ call.op = "create" /\ call.step = "mk.host"
    BY DEF PrepareHost, At
  <1> PICK k, b, m : k = call /\ b = box[TxId] /\ m = marks[TxId]
    OBVIOUS
  <1>0. Types /\ k \in CallType /\ CreateCall(k, b, m)
    BY <1>a, CreateFacts
  <1>b. /\ UNCHANGED <<plugin, wire, foreign>> /\ (Fine \/ Fault)
        /\ \/ box' \in {box, With(TxId, "host")} /\ Kept /\ call' = AtPoint(k, "cl.record")
           \/ box' = HostFiles /\ Kept /\ call' = [k EXCEPT !.step = "mk.netns", !.keep = TRUE]
           \/ /\ box' = HostFiles /\ call' = AtPoint(k, "cl.record")
              /\ marks' = [marks EXCEPT ![TxId] = Abandoned(m)]
    BY DEF PrepareHost, Kept, Continue, AtPoint, Abandoned
  <1>5. k.owned.id = TxId /\ ~b.record /\ Within(b, m, {"lease", "snapshot"})
    BY <1>0, <1>a DEF CreateCall
  <1>1. CASE box' \in {box, With(TxId, "host")} /\ Kept /\ call' = AtPoint(k, "cl.record")
    <2>3. PICK n : n = AtPoint(k, "cl.record")
      OBVIOUS
    <2>4. n \in CallType /\ n.step = "cl.record" /\ n.op = k.op /\ n.sub = k.sub /\ n.owned = k.owned
      BY <1>0, <2>3, NextPoint DEF Points
    <2>5. PICK P \in {b.parts, b.parts \cup {"host"}} : MadeOf(P) /\ P \in SUBSET Parts
      BY <1>0, <1>1, PartsIs DEF Parts, MadeOf
    <2>6. PointFits(n, P, b.record, m)
      BY <1>a, <2>4, <2>5, <1>5 DEF PointFits, CreateCall, Within
    <2> QED BY <1>1, <1>a, <1>b, <2>3, <2>4, <2>5, <2>6, CreateParts DEF CreatePoints
  <1>6. PICK P : P = b.parts \cup {"host", "volume"}
    OBVIOUS
  <1>7. box' = HostFiles => MadeOf(P) /\ P \in SUBSET Parts
    BY <1>0, <1>6 DEF HostFiles, MadeOf, Having, Types, BoxType, Parts
  <1>2. CASE box' = HostFiles /\ Kept /\ call' = [k EXCEPT !.step = "mk.netns", !.keep = TRUE]
    <2>3. PICK n : n = [k EXCEPT !.step = "mk.netns", !.keep = TRUE]
      OBVIOUS
    <2>4. /\ n \in CallType /\ n.step = "mk.netns" /\ n.op = k.op /\ n.sub = k.sub
          /\ n.owned = k.owned /\ n.keep = TRUE
      <3>1. "mk.netns" \in Points /\ TRUE \in BOOLEAN
        BY DEF Points
      <3> HIDE DEF SnapshotType
      <3>2. n \in CallType /\ n.keep = TRUE
        BY <1>0, <2>3, <3>1 DEF CallType
      <3>3. n.step = "mk.netns" /\ n.op = k.op /\ n.sub = k.sub /\ n.owned = k.owned
        BY <1>0, <2>3, <3>1 DEF CallType
      <3> QED BY <3>2, <3>3
    <2>6. PointFits(n, P, b.record, m)
      BY <1>a, <2>4, <1>6, <1>5 DEF PointFits, CreateCall, Within
    <2>7. /\ MadeOf(P) /\ P \in SUBSET Parts /\ ("network" \in b.parts => "network" \in P)
          /\ Kept /\ call' = n
      BY <1>2, <1>6, <1>7, <2>3
    <2>8. n.op = "create" /\ n.sub = k.sub /\ n.step \in CreatePoints
      BY <1>a, <2>4 DEF CreatePoints
    <2> QED BY <1>a, <1>b, <2>4, <2>6, <2>7, <2>8, CreateParts
  <1>3. CASE /\ box' = HostFiles /\ call' = AtPoint(k, "cl.record")
             /\ marks' = [marks EXCEPT ![TxId] = Abandoned(m)]
    <2>1. PICK n, d : n = AtPoint(k, "cl.record") /\ d = Having(b, P)
      OBVIOUS
    <2>2. n \in CallType /\ n.step = "cl.record" /\ n.op = k.op /\ n.sub = k.sub /\ n.owned = k.owned
      BY <1>0, <2>1, NextPoint DEF Points
    <2>3. b \in BoxType /\ m \in SUBSET MarkNames /\ BoxOK(TxId, b, m) /\ Connected(b, m)
      BY <1>a, CreateFacts
    <2>4. P \in SUBSET Parts /\ ("network" \in b.parts => "network" \in P)
      BY <1>3, <1>6, <1>7
    <2>5. d \in BoxType /\ d.record = b.record /\ BoxOK(TxId, d, m) /\ Connected(d, m)
      BY <2>1, <2>3, <2>4, HavingOK
    <2>6. /\ Abandoned(m) \in SUBSET MarkNames /\ "abandoned" \in Abandoned(m)
          /\ BoxOK(TxId, d, Abandoned(m)) /\ Connected(d, Abandoned(m))
      BY <2>3, <2>5, AbandonedOK
    <2>7. CreateCall(n, d, Abandoned(m))
      BY <1>a, <1>5, <2>2, <2>5, <2>6 DEF CreateCall, Within
    <2>8. call' = n /\ n.op = "create" /\ n.sub = call.sub /\ n.step \in CreatePoints
      BY <1>3, <1>a, <2>1, <2>2 DEF CreatePoints
    <2>9. box' = [box EXCEPT ![TxId] = d]
      BY <1>3, <1>7, <2>1 DEF MadeOf
    <2> QED BY <1>3, <1>a, <1>b, <2>2, <2>5, <2>6, <2>7, <2>8, <2>9, CreateGoesOn
  <1> QED BY <1>b, <1>1, <1>2, <1>3

LEMMA EnsureNetnsOK ==
  ASSUME RuntimesIInv, EnsureNetns
  PROVE  SubjectStep
  <1>a. Containerd /\ call.op = "create" /\ call.step = "mk.netns"
    BY DEF EnsureNetns, At
  <1> PICK k, b, m : k = call /\ b = box[TxId] /\ m = marks[TxId]
    OBVIOUS
  <1>0. Types /\ k \in CallType /\ CreateCall(k, b, m)
    BY <1>a, CreateFacts
  <1>b. /\ Kept /\ (Fine \/ Fault)
        /\ box' \in {box, With(TxId, "netns")}
        /\ call' \in {AtPoint(k, "mk.record"), AtPoint(k, "cl.record")}
    BY DEF EnsureNetns, Try, Continue, AtPoint
  <1>1. PICK P \in {b.parts, b.parts \cup {"netns"}} :
          MadeOf(P) /\ P \in SUBSET Parts
    BY <1>0, <1>b, PartsIs DEF Parts, MadeOf
  <1>2. PICK x \in {"mk.record", "cl.record"} : call' = AtPoint(k, x)
    BY <1>b
  <1>3. PICK n : n = AtPoint(k, x)
    OBVIOUS
  <1>4. n \in CallType /\ n.step = x /\ n.op = k.op /\ n.sub = k.sub /\ n.owned = k.owned /\ n.keep = k.keep
    BY <1>0, <1>3, NextPoint DEF Points
  <1>5. k.owned.id = TxId /\ ~b.record /\ Within(b, m, {"lease", "snapshot", "host", "volume"}) /\ k.keep
    BY <1>0, <1>a DEF CreateCall
  <1>6. PointFits(n, P, b.record, m)
    BY <1>a, <1>4, <1>5 DEF PointFits, CreateCall, Within
  <1> QED BY <1>a, <1>b, <1>1, <1>2, <1>3, <1>4, <1>6, CreateParts DEF CreatePoints

LEMMA CreateRecordOK ==
  ASSUME RuntimesIInv, CreateRecord
  PROVE  SubjectStep
  <1>a. Containerd /\ call.op = "create" /\ call.step = "mk.record"
    BY DEF CreateRecord, At
  <1> PICK k, b, m : k = call /\ b = box[TxId] /\ m = marks[TxId]
    OBVIOUS
  <1>0. /\ Types /\ k \in CallType /\ CreateCall(k, b, m) /\ b \in BoxType /\ m \in SUBSET MarkNames
        /\ BoxOK(TxId, b, m) /\ Connected(b, m)
    BY <1>a, CreateFacts
  <1>1. PICK d : d = [b EXCEPT !.record = TRUE, !.name = "app", !.owner = "tx",
                               !.task = "none", !.restart = FALSE]
    OBVIOUS
  <1>2. /\ d \in BoxType /\ d.parts = b.parts /\ d.record = TRUE /\ d.owner = "tx"
        /\ d.task = "none" /\ d.restart = FALSE
    BY <1>0, <1>1 DEF BoxType, Names, Owners, Tasks
  <1>b. /\ Kept /\ (Fine \/ Fault)
        /\ \/ box' = [box EXCEPT ![TxId] = d] /\ call' = AtPoint(k, "mk.release")
           \/ box' = [box EXCEPT ![TxId] = d] /\ call' = AtPoint(k, "cl.record")
           \/ box' = [box EXCEPT ![TxId] = b] /\ call' = AtPoint(k, "cl.record")
    BY <1>0, <1>1 DEF CreateRecord, Try, Continue, AtPoint, Types
  <1>3. PICK x \in {"mk.release", "cl.record"}, e \in {b, d} :
          box' = [box EXCEPT ![TxId] = e] /\ call' = AtPoint(k, x) /\ (x = "mk.release" => e = d)
    BY <1>b
  <1>4. PICK n : n = AtPoint(k, x)
    OBVIOUS
  <1>5. /\ n \in CallType /\ n.step = x /\ n.op = k.op /\ n.sub = k.sub /\ n.owned = k.owned
        /\ n.keep = k.keep
    BY <1>0, <1>4, NextPoint DEF Points
  <1>6. k.owned.id = TxId /\ ~b.record /\ Within(b, m, {"lease", "snapshot", "host", "volume", "netns"}) /\ k.keep
    BY <1>0, <1>a DEF CreateCall
  <1>7. Within(e, m, {"lease", "snapshot", "host", "volume", "netns"})
    BY <1>2, <1>3, <1>6 DEF Within
  <1>8. CreateCall(n, e, m)
    BY <1>a, <1>2, <1>3, <1>5, <1>6, <1>7 DEF CreateCall
  <1>9. e \in BoxType /\ BoxOK(TxId, e, m) /\ Connected(e, m)
    BY <1>0, <1>2, <1>3 DEF BoxOK, Connected
  <1>10. marks' = [marks EXCEPT ![TxId] = m]
    BY <1>0, <1>b DEF Kept, Types
  <1>11. /\ UNCHANGED <<plugin, wire, foreign>> /\ (Fine \/ Fault) /\ Containerd /\ call.op = "create"
         /\ box' = [box EXCEPT ![TxId] = e] /\ call' = n
    BY <1>a, <1>b, <1>3, <1>4 DEF Kept
  <1>12. n.op = "create" /\ n.sub = call.sub /\ n.step \in CreatePoints
    BY <1>a, <1>3, <1>5 DEF CreatePoints
  <1>13. n \in CallType /\ e \in BoxType /\ m \in SUBSET MarkNames
    BY <1>0, <1>5, <1>9
  <1> QED BY <1>8, <1>9, <1>10, <1>11, <1>12, <1>13, CreateGoesOn

LEMMA ReleaseLeaseOK ==
  ASSUME RuntimesIInv, ReleaseLease
  PROVE  SubjectStep
  <1>a. Containerd /\ call.op = "create" /\ call.step = "mk.release"
    BY DEF ReleaseLease, At
  <1> PICK k, b, m : k = call /\ b = box[TxId] /\ m = marks[TxId]
    OBVIOUS
  <1>0. /\ Types /\ k \in CallType /\ CreateCall(k, b, m) /\ b \in BoxType /\ m \in SUBSET MarkNames
        /\ BoxOK(TxId, b, m) /\ Connected(b, m)
    BY <1>a, CreateFacts
  <1>b. /\ Kept /\ (Fine \/ Fault)
        /\ \/ box' = Without(TxId, "lease") /\ call' = IdleCall
           \/ box' \in {box, Without(TxId, "lease")} /\ call' = AtPoint(k, "cl.record")
    BY DEF ReleaseLease, Checked, Return, Continue, AtPoint
  <1>c. k.owned.id = TxId /\ b.record /\ Within(b, m, {"lease", "snapshot", "host", "volume", "netns"}) /\ k.keep
        /\ b.task = "none" /\ ~b.restart
    BY <1>0, <1>a DEF CreateCall
  <1>d. "network" \in b.parts => "network" \in b.parts \ {"lease"}
    OBVIOUS
  <1>e. marks' = [marks EXCEPT ![TxId] = m]
    BY <1>0, <1>b DEF Kept, Types
  <1>1. PICK P \in {b.parts, b.parts \ {"lease"}} :
          /\ box' = [box EXCEPT ![TxId] = Having(b, P)] /\ P \in SUBSET Parts
          /\ call' = IdleCall => P = b.parts \ {"lease"}
    <2>1. call' = IdleCall => box' = Without(TxId, "lease")
      BY <1>b, <1>0, <1>a, IdleType, NextPoint DEF Points
    <2> QED BY <2>1, <1>0, <1>b, PartsIs DEF Parts
  <1>2. PICK d : d = Having(b, P)
    OBVIOUS
  <1>3. /\ d \in BoxType /\ BoxOK(TxId, d, m) /\ Connected(d, m)
        /\ d.parts = P /\ d.record = b.record /\ d.task = b.task /\ d.restart = b.restart
    BY <1>0, <1>1, <1>2, <1>d, HavingOK
  <1>4. CASE call' = IdleCall
    <2>1. ~Leak(d, m)
      BY <1>1, <1>3, <1>4, <1>c DEF Leak
    <2> QED BY <1>a, <1>b, <1>e, <1>0, <1>1, <1>2, <1>3, <1>4, <2>1, CreateEnds DEF Kept
  <1>5. CASE call' # IdleCall
    <2>3. PICK n : n = AtPoint(k, "cl.record")
      OBVIOUS
    <2>4. /\ n \in CallType /\ n.step = "cl.record" /\ n.op = k.op /\ n.sub = k.sub
          /\ n.owned = k.owned /\ n.keep = k.keep
      BY <1>0, <2>3, NextPoint DEF Points
    <2>5. Within(d, m, {"lease", "snapshot", "host", "volume", "netns"})
      BY <1>1, <1>3, <1>c DEF Within
    <2>6. CreateCall(n, d, m)
      BY <1>a, <1>c, <1>3, <2>4, <2>5 DEF CreateCall
    <2>7. call' = n /\ box' = [box EXCEPT ![TxId] = d] /\ n.op = "create" /\ n.sub = call.sub
      BY <1>a, <1>b, <1>1, <1>2, <1>5, <2>3, <2>4
    <2> QED BY <1>a, <1>b, <1>e, <1>0, <1>3, <2>4, <2>6, <2>7, CreateGoesOn DEF Kept, CreatePoints
  <1> QED BY <1>4, <1>5

(* A request of the cleanup from step x to step y leaves d, or b abandoned.      *)
LEMMA CleanupStep ==
  ASSUME RuntimesIInv, Containerd, call.op = "create", NEW k, k = call, NEW y \in CreatePoints,
         NEW b, NEW m, b = box[TxId], m = marks[TxId],
         NEW d, d \in BoxType, BoxOK(TxId, d, m), Connected(d, m),
         UNCHANGED <<plugin, wire, foreign>>, call' = AtPoint(k, y), Fine \/ Fault,
         \/ box' = [box EXCEPT ![TxId] = d] /\ marks' = marks
         \/ box' = box /\ marks' = [marks EXCEPT ![TxId] = @ \cup {"abandoned"}],
         CreateCall(AtPoint(k, y), d, m), CreateCall(AtPoint(k, y), b, Abandoned(m))
  PROVE  SubjectStep
  <1>1. PICK n : n = AtPoint(k, y)
    OBVIOUS
  <1>0. /\ Types /\ k \in CallType /\ b \in BoxType /\ m \in SUBSET MarkNames
        /\ BoxOK(TxId, b, m) /\ Connected(b, m) /\ Subject = TxId
    BY CreateFacts
  <1>2. /\ n \in CallType /\ n.step = y /\ n.op = "create" /\ n.sub = call.sub
    BY <1>0, <1>1, NextPoint DEF Points, CreatePoints
  <1>3. CASE box' = [box EXCEPT ![TxId] = d] /\ marks' = marks
    <2>1. marks' = [marks EXCEPT ![TxId] = m]
      BY <1>3, <1>0 DEF Types
    <2> QED BY <1>0, <1>1, <1>2, <1>3, <2>1, CreateGoesOn
  <1>4. CASE box' = box /\ marks' = [marks EXCEPT ![TxId] = @ \cup {"abandoned"}]
    <2>1. marks' = [marks EXCEPT ![TxId] = Abandoned(m)] /\ box' = [box EXCEPT ![TxId] = b]
      BY <1>4, <1>0 DEF Types, Abandoned
    <2>2. Abandoned(m) \in SUBSET MarkNames /\ BoxOK(TxId, b, Abandoned(m)) /\ Connected(b, Abandoned(m))
      BY <1>0, AbandonedOK
    <2> QED BY <1>0, <1>1, <1>2, <2>1, <2>2, CreateGoesOn
  <1> QED BY <1>3, <1>4

(* What every cleanup step finds.                                            *)
LEMMA CleanupFacts ==
  ASSUME RuntimesIInv, Containerd, call.op = "create", NEW k, k = call,
         NEW b, NEW m, b = box[TxId], m = marks[TxId],
         NEW y \in {"cl.snapshot", "cl.netns", "cl.host", "cl.lease"}, call.step \notin {"begin", "decode"}
  PROVE  /\ Types /\ k \in CallType /\ CreateCall(k, b, m) /\ b \in BoxType /\ m \in SUBSET MarkNames
         /\ BoxOK(TxId, b, m) /\ Connected(b, m)
         /\ AtPoint(k, y) \in CallType /\ AtPoint(k, y).step = y /\ AtPoint(k, y).op = "create"
         /\ AtPoint(k, y).owned.id = TxId /\ AtPoint(k, y).keep = k.keep
         /\ CreateCall(AtPoint(k, y), b, Abandoned(m))
  <1>1. /\ Types /\ k \in CallType /\ CreateCall(k, b, m) /\ b \in BoxType /\ m \in SUBSET MarkNames
        /\ BoxOK(TxId, b, m) /\ Connected(b, m)
    BY CreateFacts
  <1>2. PICK n : n = AtPoint(k, y)
    OBVIOUS
  <1>3. n \in CallType /\ n.step = y /\ n.op = "create" /\ n.owned = k.owned /\ n.keep = k.keep
    BY <1>1, <1>2, NextPoint DEF Points
  <1>4. k.owned.id = TxId
    BY <1>1 DEF CreateCall
  <1>5. CreateCall(n, b, Abandoned(m))
    BY <1>3, <1>4 DEF CreateCall, Within, Abandoned
  <1> QED BY <1>1, <1>2, <1>3, <1>4, <1>5

LEMMA CleanupRecordOK ==
  ASSUME RuntimesIInv, CleanupRecord
  PROVE  SubjectStep
  <1>a. Containerd /\ call.op = "create" /\ call.step = "cl.record"
    BY DEF CleanupRecord, At
  <1> PICK k, b, m : k = call /\ b = box[TxId] /\ m = marks[TxId]
    OBVIOUS
  <1> PICK y : y = "cl.snapshot"
    OBVIOUS
  <1>0. /\ Types /\ k \in CallType /\ CreateCall(k, b, m) /\ b \in BoxType /\ m \in SUBSET MarkNames
        /\ BoxOK(TxId, b, m) /\ Connected(b, m)
        /\ AtPoint(k, y) \in CallType /\ AtPoint(k, y).step = y /\ AtPoint(k, y).op = "create"
        /\ AtPoint(k, y).owned.id = TxId /\ AtPoint(k, y).keep = k.keep
        /\ CreateCall(AtPoint(k, y), b, Abandoned(m))
    BY <1>a, CleanupFacts
  <1>1. PICK d : d = [b EXCEPT !.record = FALSE, !.name = "none", !.owner = "none"]
    OBVIOUS
  <1>2. /\ d \in BoxType /\ d.parts = b.parts /\ d.record = FALSE /\ d.owner = "none"
        /\ d.task = b.task /\ d.restart = b.restart
    BY <1>0, <1>1 DEF BoxType, Owners
  <1>3. /\ b.record => b.task = "none"
        /\ Within(b, m, {"lease", "snapshot", "host", "volume", "netns"})
        /\ k.keep \/ Within(b, m, {"lease", "snapshot", "host", "netns"})
    BY <1>0, <1>a DEF CreateCall
  <1>4. BoxOK(TxId, d, m) /\ Connected(d, m)
    BY <1>0, <1>2, <1>3 DEF BoxOK, Connected
  <1>5. CreateCall(AtPoint(k, y), d, m)
    BY <1>0, <1>2, <1>3 DEF CreateCall, Within
  <1>6. /\ UNCHANGED <<plugin, wire, foreign>> /\ (Fine \/ Fault) /\ call' = AtPoint(k, y)
        /\ \/ box' = [box EXCEPT ![TxId] = d] /\ marks' = marks
           \/ box' = box /\ marks' = [marks EXCEPT ![TxId] = @ \cup {"abandoned"}]
    <2>1. [box EXCEPT ![TxId].record = FALSE, ![TxId].name = "none", ![TxId].owner = "none"]
             = [box EXCEPT ![TxId] = d]
      BY <1>0, <1>1 DEF Types, BoxType
    <2> QED BY <2>1 DEF CleanupRecord, TryCleanup, Continue, AtPoint
  <1> QED BY <1>a, <1>0, <1>2, <1>4, <1>5, <1>6, CleanupStep DEF CreatePoints

LEMMA CleanupSnapshotOK ==
  ASSUME RuntimesIInv, CleanupSnapshot
  PROVE  SubjectStep
  <1>a. Containerd /\ call.op = "create" /\ call.step = "cl.snapshot"
    BY DEF CleanupSnapshot, At
  <1> PICK k, b, m : k = call /\ b = box[TxId] /\ m = marks[TxId]
    OBVIOUS
  <1> PICK y : y = "cl.netns"
    OBVIOUS
  <1>0. /\ Types /\ k \in CallType /\ CreateCall(k, b, m) /\ b \in BoxType /\ m \in SUBSET MarkNames
        /\ BoxOK(TxId, b, m) /\ Connected(b, m)
        /\ AtPoint(k, y) \in CallType /\ AtPoint(k, y).step = y /\ AtPoint(k, y).op = "create"
        /\ AtPoint(k, y).owned.id = TxId /\ AtPoint(k, y).keep = k.keep
        /\ CreateCall(AtPoint(k, y), b, Abandoned(m))
    BY <1>a, CleanupFacts
  <1> PICK P : P = b.parts \ {"snapshot"}
    OBVIOUS
  <1> PICK d : d = Having(b, P)
    OBVIOUS
  <1>1. P \in SUBSET Parts /\ ("network" \in b.parts => "network" \in P)
    BY <1>0 DEF BoxType
  <1>2. /\ d \in BoxType /\ d.parts = P /\ d.record = b.record
        /\ BoxOK(TxId, d, m) /\ Connected(d, m)
    BY <1>0, <1>1, HavingOK
  <1>3. /\ Within(b, m, {"lease", "snapshot", "host", "volume", "netns"})
        /\ k.keep \/ Within(b, m, {"lease", "snapshot", "host", "netns"})
        /\ "abandoned" \in m \/ ~b.record
    BY <1>0, <1>a DEF CreateCall
  <1>5. CreateCall(AtPoint(k, y), d, m)
    BY <1>0, <1>2, <1>3 DEF CreateCall, Within
  <1>6. /\ UNCHANGED <<plugin, wire, foreign>> /\ (Fine \/ Fault) /\ call' = AtPoint(k, y)
        /\ \/ box' = [box EXCEPT ![TxId] = d] /\ marks' = marks
           \/ box' = box /\ marks' = [marks EXCEPT ![TxId] = @ \cup {"abandoned"}]
    <2>1. Without(TxId, "snapshot") = [box EXCEPT ![TxId] = d]
      BY <1>0, PartsIs DEF Parts
    <2> QED BY <1>0, <2>1 DEF CleanupSnapshot, TryCleanup, Continue, AtPoint
  <1> QED BY <1>a, <1>0, <1>2, <1>5, <1>6, CleanupStep DEF CreatePoints

LEMMA CleanupNetnsOK ==
  ASSUME RuntimesIInv, CleanupNetns
  PROVE  SubjectStep
  <1>a. Containerd /\ call.op = "create" /\ call.step = "cl.netns"
    BY DEF CleanupNetns, At
  <1> PICK k, b, m : k = call /\ b = box[TxId] /\ m = marks[TxId]
    OBVIOUS
  <1> PICK y : y = "cl.host"
    OBVIOUS
  <1>0. /\ Types /\ k \in CallType /\ CreateCall(k, b, m) /\ b \in BoxType /\ m \in SUBSET MarkNames
        /\ BoxOK(TxId, b, m) /\ Connected(b, m)
        /\ AtPoint(k, y) \in CallType /\ AtPoint(k, y).step = y /\ AtPoint(k, y).op = "create"
        /\ AtPoint(k, y).owned.id = TxId /\ AtPoint(k, y).keep = k.keep
        /\ CreateCall(AtPoint(k, y), b, Abandoned(m))
    BY <1>a, CleanupFacts
  <1> PICK P : P = b.parts \ {"netns"}
    OBVIOUS
  <1> PICK d : d = Having(b, P)
    OBVIOUS
  <1>1. P \in SUBSET Parts /\ ("network" \in b.parts => "network" \in P)
    BY <1>0 DEF BoxType
  <1>2. /\ d \in BoxType /\ d.parts = P /\ d.record = b.record
        /\ BoxOK(TxId, d, m) /\ Connected(d, m)
    BY <1>0, <1>1, HavingOK
  <1>3. /\ Within(b, m, {"lease", "snapshot", "host", "volume", "netns"})
        /\ k.keep \/ Within(b, m, {"lease", "snapshot", "host", "netns"})
        /\ "abandoned" \in m \/ ~b.record
    BY <1>0, <1>a DEF CreateCall
  <1>5. CreateCall(AtPoint(k, y), d, m)
    BY <1>0, <1>2, <1>3 DEF CreateCall, Within
  <1>6. /\ UNCHANGED <<plugin, wire, foreign>> /\ (Fine \/ Fault) /\ call' = AtPoint(k, y)
        /\ \/ box' = [box EXCEPT ![TxId] = d] /\ marks' = marks
           \/ box' = box /\ marks' = [marks EXCEPT ![TxId] = @ \cup {"abandoned"}]
    <2>1. Without(TxId, "netns") = [box EXCEPT ![TxId] = d]
      BY <1>0, PartsIs DEF Parts
    <2> QED BY <1>0, <2>1 DEF CleanupNetns, TryCleanup, Continue, AtPoint
  <1> QED BY <1>a, <1>0, <1>2, <1>5, <1>6, CleanupStep DEF CreatePoints

LEMMA CleanupHostOK ==
  ASSUME RuntimesIInv, CleanupHost
  PROVE  SubjectStep
  <1>a. Containerd /\ call.op = "create" /\ call.step = "cl.host"
    BY DEF CleanupHost, At
  <1> PICK k, b, m : k = call /\ b = box[TxId] /\ m = marks[TxId]
    OBVIOUS
  <1> PICK y : y = "cl.lease"
    OBVIOUS
  <1>0. /\ Types /\ k \in CallType /\ CreateCall(k, b, m) /\ b \in BoxType /\ m \in SUBSET MarkNames
        /\ BoxOK(TxId, b, m) /\ Connected(b, m)
        /\ AtPoint(k, y) \in CallType /\ AtPoint(k, y).step = y /\ AtPoint(k, y).op = "create"
        /\ AtPoint(k, y).owned.id = TxId /\ AtPoint(k, y).keep = k.keep
        /\ CreateCall(AtPoint(k, y), b, Abandoned(m))
    BY <1>a, CleanupFacts
  <1> PICK P : P = IF k.keep THEN b.parts \ {"host", "volume"} ELSE b.parts \ {"host"}
    OBVIOUS
  <1> PICK d : d = Having(b, P)
    OBVIOUS
  <1>1. P \in SUBSET Parts /\ ("network" \in b.parts => "network" \in P)
    BY <1>0 DEF BoxType
  <1>2. /\ d \in BoxType /\ d.parts = P /\ d.record = b.record
        /\ BoxOK(TxId, d, m) /\ Connected(d, m)
    BY <1>0, <1>1, HavingOK
  <1>3. /\ Within(b, m, {"lease", "snapshot", "host", "volume"})
        /\ k.keep \/ Within(b, m, {"lease", "snapshot", "host", "netns"})
        /\ "abandoned" \in m \/ ~b.record
    BY <1>0, <1>a DEF CreateCall
  <1>5. CreateCall(AtPoint(k, y), d, m)
    BY <1>0, <1>2, <1>3 DEF CreateCall, Within
  <1>6. /\ UNCHANGED <<plugin, wire, foreign>> /\ (Fine \/ Fault) /\ call' = AtPoint(k, y)
        /\ \/ box' = [box EXCEPT ![TxId] = d] /\ marks' = marks
           \/ box' = box /\ marks' = [marks EXCEPT ![TxId] = @ \cup {"abandoned"}]
           \/ box' = Without(TxId, "volume") /\ marks' = [marks EXCEPT ![TxId] = @ \cup {"abandoned"}]
    <2>1. (IF k.keep THEN NoHostFiles(TxId) ELSE Without(TxId, "host")) = [box EXCEPT ![TxId] = d]
      <3>1. CASE k.keep
        BY <1>0, <3>1 DEF NoHostFiles, Having, Types, BoxType
      <3>2. CASE ~k.keep
        BY <1>0, <3>2, PartsIs DEF Parts
      <3> QED BY <3>1, <3>2
    <2> QED BY <1>0, <2>1 DEF CleanupHost, TryCleanup, Continue, AtPoint
  <1>7. CASE box' = Without(TxId, "volume") /\ marks' = [marks EXCEPT ![TxId] = @ \cup {"abandoned"}]
    <2>1. PICK e, n : e = Having(b, b.parts \ {"volume"}) /\ n = AtPoint(k, y)
      OBVIOUS
    <2>2. b.parts \ {"volume"} \in SUBSET Parts
      BY <1>0 DEF BoxType
    <2>3. e \in BoxType /\ BoxOK(TxId, e, m) /\ Connected(e, m)
      BY <1>0, <2>1, <2>2, HavingOK
    <2>4. /\ Abandoned(m) \in SUBSET MarkNames /\ "abandoned" \in Abandoned(m)
          /\ BoxOK(TxId, e, Abandoned(m)) /\ Connected(e, Abandoned(m))
      BY <1>0, <2>3, AbandonedOK
    <2>5. CreateCall(n, e, Abandoned(m))
      BY <1>0, <2>1, <2>4 DEF CreateCall, Within
    <2>6. /\ box' = [box EXCEPT ![TxId] = e] /\ marks' = [marks EXCEPT ![TxId] = Abandoned(m)]
      BY <1>0, <1>7, <2>1, PartsIs DEF Parts, Abandoned
    <2>7. n \in CallType /\ call' = n /\ n.op = "create" /\ n.sub = call.sub /\ n.step \in CreatePoints
      BY <1>0, <1>6, <2>1, NextPoint DEF CreatePoints, Points
    <2> QED BY <1>a, <1>6, <2>3, <2>4, <2>5, <2>6, <2>7, CreateGoesOn
  <1> QED BY <1>a, <1>0, <1>2, <1>5, <1>6, <1>7, CleanupStep DEF CreatePoints

LEMMA CleanupLeaseOK ==
  ASSUME RuntimesIInv, CleanupLease
  PROVE  SubjectStep
  <1>a. Containerd /\ call.op = "create" /\ call.step = "cl.lease"
    BY DEF CleanupLease, At
  <1> PICK k, b, m : k = call /\ b = box[TxId] /\ m = marks[TxId]
    OBVIOUS
  <1>0. /\ Types /\ k \in CallType /\ CreateCall(k, b, m) /\ b \in BoxType /\ m \in SUBSET MarkNames
        /\ BoxOK(TxId, b, m) /\ Connected(b, m)
    BY <1>a, CreateFacts
  <1> PICK P : P = b.parts \ {"lease"}
    OBVIOUS
  <1> PICK d : d = Having(b, P)
    OBVIOUS
  <1>1. P \in SUBSET Parts /\ ("network" \in b.parts => "network" \in P)
    BY <1>0 DEF BoxType
  <1>2. /\ d \in BoxType /\ d.parts = P /\ d.record = b.record
        /\ BoxOK(TxId, d, m) /\ Connected(d, m)
    BY <1>0, <1>1, HavingOK
  <1>3. Within(b, m, {"lease", "snapshot"}) /\ ("abandoned" \in m \/ ~b.record)
    BY <1>0, <1>a DEF CreateCall
  <1>4. ~Leak(d, m)
    BY <1>2, <1>3 DEF Leak, Within
  <1>5. /\ UNCHANGED <<plugin, wire, foreign>> /\ (Fine \/ Fault) /\ call' = IdleCall
        /\ \/ box' = [box EXCEPT ![TxId] = d] /\ marks' = [marks EXCEPT ![TxId] = m]
           \/ box' = [box EXCEPT ![TxId] = b] /\ marks' = [marks EXCEPT ![TxId] = Abandoned(m)]
    <2>1. Without(TxId, "lease") = [box EXCEPT ![TxId] = d]
      BY <1>0, PartsIs DEF Parts
    <2>2. box = [box EXCEPT ![TxId] = b] /\ marks = [marks EXCEPT ![TxId] = m]
      BY <1>0 DEF Types
    <2> QED BY <2>1, <2>2 DEF CleanupLease, TryCleanup, Return, Abandoned
  <1>6. /\ Abandoned(m) \in SUBSET MarkNames /\ BoxOK(TxId, b, Abandoned(m))
        /\ Connected(b, Abandoned(m)) /\ ~Leak(b, Abandoned(m))
    BY <1>0, AbandonedOK
  <1> QED BY <1>a, <1>0, <1>2, <1>4, <1>5, <1>6, CreateEnds

-----------------------------------------------------------------------------
(* containerd: the calls that are no creation.                               *)

Changes(b, m) == box' = [box EXCEPT ![Subject] = b] /\ marks' = [marks EXCEPT ![Subject] = m]

LEMMA OtherFacts ==
  ASSUME RuntimesIInv, Containerd, call.op \notin {"idle", "create"},
         NEW k, k = call, NEW b, b = box[Subject], NEW m, m = marks[Subject]
  PROVE  /\ Types /\ k \in CallType /\ b \in BoxType /\ m \in SUBSET MarkNames
         /\ BoxOK(Subject, b, m) /\ Connected(b, m) /\ ~Leak(b, m)
         /\ StartCall(k, b, m) /\ StopCall(k, b) /\ RemoveCall(k, b, m)
         /\ Subject \in Ids /\ Subject # 3 /\ Untouched(call) /\ call.op # "idle"
         /\ UNCHANGED <<box, marks>> => Changes(b, m)
         /\ UNCHANGED marks => marks' = [marks EXCEPT ![Subject] = m]
  <1>1. Untouched(call)
    BY DEF Untouched
  <1>2. Types /\ Subject \in Ids /\ Subject # 3
    BY SubjectFacts, SubjectIs
  <1> QED BY <1>1, <1>2, SubjectFacts, NoLeak DEF CallOK, Types, Changes

LEMMA CallReturns ==
  ASSUME RuntimesIInv, Containerd, call.op \notin {"idle", "create"},
         UNCHANGED <<plugin, foreign>>, Fine \/ Fault, WireKept,
         NEW b \in BoxType, NEW m \in SUBSET MarkNames, Changes(b, m),
         BoxOK(Subject, b, m), Connected(b, m), ~Leak(b, m), call' = IdleCall
  PROVE  SubjectStep
  BY MarkStep DEF Changes, WireKept

LEMMA CallGoesOn ==
  ASSUME RuntimesIInv, Containerd, call.op \notin {"idle", "create"},
         UNCHANGED <<plugin, foreign>>, Fine \/ Fault, WireKept,
         NEW b \in BoxType, NEW m \in SUBSET MarkNames, Changes(b, m),
         BoxOK(Subject, b, m), Connected(b, m), ~Leak(b, m),
         NEW n \in CallType, call' = n, n.op = call.op, n.sub = call.sub,
         StartCall(n, b, m), StopCall(n, b), RemoveCall(n, b, m)
  PROVE  SubjectStep
  <1>1. CallOK(n, b, m) /\ LeakOK(call, Subject, b, m)
    BY DEF CallOK, CreateCall, LeakOK
  <1> QED BY <1>1, MarkStep DEF Changes, WireKept

(* What step x of a call rests on holds of b and m.                           *)
RestsOn(x, keep, b, m) == \A n : n.step = x /\ n.keep = keep =>
    StartCall(n, b, m) /\ StopCall(n, b) /\ RemoveCall(n, b, m)

LEMMA CallAt ==
  ASSUME RuntimesIInv, Containerd, call.op \notin {"idle", "create"},
         UNCHANGED <<plugin, foreign>>, Fine \/ Fault, WireKept,
         NEW b \in BoxType, NEW m \in SUBSET MarkNames, Changes(b, m),
         BoxOK(Subject, b, m), Connected(b, m), ~Leak(b, m),
         NEW x \in Points, call' = AtPoint(call, x), RestsOn(x, call.keep, b, m)
  PROVE  SubjectStep
  <1>1. call \in CallType
    BY OtherFacts
  <1>2. PICK n : n = AtPoint(call, x)
    OBVIOUS
  <1>3. n \in CallType /\ n.op = call.op /\ n.sub = call.sub /\ n.step = x /\ n.keep = call.keep
    BY <1>1, <1>2, NextPoint
  <1>4. StartCall(n, b, m) /\ StopCall(n, b) /\ RemoveCall(n, b, m)
    BY <1>3 DEF RestsOn
  <1> QED BY <1>2, <1>3, <1>4, CallGoesOn

(* b with another task, or with another word to the restart monitor            *)
Doing(b, task) == [b EXCEPT !.task = task]
Told(b, restart) == [b EXCEPT !.restart = restart]

LEMMA DoingOK ==
  ASSUME NEW b \in BoxType, NEW t \in Tasks
  PROVE  /\ Doing(b, t) \in BoxType /\ Doing(b, t).task = t
         /\ Doing(b, t).record = b.record /\ Doing(b, t).parts = b.parts
         /\ Doing(b, t).restart = b.restart /\ Doing(b, t).owner = b.owner
         /\ \A m : Leak(Doing(b, t), m) <=> Leak(b, m)
  BY DEF Doing, BoxType, Leak

LEMMA ToldOK ==
  ASSUME NEW b \in BoxType, NEW r \in BOOLEAN
  PROVE  /\ Told(b, r) \in BoxType /\ Told(b, r).task = b.task
         /\ Told(b, r).record = b.record /\ Told(b, r).parts = b.parts
         /\ (Told(b, r).restart <=> r) /\ Told(b, r).owner = b.owner
         /\ \A m : Leak(Told(b, r), m) <=> Leak(b, m)
         /\ \A m : Connected(Told(b, r), m) <=> Connected(b, m)
  BY DEF Told, BoxType, Leak, Connected

LEMMA BoxIs ==
  ASSUME Types, NEW c \in Ids
  PROVE  /\ \A t : [box EXCEPT ![c].task = t] = [box EXCEPT ![c] = Doing(box[c], t)]
         /\ \A r : [box EXCEPT ![c].restart = r] = [box EXCEPT ![c] = Told(box[c], r)]
         /\ \A n : [box EXCEPT ![c].name = n] = [box EXCEPT ![c] = [box[c] EXCEPT !.name = n]]
  BY DEF Types, BoxType, Doing, Told

-----------------------------------------------------------------------------
(* containerd: start.                                                       *)

LEMMA StartGetOK ==
  ASSUME RuntimesIInv, StartGet
  PROVE  SubjectStep
  <1>a. Containerd /\ call.op \notin {"idle", "create"} /\ Read /\ (Fine \/ Fault)
    BY DEF StartGet, At, Starting, FailRead, Refuse
  <1> PICK k, b, m : k = call /\ b = box[Subject] /\ m = marks[Subject]
    OBVIOUS
  <1>0. k \in CallType /\ Untouched(call)
    BY <1>a, OtherFacts
  <1>b. call' = IdleCall \/ (call' = AtPoint(k, "start.net") /\ b.record)
    BY DEF StartGet, FailRead, Refuse, Return, Continue, AtPoint
  <1>1. CASE call' = IdleCall
    BY <1>1, <1>a, <1>0, ReadReturns
  <1>2. CASE call' = AtPoint(k, "start.net") /\ b.record
    <2>1. call' \in CallType /\ call'.op = call.op /\ call'.sub = call.sub /\ call'.step = "start.net"
      BY <1>2, <1>0, NextPoint DEF Points
    <2>2. CallOK(call', b, m)
      BY <1>a, <1>2, <2>1 DEF CallOK, CreateCall, StartCall, StopCall, RemoveCall
    <2> QED BY <1>a, <2>1, <2>2, ReadGoesOn
  <1> QED BY <1>b, <1>1, <1>2

LEMMA StartNetworkOK ==
  ASSUME RuntimesIInv, StartNetwork
  PROVE  SubjectStep
  <1>a. Containerd /\ call.op \notin {"idle", "create"} /\ call.step = "start.net"
    BY DEF StartNetwork, At, Starting
  <1> PICK k, b, m : k = call /\ b = box[Subject] /\ m = marks[Subject]
    OBVIOUS
  <1> DEFINE kept == "network" \in b.parts
  <1>0. /\ Types /\ k \in CallType /\ b \in BoxType /\ m \in SUBSET MarkNames
        /\ BoxOK(Subject, b, m) /\ Connected(b, m) /\ ~Leak(b, m) /\ StartCall(k, b, m)
        /\ Subject \in Ids /\ Subject # 3
        /\ UNCHANGED marks => marks' = [marks EXCEPT ![Subject] = m]
    BY <1>a, OtherFacts
  <1>b. /\ Kept /\ (Fine \/ Fault)
        /\ \/ box' = With(Subject, "network") /\ call' = [k EXCEPT !.step = "start.look", !.keep = kept]
           \/ box' \in {box, With(Subject, "network")} /\ call' = IdleCall
           \/ box' \in {box, With(Subject, "network")} /\ call' = AtPoint(k, "start.undo") /\ ~kept
    BY DEF StartNetwork, Return, AtPoint
  <1>c. b.record /\ (kept \/ Quiet(b, m))
    BY <1>0, <1>a DEF StartCall, BoxOK, Connected, Quiet, BoxType, Tasks
  <1>1. PICK P \in {b.parts, b.parts \cup {"network"}} :
          /\ box' = [box EXCEPT ![Subject] = Having(b, P)] /\ P \in SUBSET Parts
          /\ box' = With(Subject, "network") => "network" \in P
    <2>1. CASE box' = With(Subject, "network")
      BY <2>1, <1>0, PartsIs DEF Parts
    <2>2. CASE box' # With(Subject, "network")
      BY <2>2, <1>b, <1>0, PartsIs DEF Parts
    <2> QED BY <2>1, <2>2
  <1>2. PICK d : d = Having(b, P)
    OBVIOUS
  <1>3. /\ d \in BoxType /\ BoxOK(Subject, d, m) /\ Connected(d, m)
        /\ d.parts = P /\ d.record = b.record /\ d.task = b.task
    BY <1>0, <1>1, <1>2, HavingOK
  <1>4. Changes(d, m) /\ ~Leak(d, m) /\ WireKept /\ UNCHANGED <<plugin, foreign>>
    BY <1>0, <1>b, <1>c, <1>1, <1>2, <1>3 DEF Kept, Changes, Leak, WireKept
  <1>5. CASE call' = IdleCall
    BY <1>5, <1>a, <1>b, <1>0, <1>3, <1>4, CallReturns
  <1>6. CASE box' = With(Subject, "network") /\ call' = [k EXCEPT !.step = "start.look", !.keep = kept]
    <2>1. PICK n : n = [k EXCEPT !.step = "start.look", !.keep = kept]
      OBVIOUS
    <2>2. /\ n \in CallType /\ n.step = "start.look" /\ n.op = k.op /\ n.sub = k.sub
          /\ n.keep = kept
      <3>1. "start.look" \in Points /\ kept \in BOOLEAN
        BY DEF Points
      <3> HIDE DEF SnapshotType, kept
      <3>2. n \in CallType
        BY <1>0, <2>1, <3>1 DEF CallType
      <3>3. n.step = "start.look" /\ n.op = k.op /\ n.sub = k.sub /\ n.keep = kept
        BY <1>0, <2>1, <3>1 DEF CallType
      <3> QED BY <3>2, <3>3
    <2>3. StartCall(n, d, m) /\ StopCall(n, d) /\ RemoveCall(n, d, m)
      BY <1>6, <1>c, <1>1, <1>3, <2>2 DEF StartCall, StopCall, RemoveCall, Quiet
    <2> QED BY <1>6, <1>a, <1>b, <1>0, <1>3, <1>4, <2>1, <2>2, <2>3, CallGoesOn
  <1>7. CASE call' = AtPoint(k, "start.undo") /\ ~kept
    <2>1. PICK n : n = AtPoint(k, "start.undo")
      OBVIOUS
    <2>2. n \in CallType /\ n.step = "start.undo" /\ n.op = k.op /\ n.sub = k.sub
      BY <1>0, <2>1, NextPoint DEF Points
    <2>3. StartCall(n, d, m) /\ StopCall(n, d) /\ RemoveCall(n, d, m)
      BY <1>7, <1>c, <1>3, <2>2 DEF StartCall, StopCall, RemoveCall, Quiet
    <2> QED BY <1>7, <1>a, <1>b, <1>0, <1>3, <1>4, <2>1, <2>2, <2>3, CallGoesOn
  <1> QED BY <1>b, <1>5, <1>6, <1>7

LEMMA StartLookOK ==
  ASSUME RuntimesIInv, StartLook
  PROVE  SubjectStep
  <1>a. Containerd /\ call.op \notin {"idle", "create"} /\ call.step = "start.look"
    BY DEF StartLook, At, Starting
  <1> PICK k, b, m : k = call /\ b = box[Subject] /\ m = marks[Subject]
    OBVIOUS
  <1>0. /\ Types /\ k \in CallType /\ b \in BoxType /\ m \in SUBSET MarkNames
        /\ BoxOK(Subject, b, m) /\ Connected(b, m) /\ ~Leak(b, m)
        /\ StartCall(k, b, m) /\ StopCall(k, b) /\ RemoveCall(k, b, m)
        /\ Subject \in Ids /\ Subject # 3
        /\ UNCHANGED <<box, marks>> => Changes(b, m)
        /\ UNCHANGED marks => marks' = [marks EXCEPT ![Subject] = m]
    BY <1>a, OtherFacts
  <1>b. /\ Read /\ (Fine \/ Fault)
        /\ \/ call' = IdleCall
           \/ call' = AtPoint(k, "start.undo") /\ ~k.keep
           \/ call' = AtPoint(k, "start.label") /\ b.task = "running"
           \/ \E x \in {"start.clear", "start.make", "start.run"} : call' = AtPoint(k, x)
    BY DEF StartLook, GiveUpStart, Return, Continue, AtPoint
  <1>1. Changes(b, m) /\ WireKept /\ UNCHANGED <<plugin, foreign>>
    BY <1>0, <1>b DEF Read, WireKept
  <1>2. CASE call' = IdleCall
    BY <1>2, <1>a, <1>b, <1>0, <1>1, CallReturns
  <1>3. CASE call' # IdleCall
    <2>1. PICK x \in {"start.undo", "start.label", "start.clear", "start.make", "start.run"} :
            /\ call' = AtPoint(k, x) /\ (x = "start.undo" => ~k.keep)
            /\ x = "start.label" => b.task = "running"
      BY <1>b, <1>3
    <2>2. RestsOn(x, k.keep, b, m)
      BY <1>a, <1>0, <2>1 DEF RestsOn, StartCall, StopCall, RemoveCall, BoxOK
    <2>3. x \in Points
      BY <2>1 DEF Points
    <2> QED BY <1>a, <1>b, <1>0, <1>1, <2>1, <2>2, <2>3, CallAt
  <1> QED BY <1>2, <1>3

(* The subject is as it may be, and the call moves on from there.               *)
Fits(b, m) == /\ b \in BoxType /\ m \in SUBSET MarkNames
              /\ BoxOK(Subject, b, m) /\ Connected(b, m) /\ ~Leak(b, m)

Moves(b, m) == \/ call' = IdleCall
               \/ \E x \in Points : call' = AtPoint(call, x) /\ RestsOn(x, call.keep, b, m)

LEMMA CallStep ==
  ASSUME RuntimesIInv, Containerd, call.op \notin {"idle", "create"},
         UNCHANGED <<plugin, foreign>>, Fine \/ Fault, WireKept,
         NEW b, NEW m, Fits(b, m), Changes(b, m), Moves(b, m)
  PROVE  SubjectStep
  BY CallReturns, CallAt DEF Fits, Moves

(* Another task of the same container                                         *)
LEMMA DoingFits ==
  ASSUME NEW b, NEW m, Fits(b, m), NEW t \in Tasks,
         t = "none" \/ b.record \/ "revived" \in m,
         t \in {"running", "paused"} => "stopped" \notin m,
         t \in {"running", "paused", "exited"} => "network" \in b.parts \/ Excused(m) \/ b.owner = "none"
  PROVE  Fits(Doing(b, t), m)
  <1>1. b \in BoxType
    BY DEF Fits
  <1> QED BY <1>1, DoingOK DEF Fits, BoxOK, Connected

LEMMA StartClearOK ==
  ASSUME RuntimesIInv, StartClear
  PROVE  SubjectStep
  <1>a. Containerd /\ call.op \notin {"idle", "create"} /\ call.step = "start.clear"
    BY DEF StartClear, At, Starting
  <1> PICK k, b, m : k = call /\ b = box[Subject] /\ m = marks[Subject]
    OBVIOUS
  <1>0. /\ Fits(b, m) /\ StartCall(k, b, m) /\ StopCall(k, b) /\ RemoveCall(k, b, m)
        /\ Types /\ Subject \in Ids /\ Subject # 3
        /\ UNCHANGED <<box, marks>> => Changes(b, m)
        /\ UNCHANGED marks => marks' = [marks EXCEPT ![Subject] = m]
    BY <1>a, OtherFacts DEF Fits
  <1>b. /\ Kept /\ (Fine \/ Fault)
        /\ \/ box' = box
           \/ box' = [box EXCEPT ![Subject].task = "none"]
        /\ \/ call' = IdleCall
           \/ call' = AtPoint(k, "start.undo") /\ ~k.keep
           \/ call' = AtPoint(k, "start.make") /\ box' = [box EXCEPT ![Subject].task = "none"]
    BY DEF StartClear, GiveUpStart, Try, Read, Kept, Return, Continue, AtPoint
  <1>1. PICK d : d = Doing(b, "none")
    OBVIOUS
  <1>2. Fits(d, m) /\ d.parts = b.parts /\ d.task = "none"
    BY <1>0, <1>1, DoingFits, DoingOK DEF Tasks, Fits
  <1>3. /\ UNCHANGED <<plugin, foreign>> /\ WireKept /\ (Changes(b, m) \/ Changes(d, m))
        /\ box' = [box EXCEPT ![Subject].task = "none"] => Changes(d, m)
    BY <1>0, <1>b, <1>1, BoxIs DEF Kept, WireKept, Changes
  <1>4. RestsOn("start.make", k.keep, d, m)
    BY <1>0, <1>a, <1>2 DEF RestsOn, StartCall, StopCall, RemoveCall, Quiet
  <1>5. ~k.keep => RestsOn("start.undo", k.keep, b, m) /\ RestsOn("start.undo", k.keep, d, m)
    BY <1>0, <1>a, <1>2 DEF RestsOn, StartCall, StopCall, RemoveCall, Quiet
  <1>6. "start.make" \in Points /\ "start.undo" \in Points
    BY DEF Points
  <1>7. (Changes(b, m) /\ Moves(b, m)) \/ (Changes(d, m) /\ Moves(d, m))
    BY <1>b, <1>3, <1>4, <1>5, <1>6 DEF Moves
  <1> QED BY <1>a, <1>b, <1>0, <1>2, <1>3, <1>7, CallStep

LEMMA StartMakeOK ==
  ASSUME RuntimesIInv, StartMake
  PROVE  SubjectStep
  <1>a. Containerd /\ call.op \notin {"idle", "create"} /\ call.step = "start.make"
    BY DEF StartMake, At, Starting
  <1> PICK k, b, m : k = call /\ b = box[Subject] /\ m = marks[Subject]
    OBVIOUS
  <1>0. /\ Fits(b, m) /\ StartCall(k, b, m) /\ StopCall(k, b) /\ RemoveCall(k, b, m)
        /\ Types /\ Subject \in Ids /\ Subject # 3
        /\ UNCHANGED <<box, marks>> => Changes(b, m)
        /\ UNCHANGED marks => marks' = [marks EXCEPT ![Subject] = m]
    BY <1>a, OtherFacts DEF Fits
  <1>b. /\ Kept /\ (Fine \/ Fault)
        /\ \/ box' = box
           \/ box' = [box EXCEPT ![Subject].task = "created"] /\ b.record /\ b.task = "none"
        /\ \/ call' = IdleCall
           \/ call' = AtPoint(k, "start.undo") /\ ~k.keep
           \/ call' = AtPoint(k, "start.run") /\ box' = [box EXCEPT ![Subject].task = "created"]
              /\ b.record
    BY DEF StartMake, GiveUpStart, Try, Read, Kept, Return, Continue, AtPoint
  <1>1. PICK d : d = Doing(b, "created")
    OBVIOUS
  <1>2. (b.record => Fits(d, m)) /\ d.parts = b.parts /\ d.task = "created"
    BY <1>0, <1>1, DoingFits, DoingOK DEF Tasks, Fits
  <1>3. /\ UNCHANGED <<plugin, foreign>> /\ WireKept /\ (Changes(b, m) \/ (Changes(d, m) /\ b.record))
        /\ box' = [box EXCEPT ![Subject].task = "created"] => Changes(d, m)
    <2>1. [box EXCEPT ![Subject].task = "created"] = [box EXCEPT ![Subject] = d]
      BY <1>0, <1>1, BoxIs
    <2>2. UNCHANGED <<plugin, foreign, marks, wire>>
      BY <1>b DEF Kept
    <2>3. box' = box => Changes(b, m)
      BY <1>0, <2>2
    <2>4. box' = [box EXCEPT ![Subject] = d] => Changes(d, m)
      BY <1>0, <2>2 DEF Changes
    <2> QED BY <1>b, <2>1, <2>2, <2>3, <2>4 DEF WireKept
  <1>4. RestsOn("start.run", k.keep, d, m)
    BY <1>0, <1>a, <1>2 DEF RestsOn, StartCall, StopCall, RemoveCall, Quiet
  <1>5. ~k.keep => RestsOn("start.undo", k.keep, b, m) /\ RestsOn("start.undo", k.keep, d, m)
    BY <1>0, <1>a, <1>2 DEF RestsOn, StartCall, StopCall, RemoveCall, Quiet
  <1>6. "start.run" \in Points /\ "start.undo" \in Points
    BY DEF Points
  <1>7. (Changes(b, m) /\ Moves(b, m)) \/ (Changes(d, m) /\ Moves(d, m) /\ b.record)
    BY <1>b, <1>3, <1>4, <1>5, <1>6 DEF Moves
  <1> QED BY <1>a, <1>b, <1>0, <1>2, <1>3, <1>7, CallStep

LEMMA StartRunOK ==
  ASSUME RuntimesIInv, StartRun
  PROVE  SubjectStep
  <1>a. Containerd /\ call.op \notin {"idle", "create"} /\ call.step = "start.run"
    BY DEF StartRun, At, Starting
  <1> PICK k, b, m : k = call /\ b = box[Subject] /\ m = marks[Subject]
    OBVIOUS
  <1>0. /\ Fits(b, m) /\ StartCall(k, b, m) /\ StopCall(k, b) /\ RemoveCall(k, b, m)
        /\ Types /\ Subject \in Ids /\ Subject # 3
        /\ UNCHANGED <<box, marks>> => Changes(b, m)
        /\ UNCHANGED marks => marks' = [marks EXCEPT ![Subject] = m]
    BY <1>a, OtherFacts DEF Fits
  <1>b. /\ UNCHANGED <<plugin, foreign>> /\ (Fine \/ Fault)
        /\ \/ /\ box' = Run(Subject) /\ marks' = [marks EXCEPT ![Subject] = m \ {"stopped"}]
              /\ b.task = "created" /\ wire' = wire
              /\ (call' = AtPoint(k, "start.label") \/ call' = AtPoint(k, "start.doubt"))
           \/ /\ UNCHANGED <<box, marks>> /\ call' = AtPoint(k, "start.doubt")
              /\ wire' \in {wire, wire \cup {[kind |-> "run", id |-> Subject, name |-> "none"]}}
    BY DEF StartRun, Continue, AtPoint
  <1>1. PICK d, n : d = Doing(b, "running") /\ n = m \ {"stopped"}
    OBVIOUS
  <1>2. "network" \in b.parts
    BY <1>0, <1>a DEF StartCall
  <1>3. Fits(b, n)
    BY <1>0, <1>1 DEF Fits, BoxOK, Connected, Leak, Excused
  <1>4. (b.task = "created" => Fits(d, n)) /\ d.parts = b.parts
    BY <1>0, <1>1, <1>2, <1>3, DoingFits, DoingOK DEF Tasks, Fits, BoxOK
  <1>5. WireKept
    <2>1. PICK r : r = [kind |-> "run", id |-> Subject, name |-> "none"]
      OBVIOUS
    <2>2. RequestOK(r)
      BY <2>1, <1>a, SubjectIs DEF RequestOK, RequestType
    <2> QED BY <1>b, <2>1, <2>2 DEF WireKept
  <1>6. box' = Run(Subject) => box' = [box EXCEPT ![Subject] = d]
    BY <1>0, <1>1, BoxIs DEF Run
  <1>7. RestsOn("start.label", k.keep, d, n)
    BY <1>0, <1>1, <1>2, <1>4 DEF RestsOn, StartCall, StopCall, RemoveCall
  <1>8. RestsOn("start.doubt", k.keep, b, m) /\ RestsOn("start.doubt", k.keep, d, n)
    BY DEF RestsOn, StartCall, StopCall, RemoveCall
  <1>9. "start.label" \in Points /\ "start.doubt" \in Points
    BY DEF Points
  <1>10. (Changes(b, m) /\ Moves(b, m)) \/ (Changes(d, n) /\ Moves(d, n) /\ b.task = "created")
    <2>1. CASE UNCHANGED <<box, marks>> /\ call' = AtPoint(k, "start.doubt")
      BY <2>1, <1>0, <1>8, <1>9 DEF Moves
    <2>2. CASE ~(UNCHANGED <<box, marks>> /\ call' = AtPoint(k, "start.doubt"))
      <3>1. Changes(d, n) /\ b.task = "created"
        BY <2>2, <1>b, <1>1, <1>6 DEF Changes
      <3>2. call' = AtPoint(k, "start.label") \/ call' = AtPoint(k, "start.doubt")
        BY <1>b
      <3> QED BY <3>1, <3>2, <1>7, <1>8, <1>9 DEF Moves
    <2> QED BY <2>1, <2>2
  <1> QED BY <1>a, <1>b, <1>0, <1>4, <1>5, <1>10, CallStep

LEMMA StartDoubtOK ==
  ASSUME RuntimesIInv, StartDoubt
  PROVE  SubjectStep
  <1>a. Containerd /\ call.op \notin {"idle", "create"} /\ call.step = "start.doubt"
    BY DEF StartDoubt, At, Starting
  <1> PICK k, b, m : k = call /\ b = box[Subject] /\ m = marks[Subject]
    OBVIOUS
  <1>0. /\ Fits(b, m) /\ StartCall(k, b, m) /\ StopCall(k, b) /\ RemoveCall(k, b, m)
        /\ Types /\ Subject \in Ids /\ Subject # 3
        /\ UNCHANGED <<box, marks>> => Changes(b, m)
        /\ UNCHANGED marks => marks' = [marks EXCEPT ![Subject] = m]
    BY <1>a, OtherFacts DEF Fits
  <1>b. /\ Read /\ (Fine \/ Fault)
        /\ \/ call' = IdleCall
           \/ call' = AtPoint(k, "start.undo") /\ b.task \in {"none", "created"}
    BY DEF StartDoubt, GiveUpStart, Return, Continue, AtPoint
  <1>1. Changes(b, m) /\ WireKept /\ UNCHANGED <<plugin, foreign>>
    BY <1>0, <1>b DEF Read, WireKept
  <1>2. b.task \in {"none", "created"} => RestsOn("start.undo", k.keep, b, m)
    BY DEF RestsOn, StartCall, StopCall, RemoveCall, Quiet
  <1>3. Moves(b, m)
    BY <1>b, <1>2 DEF Moves, Points
  <1> QED BY <1>a, <1>b, <1>0, <1>1, <1>3, CallStep

LEMMA StartUndoOK ==
  ASSUME RuntimesIInv, StartUndo
  PROVE  SubjectStep
  <1>a. Containerd /\ call.op \notin {"idle", "create"} /\ call.step = "start.undo"
    BY DEF StartUndo, At, Starting
  <1> PICK k, b, m : k = call /\ b = box[Subject] /\ m = marks[Subject]
    OBVIOUS
  <1>0. /\ Fits(b, m) /\ StartCall(k, b, m) /\ StopCall(k, b) /\ RemoveCall(k, b, m)
        /\ Types /\ Subject \in Ids /\ Subject # 3
        /\ UNCHANGED <<box, marks>> => Changes(b, m)
        /\ UNCHANGED marks => marks' = [marks EXCEPT ![Subject] = m]
    BY <1>a, OtherFacts DEF Fits
  <1>b. /\ Kept /\ (Fine \/ Fault) /\ call' = IdleCall
        /\ box' = box \/ box' = Without(Subject, "network")
    BY DEF StartUndo, Try, Return
  <1>1. PICK d : d = Having(b, b.parts \ {"network"})
    OBVIOUS
  <1>2. b.parts \ {"network"} \in SUBSET Parts /\ Quiet(b, m)
    BY <1>0, <1>a DEF Fits, BoxType, StartCall
  <1>3. /\ d \in BoxType /\ d.parts = b.parts \ {"network"} /\ d.record = b.record
        /\ BoxOK(Subject, d, m) /\ Connected(d, m)
    BY <1>0, <1>1, <1>2, HavingOK DEF Fits
  <1>4. Fits(d, m)
    BY <1>0, <1>3 DEF Fits, Leak
  <1>5. UNCHANGED <<plugin, foreign>> /\ WireKept /\ (Changes(b, m) \/ Changes(d, m))
    BY <1>0, <1>b, <1>1, PartsIs DEF Kept, WireKept, Changes, Parts
  <1> QED BY <1>a, <1>b, <1>0, <1>4, <1>5, CallStep DEF Moves

LEMMA StartLabelOK ==
  ASSUME RuntimesIInv, StartLabel
  PROVE  SubjectStep
  <1>a. Containerd /\ call.op \notin {"idle", "create"} /\ call.step = "start.label"
    BY DEF StartLabel, At, Starting
  <1> PICK k, b, m : k = call /\ b = box[Subject] /\ m = marks[Subject]
    OBVIOUS
  <1>0. /\ Fits(b, m) /\ StartCall(k, b, m) /\ StopCall(k, b) /\ RemoveCall(k, b, m)
        /\ Types /\ Subject \in Ids /\ Subject # 3
        /\ UNCHANGED <<box, marks>> => Changes(b, m)
        /\ UNCHANGED marks => marks' = [marks EXCEPT ![Subject] = m]
    BY <1>a, OtherFacts DEF Fits
  <1>b. /\ Kept /\ (Fine \/ Fault) /\ call' = IdleCall
        /\ box' = box \/ (box' = [box EXCEPT ![Subject].restart = TRUE] /\ b.record)
    BY DEF StartLabel, Refuse, Checked, Read, Kept, Return
  <1>1. PICK d : d = Told(b, TRUE)
    OBVIOUS
  <1>2. b.record => Fits(d, m)
    BY <1>0, <1>a, <1>1, ToldOK DEF Fits, BoxOK, StartCall
  <1>3. UNCHANGED <<plugin, foreign>> /\ WireKept /\ (Changes(b, m) \/ (Changes(d, m) /\ b.record))
    <2>1. [box EXCEPT ![Subject].restart = TRUE] = [box EXCEPT ![Subject] = d]
      BY <1>0, <1>1, BoxIs
    <2>2. UNCHANGED <<plugin, foreign, marks, wire>>
      BY <1>b DEF Kept
    <2>3. box' = box => Changes(b, m)
      BY <1>0, <2>2
    <2>4. box' = [box EXCEPT ![Subject] = d] => Changes(d, m)
      BY <1>0, <2>2 DEF Changes
    <2> QED BY <1>b, <2>1, <2>2, <2>3, <2>4 DEF WireKept
  <1> QED BY <1>a, <1>b, <1>0, <1>2, <1>3, CallStep DEF Moves

LEMMA StartNextOK ==
  ASSUME RuntimesIInv, StartNext
  PROVE  SubjectStep
  BY StartGetOK, StartNetworkOK, StartLookOK, StartClearOK, StartMakeOK, StartRunOK,
     StartDoubtOK, StartUndoOK, StartLabelOK DEF StartNext

-----------------------------------------------------------------------------
(* containerd: stop.                                                        *)

(* The stop of a container without a task that runs.                           *)
LEMMA StoppedOK ==
  ASSUME RuntimesIInv, Containerd, call.op \in Stopping, Stopped,
         box[Subject].task \notin {"running", "paused"},
         call.step \in {"stop.look", "stop.resume", "stop.term", "stop.wait", "stop.kill", "stop.last"}
  PROVE  SubjectStep
  <1>a. Containerd /\ call.op \notin {"idle", "create"}
    BY DEF Stopping
  <1> PICK k, b, m : k = call /\ b = box[Subject] /\ m = marks[Subject]
    OBVIOUS
  <1>0. /\ Fits(b, m) /\ StopCall(k, b) /\ CallForm(call) /\ Types /\ Subject \in Ids
        /\ UNCHANGED <<box, marks>> => Changes(b, m)
    BY <1>a, OtherFacts, SubjectFacts DEF Fits
  <1> PICK n : n = m \cup {"stopped"}
    OBVIOUS
  <1>b. /\ UNCHANGED <<plugin, box, wire, foreign>> /\ (Fine \/ Fault)
        /\ \/ marks' = marks /\ call' = IdleCall
           \/ marks' = marks /\ call' = AtPoint(k, "rm.look")
           \/ marks' = [marks EXCEPT ![Subject] = n] /\ call' = IdleCall /\ call.op = "stop"
    BY DEF Stopped, Stopping, Continue, Return, AtPoint
  <1>1. call.op = "stop" => Fits(b, n)
    <2> SUFFICES ASSUME call.op = "stop" PROVE Fits(b, n)
      OBVIOUS
    <2>1. Subject = Predecessor /\ ~b.restart
      BY <1>0, SubjectIs DEF NewOps, StopCall
    <2> QED BY <1>0, <2>1 DEF Fits, MarkNames, BoxOK, Connected, Excused, Leak
  <1>2. RestsOn("rm.look", k.keep, b, m) /\ "rm.look" \in Points
    BY DEF RestsOn, StartCall, StopCall, RemoveCall, Points
  <1>3. \/ Changes(b, m) /\ Moves(b, m)
        \/ Changes(b, n) /\ Moves(b, n) /\ call.op = "stop"
    <2>1. CASE marks' = marks
      BY <2>1, <1>b, <1>0, <1>2 DEF Moves
    <2>2. CASE marks' # marks
      <3>1. box' = [box EXCEPT ![Subject] = b]
        BY <1>b, <1>0 DEF Types
      <3> QED BY <2>2, <3>1, <1>b DEF Moves, Changes
    <2> QED BY <2>1, <2>2
  <1> QED BY <1>a, <1>b, <1>0, <1>1, <1>3, CallStep DEF WireKept

LEMMA StopGetOK ==
  ASSUME RuntimesIInv, StopGet
  PROVE  SubjectStep
  <1>a. /\ Containerd /\ call.op \notin {"idle", "create"} /\ Read /\ (Fine \/ Fault)
        /\ Untouched(call)
    BY DEF StopGet, At, Stopping, FailRead, Refuse, Untouched
  <1>b. call' = IdleCall \/ \E x \in Plain : call' = [call EXCEPT !.step = x]
    BY DEF StopGet, FailRead, Refuse, Return, Continue, Plain
  <1> QED BY <1>a, <1>b, ReadReturns, PlainStep

LEMMA StopLabelOK ==
  ASSUME RuntimesIInv, StopLabel
  PROVE  SubjectStep
  <1>a. Containerd /\ call.op \notin {"idle", "create"} /\ call.step = "stop.label"
    BY DEF StopLabel, At, Stopping
  <1> PICK k, b, m : k = call /\ b = box[Subject] /\ m = marks[Subject]
    OBVIOUS
  <1>0. /\ Fits(b, m) /\ StartCall(k, b, m) /\ StopCall(k, b) /\ RemoveCall(k, b, m)
        /\ Types /\ Subject \in Ids /\ Subject # 3
        /\ UNCHANGED <<box, marks>> => Changes(b, m)
        /\ UNCHANGED marks => marks' = [marks EXCEPT ![Subject] = m]
    BY <1>a, OtherFacts DEF Fits
  <1>b. /\ Kept /\ (Fine \/ Fault)
        /\ box' = box \/ box' = [box EXCEPT ![Subject].restart = FALSE]
        /\ \/ call' = IdleCall
           \/ call' = AtPoint(k, "stop.look") /\ box' = [box EXCEPT ![Subject].restart = FALSE]
    BY DEF StopLabel, Try, Refuse, Read, Kept, Return, Continue, AtPoint
  <1>1. PICK d : d = Told(b, FALSE)
    OBVIOUS
  <1>2. Fits(d, m) /\ ~d.restart
    BY <1>0, <1>1, ToldOK DEF Fits, BoxOK
  <1>3. /\ UNCHANGED <<plugin, foreign>> /\ WireKept /\ (Changes(b, m) \/ Changes(d, m))
        /\ box' = [box EXCEPT ![Subject].restart = FALSE] => Changes(d, m)
    <2>1. [box EXCEPT ![Subject].restart = FALSE] = [box EXCEPT ![Subject] = d]
      BY <1>0, <1>1, BoxIs
    <2> QED BY <1>0, <1>b, <2>1 DEF Kept, WireKept, Changes
  <1>4. RestsOn("stop.look", k.keep, d, m) /\ "stop.look" \in Points
    BY <1>2 DEF RestsOn, StartCall, StopCall, RemoveCall, Points
  <1>5. \/ Changes(b, m) /\ Moves(b, m)
        \/ Changes(d, m) /\ Moves(d, m)
    BY <1>b, <1>3, <1>4 DEF Moves
  <1> QED BY <1>a, <1>b, <1>0, <1>2, <1>3, <1>5, CallStep

(* The steps of a stop that only look, and go on if something runs.              *)
LEMMA StopLooks ==
  ASSUME RuntimesIInv, Containerd, call.op \in Stopping, Read, Fine \/ Fault, ~box[Subject].restart,
         call' = IdleCall
           \/ \E x \in {"stop.resume", "stop.term", "stop.kill"} : call' = AtPoint(call, x)
  PROVE  SubjectStep
  <1>a. Containerd /\ call.op \notin {"idle", "create"}
    BY DEF Stopping
  <1> PICK k, b, m : k = call /\ b = box[Subject] /\ m = marks[Subject]
    OBVIOUS
  <1>0. Fits(b, m) /\ (UNCHANGED <<box, marks>> => Changes(b, m))
    BY <1>a, OtherFacts DEF Fits
  <1>1. \A x \in {"stop.resume", "stop.term", "stop.kill"} : x \in Points /\ RestsOn(x, call.keep, b, m)
    BY DEF RestsOn, StartCall, StopCall, RemoveCall, Points
  <1>2. Moves(b, m)
    BY <1>1 DEF Moves
  <1>3. Changes(b, m) /\ WireKept /\ UNCHANGED <<plugin, foreign>>
    BY <1>0 DEF Read, WireKept
  <1> QED BY <1>a, <1>0, <1>2, <1>3, CallStep

LEMMA StopLookOK ==
  ASSUME RuntimesIInv, StopLook \/ StopWait \/ StopLast
  PROVE  SubjectStep
  <1>1. /\ Containerd /\ call.op \in Stopping /\ call.op \notin {"idle", "create"}
        /\ call.step \in {"stop.look", "stop.wait", "stop.last"}
    BY DEF StopLook, StopWait, StopLast, At, Stopping
  <1>2. ~box[Subject].restart
    BY <1>1, OtherFacts DEF StopCall
  <1>3. \/ Stopped /\ box[Subject].task \notin {"running", "paused"}
        \/ /\ Read /\ (Fine \/ Fault)
           /\ \/ call' = IdleCall
              \/ \E x \in {"stop.resume", "stop.term", "stop.kill"} : call' = AtPoint(call, x)
    <2>1. CASE StopLook
      BY <2>1 DEF StopLook, FailRead, Return, Continue, AtPoint
    <2>2. CASE StopWait
      BY <2>2 DEF StopWait, FailRead, Return, Continue, AtPoint
    <2>3. CASE StopLast
      BY <2>3 DEF StopLast, FailRead, Refuse, Return
    <2> QED BY <2>1, <2>2, <2>3
  <1> QED BY <1>1, <1>2, <1>3, StoppedOK, StopLooks

(* What a signal or a resumption makes of the task, and what may come late.        *)
LEMMA StopChanges ==
  ASSUME RuntimesIInv, Containerd, call.op \in Stopping, ~box[Subject].restart,
         UNCHANGED <<plugin, marks, foreign>>, Fine \/ Fault,
         \/ box' = box
         \/ box' = Halted(Subject)
         \/ box' = [box EXCEPT ![Subject].task = IF @ = "paused" THEN "running" ELSE @],
         wire' \in {wire, wire \cup {[kind |-> "kill", id |-> Subject, name |-> "none"]}},
         call' = IdleCall
           \/ \E x \in {"stop.term", "stop.wait", "stop.last"} : call' = AtPoint(call, x)
  PROVE  SubjectStep
  <1>a. Containerd /\ call.op \notin {"idle", "create"}
    BY DEF Stopping
  <1> PICK k, b, m : k = call /\ b = box[Subject] /\ m = marks[Subject]
    OBVIOUS
  <1>0. /\ Fits(b, m) /\ Types /\ Subject \in Ids
        /\ UNCHANGED marks => marks' = [marks EXCEPT ![Subject] = m]
    BY <1>a, OtherFacts DEF Fits
  <1>1. WireKept
    <2>1. PICK r : r = [kind |-> "kill", id |-> Subject, name |-> "none"]
      OBVIOUS
    <2>2. RequestOK(r)
      BY <2>1, <1>a, SubjectIs DEF RequestOK, RequestType
    <2> QED BY <2>1, <2>2 DEF WireKept
  <1>2. PICK t \in {b.task, IF b.task = "running" THEN "exited" ELSE b.task,
                    IF b.task = "paused" THEN "running" ELSE b.task} :
               box' = [box EXCEPT ![Subject] = Doing(b, t)]
    <2>1. \A t : Doing(b, t) = [b EXCEPT !.task = t]
      BY DEF Doing
    <2>2. box = [box EXCEPT ![Subject] = Doing(b, b.task)]
      BY <1>0, <2>1 DEF Types, BoxType
    <2>3. Halted(Subject) = [box EXCEPT ![Subject] = Doing(b, IF b.task = "running" THEN "exited" ELSE b.task)]
      BY <1>0, <2>1 DEF Halted
    <2>4. [box EXCEPT ![Subject].task = IF @ = "paused" THEN "running" ELSE @]
            = [box EXCEPT ![Subject] = Doing(b, IF b.task = "paused" THEN "running" ELSE b.task)]
      BY <1>0, <2>1
    <2> QED BY <2>2, <2>3, <2>4
  <1>3. PICK d : d = Doing(b, t)
    OBVIOUS
  <1>4. t \in Tasks /\ Fits(d, m) /\ d.restart = b.restart
    <2>1. /\ t \in Tasks /\ (t = "none" \/ b.record \/ "revived" \in m)
          /\ t \in {"running", "paused"} => "stopped" \notin m
          /\ t \in {"running", "paused", "exited"} =>
                 "network" \in b.parts \/ Excused(m) \/ b.owner = "none"
      BY <1>0, <1>2 DEF Fits, BoxOK, Connected, BoxType, Tasks
    <2> QED BY <1>0, <1>3, <2>1, DoingFits, DoingOK DEF Fits
  <1>5. \A x \in {"stop.term", "stop.wait", "stop.last"} : x \in Points /\ RestsOn(x, call.keep, d, m)
    BY <1>4 DEF RestsOn, StartCall, StopCall, RemoveCall, Points
  <1>6. Moves(d, m) /\ Changes(d, m)
    BY <1>0, <1>2, <1>3, <1>5 DEF Moves, Changes
  <1> QED BY <1>a, <1>1, <1>4, <1>6, CallStep

LEMMA StopSignalOK ==
  ASSUME RuntimesIInv, StopResume \/ StopTerm \/ StopKill
  PROVE  SubjectStep
  <1>1. /\ Containerd /\ call.op \in Stopping /\ call.op \notin {"idle", "create"}
        /\ call.step \in {"stop.resume", "stop.term", "stop.kill"}
    BY DEF StopResume, StopTerm, StopKill, At, Stopping
  <1>2. ~box[Subject].restart
    BY <1>1, OtherFacts DEF StopCall
  <1>3. \/ Stopped /\ box[Subject].task \notin {"running", "paused"}
        \/ /\ UNCHANGED <<plugin, marks, foreign>> /\ (Fine \/ Fault)
           /\ \/ box' = box
              \/ box' = Halted(Subject)
              \/ box' = [box EXCEPT ![Subject].task = IF @ = "paused" THEN "running" ELSE @]
           /\ wire' \in {wire, wire \cup {[kind |-> "kill", id |-> Subject, name |-> "none"]}}
           /\ \/ call' = IdleCall
              \/ \E x \in {"stop.term", "stop.wait", "stop.last"} : call' = AtPoint(call, x)
    <2>1. CASE StopResume
      BY <2>1 DEF StopResume, Try, Kept, Return, Continue, AtPoint
    <2>2. CASE StopTerm
      BY <2>2 DEF StopTerm, Signal, Return, Continue, AtPoint
    <2>3. CASE StopKill
      BY <2>3 DEF StopKill, Signal, Return, Continue, AtPoint
    <2> QED BY <2>1, <2>2, <2>3
  <1> QED BY <1>1, <1>2, <1>3, StoppedOK, StopChanges

LEMMA StopNextOK ==
  ASSUME RuntimesIInv, StopNext
  PROVE  SubjectStep
  BY StopGetOK, StopLabelOK, StopLookOK, StopSignalOK DEF StopNext

-----------------------------------------------------------------------------
(* containerd: rename and remove.                                            *)

LEMMA RenameOK ==
  ASSUME RuntimesIInv, RenameAvailable
  PROVE  SubjectStep
  <1>a. /\ Containerd /\ call.op \notin {"idle", "create"} /\ Read /\ (Fine \/ Fault)
        /\ Untouched(call)
    BY DEF RenameAvailable, At, FailRead, Refuse, Untouched
  <1>b. call' = IdleCall \/ \E x \in Plain : call' = [call EXCEPT !.step = x]
    BY DEF RenameAvailable, FailRead, Refuse, Return, Continue, Plain
  <1> QED BY <1>a, <1>b, ReadReturns, PlainStep

(* b under another name                                                      *)
Called(b, name) == [b EXCEPT !.name = name]

LEMMA CalledFits ==
  ASSUME NEW b, NEW m, Fits(b, m), NEW n \in Names \cup {"none"}
  PROVE  Fits(Called(b, n), m)
  <1>1. b \in BoxType
    BY DEF Fits
  <1>2. /\ Called(b, n) \in BoxType /\ Called(b, n).task = b.task
        /\ Called(b, n).record = b.record /\ Called(b, n).parts = b.parts
        /\ Called(b, n).restart = b.restart /\ Called(b, n).owner = b.owner
    BY <1>1 DEF Called, BoxType
  <1> QED BY <1>2 DEF Fits, BoxOK, Connected, Leak

LEMMA RenameLabelOK ==
  ASSUME RuntimesIInv, RenameLabel
  PROVE  SubjectStep
  <1>a. Containerd /\ call.op \notin {"idle", "create"} /\ call.step = "rename.label"
    BY DEF RenameLabel, At
  <1> PICK k, b, m : k = call /\ b = box[Subject] /\ m = marks[Subject]
    OBVIOUS
  <1>0. /\ Fits(b, m) /\ StartCall(k, b, m) /\ StopCall(k, b) /\ RemoveCall(k, b, m)
        /\ Types /\ Subject \in Ids /\ Subject # 3
        /\ UNCHANGED <<box, marks>> => Changes(b, m)
        /\ UNCHANGED marks => marks' = [marks EXCEPT ![Subject] = m]
    BY <1>a, OtherFacts DEF Fits
  <1>b. /\ Kept /\ (Fine \/ Fault) /\ call' = IdleCall /\ call.op = "rename"
        /\ box' = box \/ box' = [box EXCEPT ![Predecessor].name = call.to]
    BY DEF RenameLabel, At, Refuse, Checked, Read, Kept, Return
  <1>c. call.to \in Names \cup {"none"} /\ Subject = Predecessor
    <2>1. call \in CallType /\ CallForm(call)
      BY <1>a, SubjectFacts
    <2> QED BY <2>1, <1>b, SubjectIs DEF CallType, Names, NewOps
  <1>1. PICK d : d = Called(b, call.to)
    OBVIOUS
  <1>2. Fits(d, m)
    BY <1>0, <1>c, <1>1, CalledFits
  <1>3. UNCHANGED <<plugin, foreign>> /\ WireKept /\ (Changes(b, m) \/ Changes(d, m))
    <2>1. [box EXCEPT ![Predecessor].name = call.to] = [box EXCEPT ![Subject] = d]
      BY <1>0, <1>c, <1>1 DEF Called
    <2> QED BY <1>0, <1>b, <2>1 DEF Kept, WireKept, Changes
  <1> QED BY <1>a, <1>b, <1>0, <1>2, <1>3, CallStep DEF Moves

LEMMA RemoveGetOK ==
  ASSUME RuntimesIInv, RemoveGet
  PROVE  SubjectStep
  <1>a. /\ Containerd /\ call.op \notin {"idle", "create"} /\ Read /\ (Fine \/ Fault)
        /\ Untouched(call)
    BY DEF RemoveGet, At, Removing, FailRead, Checked, Untouched
  <1>b. call' = IdleCall \/ \E x \in Plain : call' = [call EXCEPT !.step = x]
    BY DEF RemoveGet, FailRead, Checked, Return, Continue, Plain
  <1> QED BY <1>a, <1>b, ReadReturns, PlainStep

LEMMA RemoveLookOK ==
  ASSUME RuntimesIInv, RemoveLook
  PROVE  SubjectStep
  <1>a. Containerd /\ call.op \notin {"idle", "create"} /\ call.step = "rm.look"
    BY DEF RemoveLook, At, Removing
  <1> PICK k, b, m : k = call /\ b = box[Subject] /\ m = marks[Subject]
    OBVIOUS
  <1>0. /\ Fits(b, m) /\ StartCall(k, b, m) /\ StopCall(k, b) /\ RemoveCall(k, b, m)
        /\ Types /\ Subject \in Ids /\ Subject # 3
        /\ UNCHANGED <<box, marks>> => Changes(b, m)
        /\ UNCHANGED marks => marks' = [marks EXCEPT ![Subject] = m]
    BY <1>a, OtherFacts DEF Fits
  <1>b. /\ Read /\ (Fine \/ Fault)
        /\ \/ call' = IdleCall
           \/ call' = AtPoint(k, "rm.task")
           \/ call' = AtPoint(k, "rm.network") /\ b.task = "none"
    BY DEF RemoveLook, FailRead, Refuse, Return, Continue, AtPoint
  <1>1. Changes(b, m) /\ WireKept /\ UNCHANGED <<plugin, foreign>>
    BY <1>0, <1>b DEF Read, WireKept
  <1>2. /\ RestsOn("rm.task", k.keep, b, m)
        /\ b.task = "none" => RestsOn("rm.network", k.keep, b, m)
    BY DEF RestsOn, StartCall, StopCall, RemoveCall
  <1>3. Moves(b, m)
    BY <1>b, <1>2 DEF Moves, Points
  <1> QED BY <1>a, <1>b, <1>0, <1>1, <1>3, CallStep

LEMMA RemoveTaskOK ==
  ASSUME RuntimesIInv, RemoveTask
  PROVE  SubjectStep
  <1>a. Containerd /\ call.op \notin {"idle", "create"} /\ call.step = "rm.task"
    BY DEF RemoveTask, At, Removing
  <1> PICK k, b, m : k = call /\ b = box[Subject] /\ m = marks[Subject]
    OBVIOUS
  <1>0. /\ Fits(b, m) /\ StartCall(k, b, m) /\ StopCall(k, b) /\ RemoveCall(k, b, m)
        /\ Types /\ Subject \in Ids /\ Subject # 3
        /\ UNCHANGED <<box, marks>> => Changes(b, m)
        /\ UNCHANGED marks => marks' = [marks EXCEPT ![Subject] = m]
    BY <1>a, OtherFacts DEF Fits
  <1>b. /\ Kept /\ (Fine \/ Fault)
        /\ box' = box \/ box' = [box EXCEPT ![Subject].task = "none"]
        /\ \/ call' = IdleCall
           \/ call' = AtPoint(k, "rm.network") /\ box' = [box EXCEPT ![Subject].task = "none"]
    BY DEF RemoveTask, Try, Refuse, Read, Kept, Return, Continue, AtPoint
  <1>1. PICK d : d = Doing(b, "none")
    OBVIOUS
  <1>2. Fits(d, m) /\ d.task = "none"
    BY <1>0, <1>1, DoingFits, DoingOK DEF Tasks, Fits
  <1>3. /\ UNCHANGED <<plugin, foreign>> /\ WireKept /\ (Changes(b, m) \/ Changes(d, m))
        /\ box' = [box EXCEPT ![Subject].task = "none"] => Changes(d, m)
    BY <1>0, <1>b, <1>1, BoxIs DEF Kept, WireKept, Changes
  <1>4. RestsOn("rm.network", k.keep, d, m) /\ "rm.network" \in Points
    BY <1>2 DEF RestsOn, StartCall, StopCall, RemoveCall, Points
  <1>5. \/ Changes(b, m) /\ Moves(b, m)
        \/ Changes(d, m) /\ Moves(d, m)
    BY <1>b, <1>3, <1>4 DEF Moves
  <1> QED BY <1>a, <1>b, <1>0, <1>2, <1>3, <1>5, CallStep

(* One part is taken away: nothing runs that needs it, and what went before it stays    *)
(* away.                                                                     *)
LEMMA RemovePartOK ==
  ASSUME RuntimesIInv, NEW x, NEW part, NEW y, RemovePart(x, part, y),
         <<x, part, y>> \in {<<"rm.network", "network", "rm.netns">>,
                            <<"rm.netns", "netns", "rm.snapshot">>,
                            <<"rm.snapshot", "snapshot", "rm.volume">>,
                            <<"rm.volume", "volume", "rm.host">>,
                            <<"rm.host", "host", "rm.record">>}
  PROVE  SubjectStep
  <1>a. Containerd /\ call.op \notin {"idle", "create"} /\ call.step = x
    BY DEF RemovePart, At, Removing
  <1> PICK k, b, m : k = call /\ b = box[Subject] /\ m = marks[Subject]
    OBVIOUS
  <1>0. /\ Fits(b, m) /\ RemoveCall(k, b, m) /\ Types /\ Subject \in Ids
        /\ UNCHANGED <<box, marks>> => Changes(b, m)
        /\ UNCHANGED marks => marks' = [marks EXCEPT ![Subject] = m]
    BY <1>a, OtherFacts DEF Fits
  <1>b. /\ Kept /\ (Fine \/ Fault)
        /\ box' = box \/ box' = Without(Subject, part)
        /\ \/ call' = IdleCall
           \/ call' = AtPoint(k, y) /\ box' = Without(Subject, part)
    BY DEF RemovePart, Try, Return, Continue, AtPoint
  <1>1. PICK d : d = Having(b, b.parts \ {part})
    OBVIOUS
  <1>2. /\ b.parts \ {part} \in SUBSET Parts /\ (b.task = "none" \/ "revived" \in m)
        /\ Quiet(b, m)
    BY <1>0, <1>a DEF Fits, BoxType, RemoveCall, Quiet, Excused
  <1>3. /\ d \in BoxType /\ d.parts = b.parts \ {part} /\ d.record = b.record /\ d.task = b.task
        /\ BoxOK(Subject, d, m) /\ Connected(d, m)
    BY <1>0, <1>1, <1>2, HavingOK DEF Fits
  <1>4. Fits(d, m)
    BY <1>0, <1>3 DEF Fits, Leak
  <1>5. /\ UNCHANGED <<plugin, foreign>> /\ WireKept /\ (Changes(b, m) \/ Changes(d, m))
        /\ box' = Without(Subject, part) => Changes(d, m)
    <2>1. Without(Subject, part) = [box EXCEPT ![Subject] = d]
      BY <1>0, <1>1, PartsIs DEF Parts
    <2> QED BY <1>0, <1>b, <2>1 DEF Kept, WireKept, Changes
  <1>6. RestsOn(y, k.keep, d, m) /\ y \in Points
    BY <1>0, <1>a, <1>2, <1>3 DEF RestsOn, StartCall, StopCall, RemoveCall, Points
  <1>7. \/ Changes(b, m) /\ Moves(b, m)
        \/ Changes(d, m) /\ Moves(d, m)
    BY <1>b, <1>5, <1>6 DEF Moves
  <1> QED BY <1>a, <1>b, <1>0, <1>4, <1>5, <1>7, CallStep

(* b without its record                                                      *)
Unrecorded(b) == [b EXCEPT !.record = FALSE, !.owner = "none", !.name = "none"]

LEMMA RemoveRecordOK ==
  ASSUME RuntimesIInv, RemoveRecord
  PROVE  SubjectStep
  <1>a. Containerd /\ call.op \notin {"idle", "create"} /\ call.step = "rm.record"
    BY DEF RemoveRecord, At, Removing
  <1> PICK k, b, m : k = call /\ b = box[Subject] /\ m = marks[Subject]
    OBVIOUS
  <1>0. /\ Fits(b, m) /\ StartCall(k, b, m) /\ StopCall(k, b) /\ RemoveCall(k, b, m)
        /\ Types /\ Subject \in Ids /\ Subject # 3
        /\ UNCHANGED <<box, marks>> => Changes(b, m)
        /\ UNCHANGED marks => marks' = [marks EXCEPT ![Subject] = m]
    BY <1>a, OtherFacts DEF Fits
  <1>b. /\ Kept /\ (Fine \/ Fault) /\ call' = IdleCall
        /\ box' = box \/ box' = NoRecord(Subject)
    BY DEF RemoveRecord, Checked, Return
  <1>1. PICK d : d = Unrecorded(b)
    OBVIOUS
  <1>2. /\ d \in BoxType /\ ~d.record /\ d.owner = "none" /\ d.parts = b.parts /\ d.task = b.task
        /\ d.restart = b.restart
    BY <1>0, <1>1 DEF Fits, BoxType, Unrecorded, Owners
  <1>3. /\ b.task = "none" \/ "revived" \in m
        /\ b.parts \subseteq {"lease"}
    BY <1>0, <1>a DEF RemoveCall, Fits, BoxType, Parts
  <1>4. ~Leak(d, m)
    BY <1>0, <1>2, <1>3 DEF Leak, Fits, BoxType
  <1>5. Fits(d, m)
    BY <1>0, <1>2, <1>3, <1>4 DEF Fits, BoxOK, Connected
  <1>6. UNCHANGED <<plugin, foreign>> /\ WireKept /\ (Changes(b, m) \/ Changes(d, m))
    <2>1. NoRecord(Subject) = [box EXCEPT ![Subject] = d]
      BY <1>0, <1>1 DEF NoRecord, Unrecorded, Types, BoxType
    <2> QED BY <1>0, <1>b, <2>1 DEF Kept, WireKept, Changes
  <1> QED BY <1>a, <1>b, <1>0, <1>5, <1>6, CallStep DEF Moves

LEMMA RemoveNextOK ==
  ASSUME RuntimesIInv, RemoveNext
  PROVE  SubjectStep
  BY RemoveGetOK, RemoveLookOK, RemoveTaskOK, RemovePartOK, RemoveRecordOK
     DEF RemoveNext, RemoveNetwork, RemoveNetns, RemoveSnapshot, RemoveVolume, RemoveHost

-----------------------------------------------------------------------------
(* containerd: every step of a call.                                          *)

LEMMA CreateNextOK ==
  ASSUME RuntimesIInv, CreateNext
  PROVE  SubjectStep
  BY CreateLeaseOK, PrepareSnapshotOK, PrepareHostOK, EnsureNetnsOK, CreateRecordOK,
     ReleaseLeaseOK, CleanupRecordOK, CleanupSnapshotOK, CleanupNetnsOK, CleanupHostOK,
     CleanupLeaseOK DEF CreateNext

LEMMA ContainerdCallOK ==
  ASSUME RuntimesIInv, ContainerdNext
  PROVE  Containerd /\ call.op # "idle" /\ SubjectStep
  <1>1. SubjectStep
    BY ListCandidatesOK, DecodeCandidatesOK, ReadExistingOK, ProbesOK, CreateNextOK,
       StartNextOK, StopNextOK, RenameOK, RenameLabelOK, RemoveNextOK
       DEF ContainerdNext, ContainerdRead
  <1>2. Containerd /\ call.op # "idle"
    <2>1. CASE ContainerdRead
      BY <2>1 DEF ContainerdRead, ListCandidates, DecodeCandidates, ReadExisting, ProbeExisting,
         ProbeRemoved, ProbeName, RemovalComplete, At
    <2>2. CASE CreateNext
      BY <2>2 DEF CreateNext, CreateLease, PrepareSnapshot, PrepareHost, EnsureNetns, CreateRecord,
         ReleaseLease, CleanupRecord, CleanupSnapshot, CleanupNetns, CleanupHost, CleanupLease, At
    <2>3. CASE StartNext
      BY <2>3 DEF StartNext, StartGet, StartNetwork, StartLook, StartClear, StartMake, StartRun,
         StartDoubt, StartUndo, StartLabel, At, Starting
    <2>4. CASE StopNext
      BY <2>4 DEF StopNext, StopGet, StopLabel, StopLook, StopResume, StopTerm, StopWait, StopKill,
         StopLast, At, Stopping
    <2>5. CASE RenameAvailable \/ RenameLabel
      BY <2>5 DEF RenameAvailable, RenameLabel, At
    <2>6. CASE RemoveNext
      BY <2>6 DEF RemoveNext, RemoveGet, RemoveLook, RemoveTask, RemoveNetwork, RemoveNetns,
         RemoveSnapshot, RemoveVolume, RemoveHost, RemovePart, RemoveRecord, At, Removing
    <2> QED BY <2>1, <2>2, <2>3, <2>4, <2>5, <2>6 DEF ContainerdNext
  <1> QED BY <1>1, <1>2

-----------------------------------------------------------------------------
(* One container changes without the call, or with its end.                    *)

Becomes(c, d, n) == box' = [box EXCEPT ![c] = d] /\ marks' = [marks EXCEPT ![c] = n]

LEMMA BoxStep ==
  ASSUME RuntimesIInv, plugin' = plugin, faults' \in 0 .. MaxFaults, foreign' \in 0 .. MaxForeign,
         call' = call \/ call' = IdleCall, wire' \subseteq wire,
         NEW c \in Ids, NEW d \in BoxType, NEW n \in SUBSET MarkNames, Becomes(c, d, n),
         BoxOK(c, d, n), PluginBox(d, n), LeakOK(call, c, d, n),
         Containerd => call' = call /\ (c = Subject => CallOK(call, d, n)),
         ~Containerd => (OurBox(box[c]) => OurBox(d))
  PROVE  RuntimesIInv'
  <1>0. Types /\ Boxes /\ CallForm(call) /\ WireOK
    BY DEF RuntimesIInv
  <1>1. \A e \in Ids : /\ box'[e] = IF e = c THEN d ELSE box[e]
                       /\ marks'[e] = IF e = c THEN n ELSE marks[e]
    BY <1>0 DEF Types, Becomes
  <1>2. box' \in [Ids -> BoxType] /\ marks' \in [Ids -> SUBSET MarkNames]
    BY <1>0 DEF Types, Becomes
  <1>3. call' \in CallType /\ CallForm(call')
    BY <1>0, IdleType, IdleOK DEF Types
  <1>4. Types'
    BY <1>0, <1>2, <1>3 DEF Types
  <1>5. ~Containerd => \A e : Ours(e) => Ours(e)'
    BY <1>1 DEF Ours
  <1>6. WireOK'
    BY <1>0, <1>5 DEF WireOK, RequestOK
  <1>7. Boxes'
    <2> SUFFICES ASSUME NEW e \in Ids
                 PROVE  /\ BoxOK(e, box'[e], marks'[e]) /\ PluginBox(box'[e], marks'[e])
                        /\ LeakOK(call', e, box'[e], marks'[e])
      BY DEF Boxes, PluginBox
    <2>1. /\ BoxOK(e, box'[e], marks'[e]) /\ PluginBox(box'[e], marks'[e])
          /\ LeakOK(call, e, box'[e], marks'[e])
      BY <1>0, <1>1 DEF Boxes
    <2>2. ~Containerd => ~Leak(box'[e], marks'[e])
      <3> SUFFICES ASSUME ~Containerd PROVE ~Leak(box'[e], marks'[e])
        OBVIOUS
      <3>1. box'[e].parts = {}
        BY <2>1 DEF PluginBox, EngineBox
      <3> QED BY <3>1 DEF Leak
    <2> QED BY <2>1, <2>2 DEF LeakOK
  <1>8. Containerd => CallOK(call', box'[Subject'], marks'[Subject'])
    <2> SUFFICES ASSUME Containerd PROVE CallOK(call', box'[Subject'], marks'[Subject'])
      OBVIOUS
    <2>1. call' = call /\ Subject' = Subject /\ Subject \in Ids
      BY SubjectIs DEF Subject
    <2>2. CallOK(call, box[Subject], marks[Subject])
      BY DEF RuntimesIInv
    <2> QED BY <2>1, <2>2, <1>1
  <1>9. ~Containerd => EngineCall(call)'
    <2> SUFFICES ASSUME ~Containerd PROVE EngineCall(call)'
      OBVIOUS
    <2>1. EngineCall(call)
      BY DEF RuntimesIInv
    <2>2. CASE call' = call
      BY <2>1, <2>2, <1>5 DEF EngineCall, Known
    <2>3. CASE call' = IdleCall
      BY <2>3, MissingType, IdleType DEF EngineCall, Known
    <2> QED BY <2>2, <2>3
  <1> QED BY <1>3, <1>4, <1>6, <1>7, <1>8, <1>9 DEF RuntimesIInv

LEMMA BoxFacts ==
  ASSUME RuntimesIInv, NEW c \in Ids, NEW b, b = box[c], NEW m, m = marks[c]
  PROVE  /\ Types /\ b \in BoxType /\ m \in SUBSET MarkNames
         /\ BoxOK(c, b, m) /\ PluginBox(b, m) /\ LeakOK(call, c, b, m)
         /\ Containerd /\ c = Subject => CallOK(call, b, m)
         /\ faults \in 0 .. MaxFaults /\ foreign \in 0 .. MaxForeign
  BY DEF RuntimesIInv, Types, Boxes

(* A task that comes to run, stops to run or pauses, whatever the call is at.        *)
LEMMA TaskMoves ==
  ASSUME NEW b \in BoxType, NEW m, NEW n, NEW k, NEW t \in Tasks, CallOK(k, b, m),
         "abandoned" \in m <=> "abandoned" \in n, "stopped" \in n => "stopped" \in m,
         Excused(m) => Excused(n), "revived" \in m => "revived" \in n,
         b.task \notin {"none", "created"} \/ Excused(n),
         b.task # "none" \/ ("revived" \in n /\ b.restart)
  PROVE  CallOK(k, Doing(b, t), n)
  <1>1. PICK d : d = Doing(b, t)
    OBVIOUS
  <1>2. d.record = b.record /\ d.parts = b.parts /\ d.restart = b.restart
    BY <1>1, DoingOK
  <1>3. CreateCall(k, d, n)
    BY <1>2 DEF CallOK, CreateCall, Within, Leak
  <1>4. StartCall(k, d, n)
    BY <1>2 DEF CallOK, StartCall, Quiet
  <1>5. StopCall(k, d) /\ RemoveCall(k, d, n)
    BY <1>2 DEF CallOK, StopCall, RemoveCall
  <1> QED BY <1>1, <1>3, <1>4, <1>5 DEF CallOK

LEMMA TaskStep ==
  ASSUME RuntimesIInv, plugin' = plugin, call' = call, wire' \subseteq wire,
         faults' = faults, foreign' \in 0 .. MaxForeign,
         NEW c \in Ids, NEW b, b = box[c], NEW m, m = marks[c],
         NEW t \in {"running", "paused", "exited"}, NEW n \in SUBSET MarkNames,
         Becomes(c, Doing(b, t), n),
         "abandoned" \in m <=> "abandoned" \in n, "stopped" \in n => "stopped" \in m,
         Excused(m) => Excused(n), "revived" \in m => "revived" \in n,
         b.task \notin {"none", "created"} \/ Excused(n),
         b.task # "none" \/ ("revived" \in n /\ b.restart /\ b.record),
         t \in {"running", "paused"} => "stopped" \notin n
  PROVE  RuntimesIInv'
  <1>0. /\ b \in BoxType /\ BoxOK(c, b, m) /\ PluginBox(b, m) /\ LeakOK(call, c, b, m)
        /\ Containerd /\ c = Subject => CallOK(call, b, m)
        /\ faults \in 0 .. MaxFaults
    BY BoxFacts
  <1>1. PICK d : d = Doing(b, t)
    OBVIOUS
  <1>2. t \in Tasks
    BY DEF Tasks
  <1>3. /\ d \in BoxType /\ d.record = b.record /\ d.parts = b.parts /\ d.restart = b.restart
        /\ d.owner = b.owner /\ d.task = t
    BY <1>0, <1>1, <1>2, DoingOK
  <1>4. d.born = b.born
    BY <1>0, <1>1, <1>2 DEF Doing, BoxType
  <1>5. BoxOK(c, d, n)
    BY <1>0, <1>3 DEF BoxOK
  <1>6. PluginBox(d, n)
    BY <1>0, <1>3, <1>4 DEF PluginBox, Connected, EngineBox, BoxType, Tasks
  <1>7. LeakOK(call, c, d, n)
    BY <1>0, <1>3 DEF LeakOK, Leak
  <1>8. Containerd => (c = Subject => CallOK(call, d, n))
    BY <1>0, <1>1, <1>2, TaskMoves
  <1>9. OurBox(b) => OurBox(d)
    BY <1>3, <1>4 DEF OurBox
  <1>10. Becomes(c, d, n)
    BY <1>1
  <1> QED BY <1>0, <1>3, <1>5, <1>6, <1>7, <1>8, <1>9, <1>10, BoxStep

(* What others own is spared: it only ends by itself.                          *)
Spares == \A c \in Ids : box[c].record /\ box[c].owner = "none" /\ foreign' = foreign =>
              box'[c] = box[c] \/ box'[c].task = "exited"

LEMMA OthersAre3 ==
  ASSUME RuntimesIInv, NEW c \in Ids, box[c].record, box[c].owner = "none"
  PROVE  c = 3 /\ ~box[c].restart
  BY DEF RuntimesIInv, Boxes, BoxOK

-----------------------------------------------------------------------------
(* What happens without the client.                                          *)

LEMMA ExitOK ==
  ASSUME RuntimesIInv, NEW c \in Ids, Exit(c) \/ ForeignPause(c)
  PROVE  RuntimesIInv' /\ Spares
  <1> PICK b, m : b = box[c] /\ m = marks[c]
    OBVIOUS
  <1>0. /\ Types /\ b \in BoxType /\ m \in SUBSET MarkNames /\ BoxOK(c, b, m)
        /\ foreign \in 0 .. MaxForeign
    BY BoxFacts
  <1>1. PICK t \in {"paused", "exited"} :
          /\ box' = [box EXCEPT ![c].task = t] /\ b.task = "running"
          /\ UNCHANGED <<plugin, call, wire, marks, faults>>
          /\ \/ t = "exited" /\ foreign' = foreign
             \/ foreign < MaxForeign /\ foreign' = foreign + 1
    BY DEF Exit, ForeignPause, Outside, ForeignStep
  <1>2. Becomes(c, Doing(b, t), m)
    <2>1. marks = [marks EXCEPT ![c] = m]
      BY <1>0 DEF Types
    <2>2. [box EXCEPT ![c].task = t] = [box EXCEPT ![c] = Doing(b, t)]
      BY <1>0, BoxIs
    <2> QED BY <1>1, <2>1, <2>2 DEF Becomes
  <1>3. "stopped" \notin m
    BY <1>0, <1>1 DEF BoxOK
  <1>4. foreign' \in 0 .. MaxForeign /\ (foreign' = foreign => t = "exited")
    BY <1>0, <1>1
  <1>5. RuntimesIInv'
    BY <1>0, <1>1, <1>2, <1>3, <1>4, TaskStep
  <1>6. Spares
    BY <1>0, <1>1, <1>4 DEF Spares, Types, BoxType
  <1> QED BY <1>5, <1>6

LEMMA MonitorOK ==
  ASSUME RuntimesIInv, NEW c \in Ids, Monitor(c)
  PROVE  RuntimesIInv' /\ Spares
  <1> PICK b, m : b = box[c] /\ m = marks[c]
    OBVIOUS
  <1>0. /\ Types /\ b \in BoxType /\ m \in SUBSET MarkNames /\ BoxOK(c, b, m)
        /\ foreign \in 0 .. MaxForeign
    BY BoxFacts
  <1> PICK n : n = IF b.task = "none" THEN m \cup {"revived"} ELSE m
    OBVIOUS
  <1>1. /\ box' = [box EXCEPT ![c].task = "running"] /\ b.record /\ b.restart
        /\ b.task \in {"none", "exited"}
        /\ UNCHANGED <<plugin, call, wire, faults, foreign>>
        /\ marks' = [marks EXCEPT ![c] = n]
    BY <1>0 DEF Monitor, Types
  <1>2. Becomes(c, Doing(b, "running"), n)
    <2>1. [box EXCEPT ![c].task = "running"] = [box EXCEPT ![c] = Doing(b, "running")]
      BY <1>0, BoxIs
    <2> QED BY <1>1, <2>1 DEF Becomes
  <1>3. "stopped" \notin m /\ n \in SUBSET MarkNames /\ (b.task # "none" \/ "revived" \in n)
    BY <1>0, <1>1 DEF BoxOK, MarkNames
  <1>4. /\ "abandoned" \in m <=> "abandoned" \in n
        /\ "stopped" \notin n /\ (Excused(m) => Excused(n)) /\ ("revived" \in m => "revived" \in n)
        /\ b.task \notin {"none", "created"} \/ Excused(n)
    BY <1>1, <1>3 DEF Excused
  <1>5. RuntimesIInv'
    BY <1>0, <1>1, <1>2, <1>3, <1>4, TaskStep
  <1>6. Spares
    BY <1>0, <1>1, OthersAre3 DEF Spares, Types
  <1> QED BY <1>5, <1>6

(* What only others do is no change of the client's.                            *)
LEMMA ForeignIs ==
  ASSUME RuntimesIInv, ForeignStep
  PROVE  foreign' \in 0 .. MaxForeign /\ foreign' # foreign /\ Spares
  BY DEF RuntimesIInv, Types, ForeignStep, Spares

LEMMA ForeignRenameOK ==
  ASSUME RuntimesIInv, NEW c \in Ids, ForeignRename(c)
  PROVE  RuntimesIInv' /\ Spares
  <1> PICK b, m : b = box[c] /\ m = marks[c]
    OBVIOUS
  <1>0. /\ Types /\ b \in BoxType /\ m \in SUBSET MarkNames
        /\ BoxOK(c, b, m) /\ PluginBox(b, m) /\ LeakOK(call, c, b, m)
        /\ Containerd /\ c = Subject => CallOK(call, b, m)
        /\ faults \in 0 .. MaxFaults
    BY BoxFacts
  <1>1. /\ box' = [box EXCEPT ![c].name = "other"]
        /\ UNCHANGED <<plugin, call, wire, marks, faults>> /\ ForeignStep
    BY DEF ForeignRename, Outside
  <1> PICK d : d = Called(b, "other")
    OBVIOUS
  <1>2. /\ d \in BoxType /\ d.record = b.record /\ d.parts = b.parts /\ d.restart = b.restart
        /\ d.owner = b.owner /\ d.task = b.task /\ d.born = b.born
    BY <1>0 DEF Called, BoxType, Names
  <1>3. Becomes(c, d, m)
    <2>1. marks = [marks EXCEPT ![c] = m]
      BY <1>0 DEF Types
    <2>2. [box EXCEPT ![c].name = "other"] = [box EXCEPT ![c] = d]
      BY <1>0 DEF Called, Types
    <2> QED BY <1>1, <2>1, <2>2 DEF Becomes
  <1>4. BoxOK(c, d, m) /\ PluginBox(d, m) /\ LeakOK(call, c, d, m) /\ (OurBox(b) => OurBox(d))
    BY <1>0, <1>2 DEF BoxOK, PluginBox, Connected, EngineBox, LeakOK, Leak, OurBox
  <1>5. CallOK(call, b, m) => CallOK(call, d, m)
    <2> PICK k : k = call
      OBVIOUS
    <2>1. /\ Leak(d, m) <=> Leak(b, m)
          /\ \A parts : Within(b, m, parts) <=> Within(d, m, parts)
          /\ Quiet(d, m) <=> Quiet(b, m)
      BY <1>2 DEF Leak, Within, Quiet
    <2>2. CreateCall(k, b, m) => CreateCall(k, d, m)
      BY <1>2, <2>1 DEF CreateCall
    <2>3. StartCall(k, b, m) => StartCall(k, d, m)
      BY <1>2, <2>1 DEF StartCall
    <2>4. StopCall(k, b) /\ RemoveCall(k, b, m) => StopCall(k, d) /\ RemoveCall(k, d, m)
      BY <1>2 DEF StopCall, RemoveCall
    <2> QED BY <2>2, <2>3, <2>4 DEF CallOK
  <1>6. faults' \in 0 .. MaxFaults /\ foreign' \in 0 .. MaxForeign /\ Spares
    BY <1>0, <1>1, ForeignIs
  <1> QED BY <1>0, <1>1, <1>2, <1>3, <1>4, <1>5, <1>6, BoxStep

(* The containers others make and remove                                       *)
LEMMA ForeignBoxOK ==
  ASSUME RuntimesIInv, NEW c \in Ids, ForeignCreate(c) \/ ForeignRemove(c)
  PROVE  RuntimesIInv' /\ Spares
  <1> PICK b, m : b = box[c] /\ m = marks[c]
    OBVIOUS
  <1>0. /\ Types /\ m \in SUBSET MarkNames /\ BoxOK(c, b, m)
        /\ faults \in 0 .. MaxFaults
    BY BoxFacts
  <1>1. UNCHANGED <<plugin, call, wire, marks, faults>> /\ ForeignStep
    BY DEF ForeignCreate, ForeignRemove, Outside
  <1>2. marks' = [marks EXCEPT ![c] = m]
    BY <1>0, <1>1 DEF Types
  <1>3. faults' \in 0 .. MaxFaults /\ foreign' \in 0 .. MaxForeign /\ Spares
    BY <1>0, <1>1, ForeignIs
  <1>4. CASE ForeignCreate(c)
    <2>1. PICK w \in Names : box' = [box EXCEPT ![c] = [Unborn EXCEPT !.born = TRUE, !.record = TRUE,
                                                   !.name = w, !.task = "running"]]
      BY <1>4 DEF ForeignCreate, Free
    <2>2. PICK d : d = [Unborn EXCEPT !.born = TRUE, !.record = TRUE, !.name = w, !.task = "running"]
      OBVIOUS
    <2>3. /\ d \in BoxType /\ d.record /\ d.born /\ d.owner = "none" /\ ~d.restart /\ d.parts = {}
      BY <2>2 DEF Unborn, BoxType, Owners, Tasks
    <2>4. Becomes(c, d, m) /\ c = 3 /\ ~b.born
      BY <1>2, <1>4, <2>1, <2>2 DEF Becomes, ForeignCreate
    <2>5. BoxOK(c, d, m) /\ PluginBox(d, m) /\ LeakOK(call, c, d, m) /\ (OurBox(b) => OurBox(d))
      BY <1>0, <2>3, <2>4 DEF BoxOK, PluginBox, Connected, EngineBox, LeakOK, Leak, OurBox
    <2> QED BY <1>0, <1>1, <1>3, <2>3, <2>4, <2>5, SubjectIs, BoxStep
  <1>5. CASE ForeignRemove(c)
    <2>1. PICK d : d = [Unborn EXCEPT !.born = TRUE]
      OBVIOUS
    <2>2. /\ d \in BoxType /\ ~d.record /\ d.born /\ d.task = "none" /\ ~d.restart /\ d.parts = {}
      BY <2>1 DEF Unborn, BoxType, Owners, Tasks
    <2>3. Becomes(c, d, m) /\ ~Containerd
      BY <1>2, <1>5, <2>1 DEF Becomes, ForeignRemove
    <2>4. BoxOK(c, d, m) /\ PluginBox(d, m) /\ LeakOK(call, c, d, m) /\ (OurBox(b) => OurBox(d))
      BY <1>0, <2>2, <2>3 DEF BoxOK, PluginBox, Connected, EngineBox, LeakOK, Leak, OurBox
    <2> QED BY <1>0, <1>1, <1>3, <2>2, <2>3, <2>4, BoxStep
  <1> QED BY <1>4, <1>5

LEMMA EnvironmentOK ==
  ASSUME RuntimesIInv, Environment
  PROVE  RuntimesIInv' /\ Spares
  BY ExitOK, MonitorOK, ForeignRenameOK, ForeignBoxOK DEF Environment

(* containerd's garbage collector                                            *)
LEMMA GarbageCollectOK ==
  ASSUME RuntimesIInv, GarbageCollect
  PROVE  RuntimesIInv' /\ Spares
  <1> PICK b, m : b = box[TxId] /\ m = marks[TxId]
    OBVIOUS
  <1>0. /\ Types /\ b \in BoxType /\ m \in SUBSET MarkNames
        /\ BoxOK(TxId, b, m) /\ PluginBox(b, m) /\ LeakOK(call, TxId, b, m)
        /\ Containerd /\ TxId = Subject => CallOK(call, b, m)
        /\ faults \in 0 .. MaxFaults /\ foreign \in 0 .. MaxForeign
    BY BoxFacts
  <1>1. /\ box' = Without(TxId, "snapshot") /\ ~b.record /\ Containerd
        /\ UNCHANGED <<plugin, call, wire, marks, faults, foreign>>
    BY DEF GarbageCollect
  <1> PICK d : d = Having(b, b.parts \ {"snapshot"})
    OBVIOUS
  <1>2. Connected(b, m) /\ b.parts \ {"snapshot"} \in SUBSET Parts
    BY <1>0, <1>1 DEF PluginBox, BoxType
  <1>3. /\ d \in BoxType /\ d.record = b.record /\ d.parts = b.parts \ {"snapshot"}
        /\ d.restart = b.restart /\ d.task = b.task /\ BoxOK(TxId, d, m) /\ Connected(d, m)
    BY <1>0, <1>2, HavingOK
  <1>4. Becomes(TxId, d, m)
    <2>1. marks = [marks EXCEPT ![TxId] = m]
      BY <1>0 DEF Types
    <2>2. Without(TxId, "snapshot") = [box EXCEPT ![TxId] = d]
      BY <1>0, PartsIs DEF Parts
    <2> QED BY <1>1, <2>1, <2>2 DEF Becomes
  <1>5. PluginBox(d, m) /\ LeakOK(call, TxId, d, m)
    BY <1>0, <1>1, <1>3 DEF PluginBox, LeakOK, Leak
  <1>6. CallOK(call, b, m) => CallOK(call, d, m)
    <2> PICK k : k = call
      OBVIOUS
    <2> SUFFICES ASSUME CreateCall(k, b, m), StartCall(k, b, m), StopCall(k, b), RemoveCall(k, b, m)
                 PROVE  /\ CreateCall(k, d, m) /\ StartCall(k, d, m) /\ StopCall(k, d)
                        /\ RemoveCall(k, d, m)
      BY DEF CallOK
    <2>1. /\ Leak(d, m) => Leak(b, m)
          /\ \A parts : Within(b, m, parts) => Within(d, m, parts)
      BY <1>1, <1>3 DEF Leak, Within
    <2>2. CreateCall(k, d, m)
      BY <1>1, <1>3, <2>1 DEF CreateCall
    <2>3. StartCall(k, d, m)
      BY <1>3 DEF StartCall, Quiet
    <2>4. StopCall(k, d) /\ RemoveCall(k, d, m)
      BY <1>3 DEF StopCall, RemoveCall
    <2> QED BY <2>2, <2>3, <2>4
  <1>7. RuntimesIInv'
    BY <1>0, <1>1, <1>3, <1>4, <1>5, <1>6, BoxStep
  <1>8. Spares
    BY <1>0, <1>4, OthersAre3 DEF Spares, Types, Becomes
  <1> QED BY <1>7, <1>8

(* A request of containerd that comes late: it does nothing, ends a task or starts one.    *)
LEMMA LateTask ==
  ASSUME RuntimesIInv, NEW c \in Ids, UNCHANGED <<plugin, call, faults, foreign>>, wire' \subseteq wire,
         NEW b, b = box[c], NEW m, m = marks[c],
         \/ Becomes(c, b, m)
         \/ Becomes(c, Doing(b, "exited"), m) /\ b.task = "running"
         \/ Becomes(c, Doing(b, "running"), (m \cup {"stray"}) \ {"stopped"}) /\ b.task = "created"
  PROVE  RuntimesIInv'
  <1>0. /\ Types /\ b \in BoxType /\ m \in SUBSET MarkNames
        /\ BoxOK(c, b, m) /\ PluginBox(b, m) /\ LeakOK(call, c, b, m)
        /\ Containerd /\ c = Subject => CallOK(call, b, m)
        /\ faults \in 0 .. MaxFaults /\ foreign \in 0 .. MaxForeign
    BY BoxFacts
  <1>1. CASE Becomes(c, b, m)
    BY <1>0, <1>1, BoxStep
  <1>2. CASE Becomes(c, Doing(b, "exited"), m) /\ b.task = "running"
    <2>1. PICK t \in {"running", "paused", "exited"} : t = "exited"
      OBVIOUS
    <2> QED BY <1>0, <1>2, <2>1, TaskStep
  <1>3. CASE Becomes(c, Doing(b, "running"), (m \cup {"stray"}) \ {"stopped"}) /\ b.task = "created"
    <2>1. PICK t \in {"running", "paused", "exited"} : t = "running"
      OBVIOUS
    <2>2. PICK n : n = (m \cup {"stray"}) \ {"stopped"}
      OBVIOUS
    <2>3. /\ n \in SUBSET MarkNames /\ ("abandoned" \in m <=> "abandoned" \in n)
          /\ "stopped" \notin n /\ Excused(n) /\ ("revived" \in m => "revived" \in n)
      BY <1>0, <2>2 DEF MarkNames, Excused
    <2> QED BY <1>0, <1>3, <2>1, <2>2, <2>3, TaskStep
  <1> QED BY <1>1, <1>2, <1>3

(* What becomes of the late task request r                                       *)
TaskDelivered(r) ==
    \/ box' = box /\ marks' = [marks EXCEPT ![r.id] = @]
    \/ box' = Halted(r.id) /\ r.kind = "kill" /\ marks' = [marks EXCEPT ![r.id] = @]
    \/ /\ box' = Run(r.id) /\ r.kind = "run" /\ box[r.id].task = "created"
       /\ marks' = [marks EXCEPT ![r.id] = (@ \cup {"stray"}) \ {"stopped"}]

LEMMA DeliveryIs ==
  ASSUME RuntimesIInv, ContainerdDeliver
  PROVE  \E r \in wire : RequestOK(r) /\ wire' \subseteq wire /\ TaskDelivered(r)
  BY DEF RuntimesIInv, WireOK, ContainerdDeliver, TaskDelivered, RequestOK

LEMMA ContainerdDeliverOK ==
  ASSUME RuntimesIInv, ContainerdDeliver
  PROVE  RuntimesIInv' /\ Spares
  <1>1. PICK r \in wire : RequestOK(r) /\ wire' \subseteq wire /\ TaskDelivered(r)
    BY DeliveryIs
  <1>2. PICK c \in Ids : c = r.id /\ c # 3
    BY <1>1 DEF RequestOK, ContainerdDeliver
  <1> PICK b, m : b = box[c] /\ m = marks[c]
    OBVIOUS
  <1>0. Types /\ b \in BoxType /\ m \in SUBSET MarkNames
    BY <1>2, BoxFacts
  <1>3. UNCHANGED <<plugin, call, faults, foreign>> /\ wire' \subseteq wire
    BY <1>1 DEF ContainerdDeliver
  <1>4. \/ Becomes(c, b, m)
        \/ Becomes(c, Doing(b, "exited"), m) /\ b.task = "running"
        \/ Becomes(c, Doing(b, "running"), (m \cup {"stray"}) \ {"stopped"}) /\ b.task = "created"
    <2>1. box = [box EXCEPT ![c] = b] /\ marks = [marks EXCEPT ![c] = m]
      BY <1>0, <1>2 DEF Types
    <2>2. Run(c) = [box EXCEPT ![c] = Doing(b, "running")]
      BY <1>0, <1>2, BoxIs DEF Run
    <2>3. Halted(c) = IF b.task = "running" THEN [box EXCEPT ![c] = Doing(b, "exited")] ELSE box
      BY <1>0, <1>2 DEF Halted, Doing, Types, BoxType
    <2>5. \/ box' = box /\ marks' = marks
          \/ box' = Halted(c) /\ marks' = marks
          \/ /\ box' = Run(c) /\ b.task = "created"
             /\ marks' = [marks EXCEPT ![c] = (m \cup {"stray"}) \ {"stopped"}]
      BY <1>1, <1>2, <2>1 DEF TaskDelivered
    <2> QED BY <2>1, <2>2, <2>3, <2>5 DEF Becomes
  <1>5. Spares
    BY <1>0, <1>2, <1>4, OthersAre3 DEF Spares, Types, Becomes
  <1> QED BY <1>2, <1>3, <1>4, <1>5, LateTask

-----------------------------------------------------------------------------
(* The client asks, or dies.                                                *)

LEMMA AskOK ==
  ASSUME RuntimesIInv, Ask
  PROVE  RuntimesIInv' /\ Spares
  <1>1. /\ call.op = "idle" /\ UNCHANGED <<plugin, box, wire, marks, foreign, faults>>
    BY DEF Ask, Begin, Read, Fine
  <1>2. PICK op \in Operations, from \in {"app", "backup"}, to \in {"app", "backup"} :
          call' = [IdleCall EXCEPT !.op = op, !.sub = IF op \in NewOps THEN "new" ELSE "old",
                                   !.from = from, !.to = to, !.step = "begin"]
    BY DEF Ask, Begin, NewOps
  <1>3. /\ call' \in CallType /\ call'.op = op /\ call'.step = "begin"
        /\ call'.sub = (IF op \in NewOps THEN "new" ELSE "old")
        /\ call'.named = Missing /\ call'.owned = Missing
    <2>1. Missing \in SnapshotType /\ "begin" \in Points
      BY MissingType DEF Points
    <2> HIDE DEF SnapshotType, Missing, Points, Operations
    <2> QED BY <1>2, <2>1 DEF IdleCall, CallType
  <1>4. Types' /\ CallForm(call') /\ WireOK'
    BY <1>1, <1>3 DEF RuntimesIInv, Types, CallForm, WireOK, RequestOK, Ours
  <1>5. \A c \in Ids : ~Leak(box[c], marks[c])
    BY <1>1 DEF RuntimesIInv, Boxes, LeakOK
  <1>6. Boxes'
    <2>1. \A c \in Ids : BoxOK(c, box[c], marks[c]) /\ PluginBox(box[c], marks[c])
      BY DEF RuntimesIInv, Boxes
    <2> QED BY <1>1, <1>5, <2>1 DEF Boxes, LeakOK, PluginBox
  <1>7. CallOK(call', box'[Subject'], marks'[Subject'])
    <2>1. Subject' \in Ids
      BY DEF Subject
    <2>2. ~Leak(box'[Subject'], marks'[Subject'])
      BY <1>1, <1>5, <2>1
    <2> QED BY <1>3, <2>2 DEF CallOK, CreateCall, StartCall, StopCall, RemoveCall
  <1>8. EngineCall(call)'
    BY <1>3, MissingType DEF EngineCall, Known
  <1>9. Spares
    BY <1>1 DEF Spares
  <1> QED BY <1>4, <1>6, <1>7, <1>8, <1>9 DEF RuntimesIInv

LEMMA CrashOK ==
  ASSUME RuntimesIInv, Crash
  PROVE  RuntimesIInv' /\ Spares
  <1>0. Types /\ Boxes /\ CallForm(call)
    BY DEF RuntimesIInv
  <1>1. /\ UNCHANGED <<plugin, box, wire, foreign>> /\ call' = IdleCall /\ call.op # "idle"
        /\ faults' \in 0 .. MaxFaults
    BY <1>0, FaultsOK DEF Crash
  <1>2. \A c \in Ids : marks'[c] =
           IF call.op = "create" /\ Containerd /\ c = call.owned.id
           THEN marks[c] \cup {"abandoned"} ELSE marks[c]
    BY DEF Crash
  <1>3. marks' \in [Ids -> SUBSET MarkNames]
    BY <1>0 DEF Crash, Types, MarkNames
  <1>4. Types' /\ CallForm(call') /\ WireOK'
    BY <1>0, <1>1, <1>3, IdleType, IdleOK DEF RuntimesIInv, Types, WireOK, RequestOK, Ours
  <1>5. Boxes'
    <2> SUFFICES ASSUME NEW c \in Ids
                 PROVE  /\ BoxOK(c, box[c], marks'[c]) /\ PluginBox(box[c], marks'[c])
                        /\ ~Leak(box[c], marks'[c])
      BY <1>1 DEF Boxes, LeakOK, PluginBox
    <2> PICK b, m, n : b = box[c] /\ m = marks[c] /\ n = marks'[c]
      OBVIOUS
    <2>1. BoxOK(c, b, m) /\ PluginBox(b, m) /\ LeakOK(call, c, b, m)
      BY <1>0 DEF Boxes
    <2>2. n = m \/ n = m \cup {"abandoned"}
      BY <1>2
    <2>3. BoxOK(c, b, n) /\ PluginBox(b, n)
      BY <2>1, <2>2 DEF BoxOK, PluginBox, Connected, Excused, EngineBox
    <2>4. Leak(b, n) => Leak(b, m) /\ "abandoned" \notin n
      BY <2>2 DEF Leak
    <2>5. ~Leak(b, n)
      <3>1. CASE ~Containerd
        <4>1. b.parts = {}
          BY <3>1, <2>1 DEF PluginBox, EngineBox
        <4> QED BY <4>1 DEF Leak
      <3>2. CASE Containerd /\ Leak(b, m)
        <4>1. call.op = "create" /\ c = TxId
          BY <2>1, <3>2 DEF LeakOK
        <4>2. Subject = c /\ CallOK(call, b, m)
          BY <4>1, <3>2, SubjectIs, <1>0 DEF RuntimesIInv, NewOps
        <4>3. call.owned.id = TxId
          BY <4>1, <4>2, <3>2 DEF CallOK, CreateCall
        <4>4. "abandoned" \in n
          BY <4>1, <4>3, <3>2, <1>2
        <4> QED BY <2>4, <4>4
      <3> QED BY <2>4, <3>1, <3>2
    <2> QED BY <2>3, <2>5
  <1>6. CallOK(call', box'[Subject'], marks'[Subject'])
    BY <1>1, IdleOK
  <1>7. EngineCall(call)'
    BY <1>1, MissingType, IdleType DEF EngineCall, Known
  <1>8. Spares
    BY <1>1 DEF Spares
  <1> QED BY <1>4, <1>5, <1>6, <1>7, <1>8 DEF RuntimesIInv

-----------------------------------------------------------------------------
(* Docker and Podman: reading.                                               *)

LEMMA EngineFacts ==
  ASSUME RuntimesIInv, ~Containerd
  PROVE  /\ Types /\ call \in CallType /\ CallForm(call) /\ EngineCall(call) /\ WireOK
         /\ \A c \in Ids : /\ box[c].parts = {} /\ (box[c].record => box[c].born)
                           /\ box[c].record /\ c # 3 => box[c].owner # "none"
                           /\ box[c].record /\ box[c].owner # "none" => Ours(c)
  BY DEF RuntimesIInv, Types, Boxes, PluginBox, EngineBox, BoxOK, Ours, OurBox

(* What is found by name or by ID, and carries the labels, is known to be ours.       *)
LEMMA FoundOK ==
  ASSUME RuntimesIInv, ~Containerd
  PROVE  /\ \A n : ByName(n) \in SnapshotType /\ Known(ByName(n))
         /\ \A c \in Ids : /\ ById(c) \in SnapshotType /\ Known(ById(c))
                           /\ ById(c).life # "none" /\ c # 3 => Ours(c)
         /\ \A c \in Owned : Snapshot(c) \in SnapshotType /\ Known(Snapshot(c)) /\ Snapshot(c).id # 0
  <1>0. /\ Types /\ \A c \in Ids : /\ box[c].record /\ c # 3 => box[c].owner # "none"
                                   /\ box[c].record /\ box[c].owner # "none" => Ours(c)
    BY EngineFacts
  <1>1. Missing \in SnapshotType /\ Known(Missing) /\ Missing.life = "none"
    BY MissingType DEF Known, Missing
  <1>2. ASSUME NEW c \in Ids, box[c].record
        PROVE  /\ Snapshot(c) \in SnapshotType /\ Known(Snapshot(c)) /\ Snapshot(c).id # 0
               /\ c # 3 => Ours(c)
    <2>1. /\ Snapshot(c) \in SnapshotType /\ Snapshot(c).id = c /\ Snapshot(c).owner = box[c].owner
      BY <1>0, SnapshotOK
    <2> QED BY <1>0, <1>2, <2>1 DEF Known
  <1>3. ASSUME NEW n PROVE ByName(n) \in SnapshotType /\ Known(ByName(n))
    <2>1. CASE Holders(n) = {}
      BY <1>1, <2>1 DEF ByName
    <2>2. CASE Holders(n) # {}
      <3>1. PICK c \in Ids : c = (CHOOSE e \in Holders(n) : TRUE) /\ box[c].record
        BY <2>2 DEF Holders
      <3>2. ByName(n) = Snapshot(c)
        BY <2>2, <3>1 DEF ByName
      <3> QED BY <1>2, <3>1, <3>2
    <2> QED BY <2>1, <2>2
  <1>4. ASSUME NEW c \in Ids
        PROVE  /\ ById(c) \in SnapshotType /\ Known(ById(c))
               /\ ById(c).life # "none" /\ c # 3 => Ours(c)
    <2>1. CASE box[c].record
      <3>1. ById(c) = Snapshot(c)
        BY <2>1 DEF ById
      <3> QED BY <1>2, <2>1, <3>1
    <2>2. CASE ~box[c].record
      <3>1. ById(c) = Missing
        BY <2>2 DEF ById
      <3> QED BY <1>1, <3>1
    <2> QED BY <2>1, <2>2
  <1>5. ASSUME NEW c \in Owned
        PROVE  Snapshot(c) \in SnapshotType /\ Known(Snapshot(c)) /\ Snapshot(c).id # 0
    BY <1>2 DEF Owned
  <1> QED BY <1>3, <1>4, <1>5

(* A request that only reads: the call returns, or knows more.                   *)
LEMMA EngineReads ==
  ASSUME RuntimesIInv, ~Containerd, call.op # "idle", Read, Fine \/ Fault,
         \/ call' = IdleCall
         \/ /\ call' \in CallType /\ call'.op = call.op /\ call'.sub = call.sub
            /\ EngineCall(call')
  PROVE  RuntimesIInv' /\ Spares
  <1>1. UNCHANGED <<plugin, box, wire, marks, foreign>> /\ faults' \in 0 .. MaxFaults
    BY FaultsOK DEF Read, RuntimesIInv
  <1>2. call' \in CallType /\ CallForm(call') /\ EngineCall(call')
    BY EngineFacts, IdleType, IdleOK DEF CallForm
  <1>3. Types' /\ WireOK'
    BY <1>1, <1>2, EngineFacts DEF Types, WireOK, RequestOK, Ours
  <1>4. Boxes'
    <2>1. \A c \in Ids : BoxOK(c, box[c], marks[c]) /\ PluginBox(box[c], marks[c]) /\ ~Leak(box[c], marks[c])
      BY EngineFacts DEF RuntimesIInv, Boxes, Leak
    <2> QED BY <1>1, <2>1 DEF Boxes, LeakOK, PluginBox
  <1>5. EngineCall(call)'
    BY <1>1, <1>2 DEF EngineCall, Known, Ours
  <1>6. Spares
    BY <1>1 DEF Spares
  <1> QED BY <1>1, <1>2, <1>3, <1>4, <1>5, <1>6 DEF RuntimesIInv

(* The call with the next step and what it has found                            *)
FoundNamed(k, s) == [k EXCEPT !.step = "list", !.named = s]
FoundOwned(k, x, s) == [k EXCEPT !.step = x, !.owned = s]

LEMMA NamedCall ==
  ASSUME NEW k \in CallType, NEW s \in SnapshotType
  PROVE  /\ FoundNamed(k, s) \in CallType /\ FoundNamed(k, s).op = k.op
         /\ FoundNamed(k, s).sub = k.sub /\ FoundNamed(k, s).step = "list"
         /\ FoundNamed(k, s).named = s /\ FoundNamed(k, s).owned = k.owned
  <1>1. "list" \in Points
    BY DEF Points
  <1> HIDE DEF SnapshotType, Points
  <1> QED BY <1>1 DEF CallType, FoundNamed

LEMMA OwnedCall ==
  ASSUME NEW k \in CallType, NEW s \in SnapshotType, NEW x \in Points
  PROVE  /\ FoundOwned(k, x, s) \in CallType /\ FoundOwned(k, x, s).op = k.op
         /\ FoundOwned(k, x, s).sub = k.sub /\ FoundOwned(k, x, s).step = x
         /\ FoundOwned(k, x, s).named = k.named /\ FoundOwned(k, x, s).owned = s
  <1> HIDE DEF SnapshotType, Points
  <1> QED BY DEF CallType, FoundOwned

LEMMA FoundOwnedOK ==
  ASSUME RuntimesIInv, ~Containerd, call.op # "idle", Read, Fine \/ Fault,
         NEW s \in SnapshotType, NEW x \in {"inspect", "send", "name"},
         call' = FoundOwned(call, x, s), Known(s),
         x = "inspect" => s.id # 0,
         x = "send" => call.op \in {"start", "discard"} /\ s.owner = "tx"
  PROVE  RuntimesIInv' /\ Spares
  <1> PICK k : k = call
    OBVIOUS
  <1>0. k \in CallType /\ EngineCall(k)
    BY EngineFacts
  <1>1. PICK n : n = FoundOwned(k, x, s)
    OBVIOUS
  <1>2. /\ n \in CallType /\ n.op = k.op /\ n.sub = k.sub /\ n.step = x /\ n.named = k.named
        /\ n.owned = s
    <2>1. x \in Points
      BY DEF Points
    <2> HIDE DEF SnapshotType, Points
    <2> QED BY <1>0, <1>1, <2>1, OwnedCall
  <1>3. EngineCall(n)
    BY <1>0, <1>2 DEF EngineCall, Known, TransitionOps
  <1> QED BY <1>1, <1>2, <1>3, EngineReads

LEMMA DecideOK ==
  ASSUME RuntimesIInv, ~Containerd, call.op # "idle", Read, Fine \/ Fault,
         NEW a \in SnapshotType, NEW o \in SnapshotType, Known(a), Known(o), Decide(a, o)
  PROVE  RuntimesIInv' /\ Spares
  <1>1. \/ call' = IdleCall
        \/ \E s \in {a, o} : /\ call' = FoundOwned(call, "send", s) /\ s.owner = "tx"
                             /\ call.op \in {"start", "discard"}
    BY DEF Decide, Return, SelectCreatedContainer, MayStart, MayDiscard, Exact, FoundOwned
  <1>2. CASE call' = IdleCall
    BY <1>2, EngineReads
  <1>3. ASSUME NEW s \in {a, o}, call' = FoundOwned(call, "send", s), s.owner = "tx",
               call.op \in {"start", "discard"}
        PROVE  RuntimesIInv' /\ Spares
    <2>1. PICK x \in {"inspect", "send", "name"} : x = "send"
      OBVIOUS
    <2>2. s \in SnapshotType /\ Known(s)
      OBVIOUS
    <2> QED BY <1>3, <2>1, <2>2, FoundOwnedOK
  <1> QED BY <1>1, <1>2, <1>3

(* The selectors of an effect: by name, by the list of the labels, by the ID listed.        *)
LEMMA SelectorsOK ==
  ASSUME RuntimesIInv, ~Containerd, ReadNamed \/ ListOwned \/ InspectOwned
  PROVE  RuntimesIInv' /\ Spares
  <1>a. call.op \in EffectOps /\ call.op # "idle" /\ Read /\ (Fine \/ Fault)
    BY DEF ReadNamed, ListOwned, InspectOwned, At, EffectOps, FailRead
  <1> PICK k : k = call
    OBVIOUS
  <1>0. k \in CallType /\ EngineCall(k) /\ k.named \in SnapshotType /\ k.owned \in SnapshotType
    BY EngineFacts DEF CallType
  <1>1. CASE call' = IdleCall
    BY <1>1, <1>a, EngineReads
  <1>2. CASE ReadNamed /\ call' # IdleCall
    <2>1. PICK s : s = ByName("app") /\ call' = FoundNamed(k, s)
      BY <1>2 DEF ReadNamed, FailRead, Return, FoundNamed
    <2>2. s \in SnapshotType /\ Known(s)
      BY <2>1, FoundOK
    <2>3. PICK n : n = FoundNamed(k, s)
      OBVIOUS
    <2>4. /\ n \in CallType /\ n.op = k.op /\ n.sub = k.sub /\ n.step = "list" /\ n.named = s
          /\ n.owned = k.owned
      <3> HIDE DEF SnapshotType
      <3> QED BY <1>0, <2>2, <2>3, NamedCall
    <2>5. EngineCall(n)
      BY <1>0, <2>2, <2>4 DEF EngineCall
    <2> QED BY <1>a, <2>1, <2>3, <2>4, <2>5, EngineReads
  <1>3. CASE ListOwned /\ call' # IdleCall
    <2>1. \/ Decide(k.named, Missing)
          \/ \E c \in Owned : call' = FoundOwned(k, "inspect", Snapshot(c))
      BY <1>3 DEF ListOwned, FailRead, Return, FoundOwned
    <2>2. CASE Decide(k.named, Missing)
      <3>1. PICK a, o : a = k.named /\ o = Missing
        OBVIOUS
      <3>2. a \in SnapshotType /\ o \in SnapshotType /\ Known(a) /\ Known(o) /\ Decide(a, o)
        BY <1>0, <2>2, <3>1, MissingType DEF EngineCall, Known
      <3> QED BY <1>a, <3>2, DecideOK
    <2>3. CASE \E c \in Owned : call' = FoundOwned(k, "inspect", Snapshot(c))
      <3>1. PICK c \in Owned : call' = FoundOwned(k, "inspect", Snapshot(c))
        BY <2>3
      <3>2. PICK s, x : s = Snapshot(c) /\ x = "inspect"
        OBVIOUS
      <3>3. s \in SnapshotType /\ Known(s) /\ s.id # 0
        BY <3>2, FoundOK
      <3> QED BY <1>a, <3>1, <3>2, <3>3, FoundOwnedOK
    <2> QED BY <2>1, <2>2, <2>3
  <1>4. CASE InspectOwned /\ call' # IdleCall
    <2>1. k.owned.id \in Ids
      BY <1>0, <1>4 DEF InspectOwned, At, EngineCall, SnapshotType
    <2>2. PICK a, o : a = k.named /\ o = ById(k.owned.id)
      OBVIOUS
    <2>3. Decide(a, o)
      BY <1>4, <2>2 DEF InspectOwned, FailRead, Return
    <2>4. a \in SnapshotType /\ o \in SnapshotType /\ Known(a) /\ Known(o)
      BY <1>0, <2>1, <2>2, FoundOK DEF EngineCall
    <2> QED BY <1>a, <2>3, <2>4, DecideOK
  <1> QED BY <1>1, <1>2, <1>3, <1>4

(* The predecessor, by its ID                                                 *)
LEMMA ReadBeforeOK ==
  ASSUME RuntimesIInv, ~Containerd, ReadBefore
  PROVE  RuntimesIInv' /\ Spares
  <1>a. call.op \in TransitionOps /\ call.op # "idle" /\ Read /\ (Fine \/ Fault)
    BY DEF ReadBefore, At, TransitionOps, FailRead
  <1> PICK k : k = call
    OBVIOUS
  <1>0. k \in CallType /\ EngineCall(k)
    BY EngineFacts
  <1>1. CASE call' = IdleCall
    BY <1>1, <1>a, EngineReads
  <1>2. CASE call' # IdleCall
    <2>1. call' = AtPoint(k, "send") /\ ById(Predecessor).life = BeforeLife(k.op)
      BY <1>2 DEF ReadBefore, FailRead, Return, Continue, AtPoint
    <2>2. Ours(Predecessor)
      <3>1. ById(Predecessor).life # "none"
        BY <2>1 DEF BeforeLife
      <3> QED BY <3>1, FoundOK
    <2>3. PICK n : n = AtPoint(k, "send")
      OBVIOUS
    <2>4. /\ n \in CallType /\ n.op = k.op /\ n.sub = k.sub /\ n.step = "send"
          /\ n.named = k.named /\ n.owned = k.owned
      BY <1>0, <2>3, NextPoint DEF Points
    <2>5. EngineCall(n)
      BY <1>0, <1>a, <2>2, <2>4 DEF EngineCall, TransitionOps
    <2> QED BY <1>a, <2>1, <2>3, <2>4, <2>5, EngineReads
  <1> QED BY <1>1, <1>2

LEMMA ReadTransitionOK ==
  ASSUME RuntimesIInv, ~Containerd, ReadTransition \/ ReadOldName
  PROVE  RuntimesIInv' /\ Spares
  <1>a. call.op # "idle" /\ Read /\ (Fine \/ Fault)
    BY DEF ReadTransition, ReadOldName, At, ProbeOps, FailRead
  <1> PICK s, x : s = ById(Predecessor) /\ x = "name"
    OBVIOUS
  <1>1. call' = IdleCall \/ call' = FoundOwned(call, x, s)
    BY DEF ReadTransition, ReadOldName, FailRead, Return, FoundOwned
  <1>2. s \in SnapshotType /\ Known(s)
    BY FoundOK
  <1> QED BY <1>a, <1>1, <1>2, EngineReads, FoundOwnedOK

-----------------------------------------------------------------------------
(* Docker and Podman: what the engine carries out.                              *)

(* A request changes one container: a new one, or one that is ours.                *)
LEMMA CarriedOK ==
  ASSUME RuntimesIInv, ~Containerd, NEW r, RequestOK(r), Permitted(r), NEW stopped \in BOOLEAN,
         stopped /\ r.kind = "stop" => r.id = Predecessor,
         box' = Carried(r), marks' = MarkAs(r, stopped),
         UNCHANGED <<plugin, foreign>>, Fine \/ Fault,
         call' = call \/ call' = IdleCall, wire' \subseteq wire
  PROVE  RuntimesIInv' /\ Spares
  <1>0. /\ Types /\ faults' \in 0 .. MaxFaults /\ foreign' \in 0 .. MaxForeign
        /\ r.kind \in {"create", "start", "stop", "rename", "remove", "discard"}
        /\ r.kind # "create" => Ours(r.id)
        /\ r.kind = "create" => r.id = 0
        /\ r.name \in Names \cup {"none"}
    BY EngineFacts, FaultsOK DEF RequestOK, RequestType, Types
  <1> PICK c : c = IF r.kind = "create" THEN NextId ELSE r.id
    OBVIOUS
  <1>1. c \in Ids
    BY <1>0 DEF NextId, Ours
  <1> PICK b, m : b = box[c] /\ m = marks[c]
    OBVIOUS
  <1>2. /\ b \in BoxType /\ m \in SUBSET MarkNames /\ BoxOK(c, b, m) /\ PluginBox(b, m)
        /\ b.record => b.born
    BY <1>1, BoxFacts, EngineFacts
  <1>3. r.kind # "create" => OurBox(b)
    BY <1>0 DEF Ours
  <1>4. r.kind = "create" => ~b.born
    BY DEF Permitted
  <1> PICK n : n = IF r.kind = "start" THEN m \ {"stopped"}
                   ELSE IF r.kind = "stop" /\ stopped THEN m \cup {"stopped"} ELSE m
    OBVIOUS
  <1>5. marks' = [marks EXCEPT ![c] = n] /\ n \in SUBSET MarkNames
    <2>1. CASE r.kind = "create"
      <3>1. \A e \in Ids : MarkAs(r, stopped)[e] = marks[e]
        BY <1>0, <2>1 DEF MarkAs
      <3> QED BY <1>0, <1>1, <1>2, <2>1, <3>1 DEF MarkAs, Types
    <2>2. CASE r.kind # "create"
      BY <1>0, <1>1, <1>2, <2>2 DEF MarkAs, Types, MarkNames
    <2> QED BY <2>1, <2>2
  <1>6. PICK d \in BoxType :
          /\ box' = [box EXCEPT ![c] = d] /\ d.parts = {} /\ d.born
          /\ d.record => d.owner # "none"
          /\ ~d.record => d.task = "none"
          /\ "stopped" \in n => d.task \notin {"running", "paused"} /\ ~d.restart
    <2>1. CASE r.kind = "create"
      <3>1. PICK d : d = [Unborn EXCEPT !.born = TRUE, !.record = TRUE, !.name = r.name,
                                       !.owner = "tx", !.task = "created"]
        OBVIOUS
      <3>2. d \in BoxType /\ d.parts = {} /\ d.born /\ d.owner = "tx" /\ d.task = "created" /\ ~d.restart /\ d.record
        BY <1>0, <3>1 DEF Unborn, BoxType, Owners, Tasks
      <3>3. box' = [box EXCEPT ![c] = d]
        BY <2>1, <3>1 DEF Carried
      <3> QED BY <3>2, <3>3
    <2>2. CASE r.kind = "start"
      <3>1. PICK d : d = [b EXCEPT !.task = "running", !.restart = TRUE]
        OBVIOUS
      <3>2. /\ d \in BoxType /\ d.parts = b.parts /\ d.born = b.born /\ d.owner = b.owner
            /\ d.record = b.record
        BY <1>2, <3>1 DEF BoxType, Tasks
      <3>3. box' = [box EXCEPT ![c] = d]
        BY <1>0, <1>1, <2>2, <3>1 DEF Carried, Types
      <3>4. b.record /\ b.owner # "none" /\ b.parts = {} /\ b.born /\ "stopped" \notin n
        BY <1>2, <1>3, <2>2 DEF Permitted, Life, OurBox, PluginBox, EngineBox
      <3> QED BY <3>2, <3>3, <3>4
    <2>3. CASE r.kind = "stop"
      <3>1. PICK d : d = [b EXCEPT !.task = "exited", !.restart = FALSE]
        OBVIOUS
      <3>2. /\ d \in BoxType /\ d.parts = b.parts /\ d.born = b.born /\ d.owner = b.owner
            /\ d.record = b.record /\ d.task = "exited" /\ ~d.restart
        BY <1>2, <3>1 DEF BoxType, Tasks
      <3>3. box' = [box EXCEPT ![c] = d]
        BY <1>0, <1>1, <2>3, <3>1 DEF Carried, Types
      <3>4. b.record /\ b.owner # "none" /\ b.parts = {} /\ b.born
        BY <1>2, <1>3, <2>3 DEF Permitted, Life, OurBox, PluginBox, EngineBox
      <3> QED BY <3>2, <3>3, <3>4
    <2>4. CASE r.kind = "rename"
      <3>1. PICK d : d = [b EXCEPT !.name = r.name]
        OBVIOUS
      <3>2. /\ d \in BoxType /\ d.parts = b.parts /\ d.born = b.born /\ d.owner = b.owner
            /\ d.record = b.record /\ d.task = b.task /\ d.restart = b.restart
        BY <1>0, <1>2, <3>1 DEF BoxType
      <3>3. box' = [box EXCEPT ![c] = d]
        BY <1>0, <1>1, <2>4, <3>1 DEF Carried, Types
      <3>4. b.record /\ b.owner # "none" /\ b.parts = {} /\ b.born /\ n = m
        BY <1>2, <1>3, <2>4 DEF Permitted, OurBox, PluginBox, EngineBox
      <3> QED BY <1>2, <3>2, <3>3, <3>4 DEF BoxOK
    <2>5. CASE r.kind \in {"remove", "discard"}
      <3>1. PICK d : d = [Unborn EXCEPT !.born = TRUE]
        OBVIOUS
      <3>2. d \in BoxType /\ d.parts = {} /\ d.born /\ ~d.record /\ d.task = "none" /\ ~d.restart
        BY <3>1 DEF Unborn, BoxType, Owners, Tasks
      <3>3. box' = [box EXCEPT ![c] = d]
        BY <2>5, <3>1 DEF Carried
      <3> QED BY <3>2, <3>3
    <2> QED BY <1>0, <2>1, <2>2, <2>3, <2>4, <2>5
  <1>7. "stopped" \in n => c = Predecessor
    BY <1>2 DEF BoxOK
  <1>8. BoxOK(c, d, n) /\ PluginBox(d, n) /\ LeakOK(call, c, d, n) /\ OurBox(d)
    BY <1>6, <1>7 DEF BoxOK, PluginBox, EngineBox, LeakOK, Leak, OurBox
  <1>9. Becomes(c, d, n)
    BY <1>5, <1>6 DEF Becomes
  <1>10. RuntimesIInv'
    BY <1>0, <1>1, <1>5, <1>6, <1>8, <1>9, BoxStep
  <1>11. ~(b.record /\ b.owner = "none")
    BY <1>2, <1>3, <1>4 DEF OurBox
  <1>12. Spares
    BY <1>0, <1>1, <1>6, <1>11 DEF Spares, Types
  <1> QED BY <1>10, <1>12

LEMMA SendOK ==
  ASSUME RuntimesIInv, ~Containerd, call.op # "idle", NEW r, RequestOK(r), NEW accepts,
         r.kind = "stop" => r.id = Predecessor, Send(r, accepts)
  PROVE  RuntimesIInv' /\ Spares
  <1>1. call' = IdleCall /\ UNCHANGED <<plugin, foreign>> /\ (Fine \/ Fault)
    BY DEF Send, Return
  <1>2. CASE /\ Permitted(r) /\ box' = Carried(r) /\ wire' = wire
             /\ \E stopped \in BOOLEAN : marks' = MarkAs(r, stopped)
    <2>1. PICK stopped \in BOOLEAN : marks' = MarkAs(r, stopped)
      BY <1>2
    <2> QED BY <1>1, <1>2, <2>1, CarriedOK
  <1>3. CASE Read
    BY <1>1, <1>3, EngineReads
  <1>4. CASE UNCHANGED <<box, marks>> /\ wire' = wire \cup {r}
    <2>1. faults' \in 0 .. MaxFaults
      BY <1>1, FaultsOK DEF RuntimesIInv
    <2>2. Types'
      BY <1>1, <1>4, <2>1, IdleType DEF RuntimesIInv, Types
    <2>3. WireOK'
      BY <1>1, <1>4 DEF RuntimesIInv, WireOK, RequestOK, Ours
    <2>4. Boxes'
      <3>1. \A c \in Ids : BoxOK(c, box[c], marks[c]) /\ PluginBox(box[c], marks[c]) /\ ~Leak(box[c], marks[c])
        BY EngineFacts DEF RuntimesIInv, Boxes, Leak
      <3> QED BY <1>1, <1>4, <3>1 DEF Boxes, LeakOK, PluginBox
    <2>5. EngineCall(call)'
      BY <1>1, MissingType, IdleType DEF EngineCall, Known
    <2>6. Spares
      BY <1>4 DEF Spares
    <2> QED BY <1>1, <2>2, <2>3, <2>4, <2>5, <2>6, IdleOK DEF RuntimesIInv
  <1>5. \/ /\ Permitted(r) /\ box' = Carried(r) /\ wire' = wire
           /\ \E stopped \in BOOLEAN : marks' = MarkAs(r, stopped)
        \/ Read
        \/ UNCHANGED <<box, marks>> /\ wire' = wire \cup {r}
    BY <1>1 DEF Send, Read
  <1> QED BY <1>2, <1>3, <1>4, <1>5

LEMMA EngineDeliverOK ==
  ASSUME RuntimesIInv, EngineDeliver
  PROVE  RuntimesIInv' /\ Spares
  <1>1. PICK r \in wire :
          /\ RequestOK(r) /\ wire' \subseteq wire
          /\ \/ Permitted(r) /\ box' = Carried(r) /\ marks' = MarkAs(r, FALSE)
             \/ UNCHANGED <<box, marks>>
    BY DEF RuntimesIInv, WireOK, EngineDeliver
  <1>2. /\ ~Containerd /\ UNCHANGED <<plugin, call, faults, foreign>> /\ wire' \subseteq wire
        /\ \/ Permitted(r) /\ box' = Carried(r) /\ marks' = MarkAs(r, FALSE)
           \/ UNCHANGED <<box, marks>>
    BY <1>1 DEF EngineDeliver
  <1>3. CASE Permitted(r) /\ box' = Carried(r) /\ marks' = MarkAs(r, FALSE)
    <2>1. PICK stopped \in BOOLEAN : ~stopped /\ marks' = MarkAs(r, stopped)
      BY <1>3
    <2>2. Fine \/ Fault
      BY <1>2 DEF Fine
    <2> QED BY <1>1, <1>2, <1>3, <2>1, <2>2, CarriedOK
  <1>4. CASE UNCHANGED <<box, marks>>
    <2> PICK c \in Ids : c = 1
      OBVIOUS
    <2> PICK b, m : b = box[c] /\ m = marks[c]
      OBVIOUS
    <2>1. Becomes(c, b, m)
      BY <1>4 DEF RuntimesIInv, Types, Becomes
    <2>2. RuntimesIInv'
      BY <1>2, <2>1, LateTask
    <2> QED BY <1>4, <2>2 DEF Spares
  <1> QED BY <1>2, <1>3, <1>4

(* The requests of the calls name the ID that was proved.                        *)
LEMMA EngineSendsOK ==
  ASSUME RuntimesIInv, ~Containerd, NEW accepts,
         CreateNamed \/ StartOwned(accepts) \/ DiscardOwned \/ SendTransition(accepts)
  PROVE  RuntimesIInv' /\ Spares
  <1>0. call \in CallType /\ EngineCall(call)
    BY EngineFacts
  <1>1. CASE CreateNamed
    <2>1. PICK r : r = Request("create", 0, "app")
      OBVIOUS
    <2>2. RequestOK(r) /\ r.kind = "create"
      BY <2>1 DEF RequestOK, Request, RequestType, Names
    <2>3. Send(r, FALSE) /\ call.op # "idle"
      BY <1>1, <2>1 DEF CreateNamed, At
    <2> QED BY <2>2, <2>3, SendOK
  <1>2. CASE StartOwned(accepts) \/ DiscardOwned
    <2>1. /\ call.op \in {"start", "discard"} /\ call.step = "send" /\ call.op # "idle"
      BY <1>2 DEF StartOwned, DiscardOwned, At
    <2>2. PICK r : r = Request(call.op, call.owned.id, "none")
      OBVIOUS
    <2>3. Ours(call.owned.id)
      BY <1>0, <2>1 DEF EngineCall
    <2>4. RequestOK(r) /\ r.kind # "stop"
      BY <2>1, <2>2, <2>3 DEF RequestOK, Request, RequestType, Ours
    <2>5. Send(r, accepts) \/ Send(r, FALSE)
      BY <1>2, <2>2 DEF StartOwned, DiscardOwned, At
    <2> QED BY <2>1, <2>4, <2>5, SendOK
  <1>3. CASE SendTransition(accepts)
    <2>1. /\ call.op \in TransitionOps /\ call.step = "send" /\ call.op # "idle"
      BY <1>3 DEF SendTransition, At, TransitionOps
    <2>2. PICK r : r = Request(TransitionKind, Predecessor, IF call.op = "rename" THEN call.to ELSE "none")
      OBVIOUS
    <2>3. Ours(Predecessor)
      BY <1>0, <2>1 DEF EngineCall
    <2>4. r.id = Predecessor /\ RequestOK(r)
      <3>1. call.to \in Names \cup {"none"}
        BY <1>0 DEF CallType, Names
      <3>2. TransitionKind \in {"start", "stop", "rename", "remove"}
        BY <2>1 DEF TransitionKind, TransitionOps
      <3> QED BY <2>2, <2>3, <3>1, <3>2 DEF RequestOK, Request, RequestType
    <2>5. Send(r, accepts)
      BY <1>3, <2>2 DEF SendTransition
    <2> QED BY <2>1, <2>4, <2>5, SendOK
  <1> QED BY <1>1, <1>2, <1>3

LEMMA EngineCallOK ==
  ASSUME RuntimesIInv, DockerNext \/ PodmanNext
  PROVE  RuntimesIInv' /\ Spares
  <1>1. ~Containerd
    BY DEF DockerNext, PodmanNext
  <1>2. \/ ReadNamed \/ ListOwned \/ InspectOwned \/ ReadBefore \/ ReadTransition \/ ReadOldName
        \/ \E accepts : CreateNamed \/ StartOwned(accepts) \/ DiscardOwned \/ SendTransition(accepts)
    <2>1. CASE DockerNext
      BY <2>1, Zenon DEF DockerNext
    <2>2. CASE PodmanNext
      BY <2>2, Zenon DEF PodmanNext, PodmanCreate, PodmanCandidates, PodmanStart, PodmanDiscard,
                         PodmanTransition, PodmanProbe
    <2> QED BY <2>1, <2>2
  <1> QED BY <1>1, <1>2, SelectorsOK, ReadBeforeOK, ReadTransitionOK, EngineSendsOK

-----------------------------------------------------------------------------
(* Every step.                                                             *)

LEMMA StepOK ==
  ASSUME RuntimesIInv, [RuntimesNext]_vars
  PROVE  RuntimesIInv' /\ Spares
  <1>1. CASE ContainerdNext
    <2>1. Containerd /\ call.op # "idle" /\ SubjectStep
      BY <1>1, ContainerdCallOK
    <2>2. RuntimesIInv'
      BY <2>1, SubjectStepOK
    <2>3. Spares
      BY <2>1, SubjectIs, OthersAre3 DEF Spares, SubjectStep, Apart
    <2> QED BY <2>2, <2>3
  <1>2. CASE UNCHANGED vars
    <2>1. UNCHANGED <<plugin, box, call, wire, marks, faults, foreign>>
      BY <1>2 DEF vars
    <2>2. RuntimesIInv'
      BY <2>1 DEF RuntimesIInv, Types, WireOK, RequestOK, Ours, OurBox, Boxes, PluginBox, Subject,
                  EngineCall, Known
    <2> QED BY <2>1, <2>2 DEF Spares
  <1> QED BY <1>1, <1>2, AskOK, CrashOK, EngineCallOK, EngineDeliverOK, ContainerdDeliverOK,
             GarbageCollectOK, EnvironmentOK DEF RuntimesNext, Step, ClientStep

LEMMA InvOK == RuntimesIInv => RuntimesInv /\ StopHolds
  <1> SUFFICES ASSUME RuntimesIInv PROVE RuntimesInv /\ StopHolds
    OBVIOUS
  <1>1. RuntimesTypeOK
    <2>1. wire \subseteq RequestType
      BY DEF RuntimesIInv, WireOK, RequestOK
    <2> HIDE DEF SnapshotType, RequestType
    <2> QED BY <2>1 DEF RuntimesTypeOK, RuntimesIInv, Types, CallType, MarkNames
  <1>2. RemovedWhileRunning
    BY DEF RemovedWhileRunning, RuntimesIInv, Boxes, BoxOK
  <1>3. OnlyCreationsLeak
    BY DEF OnlyCreationsLeak, RuntimesIInv, Boxes, LeakOK, Leak
  <1>4. RunningIsConnected
    BY DEF RunningIsConnected, RuntimesIInv, Boxes, PluginBox, Connected, Excused
  <1>5. StopHolds
    BY DEF StopHolds, RuntimesIInv, Boxes, BoxOK
  <1> QED BY <1>1, <1>2, <1>3, <1>4, <1>5 DEF RuntimesInv

-----------------------------------------------------------------------------
(* The theorems.                                                           *)

(* The inductive invariant holds in every state: what each step of a call of any       *)
(* plugin rests on is still true when the step is taken.                          *)
THEOREM RuntimesInvariant == RuntimesSpec => []RuntimesIInv
  BY InitOK, StepOK, PTL DEF RuntimesSpec

(* Whatever fails, comes late or is done by others, with any plugin: nothing that       *)
(* runs loses its record or its network, and only an interrupted creation leaves       *)
(* parts behind (Create, Start, Stop and Remove of the containerd backend).           *)
THEOREM RuntimesTheorem == RuntimesSpec => []RuntimesInv
  BY RuntimesInvariant, InvOK, PTL

(* A workload whose stop succeeded does not run until it is started: the restart        *)
(* monitor is told before the task is killed (setRestartState in Stop), and an engine     *)
(* clears its restart policy.                                                 *)
THEOREM StopHoldsTheorem == RuntimesSpec => []StopHolds
  BY RuntimesInvariant, InvOK, PTL

(* No request of the client changes a container of somebody else, in whatever state      *)
(* it was when the request was decided on (requests name the proved ID).              *)
THEOREM ForeignUntouchedTheorem == RuntimesSpec => ForeignUntouched
  <1>1. RuntimesIInv /\ [RuntimesNext]_vars => [Spares]_vars
    BY StepOK
  <1>2. RuntimesSpec => [][Spares]_vars
    BY <1>1, RuntimesInvariant, PTL DEF RuntimesSpec
  <1> QED BY <1>2 DEF ForeignUntouched, Spares

-----------------------------------------------------------------------------
(* The contract.                                                           *)

(* How a container with marks m is shown to the contract, and to whom.           *)
LifeIn(b) == IF ~b.record THEN "none"
             ELSE IF Containerd /\ ~({"snapshot", "netns"} \subseteq b.parts) THEN "removing"
             ELSE IF b.task = "none" THEN "created" ELSE b.task

ShownAs(b, m) == IF LifeIn(b) = "created" /\ b.restart THEN "cleared"
                 ELSE IF b.task \in {"running", "paused"} /\ "revived" \in m THEN "revived"
                 ELSE LifeIn(b)

Entry(b, m) == <<ShownAs(b, m), b.name>>
Side(c) == IF c = Predecessor THEN "old" ELSE "new"
Visible(c, b) == b.record /\ (c = Predecessor \/ b.owner = "tx")

(* Each container has its place, and a record has lost its snapshot or its namespace   *)
(* only after its task, unless the monitor made a new one.                          *)
Intact(b) == {"snapshot", "netns"} \subseteq b.parts

Placed(c, b, m) ==
    /\ c = Predecessor => b.owner # "tx" /\ (~b.record => b.parts = {}) /\ "lease" \notin b.parts
    /\ c # Predecessor => b.owner # "old"
    /\ Containerd /\ c = 3 => b.owner = "none"
    /\ Containerd /\ c # 3 /\ b.record /\ b.task # "none" =>
           Intact(b) \/ ("revived" \in m /\ b.task # "created")

(* An engine keeps names apart, and until foreign hands rename it the replacement has   *)
(* the name it was given.                                                        *)
NamesApart == \A c, e \in Ids : c # e /\ box[c].record /\ box[e].record => box[c].name # box[e].name
NamedApp   == foreign = 0 => \A c \in Ids : box[c].record /\ box[c].owner = "tx" => box[c].name = "app"

RequestPlaced(r) == /\ r.kind \in {"stop", "rename", "remove"} => r.id = Predecessor
                    /\ r.kind = "discard" => r.id # Predecessor
                    /\ r.kind = "create" => r.name = "app"

(* A life that was seen is one that answer a tells of.                              *)
Shows(a, life) == \/ a = life
                  \/ a \in {"running", "paused"} /\ life = "revived"
                  \/ a = "created" /\ life = "cleared"
WasSeen(a, at) == \E V \in at : \E life \in V : Shows(a, life)

(* What a call of an engine has read was true since it began.                        *)
Alien(c) == c \in Ids /\ box[c].born /\ box[c].owner # "tx"

EngineRead(k, s) ==
    /\ k.step \in {"list", "inspect"} =>
           /\ k.named.id = 0 => s.free
           /\ k.named.id # 0 /\ k.named.owner = "tx" =>
                  k.named.id # Predecessor /\ WasSeen(k.named.life, s.at)
           /\ k.named.id # 0 /\ k.named.owner # "tx" => Alien(k.named.id)
    /\ k.step = "send" /\ k.op \in {"start", "discard"} => k.owned.id # Predecessor
    /\ k.step = "name" => IF k.owned.id = 0 THEN k.op # "probeRename" /\ {} \in s.at
                          ELSE WasSeen(k.owned.life, s.at)

(* The same of containerd, and which parts of its subject b a step finds.             *)
ReadSoFar(k, s) ==
    /\ k.step = "decode" =>
           /\ k.named.id = 0 => s.free
           /\ k.owned.id = 0 => {} \in s.at
           /\ k.owned.id # 0 => k.owned.owner = "tx" /\ k.owned.id = TxId
           /\ k.named.id # 0 => (k.named.owner = "tx" <=> k.named.id = TxId)
    /\ k.step = "name" => IF k.op = "probeRename" THEN WasSeen(k.owned.life, s.at) ELSE {} \in s.at
    /\ k.step = "complete" => {} \in s.at /\ s.free
    /\ k.step = "start.label" => \E V \in s.at : V \cap {"running", "revived"} # {}

Finds(x, b) ==
    /\ x \in {"mk.snapshot", "mk.host", "mk.netns", "mk.record"} => "lease" \in b.parts
    /\ x \in {"mk.host", "mk.netns", "mk.record"} => "snapshot" \in b.parts
    /\ x = "mk.record" => "netns" \in b.parts
    /\ x \in {"cl.snapshot", "cl.netns"} /\ b.record => b.task = "none" /\ ~b.restart
    /\ x \in {"start.net", "start.look", "start.clear", "start.make", "start.run",
                   "start.label", "stop.label", "stop.look", "stop.resume", "stop.term",
                   "stop.wait", "stop.kill", "stop.last"} => b.record /\ Intact(b)
    /\ x = "start.label" => b.task \in {"running", "paused", "exited"}
    /\ x \in {"rm.network", "rm.netns", "rm.snapshot", "rm.volume", "rm.host", "rm.record"} =>
           b.task # "created"

FromOK(k) == /\ IF k.op = "idle" THEN k.step = "none" ELSE k.from \in {"app", "backup"}
             /\ k.op \in NewOps => k.from = "app"

Places == \A c \in Ids : Placed(c, box[c], marks[c])

ContractIInv ==
    /\ RuntimesIInv
    /\ Places /\ FromOK(call)
    /\ IF Containerd THEN ReadSoFar(call, seen) /\ Finds(call.step, box[Subject])
       ELSE /\ NamesApart /\ NamedApp /\ EngineRead(call, seen)
            /\ \A r \in wire : RequestPlaced(r)

-----------------------------------------------------------------------------
(* The view of the contract.                                                *)

LEMMA ShownIs == \A c \in Ids : ViewLife(c) = ShownAs(box[c], marks[c])
  BY DEF ViewLife, Life, ShownAs, LifeIn

Entries(s, S) == {Entry(box[c], marks[c]) : c \in {e \in S : Side(e) = s /\ Visible(e, box[e])}}

LEMMA ViewIs ==
  Places => /\ View = [s \in {"old", "new"} |-> View[s]]
            /\ \A s \in {"old", "new"} : View[s] = Entries(s, Ids)
  <1> SUFFICES ASSUME Places
               PROVE  /\ View = [s \in {"old", "new"} |-> View[s]]
                      /\ \A s \in {"old", "new"} : View[s] = Entries(s, Ids)
    OBVIOUS
  <1>1. box[1].owner # "tx" /\ (~box[1].record => box[1].parts = {})
    BY DEF Places, Placed
  <1>2. \A c \in Ids : <<ViewLife(c), box[c].name>> = Entry(box[c], marks[c])
    BY ShownIs DEF Entry
  <1>3. View["old"] = Entries("old", Ids)
    <2>1. {e \in Ids : Side(e) = "old" /\ Visible(e, box[e])} = IF box[1].record THEN {1} ELSE {}
      BY DEF Side, Visible
    <2>2. View["old"] = IF box[1].record THEN {<<ViewLife(1), box[1].name>>} ELSE {}
      BY <1>1 DEF View
    <2> QED BY <1>2, <2>1, <2>2 DEF Entries
  <1>4. View["new"] = Entries("new", Ids)
    <2>1. {e \in Ids : Side(e) = "new" /\ Visible(e, box[e])} = Owned
      BY <1>1 DEF Side, Visible, Owned
    <2>2. View["new"] = {<<ViewLife(c), box[c].name>> : c \in Owned}
      BY DEF View
    <2>3. \A c \in Owned : <<ViewLife(c), box[c].name>> = Entry(box[c], marks[c])
      BY <1>2 DEF Owned
    <2> QED BY <2>1, <2>2, <2>3 DEF Entries
  <1>5. View = [s \in {"old", "new"} |-> View[s]]
    BY DEF View
  <1> QED BY <1>3, <1>4, <1>5

(* One container c changes, from b and its marks m to d and n.                       *)
Moved(c, b, m, d, n) ==
    /\ plugin' = plugin
    /\ b = box[c] /\ m = marks[c] /\ d = box'[c] /\ n = marks'[c]
    /\ \A e \in Ids \ {c} : box'[e] = box[e] /\ marks'[e] = marks[e]

(* No two workloads of a subject look the same.                                    *)
LEMMA LooksApart ==
  ASSUME ContractIInv, NEW c \in Ids, NEW e \in Ids, c # e, Side(c) = Side(e),
         Visible(c, box[c]), Visible(e, box[e])
  PROVE  Entry(box[c], marks[c]) # Entry(box[e], marks[e])
  <1>1. CASE Containerd
    <2>1. box[3].owner = "none"
      BY <1>1 DEF ContractIInv, Places, Placed
    <2> QED BY <2>1 DEF Side, Visible
  <1>2. CASE ~Containerd
    BY <1>2 DEF ContractIInv, NamesApart, Visible, Entry
  <1> QED BY <1>1, <1>2

LEMMA ViewStep ==
  ASSUME ContractIInv, Places', NEW c \in Ids, NEW b, NEW m, NEW d, NEW n, Moved(c, b, m, d, n)
  PROVE  LET s == Side(c) IN
         /\ (Visible(c, b) <=> Visible(c, d)) /\ (Visible(c, b) => Entry(b, m) = Entry(d, n))
              => View' = View
         /\ Visible(c, b) => Entry(b, m) \in View[s]
         /\ Visible(c, d) => Entry(d, n) \in View'[s]
         /\ Visible(c, b) /\ Visible(c, d) =>
                View' = [View EXCEPT ![s] = (@ \ {Entry(b, m)}) \cup {Entry(d, n)}]
         /\ Visible(c, b) /\ ~Visible(c, d) => View' = [View EXCEPT ![s] = @ \ {Entry(b, m)}]
         /\ ~Visible(c, b) /\ Visible(c, d) => View' = [View EXCEPT ![s] = @ \cup {Entry(d, n)}]
  <1> PICK z \in {"old", "new"} : z = Side(c)
    BY DEF Side
  <1> PICK v, w : v = Entry(b, m) /\ w = Entry(d, n)
    OBVIOUS
  <1> PICK R : R = [s \in {"old", "new"} |-> Entries(s, Ids \ {c})]
    OBVIOUS
  <1> PICK p, q : p \in BOOLEAN /\ q \in BOOLEAN /\ (p <=> Visible(c, b)) /\ (q <=> Visible(c, d))
    OBVIOUS
  <1>1. /\ View = [s \in {"old", "new"} |-> View[s]]
        /\ \A s \in {"old", "new"} : View[s] = Entries(s, Ids)
    BY ViewIs DEF ContractIInv, Places
  <1>2. /\ View' = [s \in {"old", "new"} |-> View'[s]]
        /\ \A s \in {"old", "new"} : View'[s] = Entries(s, Ids)'
    <2>1. (Places => /\ View = [s \in {"old", "new"} |-> View[s]]
                    /\ \A s \in {"old", "new"} : View[s] = Entries(s, Ids))'
      BY ViewIs, PTL
    <2> QED BY <2>1
  <1>3. \A s \in {"old", "new"} : Entries(s, Ids) = R[s] \cup (IF s = z /\ p THEN {v} ELSE {})
    <2>1. b = box[c] /\ m = marks[c]
      BY DEF Moved
    <2> QED BY <2>1 DEF Entries
  <1>4. \A s \in {"old", "new"} : Entries(s, Ids)' = R[s] \cup (IF s = z /\ q THEN {w} ELSE {})
    <2>1. /\ d = box'[c] /\ n = marks'[c] /\ plugin' = plugin
          /\ \A e \in Ids \ {c} : box'[e] = box[e] /\ marks'[e] = marks[e]
      BY DEF Moved
    <2>2. \A x, y : Entry(x, y)' = Entry(x, y)
      BY <2>1 DEF Entry, ShownAs, LifeIn
    <2>3. \A s \in {"old", "new"} : Entries(s, Ids \ {c})' = R[s]
      BY <2>1, <2>2 DEF Entries, Side, Visible
    <2>4. \A s \in {"old", "new"} :
             Entries(s, Ids)' = Entries(s, Ids \ {c})' \cup (IF s = z /\ q THEN {w} ELSE {})
      BY <2>1, <2>2 DEF Entries, Side, Visible
    <2> QED BY <2>3, <2>4
  <1>5. p => v \notin R[z]
    <2> SUFFICES ASSUME p, v \in R[z] PROVE FALSE
      OBVIOUS
    <2>1. PICK e \in Ids \ {c} : Side(e) = z /\ Visible(e, box[e]) /\ v = Entry(box[e], marks[e])
      BY DEF Entries
    <2> QED BY <2>1, LooksApart DEF Moved
  <1>6. /\ \A s \in {"old", "new"} : View[s] = R[s] \cup (IF s = z /\ p THEN {v} ELSE {})
        /\ \A s \in {"old", "new"} : View'[s] = R[s] \cup (IF s = z /\ q THEN {w} ELSE {})
    BY <1>1, <1>2, <1>3, <1>4
  <1> PICK V, W : V = View /\ W = View'
    OBVIOUS
  <1>7. /\ (p <=> q) /\ (p => v = w) => W = V
        /\ p => v \in V[z]
        /\ q => w \in W[z]
        /\ p /\ q => W = [V EXCEPT ![z] = (@ \ {v}) \cup {w}]
        /\ p /\ ~q => W = [V EXCEPT ![z] = @ \ {v}]
        /\ ~p /\ q => W = [V EXCEPT ![z] = @ \cup {w}]
    <2>1. /\ V = [s \in {"old", "new"} |-> V[s]] /\ W = [s \in {"old", "new"} |-> W[s]]
          /\ \A s \in {"old", "new"} : V[s] = R[s] \cup (IF s = z /\ p THEN {v} ELSE {})
          /\ \A s \in {"old", "new"} : W[s] = R[s] \cup (IF s = z /\ q THEN {w} ELSE {})
      BY <1>1, <1>2, <1>6
    <2>2. V[z] = R[z] \cup (IF p THEN {v} ELSE {}) /\ W[z] = R[z] \cup (IF q THEN {w} ELSE {})
      BY <2>1
    <2>3. \A s \in {"old", "new"} \ {z} : W[s] = V[s]
      BY <2>1
    <2>4. \A X : W[z] = X => W = [V EXCEPT ![z] = X]
      BY <2>1, <2>3
    <2>5. W[z] = V[z] => W = V
      BY <2>1, <2>3
    <2>6. CASE p /\ q
      <3>1. W[z] = (V[z] \ {v}) \cup {w} /\ v \in V[z] /\ w \in W[z] /\ (v = w => W[z] = V[z])
        BY <1>5, <2>2, <2>6
      <3> QED BY <2>4, <2>5, <2>6, <3>1
    <2>7. CASE p /\ ~q
      <3>1. W[z] = V[z] \ {v} /\ v \in V[z]
        BY <1>5, <2>2, <2>7
      <3> QED BY <2>4, <2>7, <3>1
    <2>8. CASE ~p /\ q
      <3>1. W[z] = V[z] \cup {w} /\ w \in W[z]
        BY <2>2, <2>8
      <3> QED BY <2>4, <2>8, <3>1
    <2>9. CASE ~p /\ ~q
      BY <2>2, <2>5, <2>9
    <2> QED BY <2>6, <2>7, <2>8, <2>9
  <1> QED BY <1>7

-----------------------------------------------------------------------------
(* Steps of the contract.                                                   *)

(* The change of one container that a request of operation op may make.             *)
Turns(op, c, b, m, d, n) ==
    \/ (Visible(c, b) <=> Visible(c, d)) /\ (Visible(c, b) => Entry(b, m) = Entry(d, n))
    \/ Visible(c, b) /\ Visible(c, d) /\ Contract!Permits(op, Entry(b, m), Entry(d, n))
    \/ /\ op = "create" /\ ~Visible(c, b) /\ Visible(c, d) /\ Side(c) = "new"
       /\ Entry(d, n) = <<"created", "app">> /\ \A v \in View["new"] : v[2] # "app"
    \/ /\ Visible(c, b) /\ ~Visible(c, d)
       /\ \/ op \in {"discard", "create"}
          \/ op = "remove" /\ ShownAs(b, m) \in Contract!Down \cup {"removing", "revived"}

LEMMA EffectStep ==
  ASSUME ContractIInv, Places', NEW c \in Ids, NEW b, NEW m, NEW d, NEW n, Moved(c, b, m, d, n),
         foreign' = foreign, NEW r \in Pending, r.sub = Side(c), Turns(r.op, c, b, m, d, n)
  PROVE  View' = View \/ Contract!Effect
  <1> PICK v, w, z : v = Entry(b, m) /\ w = Entry(d, n) /\ z = Side(c)
    OBVIOUS
  <1>1. v[1] = ShownAs(b, m)
    BY DEF Entry
  <1> PICK V, W : V = View /\ W = View'
    OBVIOUS
  <1> PICK p, q : p \in BOOLEAN /\ q \in BOOLEAN /\ (p <=> Visible(c, b)) /\ (q <=> Visible(c, d))
    OBVIOUS
  <1>2. /\ (p <=> q) /\ (p => v = w) => W = V
        /\ p => v \in V[z]
        /\ q => w \in W[z]
        /\ p /\ q => W = [V EXCEPT ![z] = (@ \ {v}) \cup {w}]
        /\ p /\ ~q => W = [V EXCEPT ![z] = @ \ {v}]
        /\ ~p /\ q => W = [V EXCEPT ![z] = @ \cup {w}]
    BY ViewStep
  <1>3. CASE p /\ q /\ Contract!Permits(r.op, v, w)
    BY <1>2, <1>3 DEF Contract!Effect
  <1>4. CASE r.op = "create" /\ ~p /\ q /\ z = "new" /\ w = <<"created", "app">> /\ \A x \in V["new"] : x[2] # "app"
    BY <1>2, <1>4 DEF Contract!Effect
  <1>5. CASE /\ p /\ ~q
             /\ \/ r.op \in {"discard", "create"}
                \/ r.op = "remove" /\ v[1] \in Contract!Down \cup {"removing", "revived"}
    BY <1>2, <1>5 DEF Contract!Effect
  <1>6. \/ (p <=> q) /\ (p => v = w)
        \/ p /\ q /\ Contract!Permits(r.op, v, w)
        \/ r.op = "create" /\ ~p /\ q /\ z = "new" /\ w = <<"created", "app">> /\ \A x \in V["new"] : x[2] # "app"
        \/ /\ p /\ ~q
           /\ \/ r.op \in {"discard", "create"}
              \/ r.op = "remove" /\ v[1] \in Contract!Down \cup {"removing", "revived"}
    BY <1>1 DEF Turns
  <1> QED BY <1>2, <1>3, <1>4, <1>5, <1>6

(* What happens to a container without a request.                                  *)
LEMMA WorldStep ==
  ASSUME ContractIInv, Places', NEW c \in Ids, NEW b, NEW m, NEW d, NEW n, Moved(c, b, m, d, n),
         foreign' = foreign, Visible(c, b), Visible(c, d), d.name = b.name,
         \/ ShownAs(b, m) \in Contract!Up /\ ShownAs(d, n) = "exited"
         \/ ShownAs(b, m) = "revived" /\ ShownAs(d, n) = "removing"
         \/ ShownAs(b, m) \in {"exited", "cleared"} /\ ShownAs(d, n) \in Contract!Up
  PROVE  Contract!World
  <1> PICK v, w, z : v = Entry(b, m) /\ w = Entry(d, n) /\ z = Side(c)
    OBVIOUS
  <1>1. v[1] = ShownAs(b, m) /\ w = <<ShownAs(d, n), v[2]>>
    BY DEF Entry
  <1>2. v \in View[z] /\ View' = [View EXCEPT ![z] = (@ \ {v}) \cup {w}] /\ z \in {"old", "new"}
    BY ViewStep DEF Side
  <1>3. ShownAs(d, n) \in Contract!Up \cup {"exited", "removing"}
    OBVIOUS
  <1> HIDE DEF ShownAs
  <1> QED BY <1>1, <1>2, <1>3 DEF Contract!World

SameTask == call'.op = call.op /\ call'.sub = call.sub /\ call'.from = call.from /\ call'.to = call.to

LEMMA TaskIs ==
  /\ SameTask => Task' = Task
  /\ call.op = "idle" <=> Task = Contract!Idle
  /\ call.op # "idle" => /\ Task.sub = call.sub /\ Task.from = call.from /\ Task.to = call.to
                         /\ Task.op = IF call.op = "resume" THEN "remove" ELSE call.op
  BY DEF Task, SameTask, Contract!Idle

LEMMA SeenIs ==
  ASSUME Watch
  PROVE  /\ call'.op = "idle" => seen' = Contract!Unseen
         /\ call.op # "idle" /\ SameTask =>
               /\ seen' = [at |-> seen.at \cup {LivesOf(View'[call.sub])},
                           free |-> seen.free \/ call.from \in Free']
               /\ seen'.at = seen.at \cup {LivesOf(View'[call.sub])}
               /\ seen'.free <=> seen.free \/ call.from \in Free'
         /\ call.op = "idle" /\ call'.op # "idle" =>
               seen' = [at |-> {LivesOf(View'[call'.sub])}, free |-> call'.from \in Free']
  <1>1. seen' = IF call'.op = "idle" THEN Unseen
               ELSE [at |-> {LivesOf(View'[call'.sub])}
                            \cup (IF call.op = "idle" THEN {} ELSE seen.at),
                     free |-> (call.op # "idle" /\ seen.free) \/ call'.from \in Free']
    BY DEF Watch
  <1>2. call'.op = "idle" => seen' = Contract!Unseen
    BY <1>1 DEF Unseen, Contract!Unseen
  <1>3. call.op # "idle" /\ SameTask =>
          seen' = [at |-> seen.at \cup {LivesOf(View'[call.sub])},
                   free |-> seen.free \/ call.from \in Free']
    BY <1>1 DEF SameTask
  <1>4. call.op = "idle" /\ call'.op # "idle" =>
               seen' = [at |-> {LivesOf(View'[call'.sub])}, free |-> call'.from \in Free']
    BY <1>1
  <1>5. call.op # "idle" /\ SameTask => /\ seen'.at = seen.at \cup {LivesOf(View'[call.sub])}
                                        /\ seen'.free <=> seen.free \/ call.from \in Free'
    <2> SUFFICES ASSUME call.op # "idle", SameTask
                 PROVE  /\ seen'.at = seen.at \cup {LivesOf(View'[call.sub])}
                        /\ seen'.free <=> seen.free \/ call.from \in Free'
      OBVIOUS
    <2> PICK A : A = seen.at \cup {LivesOf(View'[call.sub])}
      OBVIOUS
    <2> PICK f \in BOOLEAN : f <=> seen.free \/ call.from \in Free'
      OBVIOUS
    <2>1. f = (seen.free \/ call.from \in Free')
      OBVIOUS
    <2>2. seen' = [at |-> A, free |-> f]
      BY <1>3, <2>1
    <2> QED BY <2>2
  <1> QED BY <1>2, <1>3, <1>4, <1>5

LEMMA GoStep ==
  ASSUME Watch, SameTask, answer' = answer, Pending' \subseteq Pending \cup Contract!Late,
         \/ View' = View /\ foreign' = foreign
         \/ Contract!Effect \/ Contract!World \/ foreign' = foreign + 1
  PROVE  Contract!ContractNext
  <1>1. Task' = Task
    BY TaskIs
  <1>2. seen' = IF Task = Contract!Idle THEN Contract!Unseen
                ELSE [at |-> seen.at \cup {Contract!LivesOf(View'[Task.sub])},
                      free |-> seen.free \/ Task.from \in Free']
    BY TaskIs, SeenIs DEF SameTask, LivesOf, Contract!LivesOf
  <1>3. Contract!Go
    BY <1>1, <1>2 DEF Contract!Go, Contract!Foreign
  <1> QED BY <1>3 DEF Contract!ContractNext

LEMMA ReturnStep ==
  ASSUME Watch, call.op # "idle", call' = IdleCall, foreign' = foreign,
         View' = View \/ Contract!Effect,
         Contract!Holds(answer', seen.at \cup {LivesOf(View'[call.sub])},
                        seen.free \/ call.from \in Free'),
         answer' = "ok" /\ call.op = "rename" => \E v \in View'[call.sub] : v[2] = call.to,
         Pending' \subseteq (IF answer' = "error" THEN Contract!Late ELSE {r \in Pending : r.late})
  PROVE  Contract!ContractNext
  <1>1. Task # Contract!Idle /\ Task' = Contract!Idle
    <2>1. (call.op = "idle" <=> Task = Contract!Idle)'
      BY TaskIs, PTL
    <2> QED BY <2>1, TaskIs, IdleType
  <1>2. seen' = Contract!Unseen
    BY SeenIs, IdleType
  <1>3. Task.sub = call.sub /\ Task.from = call.from /\ Task.to = call.to
        /\ (Task.op = "rename" => call.op = "rename")
    BY TaskIs
  <1>4. Contract!LivesOf(View'[Task.sub]) = LivesOf(View'[call.sub])
    BY <1>3 DEF LivesOf, Contract!LivesOf
  <1>5. Contract!Return
    BY <1>1, <1>2, <1>3, <1>4 DEF Contract!Return
  <1> QED BY <1>5 DEF Contract!ContractNext

-----------------------------------------------------------------------------
(* containerd: the steps of the client, of which each changes the subject of its call     *)
(* from b and its marks m to d and n.                                            *)

Now(b, m) == IF b.record THEN {ShownAs(b, m)} ELSE {}

Later(d, n) == [at |-> seen.at \cup {Now(d, n)}, free |-> seen.free \/ call.from \in Free']

Turned(op, b, m, d, n) ==
    \/ (d.record <=> b.record) /\ (b.record => d.name = b.name /\ ShownAs(d, n) = ShownAs(b, m))
    \/ b.record /\ d.record /\ Contract!Permits(op, Entry(b, m), Entry(d, n))
    \/ op = "create" /\ ~b.record /\ d.record /\ Entry(d, n) = <<"created", "app">>
    \/ /\ b.record /\ ~d.record
       /\ \/ op \in {"discard", "create"}
          \/ op = "remove" /\ ShownAs(b, m) \in Contract!Down \cup {"removing", "revived"}

Sent == \/ wire' \subseteq wire
        \/ \E r : /\ wire' = wire \cup {r} /\ call.op \in Mutating
                  /\ PendingOp(r) = [op |-> call.op, sub |-> call.sub, late |-> TRUE]

GoesOn(d, n) == /\ SameTask /\ answer' = answer
                /\ Finds(call'.step, d) /\ ReadSoFar(call', Later(d, n))

Ends(d, n) == /\ call' = IdleCall
              /\ Contract!Holds(answer', seen.at \cup {Now(d, n)}, seen.free \/ call.from \in Free')
              /\ answer' # "error" => wire' \subseteq wire
              /\ answer' = "ok" /\ call.op = "rename" => d.record /\ d.name = call.to

ClientMove(b, m, d, n) ==
    /\ Placed(Subject, d, n) /\ Turned(Task.op, b, m, d, n) /\ Sent
    /\ GoesOn(d, n) \/ Ends(d, n)

LEMMA ClientFacts ==
  ASSUME ContractIInv, Containerd, call.op # "idle"
  PROVE  /\ RuntimesIInv /\ Types /\ Places /\ call \in CallType
         /\ Subject \in {1, 2} /\ call.sub \in {"old", "new"} /\ Side(Subject) = call.sub
         /\ FromOK(call)
         /\ ReadSoFar(call, seen) /\ Finds(call.step, box[Subject])
         /\ CallOK(call, box[Subject], marks[Subject])
         /\ box[Subject] \in BoxType /\ marks[Subject] \in SUBSET MarkNames
         /\ BoxOK(Subject, box[Subject], marks[Subject])
         /\ Placed(Subject, box[Subject], marks[Subject])
  <1>1. RuntimesIInv /\ Types /\ Places /\ call \in CallType /\ CallForm(call) /\ FromOK(call)
    BY DEF ContractIInv, RuntimesIInv, Types
  <1>2. Subject \in {1, 2} /\ call.sub \in {"old", "new"} /\ Side(Subject) = call.sub
    BY <1>1 DEF CallForm, Subject, Side
  <1>3. ReadSoFar(call, seen) /\ Finds(call.step, box[Subject])
    BY DEF ContractIInv
  <1>4. Placed(Subject, box[Subject], marks[Subject])
    BY <1>1, <1>2 DEF Places
  <1> QED BY <1>1, <1>2, <1>3, <1>4, SubjectFacts

(* The subject is visible when it has a record.                                    *)
LEMMA SubjectVisible ==
  ASSUME NEW c \in {1, 2}, NEW b \in BoxType, NEW m, BoxOK(c, b, m), Placed(c, b, m)
  PROVE  Visible(c, b) <=> b.record
  BY DEF Visible, BoxOK, Placed, BoxType, Owners

SubjectShown ==
    Containerd => \A e \in {1, 2} : (Visible(e, box[e]) <=> box[e].record) =>
        /\ View[Side(e)] = (IF box[e].record THEN {Entry(box[e], marks[e])} ELSE {})
        /\ LivesOf(View[Side(e)]) = Now(box[e], marks[e])

LEMMA SubjectLives == Places => SubjectShown
  <1> SUFFICES ASSUME Places, Containerd, NEW c \in {1, 2}, Visible(c, box[c]) <=> box[c].record
               PROVE  /\ View[Side(c)] = (IF box[c].record THEN {Entry(box[c], marks[c])} ELSE {})
                      /\ LivesOf(View[Side(c)]) = Now(box[c], marks[c])
    BY DEF SubjectShown
  <1>1. View[Side(c)] = Entries(Side(c), Ids)
    BY ViewIs DEF Side
  <1>2. box[3].owner = "none"
    BY DEF Places, Placed
  <1>3. {e \in Ids : Side(e) = Side(c) /\ Visible(e, box[e])} = IF box[c].record THEN {c} ELSE {}
    BY <1>2 DEF Side, Visible
  <1>4. Entries(Side(c), Ids) = IF box[c].record THEN {Entry(box[c], marks[c])} ELSE {}
    BY <1>3 DEF Entries
  <1>5. Entry(box[c], marks[c])[1] = ShownAs(box[c], marks[c])
    BY DEF Entry
  <1> QED BY <1>1, <1>4, <1>5 DEF LivesOf, Now

LEMMA PendingIs ==
  /\ call.op \in Mutating => [op |-> call.op, sub |-> call.sub, late |-> FALSE] \in Pending
  /\ call.op = "resume" => [op |-> "remove", sub |-> "old", late |-> FALSE] \in Pending
  /\ \A r \in wire : PendingOp(r) \in Pending
  /\ \A p \in Pending : \/ \E r \in wire : p = PendingOp(r)
                        \/ call.op \in Mutating /\ p = [op |-> call.op, sub |-> call.sub, late |-> FALSE]
                        \/ call.op = "resume" /\ p = [op |-> "remove", sub |-> "old", late |-> FALSE]
  BY DEF Pending, Mutating

LEMMA LateRecord ==
  \A x, y, z : [[op |-> x, sub |-> y, late |-> z] EXCEPT !.late = TRUE] = [op |-> x, sub |-> y, late |-> TRUE]
  <1> TAKE x, y, z
  <1> PICK p : p = [op |-> x, sub |-> y, late |-> z]
    OBVIOUS
  <1> PICK f, t : f = [p EXCEPT !.late = TRUE] /\ t = TRUE
    OBVIOUS
  <1>1. f = [p EXCEPT !.late = t]
    OBVIOUS
  <1>2. f = [op |-> x, sub |-> y, late |-> t]
    BY <1>1
  <1> QED BY <1>2

LEMMA OpenStep ==
  ASSUME plugin' = plugin, Sent
  PROVE  /\ SameTask => Pending' \subseteq Pending \cup Contract!Late
         /\ call' = IdleCall => Pending' \subseteq Contract!Late
         /\ call' = IdleCall /\ wire' \subseteq wire => Pending' \subseteq {r \in Pending : r.late}
  <1>1. \A r : PendingOp(r)' = PendingOp(r)
    BY DEF PendingOp
  <1>2. ASSUME NEW r \in wire
        PROVE  PendingOp(r) \in Contract!Late /\ PendingOp(r) \in Pending /\ PendingOp(r).late
    <2>1. PendingOp(r) \in Pending
      BY PendingIs
    <2>2. PICK x, y : PendingOp(r) = [op |-> x, sub |-> y, late |-> TRUE]
      BY DEF PendingOp
    <2>3. PendingOp(r).late /\ [PendingOp(r) EXCEPT !.late = TRUE] = PendingOp(r)
      BY <2>2, LateRecord
    <2> QED BY <2>1, <2>3 DEF Contract!Late
  <1>3. ASSUME NEW r \in wire'
        PROVE  PendingOp(r) \in Contract!Late
    <2>1. CASE r \in wire
      BY <1>2, <2>1
    <2>2. CASE /\ call.op \in Mutating
               /\ PendingOp(r) = [op |-> call.op, sub |-> call.sub, late |-> TRUE]
      <3>1. PICK p \in Pending : p = [op |-> call.op, sub |-> call.sub, late |-> FALSE]
        BY <2>2, PendingIs
      <3>2. [p EXCEPT !.late = TRUE] = PendingOp(r)
        BY <2>2, <3>1, LateRecord
      <3> QED BY <3>2 DEF Contract!Late
    <2> QED BY <2>1, <2>2 DEF Sent
  <1>4. Pending' = {PendingOp(r) : r \in wire'}
           \cup (IF call'.op \in Mutating THEN {[op |-> call'.op, sub |-> call'.sub, late |-> FALSE]}
                 ELSE IF call'.op = "resume" THEN {[op |-> "remove", sub |-> "old", late |-> FALSE]} ELSE {})
    BY <1>1 DEF Pending
  <1>5. call' = IdleCall => Pending' = {PendingOp(r) : r \in wire'}
    BY <1>4, IdleType DEF Mutating
  <1>6. SameTask => Pending' \subseteq {PendingOp(r) : r \in wire'} \cup Pending
    BY <1>4 DEF SameTask, Pending
  <1> QED BY <1>2, <1>3, <1>5, <1>6

LEMMA ClientMoveOK ==
  ASSUME ContractIInv, Containerd, call.op # "idle", SubjectStep, Watch,
         ClientMove(box[Subject], marks[Subject], box'[Subject], marks'[Subject])
  PROVE  ContractIInv' /\ Contract!ContractNext
  <1> PICK c, b, m, d, n : /\ c = Subject /\ b = box[Subject] /\ m = marks[Subject]
                           /\ d = box'[Subject] /\ n = marks'[Subject]
    OBVIOUS
  <1>0. c \in {1, 2} /\ c \in Ids /\ call.sub \in {"old", "new"} /\ Side(c) = call.sub /\ Types
    BY ClientFacts
  <1>1. plugin' = plugin /\ foreign' = foreign /\ Containerd' /\ BoxOK(c, d, n)
        /\ \A e \in Ids \ {c} : box'[e] = box[e] /\ marks'[e] = marks[e]
        /\ d \in BoxType
    BY <1>0 DEF SubjectStep, Apart
  <1>2. RuntimesIInv'
    BY SubjectStepOK DEF ContractIInv
  <1>3. ClientMove(b, m, d, n)
    OBVIOUS
  <1>4. Places'
    <2> SUFFICES ASSUME NEW e \in Ids PROVE Placed(e, box[e], marks[e])'
      BY DEF Places
    <2>1. Placed(e, box'[e], marks'[e])
      BY <1>1, <1>3 DEF ContractIInv, Places, ClientMove
    <2> QED BY <1>1, <2>1 DEF Placed
  <1>5. Moved(c, b, m, d, n)
    BY <1>1 DEF Moved
  <1>6. (Visible(c, b) <=> b.record) /\ (Visible(c, d) <=> d.record)
    <2>1. b \in BoxType /\ BoxOK(c, b, m) /\ Placed(c, b, m)
      BY ClientFacts
    <2>2. Placed(c, d, n)
      BY <1>3 DEF ClientMove
    <2> QED BY <1>0, <1>1, <2>1, <2>2, SubjectVisible
  <1>7. /\ View'[call.sub] = (IF d.record THEN {Entry(d, n)} ELSE {})
        /\ LivesOf(View'[call.sub]) = Now(d, n)
    <2>1. (Places => SubjectShown)'
      BY SubjectLives, PTL
    <2>2. \A e \in {1, 2} : (Visible(e, box'[e]) <=> box'[e].record) =>
                 /\ View'[Side(e)] = (IF box'[e].record THEN {Entry(box[e], marks[e])'} ELSE {})
                 /\ LivesOf(View'[Side(e)]) = Now(box[e], marks[e])'
      BY <1>1, <1>4, <2>1 DEF SubjectShown, Visible, Side, LivesOf
    <2>3. Entry(box[c], marks[c])' = Entry(d, n) /\ Now(box[c], marks[c])' = Now(d, n)
      BY <1>1 DEF Entry, Now, ShownAs, LifeIn
    <2> QED BY <1>0, <1>6, <2>2, <2>3
  <1>8. Sent
    BY <1>3 DEF ClientMove
  <1>9. View' = View \/ Contract!Effect
    <2>1. Turned(Task.op, b, m, d, n)
      BY <1>3 DEF ClientMove
    <2>2. \A v \in View["new"] : call.sub = "new" => b.record
      <3>1. View[Side(c)] = (IF b.record THEN {Entry(b, m)} ELSE {})
        BY <1>0, <1>6, SubjectLives DEF ContractIInv, SubjectShown
      <3> QED BY <1>0, <3>1
    <2>3. CASE (d.record <=> b.record) /\ (b.record => d.name = b.name /\ ShownAs(d, n) = ShownAs(b, m))
      <3>1. b.record => Entry(b, m) = Entry(d, n)
        BY <2>3 DEF Entry
      <3> QED BY <1>0, <1>4, <1>5, <1>6, <2>3, <3>1, ViewStep
    <2>4. CASE ~((d.record <=> b.record) /\ (b.record => d.name = b.name /\ ShownAs(d, n) = ShownAs(b, m)))
      <3>1. Task.op \in Mutating
        BY <2>1, <2>4 DEF Turned, Contract!Permits, Mutating
      <3>2. PICK r \in Pending : r.op = Task.op /\ r.sub = call.sub
        <4>1. CASE call.op = "resume"
          <5>1. call.sub = "old"
            BY <4>1 DEF ContractIInv, RuntimesIInv, CallForm, NewOps
          <5> QED BY <4>1, <5>1, TaskIs, PendingIs
        <4>2. CASE call.op # "resume"
          BY <3>1, <4>2, TaskIs, PendingIs
        <4> QED BY <4>1, <4>2
      <3>3. Task.op = "create" => call.sub = "new"
        BY TaskIs DEF ContractIInv, RuntimesIInv, CallForm, NewOps
      <3>4. Turns(r.op, c, b, m, d, n)
        BY <1>0, <1>6, <2>1, <2>2, <2>4, <3>2, <3>3 DEF Turns, Turned
      <3> QED BY <1>0, <1>1, <1>4, <1>5, <3>2, <3>4, EffectStep
    <2> QED BY <2>3, <2>4
  <1>10. CASE GoesOn(d, n)
    <2>1. SameTask /\ answer' = answer /\ Finds(call'.step, d) /\ ReadSoFar(call', Later(d, n))
      BY <1>10 DEF GoesOn
    <2>2. Subject' = Subject
      BY <2>1 DEF Subject, SameTask
    <2>3. seen' = Later(d, n)
      BY <1>7, <2>1, SeenIs DEF Later
    <2>4. ContractIInv'
      <3>1. ReadSoFar(call', seen') /\ Finds(call'.step, box'[Subject'])
        BY <2>1, <2>2, <2>3
      <3>2. FromOK(call')
        BY <2>1 DEF ContractIInv, FromOK, SameTask
      <3> QED BY <1>1, <1>2, <1>4, <3>1, <3>2 DEF ContractIInv
    <2>5. Contract!ContractNext
      BY <1>1, <1>8, <1>9, <2>1, OpenStep, GoStep
    <2> QED BY <2>4, <2>5
  <1>11. CASE Ends(d, n)
    <2>1. /\ call' = IdleCall /\ (answer' # "error" => wire' \subseteq wire)
          /\ Contract!Holds(answer', seen.at \cup {Now(d, n)}, seen.free \/ call.from \in Free')
          /\ answer' = "ok" /\ call.op = "rename" => d.record /\ d.name = call.to
      BY <1>11 DEF Ends
    <2>2. ContractIInv'
      <3>1. ReadSoFar(call', seen') /\ Finds(call'.step, box'[Subject'])
        BY <2>1, IdleType DEF ReadSoFar, Finds
      <3>2. FromOK(call')
        BY <2>1, IdleType DEF FromOK, NewOps
      <3> QED BY <1>1, <1>2, <1>4, <3>1, <3>2 DEF ContractIInv
    <2>3. answer' = "ok" /\ call.op = "rename" => \E v \in View'[call.sub] : v[2] = call.to
      <3>1. Entry(d, n)[2] = d.name
        BY DEF Entry
      <3> QED BY <1>7, <2>1, <3>1
    <2>4. Pending' \subseteq (IF answer' = "error" THEN Contract!Late ELSE {r \in Pending : r.late})
      BY <1>1, <1>8, <2>1, OpenStep
    <2>5. Contract!Holds(answer', seen.at \cup {LivesOf(View'[call.sub])}, seen.free \/ call.from \in Free')
      BY <1>7, <2>1
    <2>6. Contract!ContractNext
      BY <1>1, <1>9, <2>1, <2>3, <2>4, <2>5, ReturnStep
    <2> QED BY <2>2, <2>6
  <1> QED BY <1>3, <1>10, <1>11 DEF ClientMove

-----------------------------------------------------------------------------
(* What the steps of the client have in common.                                   *)

Changed == ClientMove(box[Subject], marks[Subject], box'[Subject], marks'[Subject])

LEMMA ErrorEnds ==
  ASSUME NEW d, NEW n, Return("error")
  PROVE  Ends(d, n)
  BY DEF Return, Ends, Contract!Holds

(* A step after which the call knows no more than before.                           *)
Telling == {"decode", "name", "complete", "start.label"}

LEMMA StepGoesOn ==
  ASSUME NEW d, NEW n, NEW x, SameTask, answer' = answer, call'.step = x, x \notin Telling,
         Finds(x, d)
  PROVE  GoesOn(d, n)
  BY DEF GoesOn, ReadSoFar, Telling

LEMMA ContinueGoesOn ==
  ASSUME call \in CallType, NEW x, Continue(x)
  PROVE  SameTask /\ answer' = answer /\ call'.step = x
         /\ call'.named = call.named /\ call'.owned = call.owned
  BY DEF Continue, SameTask, CallType

LEMMA LooksSame ==
  ASSUME NEW op, NEW b, NEW m, NEW d, NEW n, d.record <=> b.record, d.name = b.name,
         d.task = b.task, d.restart <=> b.restart, Intact(d) <=> Intact(b),
         "revived" \in n <=> "revived" \in m
  PROVE  Turned(op, b, m, d, n)
  <1>1. b.record => ShownAs(d, n) = ShownAs(b, m)
    BY DEF ShownAs, LifeIn, Intact
  <1> QED BY <1>1 DEF Turned

LEMMA ReadMoves ==
  ASSUME ContractIInv, Containerd, call.op # "idle", Read,
         GoesOn(box[Subject], marks[Subject]) \/ Ends(box[Subject], marks[Subject])
  PROVE  Changed
  <1> PICK b, m : b = box[Subject] /\ m = marks[Subject]
    OBVIOUS
  <1>1. box'[Subject] = b /\ marks'[Subject] = m /\ wire' = wire
    BY DEF Read
  <1>2. Placed(Subject, b, m)
    BY ClientFacts
  <1>3. Turned(Task.op, b, m, b, m)
    BY LooksSame
  <1> QED BY <1>1, <1>2, <1>3 DEF Changed, ClientMove, Sent

LEMMA ReadFails ==
  ASSUME ContractIInv, Containerd, call.op # "idle", Read, Return("error")
  PROVE  Changed
  BY ReadMoves, ErrorEnds

LEMMA ReadContinues ==
  ASSUME ContractIInv, Containerd, call.op # "idle", Read, NEW x, Continue(x), x \notin Telling,
         Finds(x, box[Subject])
  PROVE  Changed
  BY ClientFacts, ContinueGoesOn, StepGoesOn, ReadMoves

(* A life that is shown tells what is read.                                         *)
LEMMA LifeShown ==
  ASSUME NEW b \in BoxType, NEW m, b.record, Intact(b) \/ ~Containerd
  PROVE  Shows(LifeIn(b), ShownAs(b, m))
  BY DEF Shows, ShownAs, LifeIn, Intact, BoxType, Tasks

LEMMA LifeIs == \A c \in Ids : Life(c) = LifeIn(box[c])
  BY DEF Life, LifeIn

LEMMA SeenHolds ==
  ASSUME NEW a, NEW at, NEW freed, WasSeen(a, at)
  PROVE  Contract!Holds(a, at, freed)
  BY DEF WasSeen, Shows, Contract!Holds

LEMMA SeenMore ==
  ASSUME NEW a, NEW at, NEW V, WasSeen(a, at) \/ \E life \in V : Shows(a, life)
  PROVE  WasSeen(a, at \cup {V})
  BY DEF WasSeen

-----------------------------------------------------------------------------
(* containerd: reading.                                                     *)

LEMMA ListMoves ==
  ASSUME ContractIInv, ListCandidates
  PROVE  Changed
  <1>0. Containerd /\ call.op \in NewOps /\ call.op # "idle" /\ Read
    BY DEF ListCandidates, At, FailRead, NewOps
  <1> PICK b, m : b = box[Subject] /\ m = marks[Subject]
    OBVIOUS
  <1>1. CASE Return("error")
    BY <1>0, <1>1, ReadFails
  <1>2. CASE ~Return("error")
    <2>1. /\ call' = [call EXCEPT !.step = "decode",
                       !.named = IF Holders("app") = {} THEN Missing
                                 ELSE Snapshot(CHOOSE c \in Holders("app") : TRUE),
                       !.owned = IF Owned = {} THEN Missing
                                 ELSE Snapshot(CHOOSE c \in Owned : TRUE)]
          /\ answer' = answer
      BY <1>2 DEF ListCandidates, FailRead
    <2> PICK s, t : /\ s = IF Holders("app") = {} THEN Missing
                                 ELSE Snapshot(CHOOSE c \in Holders("app") : TRUE)
                    /\ t = IF Owned = {} THEN Missing
                                 ELSE Snapshot(CHOOSE c \in Owned : TRUE)
      OBVIOUS
    <2>2. call' = [call EXCEPT !.step = "decode", !.named = s, !.owned = t]
      BY <2>1
    <2>3. SameTask /\ call'.step = "decode" /\ call'.named = s /\ call'.owned = t
      BY <1>0, <2>2, ClientFacts DEF SameTask, CallType
    <2>4. /\ Types /\ Subject = 2 /\ call.from = "app"
          /\ b \in BoxType /\ b = box[2] /\ (Visible(2, b) <=> b.record)
          /\ box[1].owner # "tx" /\ box[3].owner = "none"
      <3>1. Types /\ Subject = 2 /\ call.from = "app"
        BY <1>0, ClientFacts, SubjectIs DEF FromOK, RuntimesIInv
      <3>2. b \in BoxType /\ BoxOK(2, b, m) /\ Placed(2, b, m)
        BY <1>0, <3>1, ClientFacts
      <3>3. box[1].owner # "tx" /\ box[3].owner = "none"
        BY <1>0, ClientFacts DEF Places, Placed
      <3> QED BY <3>1, <3>2, <3>3, SubjectVisible
    <2>5. b.record <=> 2 \in Owned
      BY <2>4 DEF Owned, Visible
    <2>6. Owned \subseteq {2}
      BY <2>4 DEF Owned
    <2>7. /\ s.id = 0 => Holders("app") = {}
          /\ s.id # 0 => (s.owner = "tx" <=> s.id = 2)
      <3>1. CASE Holders("app") = {}
        BY <3>1, MissingType
      <3>2. CASE Holders("app") # {}
        <4>1. PICK c \in Ids : c = (CHOOSE e \in Holders("app") : TRUE) /\ box[c].record
          BY <3>2 DEF Holders
        <4>2. s = Snapshot(c)
          BY <3>2, <4>1
        <4>3. s.id = c /\ s.owner = box[c].owner
          BY <2>4, <4>2, SnapshotOK
        <4>4. box[c].owner = "tx" <=> c = 2
          <5>1. box[c].record /\ c \in {1, 2, 3}
            BY <4>1
          <5>2. box[2].record => box[2].owner = "tx"
            BY <2>4 DEF Visible
          <5> QED BY <2>4, <5>1, <5>2
        <4>5. c # 0
          OBVIOUS
        <4> QED BY <4>3, <4>4, <4>5
      <3> QED BY <3>1, <3>2
    <2>8. /\ t.id = 0 => Owned = {}
          /\ t.id # 0 => t.owner = "tx" /\ t.id = 2
      <3>1. CASE Owned = {}
        BY <3>1, MissingType
      <3>2. CASE Owned # {}
        <4>1. PICK c \in Ids : c = (CHOOSE e \in Owned : TRUE) /\ box[c].owner = "tx" /\ c = 2
          BY <2>6, <3>2 DEF Owned
        <4>2. t = Snapshot(c)
          BY <3>2, <4>1
        <4>3. t.id = c /\ t.owner = box[c].owner
          BY <2>4, <4>2, SnapshotOK
        <4>4. box[c].owner = "tx" /\ c = 2
          BY <4>1
        <4> QED BY <4>3, <4>4
      <3> QED BY <3>1, <3>2
    <2>9. Holders("app") = {} => Later(b, m).free
      <3>1. Holders("app")' = Holders("app")
        BY <1>0 DEF Read, Holders
      <3>2. Holders("app") = {} => "app" \in Free'
        BY <3>1 DEF Free, Names
      <3> QED BY <2>4, <3>2 DEF Later
    <2>10. Owned = {} => {} \in Later(b, m).at
      BY <2>5 DEF Later, Now
    <2>11. ReadSoFar(call', Later(b, m))
      BY <2>3, <2>7, <2>8, <2>9, <2>10 DEF ReadSoFar
    <2>12. Finds(call'.step, b)
      BY <2>3 DEF Finds
    <2> QED BY <1>0, <2>1, <2>3, <2>11, <2>12, ReadMoves DEF GoesOn
  <1> QED BY <1>1, <1>2

LEMMA ReadAnswers ==
  ASSUME ContractIInv, Containerd, call.op # "idle", Read, NEW a, Return(a),
         Contract!Holds(a, seen.at \cup {Now(box[Subject], marks[Subject])},
                        seen.free \/ call.from \in Free'),
         a # "ok"
  PROVE  Changed
  <1>1. Ends(box[Subject], marks[Subject])
    BY DEF Ends, Return, Read
  <1> QED BY <1>1, ReadMoves

LEMMA DecodeMoves ==
  ASSUME ContractIInv, DecodeCandidates
  PROVE  Changed
  <1>0. Containerd /\ call.op \in NewOps /\ call.op # "idle" /\ Read /\ call.step = "decode"
    BY DEF DecodeCandidates, At, FailRead, NewOps
  <1>1. /\ call \in CallType /\ Types /\ Subject = 2 /\ box[2] \in BoxType /\ ReadSoFar(call, seen)
        /\ Task.op = call.op
    BY <1>0, ClientFacts, SubjectIs, TaskIs DEF RuntimesIInv, NewOps
  <1> PICK s : s = SelectCandidate
    OBVIOUS
  <1> PICK life : life = IF s.id = 0 THEN "none" ELSE Life(s.id)
    OBVIOUS
  <1>2. /\ call.named.id = 0 => seen.free
        /\ call.owned.id = 0 => {} \in seen.at
        /\ call.owned.id # 0 => call.owned.owner = "tx" /\ call.owned.id = TxId
        /\ call.named.id # 0 => (call.named.owner = "tx" <=> call.named.id = TxId)
    BY <1>0, <1>1 DEF ReadSoFar
  <1>3. CASE Return("error")
    BY <1>0, <1>3, ReadFails
  <1>4. CASE ~Return("error")
    <2>1. /\ CandidatesConsistent
          /\ \A c \in {call.named.id, call.owned.id} \ {0} : box[c].record /\ Decodable(c)
      BY <1>4, Zenon DEF DecodeCandidates, FailRead
    <2>2. CASE call.op = "probe"
      <3>1. Return(IF s.id = 0 THEN "missing" ELSE IF s.owner = "tx" THEN life ELSE "other")
        BY <1>4, <2>2 DEF DecodeCandidates, FailRead
      <3>2. CASE s.id = 0
        <4>1. call.named.id = 0 /\ call.owned.id = 0
          BY <3>2 DEF SelectCandidate
        <4>2. Contract!Holds("missing", seen.at \cup {Now(box[Subject], marks[Subject])},
                             seen.free \/ call.from \in Free')
          BY <1>2, <4>1 DEF Contract!Holds
        <4>3. Return("missing")
          BY <3>1, <3>2
        <4> QED BY <1>0, <4>2, <4>3, ReadAnswers
      <3>3. CASE s.id # 0 /\ s.owner = "tx"
        <4>1. s.id = 2 /\ s.id \in {call.named.id, call.owned.id} \ {0}
          BY <1>2, <3>3 DEF SelectCandidate
        <4>2. box[2].record /\ Decodable(2)
          BY <2>1, <4>1
        <4>3. Intact(box[2])
          <5>1. box[2].owner # "none"
            BY <1>0, <1>1, <4>2, ClientFacts DEF BoxOK
          <5> QED BY <4>2, <5>1 DEF Decodable, Intact
        <4>4. life = LifeIn(box[2])
          BY <3>3, <4>1, LifeIs
        <4>5. Shows(life, ShownAs(box[2], marks[2]))
          BY <1>1, <4>2, <4>3, <4>4, LifeShown
        <4>6. WasSeen(life, seen.at \cup {Now(box[Subject], marks[Subject])})
          BY <1>1, <4>2, <4>5 DEF WasSeen, Now
        <4>7. Return(life) /\ life # "ok"
          <5>1. life # "ok"
            BY <1>1, <4>4 DEF LifeIn, BoxType, Tasks
          <5> QED BY <3>1, <3>3, <5>1
        <4> QED BY <1>0, <4>6, <4>7, SeenHolds, ReadAnswers
      <3>4. CASE s.id # 0 /\ s.owner # "tx"
        <4>1. call.owned.id = 0
          BY <1>2, <2>1, <3>4 DEF SelectCandidate, CandidatesConsistent
        <4>2. Contract!Holds("other", seen.at \cup {Now(box[Subject], marks[Subject])},
                             seen.free \/ call.from \in Free')
          BY <1>2, <4>1 DEF Contract!Holds
        <4>3. Return("other")
          BY <3>1, <3>4
        <4> QED BY <1>0, <4>2, <4>3, ReadAnswers
      <3> QED BY <3>2, <3>3, <3>4
    <2>3. CASE call.op # "probe"
      <3>1. \/ Continue("start.get") \/ Continue("rm.get")
            \/ call' = [call EXCEPT !.step = "mk.lease", !.owned.id = TxId] /\ answer' = answer
        BY <1>0, <1>4, <2>3 DEF DecodeCandidates, FailRead, NewOps
      <3>2. CASE Continue("start.get") \/ Continue("rm.get")
        <4>1. PICK x \in {"start.get", "rm.get"} : Continue(x)
          BY <3>2
        <4>2. x \notin Telling /\ Finds(x, box[Subject])
          BY DEF Telling, Finds
        <4> QED BY <1>0, <4>1, <4>2, ReadContinues
      <3>3. CASE call' = [call EXCEPT !.step = "mk.lease", !.owned.id = TxId] /\ answer' = answer
        <4>1. SameTask /\ call'.step = "mk.lease"
          BY <1>1, <3>3 DEF SameTask, CallType
        <4>2. "mk.lease" \notin Telling /\ Finds("mk.lease", box[Subject])
          BY DEF Telling, Finds
        <4> QED BY <1>0, <3>3, <4>1, <4>2, StepGoesOn, ReadMoves
      <3> QED BY <3>1, <3>2, <3>3
    <2> QED BY <2>2, <2>3
  <1> QED BY <1>3, <1>4

LEMMA ReadExistingMoves ==
  ASSUME ContractIInv, ReadExisting
  PROVE  Changed
  <1>0. Containerd /\ call.op # "idle" /\ Read
    BY DEF ReadExisting, At, FailRead, Refuse
  <1>1. \/ Return("error")
        \/ \E x \in {"stop.get", "rename", "rm.get", "start.get"} : Continue(x)
    BY DEF ReadExisting, FailRead, Refuse, At
  <1>2. CASE Return("error")
    BY <1>0, <1>2, ReadFails
  <1>3. ASSUME NEW x \in {"stop.get", "rename", "rm.get", "start.get"}, Continue(x)
        PROVE  Changed
    <2>1. x \notin Telling /\ Finds(x, box[Subject])
      BY DEF Telling, Finds
    <2> QED BY <1>0, <1>3, <2>1, ReadContinues
  <1> QED BY <1>1, <1>2, <1>3

(* The predecessor of a call about it.                                            *)
LEMMA OldFacts ==
  ASSUME ContractIInv, Containerd, call.op \notin NewOps \cup {"idle"}
  PROVE  /\ Subject = 1 /\ box[1] \in BoxType /\ Types /\ call \in CallType
         /\ box[1].record => box[1].owner # "none"
         /\ ~box[1].record => box[1].parts = {}
         /\ call.from \in {"app", "backup"} /\ ReadSoFar(call, seen)
         /\ Placed(1, box[1], marks[1])
  BY ClientFacts, SubjectIs DEF RuntimesIInv, BoxOK, Placed, FromOK

LEMMA ProbeExistingMoves ==
  ASSUME ContractIInv, ProbeExisting
  PROVE  Changed
  <1>0. Containerd /\ call.op \in {"probeStop", "probeRename"} /\ call.op # "idle" /\ Read
    BY DEF ProbeExisting, At, FailRead
  <1>1. /\ Subject = 1 /\ box[1] \in BoxType /\ Types /\ call \in CallType
        /\ box[1].record => box[1].owner # "none"
    BY <1>0, OldFacts DEF NewOps
  <1> PICK b, m : b = box[1] /\ m = marks[1]
    OBVIOUS
  <1>2. CASE Return("error")
    BY <1>0, <1>2, ReadFails
  <1>3. CASE ~Return("error")
    <2>1. Readable(1)
      BY <1>3 DEF ProbeExisting, FailRead
    <2>2. CASE ~b.record
      <3>1. WorkloadOf(1).id = 0
        BY <2>2, MissingType DEF WorkloadOf
      <3>2. Return("missing")
        BY <1>3, <2>1, <3>1 DEF ProbeExisting, FailRead
      <3>3. Now(box[Subject], marks[Subject]) = {}
        BY <1>1, <2>2 DEF Now
      <3>4. Task.op \notin {"probe", "probeRemove"}
        BY <1>0, TaskIs
      <3>5. Contract!Holds("missing", seen.at \cup {Now(box[Subject], marks[Subject])},
                           seen.free \/ call.from \in Free')
        BY <3>3, <3>4 DEF Contract!Holds
      <3> QED BY <1>0, <3>2, <3>5, ReadAnswers
    <2>3. CASE b.record
      <3> PICK s : s = Snapshot(1)
        OBVIOUS
      <3>1. WorkloadOf(1) = s /\ s.id = 1 /\ s.life = LifeIn(b) /\ s \in SnapshotType
        BY <1>1, <2>3, SnapshotOK, LifeIs DEF WorkloadOf
      <3>2. Intact(b)
        BY <1>1, <2>1, <2>3 DEF Readable, Decodable, Intact
      <3>3. Shows(s.life, ShownAs(b, m))
        BY <1>0, <1>1, <2>3, <3>1, <3>2, LifeShown
      <3>4. WasSeen(s.life, seen.at \cup {Now(box[Subject], marks[Subject])})
        BY <1>1, <2>3, <3>3 DEF WasSeen, Now
      <3>5. \/ call' = [call EXCEPT !.step = "name", !.owned = s] /\ answer' = answer /\ call.op = "probeRename"
            \/ Return(s.life)
        <4> PICK t : t = WorkloadOf(Predecessor)
          OBVIOUS
        <4>1. t = s /\ s.id # 0
          BY <3>1
        <4>2. \/ call.op = "probeRename" /\ t.id # 0 /\ call' = [call EXCEPT !.step = "name", !.owned = t] /\ answer' = answer
              \/ ~(call.op = "probeRename" /\ t.id # 0) /\ Return(IF t.id = 0 THEN "missing" ELSE t.life)
          BY <1>3, <2>1 DEF ProbeExisting, FailRead
        <4> QED BY <4>1, <4>2
      <3>6. CASE Return(s.life)
        <4>1. s.life # "ok"
          BY <1>1, <3>1 DEF LifeIn, BoxType, Tasks
        <4> QED BY <1>0, <3>4, <3>6, <4>1, SeenHolds, ReadAnswers
      <3>7. CASE call' = [call EXCEPT !.step = "name", !.owned = s] /\ answer' = answer /\ call.op = "probeRename"
        <4>1. SameTask /\ call'.step = "name" /\ call'.owned = s /\ call'.op = "probeRename"
          BY <1>1, <3>7 DEF SameTask, CallType
        <4>2. ReadSoFar(call', Later(box[Subject], marks[Subject]))
          BY <3>4, <4>1 DEF ReadSoFar, Later
        <4>3. Finds(call'.step, box[Subject])
          BY <4>1 DEF Finds
        <4> QED BY <1>0, <3>7, <4>1, <4>2, <4>3, ReadMoves DEF GoesOn
      <3> QED BY <3>5, <3>6, <3>7
    <2> QED BY <2>2, <2>3
  <1> QED BY <1>2, <1>3

LEMMA ProbeRemovedMoves ==
  ASSUME ContractIInv, ProbeRemoved
  PROVE  Changed
  <1>0. Containerd /\ call.op \in {"probeRemove", "resume"} /\ call.op # "idle" /\ Read
    BY DEF ProbeRemoved, At, FailRead
  <1>1. /\ Subject = 1 /\ box[1] \in BoxType /\ call \in CallType /\ Placed(1, box[1], marks[1])
    BY <1>0, OldFacts DEF NewOps
  <1> PICK b, m : b = box[1] /\ m = marks[1]
    OBVIOUS
  <1>2. CASE Return("error")
    BY <1>0, <1>2, ReadFails
  <1>3. CASE Continue("rm.get")
    <2>1. "rm.get" \notin Telling /\ Finds("rm.get", box[Subject])
      BY DEF Telling, Finds
    <2> QED BY <1>0, <1>3, <2>1, ReadContinues
  <1>4. CASE b.record /\ call.op = "probeRemove" /\ Return(RemovalLife)
    <2>1. /\ b.task \in {"none", "created", "exited"} => RemovalLife = "removing"
          /\ b.task \notin {"none", "created", "exited"} => RemovalLife = b.task
      BY DEF RemovalLife
    <2>2. RemovalLife # "ok"
      BY <1>1, <2>1 DEF BoxType, Tasks
    <2> PICK life : life = ShownAs(b, m)
      OBVIOUS
    <2>3. CASE b.task \in {"none", "created", "exited"}
      <3>1. life \in {"created", "cleared", "exited", "removing"}
        BY <1>4, <2>3 DEF ShownAs, LifeIn
      <3>2. RemovalLife = life \/ (RemovalLife = "removing" /\ life \in Contract!Down)
        BY <2>1, <2>3, <3>1 DEF Contract!Down
      <3>3. life \in Now(box[Subject], marks[Subject])
        BY <1>1, <1>4 DEF Now
      <3>4. Contract!Holds(RemovalLife, seen.at \cup {Now(box[Subject], marks[Subject])},
                           seen.free \/ call.from \in Free')
        BY <3>2, <3>3 DEF Contract!Holds
      <3> QED BY <1>0, <1>4, <2>2, <3>4, ReadAnswers
    <2>4. CASE b.task \notin {"none", "created", "exited"}
      <3>1. b.task \in {"running", "paused"}
        BY <1>1, <2>4 DEF BoxType, Tasks
      <3>2. Intact(b) \/ "revived" \in m
        BY <1>0, <1>1, <1>4, <3>1 DEF Placed
      <3>3. Shows(b.task, life)
        BY <1>4, <3>1, <3>2 DEF Shows, ShownAs, LifeIn, Intact
      <3>4. WasSeen(RemovalLife, seen.at \cup {Now(box[Subject], marks[Subject])})
        BY <1>1, <1>4, <2>1, <2>4, <3>3 DEF WasSeen, Now
      <3> QED BY <1>0, <1>4, <2>2, <3>4, SeenHolds, ReadAnswers
    <2> QED BY <2>3, <2>4
  <1>5. CASE ~b.record /\ call.op = "probeRemove" /\ Continue("name")
    <2>1. /\ SameTask /\ answer' = answer /\ call'.step = "name"
      BY <1>1, <1>5, ContinueGoesOn
    <2>2. Now(box[Subject], marks[Subject]) = {}
      BY <1>1, <1>5 DEF Now
    <2>3. call'.op # "probeRename"
      BY <1>5, <2>1 DEF SameTask
    <2>4. ReadSoFar(call', Later(box[Subject], marks[Subject]))
      BY <2>1, <2>2, <2>3 DEF ReadSoFar, Later
    <2>5. Finds(call'.step, box[Subject])
      BY <2>1 DEF Finds
    <2> QED BY <1>0, <2>1, <2>4, <2>5, ReadMoves DEF GoesOn
  <1> QED BY <1>0, <1>2, <1>3, <1>4, <1>5 DEF ProbeRemoved, FailRead

LEMMA ProbeNameMoves ==
  ASSUME ContractIInv, ProbeName \/ RemovalComplete
  PROVE  Changed
  <1>0. Containerd /\ call.op \in {"probeRemove", "probeRename"} /\ call.op # "idle" /\ Read
    BY DEF ProbeName, RemovalComplete, At, FailRead
  <1>1. /\ Subject = 1 /\ call \in CallType /\ call.from \in {"app", "backup"} /\ ReadSoFar(call, seen)
        /\ Task.op = call.op
    BY <1>0, OldFacts, TaskIs DEF NewOps
  <1> PICK b, m : b = box[Subject] /\ m = marks[Subject]
    OBVIOUS
  <1>2. CASE Return("error")
    BY <1>0, <1>2, ReadFails
  <1>3. CASE ProbeName /\ ~Return("error")
    <2>1. NameAvailable(call.from, {}) /\ call.step = "name"
      BY <1>3 DEF ProbeName, FailRead, At
    <2>2. call.from \in Free'
      <3>2. \A x : {c \in Ids : box'[c].record /\ box'[c].name = x} = Holders(x)
        BY <1>0 DEF Read, Holders
      <3>3. Free' = {x \in Names : {c \in Ids : box'[c].record /\ box'[c].name = x} = {}}
        BY DEF Free, Holders
      <3> QED BY <1>1, <2>1, <3>2, <3>3 DEF NameAvailable, Names
    <2>3. CASE call.op = "probeRename"
      <3>1. WasSeen(call.owned.life, seen.at)
        BY <1>1, <2>1, <2>3 DEF ReadSoFar
      <3>2. Return(call.owned.life)
        BY <1>3, <2>1, <2>3 DEF ProbeName, FailRead
      <3>3. call.owned.life # "ok"
        BY <1>1 DEF CallType, SnapshotType, Lives
      <3>4. WasSeen(call.owned.life, seen.at \cup {Now(box[Subject], marks[Subject])})
        BY <3>1, SeenMore
      <3> QED BY <1>0, <3>2, <3>3, <3>4, SeenHolds, ReadAnswers
    <2>4. CASE call.op # "probeRename"
      <3>1. Continue("complete")
        BY <1>3, <2>1, <2>4 DEF ProbeName, FailRead
      <3>2. /\ SameTask /\ answer' = answer /\ call'.step = "complete"
        BY <1>1, <3>1, ContinueGoesOn
      <3>3. {} \in seen.at
        BY <1>1, <2>1, <2>4 DEF ReadSoFar
      <3>4. ReadSoFar(call', Later(b, m))
        BY <2>2, <3>2, <3>3 DEF ReadSoFar, Later
      <3>5. Finds(call'.step, b)
        BY <3>2 DEF Finds
      <3> QED BY <1>0, <3>2, <3>4, <3>5, ReadMoves DEF GoesOn
    <2> QED BY <2>3, <2>4
  <1>4. CASE RemovalComplete /\ ~Return("error")
    <2>1. call.step = "complete" /\ Return("missing")
      BY <1>4 DEF RemovalComplete, FailRead, At
    <2>2. {} \in seen.at /\ seen.free
      BY <1>1, <2>1 DEF ReadSoFar
    <2>3. Contract!Holds("missing", seen.at \cup {Now(box[Subject], marks[Subject])},
                         seen.free \/ call.from \in Free')
      BY <2>2 DEF Contract!Holds
    <2> QED BY <1>0, <2>1, <2>3, ReadAnswers
  <1> QED BY <1>2, <1>3, <1>4

-----------------------------------------------------------------------------
(* containerd: requests that change the subject.                              *)

LEMMA HavingIs ==
  ASSUME NEW b \in BoxType, NEW P
  PROVE  LET d == Having(b, P) IN
         /\ d.parts = P /\ d.record = b.record /\ d.task = b.task /\ d.restart = b.restart
         /\ d.owner = b.owner /\ d.name = b.name
  BY DEF Having, BoxType

LEMMA DoingIs ==
  ASSUME NEW b \in BoxType, NEW t
  PROVE  LET d == Doing(b, t) IN
         /\ d.parts = b.parts /\ d.record = b.record /\ d.task = t /\ d.restart = b.restart
         /\ d.owner = b.owner /\ d.name = b.name
  BY DEF Doing, BoxType

LEMMA ToldIs ==
  ASSUME NEW b \in BoxType, NEW r \in BOOLEAN
  PROVE  LET d == Told(b, r) IN
         /\ d.parts = b.parts /\ d.record = b.record /\ d.task = b.task /\ d.restart = r
         /\ d.owner = b.owner /\ d.name = b.name
  BY DEF Told, BoxType

LEMMA MoveWith ==
  ASSUME NEW d, NEW n, box'[Subject] = d, marks'[Subject] = n, Placed(Subject, d, n),
         Turned(Task.op, box[Subject], marks[Subject], d, n), Sent,
         GoesOn(d, n) \/ Ends(d, n)
  PROVE  Changed
  BY DEF Changed, ClientMove

LEMMA ContinueTo ==
  ASSUME call \in CallType, NEW x, Continue(x), x \notin Telling, NEW d, NEW n, Finds(x, d)
  PROVE  GoesOn(d, n)
  BY ContinueGoesOn, StepGoesOn

-----------------------------------------------------------------------------
(* containerd: creation.                                                    *)

LEMMA TxFacts ==
  ASSUME ContractIInv, Containerd, call.op = "create"
  PROVE  /\ call.op # "idle" /\ Subject = 2 /\ Task.op = "create" /\ Types /\ call \in CallType
         /\ box[2] \in BoxType /\ Placed(2, box[2], marks[2])
         /\ CreateCall(call, box[2], marks[2]) /\ Finds(call.step, box[2])
         /\ marks \in [Ids -> SUBSET MarkNames]
  <1>1. Subject = 2
    BY SubjectIs DEF ContractIInv, RuntimesIInv, NewOps
  <1>2. Task.op = "create"
    BY TaskIs
  <1> QED BY <1>1, <1>2, ClientFacts DEF Types, CallOK

(* A creation takes the subject to the parts P.                                   *)
LEMMA CreatePartsMove ==
  ASSUME ContractIInv, Containerd, call.op = "create", wire' = wire,
         NEW b, b = box[2], NEW P, NEW d, d = Having(b, P), box' = [box EXCEPT ![2] = d],
         NEW n, marks' = [marks EXCEPT ![2] = n], n \in {marks[2], Abandoned(marks[2])},
         \/ ~b.record
         \/ P \cap {"snapshot", "netns"} = b.parts \cap {"snapshot", "netns"}
         \/ b.task = "none" /\ ~b.restart /\ P \subseteq b.parts,
         GoesOn(d, n) \/ Ends(d, n)
  PROVE  Changed
  <1> PICK m : m = marks[2]
    OBVIOUS
  <1>1. Subject = 2 /\ Task.op = "create" /\ b \in BoxType /\ Placed(2, b, m) /\ box \in [Ids -> BoxType]
        /\ marks \in [Ids -> SUBSET MarkNames]
    BY TxFacts DEF Types
  <1>2. box'[2] = d /\ marks'[2] = n
    BY <1>1
  <1>3. /\ d.parts = P /\ d.record = b.record /\ d.task = b.task /\ d.restart = b.restart
        /\ d.owner = b.owner /\ d.name = b.name
    BY <1>1, HavingIs
  <1>4. "revived" \in n <=> "revived" \in m
    BY DEF Abandoned
  <1>5. \/ ~b.record
        \/ Intact(d) <=> Intact(b)
        \/ b.task = "none" /\ ~b.restart /\ Intact(b) /\ ~Intact(d)
    BY <1>3 DEF Intact
  <1>6. Placed(2, d, n)
    BY <1>1, <1>3, <1>4, <1>5 DEF Placed
  <1>7. Turned("create", b, m, d, n)
    <2>1. CASE ~b.record
      BY <1>3, <2>1 DEF Turned
    <2>2. CASE Intact(d) <=> Intact(b)
      BY <1>3, <1>4, <2>2, LooksSame
    <2>3. CASE b.record /\ b.task = "none" /\ ~b.restart /\ Intact(b) /\ ~Intact(d)
      <3>1. ShownAs(b, m) = "created" /\ ShownAs(d, n) = "removing"
        BY <1>3, <2>3 DEF ShownAs, LifeIn, Intact
      <3>2. Entry(b, m) = <<"created", b.name>> /\ Entry(d, n) = <<"removing", b.name>>
        BY <1>3, <3>1 DEF Entry
      <3>3. Contract!Permits("create", Entry(b, m), Entry(d, n))
        BY <3>2 DEF Contract!Permits
      <3> QED BY <1>3, <2>3, <3>3 DEF Turned
    <2> QED BY <1>5, <2>1, <2>2, <2>3
  <1>8. Sent
    BY DEF Sent
  <1> QED BY <1>1, <1>2, <1>6, <1>7, <1>8, MoveWith

LEMMA CreateLeaseMoves ==
  ASSUME ContractIInv, CreateLease
  PROVE  Changed
  <1>0. Containerd /\ call.op = "create" /\ call.step = "mk.lease"
    BY DEF CreateLease, At
  <1> PICK b, m : b = box[2] /\ m = marks[2]
    OBVIOUS
  <1>1. /\ Subject = 2 /\ Task.op = "create" /\ b \in BoxType /\ Placed(2, b, m) /\ box \in [Ids -> BoxType]
        /\ marks \in [Ids -> SUBSET MarkNames] /\ ~b.record /\ call \in CallType /\ call.op # "idle"
    BY <1>0, TxFacts DEF Types, CreateCall
  <1>2. CASE Read /\ Return("error")
    BY <1>0, <1>1, <1>2, ReadFails
  <1>3. CASE ~(Read /\ Return("error"))
    <2>1. /\ box' = [With(2, "lease") EXCEPT ![2].born = TRUE] /\ wire' = wire
          /\ \/ Continue("mk.snapshot") /\ marks' = marks
             \/ Return("error") /\ marks' = [marks EXCEPT ![2] = @ \cup {"abandoned"}]
      BY <1>3 DEF CreateLease, Kept, Refuse, FailRead
    <2> PICK d, n : d = box'[2] /\ n = marks'[2]
      OBVIOUS
    <2>2. /\ d.parts = b.parts \cup {"lease"} /\ d.record = b.record /\ d.owner = b.owner
      BY <1>1, <2>1 DEF With, BoxType
    <2>3. Placed(2, d, n) /\ Turned("create", b, m, d, n)
      BY <1>1, <2>2 DEF Placed, Turned
    <2>4. GoesOn(d, n) \/ Ends(d, n)
      <3>1. CASE Continue("mk.snapshot")
        <4>1. "mk.snapshot" \notin Telling /\ Finds("mk.snapshot", d)
          BY <2>2 DEF Telling, Finds
        <4> QED BY <1>1, <3>1, <4>1, ContinueTo
      <3>2. CASE Return("error")
        BY <3>2, ErrorEnds
      <3> QED BY <2>1, <3>1, <3>2
    <2>5. Sent
      BY <2>1 DEF Sent
    <2> QED BY <1>1, <2>3, <2>4, <2>5, MoveWith
  <1> QED BY <1>2, <1>3

LEMMA PrepareMoves ==
  ASSUME ContractIInv, PrepareSnapshot \/ EnsureNetns
  PROVE  Changed
  <1>0. Containerd /\ call.op = "create" /\ call.step \in {"mk.snapshot", "mk.netns"}
    BY DEF PrepareSnapshot, EnsureNetns, At
  <1> PICK b, m : b = box[2] /\ m = marks[2]
    OBVIOUS
  <1>1. /\ Subject = 2 /\ b \in BoxType /\ Types /\ marks \in [Ids -> SUBSET MarkNames]
        /\ ~b.record /\ call \in CallType /\ Finds(call.step, b)
    BY <1>0, TxFacts DEF CreateCall
  <1>2. PICK x \in {"mk.host", "mk.record", "cl.lease", "cl.record"}, p \in {"snapshot", "netns"} :
          /\ wire' = wire /\ marks' = marks /\ box' \in {box, With(2, p)}
          /\ SameTask /\ answer' = answer /\ call'.step = x
          /\ x = "mk.host" => box' = With(2, "snapshot") /\ call.step = "mk.snapshot"
          /\ x = "mk.record" => box' = With(2, "netns") /\ call.step = "mk.netns"
    <2>1. CASE PrepareSnapshot
      <3>1. PICK x \in {"mk.host", "cl.lease"} :
              /\ Continue(x) /\ wire' = wire /\ marks' = marks /\ box' \in {box, With(2, "snapshot")}
              /\ x = "mk.host" => box' = With(2, "snapshot")
        BY <2>1 DEF PrepareSnapshot, Try, Kept, Read
      <3> QED BY <1>1, <2>1, <3>1, ContinueGoesOn DEF PrepareSnapshot, At
    <2>3. CASE EnsureNetns
      <3>1. PICK x \in {"mk.record", "cl.record"} :
              /\ Continue(x) /\ wire' = wire /\ marks' = marks /\ box' \in {box, With(2, "netns")}
              /\ x = "mk.record" => box' = With(2, "netns")
        BY <2>3 DEF EnsureNetns, Try, Kept
      <3> QED BY <1>1, <2>3, <3>1, ContinueGoesOn DEF EnsureNetns, At
    <2> QED BY <2>1, <2>3
  <1>3. PICK P : /\ box' = [box EXCEPT ![2] = Having(b, P)] /\ b.parts \subseteq P
                 /\ x = "mk.host" => "snapshot" \in P
                 /\ x = "mk.record" => "netns" \in P
    <2>1. p \in Parts
      BY DEF Parts
    <2> PICK c \in Ids : c = 2
      OBVIOUS
    <2>3. \A q \in Parts : With(c, q) = [box EXCEPT ![c] = Having(box[c], box[c].parts \cup {q})]
      BY <1>1, PartsIs
    <2>2. /\ With(2, p) = [box EXCEPT ![2] = Having(b, b.parts \cup {p})]
          /\ box = [box EXCEPT ![2] = Having(b, b.parts)]
      <3>1. box = [box EXCEPT ![c] = Having(box[c], box[c].parts)]
        BY <1>1, <2>1, PartsIs
      <3> QED BY <2>1, <2>3, <3>1
    <2>4. "snapshot" \in Parts /\ "netns" \in Parts
      BY DEF Parts
    <2>5. CASE x = "mk.host"
      <3>1. With(2, "snapshot") = [box EXCEPT ![2] = Having(b, b.parts \cup {"snapshot"})]
        BY <2>3, <2>4
      <3> PICK P : P = b.parts \cup {"snapshot"}
        OBVIOUS
      <3> QED BY <1>2, <2>5, <3>1
    <2>6. CASE x = "mk.record"
      <3>1. With(2, "netns") = [box EXCEPT ![2] = Having(b, b.parts \cup {"netns"})]
        BY <2>3, <2>4
      <3> PICK P : P = b.parts \cup {"netns"}
        OBVIOUS
      <3> QED BY <1>2, <2>6, <3>1
    <2>7. CASE x \notin {"mk.host", "mk.record"}
      BY <1>2, <2>2, <2>7
    <2> QED BY <2>5, <2>6, <2>7
  <1> PICK d : d = Having(b, P)
    OBVIOUS
  <1>4. d.parts = P
    BY <1>1, HavingIs
  <1>5. Finds(x, d)
    BY <1>1, <1>2, <1>3, <1>4 DEF Finds
  <1>6. GoesOn(d, m)
    BY <1>2, <1>5, StepGoesOn DEF Telling
  <1>7. marks' = [marks EXCEPT ![2] = m]
    BY <1>1, <1>2
  <1>8. Containerd /\ call.op = "create" /\ wire' = wire /\ b = box[2] /\ d = Having(b, P)
        /\ box' = [box EXCEPT ![2] = d] /\ ~b.record /\ m \in {marks[2], Abandoned(marks[2])}
    BY <1>0, <1>1, <1>2, <1>3
  <1> QED BY <1>6, <1>7, <1>8, CreatePartsMove

(* The directory of the workload and its volumes                                 *)
LEMMA PrepareHostMoves ==
  ASSUME ContractIInv, PrepareHost
  PROVE  Changed
  <1>0. Containerd /\ call.op = "create" /\ call.step = "mk.host"
    BY DEF PrepareHost, At
  <1> PICK b, m : b = box[2] /\ m = marks[2]
    OBVIOUS
  <1>1. /\ Subject = 2 /\ b \in BoxType /\ Types /\ marks \in [Ids -> SUBSET MarkNames]
        /\ ~b.record /\ call \in CallType /\ Finds("mk.host", b)
    BY <1>0, TxFacts DEF CreateCall
  <1>2. /\ wire' = wire /\ box' \in {box, With(2, "host"), HostFiles}
        /\ marks' = marks \/ marks' = [marks EXCEPT ![2] = Abandoned(m)]
        /\ \/ Continue("cl.record")
           \/ call' = [call EXCEPT !.step = "mk.netns", !.keep = TRUE] /\ answer' = answer
    BY DEF PrepareHost, Kept, Abandoned
  <1>3. PICK P : box' = [box EXCEPT ![2] = Having(b, P)] /\ b.parts \subseteq P
    <2> PICK c \in Ids, p \in Parts : c = 2 /\ p = "host"
      BY DEF Parts
    <2>1. /\ With(c, p) = [box EXCEPT ![c] = Having(box[c], box[c].parts \cup {p})]
          /\ box = [box EXCEPT ![c] = Having(box[c], box[c].parts)]
      BY <1>1, PartsIs
    <2>2. HostFiles = [box EXCEPT ![2] = Having(b, b.parts \cup {"host", "volume"})]
      BY <1>1 DEF HostFiles, Having, Types, BoxType
    <2> QED BY <1>2, <2>1, <2>2
  <1>4. PICK n \in {m, Abandoned(m)} : marks' = [marks EXCEPT ![2] = n]
    BY <1>1, <1>2
  <1> PICK d : d = Having(b, P)
    OBVIOUS
  <1>5. PICK x \in {"cl.record", "mk.netns"} : SameTask /\ answer' = answer /\ call'.step = x
    <2>1. CASE Continue("cl.record")
      BY <1>1, <2>1, ContinueGoesOn
    <2>2. CASE call' = [call EXCEPT !.step = "mk.netns", !.keep = TRUE] /\ answer' = answer
      BY <1>1, <2>2 DEF SameTask, CallType
    <2> QED BY <1>2, <2>1, <2>2
  <1>6. d.parts = P
    BY <1>1, HavingIs
  <1>7. Finds(x, d)
    BY <1>1, <1>3, <1>5, <1>6 DEF Finds
  <1>8. GoesOn(d, n)
    BY <1>5, <1>7, StepGoesOn DEF Telling
  <1>9. Containerd /\ call.op = "create" /\ wire' = wire /\ b = box[2] /\ d = Having(b, P)
        /\ box' = [box EXCEPT ![2] = d] /\ ~b.record /\ n \in {marks[2], Abandoned(marks[2])}
        /\ marks' = [marks EXCEPT ![2] = n]
    BY <1>0, <1>1, <1>2, <1>3, <1>4
  <1> QED BY <1>8, <1>9, CreatePartsMove

LEMMA CreateRecordMoves ==
  ASSUME ContractIInv, CreateRecord
  PROVE  Changed
  <1>0. Containerd /\ call.op = "create" /\ call.step = "mk.record"
    BY DEF CreateRecord, At
  <1> PICK b, m : b = box[2] /\ m = marks[2]
    OBVIOUS
  <1>1. /\ Subject = 2 /\ Task.op = "create" /\ b \in BoxType /\ Placed(2, b, m) /\ box \in [Ids -> BoxType]
        /\ ~b.record /\ call \in CallType /\ Finds("mk.record", b)
    BY <1>0, TxFacts DEF CreateCall, Types
  <1>2. Intact(b)
    BY <1>1 DEF Finds, Intact
  <1> PICK d, n : d = box'[2] /\ n = marks'[2]
    OBVIOUS
  <1>3. /\ wire' = wire /\ n = m /\ (Continue("mk.release") \/ Continue("cl.record"))
        /\ \/ d = b
           \/ d = [b EXCEPT !.record = TRUE, !.name = "app", !.owner = "tx",
                            !.task = "none", !.restart = FALSE]
    BY <1>1 DEF CreateRecord, Try, Kept
  <1>4. Sent
    BY <1>3 DEF Sent
  <1>5. GoesOn(d, n)
    <2>1. PICK x \in {"mk.release", "cl.record"} : Continue(x)
      BY <1>3
    <2>2. x \notin Telling /\ Finds(x, d)
      BY DEF Telling, Finds
    <2> QED BY <1>1, <2>1, <2>2, ContinueTo
  <1>6. Placed(2, d, n) /\ Turned("create", b, m, d, n)
    <2>1. CASE d = b
      BY <1>1, <1>3, <2>1 DEF Turned
    <2>2. CASE d = [b EXCEPT !.record = TRUE, !.name = "app", !.owner = "tx",
                             !.task = "none", !.restart = FALSE]
      <3>1. d.record /\ d.name = "app" /\ d.owner = "tx" /\ d.task = "none" /\ ~d.restart
            /\ d.parts = b.parts
        BY <1>1, <2>2 DEF BoxType
      <3>2. ShownAs(d, n) = "created"
        BY <1>2, <3>1 DEF ShownAs, LifeIn, Intact
      <3>3. Entry(d, n) = <<"created", "app">>
        BY <3>1, <3>2 DEF Entry
      <3>4. Placed(2, d, n)
        BY <3>1 DEF Placed
      <3> QED BY <1>1, <3>1, <3>3, <3>4 DEF Turned
    <2> QED BY <1>3, <2>1, <2>2
  <1> QED BY <1>1, <1>4, <1>5, <1>6, MoveWith

LEMMA ReleaseLeaseMoves ==
  ASSUME ContractIInv, ReleaseLease
  PROVE  Changed
  <1>0. Containerd /\ call.op = "create" /\ call.step = "mk.release"
    BY DEF ReleaseLease, At
  <1> PICK b, m : b = box[2] /\ m = marks[2]
    OBVIOUS
  <1>1. /\ Subject = 2 /\ Task.op = "create" /\ b \in BoxType /\ Types /\ b.record /\ call \in CallType
        /\ marks \in [Ids -> SUBSET MarkNames]
    BY <1>0, TxFacts DEF CreateCall
  <1>2. /\ wire' = wire /\ marks' = marks /\ box' \in {box, Without(2, "lease")}
        /\ Return("ok") \/ Return("error") \/ Continue("cl.record")
    BY DEF ReleaseLease, Kept, Checked
  <1>3. PICK P \in {b.parts, b.parts \ {"lease"}} : box' = [box EXCEPT ![2] = Having(b, P)]
    <2> PICK c \in Ids : c = 2
      OBVIOUS
    <2>1. /\ Without(c, "lease") = [box EXCEPT ![c] = Having(box[c], box[c].parts \ {"lease"})]
          /\ box = [box EXCEPT ![c] = Having(box[c], box[c].parts)]
      BY <1>1, PartsIs DEF Parts
    <2> QED BY <1>2, <2>1
  <1> PICK d : d = Having(b, P)
    OBVIOUS
  <1>4. d.record = b.record
    BY <1>1, HavingIs
  <1>5. GoesOn(d, m) \/ Ends(d, m)
    <2>1. CASE Return("ok")
      <3>1. Now(d, m) # {}
        BY <1>1, <1>4 DEF Now
      <3>2. Contract!Holds("ok", seen.at \cup {Now(d, m)}, seen.free \/ call.from \in Free')
        BY <1>1, <3>1 DEF Contract!Holds
      <3> QED BY <1>0, <1>2, <2>1, <3>2 DEF Ends, Return
    <2>2. CASE Return("error")
      BY <2>2, ErrorEnds
    <2>3. CASE Continue("cl.record")
      <3>1. "cl.record" \notin Telling /\ Finds("cl.record", d)
        BY DEF Telling, Finds
      <3> QED BY <1>1, <2>3, <3>1, ContinueTo
    <2> QED BY <1>2, <2>1, <2>2, <2>3
  <1>6. marks' = [marks EXCEPT ![2] = m]
    BY <1>1, <1>2
  <1>7. /\ Containerd /\ call.op = "create" /\ wire' = wire /\ b = box[2] /\ d = Having(b, P)
        /\ box' = [box EXCEPT ![2] = d] /\ m \in {marks[2], Abandoned(marks[2])}
        /\ P \cap {"snapshot", "netns"} = b.parts \cap {"snapshot", "netns"}
    BY <1>0, <1>2, <1>3
  <1> QED BY <1>5, <1>6, <1>7, CreatePartsMove

LEMMA CleanupRecordMoves ==
  ASSUME ContractIInv, CleanupRecord
  PROVE  Changed
  <1>0. Containerd /\ call.op = "create" /\ call.step = "cl.record"
    BY DEF CleanupRecord, At
  <1> PICK b, m : b = box[2] /\ m = marks[2]
    OBVIOUS
  <1>1. /\ Subject = 2 /\ Task.op = "create" /\ b \in BoxType /\ Placed(2, b, m) /\ box \in [Ids -> BoxType]
        /\ marks \in [Ids -> SUBSET MarkNames]
        /\ (b.record => b.task = "none" /\ ~b.restart) /\ call \in CallType
    BY <1>0, TxFacts DEF CreateCall, Types
  <1> PICK d, n : d = box'[2] /\ n = marks'[2]
    OBVIOUS
  <1>2. wire' = wire /\ Continue("cl.snapshot")
    BY DEF CleanupRecord, TryCleanup
  <1>3. \/ d = b /\ n = m \cup {"abandoned"}
        \/ n = m /\ ~d.record /\ d.owner = "none"
    <2>1. CASE box' = box /\ marks' = [marks EXCEPT ![2] = @ \cup {"abandoned"}]
      BY <1>1, <2>1
    <2>2. CASE /\ box' = [box EXCEPT ![2].record = FALSE, ![2].name = "none", ![2].owner = "none"]
               /\ marks' = marks
      BY <1>1, <2>2 DEF BoxType
    <2> QED BY <2>1, <2>2 DEF CleanupRecord, TryCleanup
  <1>4. Sent
    BY <1>2 DEF Sent
  <1>5. GoesOn(d, n)
    <2>1. "cl.snapshot" \notin Telling /\ Finds("cl.snapshot", d)
      BY <1>1, <1>3 DEF Telling, Finds
    <2> QED BY <1>1, <1>2, <2>1, ContinueTo
  <1>6. Placed(2, d, n) /\ Turned("create", b, m, d, n)
    <2>1. CASE d = b /\ n = m \cup {"abandoned"}
      <3>1. "revived" \in n <=> "revived" \in m
        BY <2>1
      <3>2. Turned("create", b, m, d, n)
        BY <2>1, <3>1, LooksSame
      <3> QED BY <1>1, <2>1, <3>1, <3>2 DEF Placed
    <2>2. CASE n = m /\ ~d.record /\ d.owner = "none"
      BY <2>2 DEF Placed, Turned
    <2> QED BY <1>3, <2>1, <2>2
  <1> QED BY <1>1, <1>4, <1>5, <1>6, MoveWith

LEMMA CleanupPartMoves ==
  ASSUME ContractIInv, CleanupSnapshot \/ CleanupNetns \/ CleanupLease
  PROVE  Changed
  <1>0. /\ Containerd /\ call.op = "create"
        /\ call.step \in {"cl.snapshot", "cl.netns", "cl.lease"}
    BY DEF CleanupSnapshot, CleanupNetns, CleanupLease, At
  <1> PICK b, m : b = box[2] /\ m = marks[2]
    OBVIOUS
  <1>1. /\ Subject = 2 /\ b \in BoxType /\ Types /\ marks \in [Ids -> SUBSET MarkNames]
        /\ call \in CallType /\ Finds(call.step, b)
    BY <1>0, TxFacts
  <1>2. PICK p \in {"snapshot", "netns", "lease"} :
          /\ wire' = wire
          /\ \/ box' \in {box, Without(2, p)} /\ marks' = marks
             \/ box' = box /\ marks' = [marks EXCEPT ![2] = @ \cup {"abandoned"}]
          /\ p \in {"snapshot", "netns"} => call.step \in {"cl.snapshot", "cl.netns"}
          /\ \/ Return("error")
             \/ \E x \in {"cl.netns", "cl.host", "cl.lease"} :
                   Continue(x) /\ (x = "cl.netns" => call.step = "cl.snapshot")
    BY DEF CleanupSnapshot, CleanupNetns, CleanupLease, TryCleanup, At
  <1>3. PICK P \in {b.parts, b.parts \ {p}}, n \in {m, Abandoned(m)} :
          box' = [box EXCEPT ![2] = Having(b, P)] /\ marks' = [marks EXCEPT ![2] = n]
    <2> PICK c \in Ids : c = 2
      OBVIOUS
    <2>1. p \in Parts
      BY DEF Parts
    <2>2. /\ Without(c, p) = [box EXCEPT ![c] = Having(box[c], box[c].parts \ {p})]
          /\ box = [box EXCEPT ![c] = Having(box[c], box[c].parts)]
      BY <1>1, <2>1, PartsIs
    <2>3. PICK Q \in {b.parts, b.parts \ {p}} : box' = [box EXCEPT ![2] = Having(b, Q)]
      BY <1>2, <2>2
    <2>4. PICK n \in {m, Abandoned(m)} : marks' = [marks EXCEPT ![2] = n]
      BY <1>1, <1>2 DEF Abandoned
    <2> QED BY <2>3, <2>4
  <1> PICK d : d = Having(b, P)
    OBVIOUS
  <1>4. d.record = b.record /\ d.task = b.task /\ d.restart = b.restart
    BY <1>1, HavingIs
  <1>5. GoesOn(d, n) \/ Ends(d, n)
    <2>1. CASE Return("error")
      BY <2>1, ErrorEnds
    <2>2. ASSUME NEW x \in {"cl.netns", "cl.host", "cl.lease"}, Continue(x),
                 x = "cl.netns" => call.step = "cl.snapshot"
          PROVE  GoesOn(d, n)
      <3>1. x \notin Telling
        BY DEF Telling
      <3>2. Finds(x, d)
        BY <1>1, <1>4, <2>2 DEF Finds
      <3> QED BY <1>1, <2>2, <3>1, <3>2, ContinueTo
    <2> QED BY <1>2, <2>1, <2>2
  <1>6. \/ ~b.record
        \/ P \cap {"snapshot", "netns"} = b.parts \cap {"snapshot", "netns"}
        \/ b.task = "none" /\ ~b.restart /\ P \subseteq b.parts
    <2>1. CASE p \in {"snapshot", "netns"}
      BY <1>1, <1>2, <1>3, <2>1 DEF Finds
    <2>2. CASE p \notin {"snapshot", "netns"}
      BY <1>3, <2>2
    <2> QED BY <2>1, <2>2
  <1>7. /\ Containerd /\ call.op = "create" /\ wire' = wire /\ b = box[2] /\ d = Having(b, P)
        /\ box' = [box EXCEPT ![2] = d] /\ n \in {marks[2], Abandoned(marks[2])}
        /\ marks' = [marks EXCEPT ![2] = n]
    BY <1>0, <1>2, <1>3
  <1> QED BY <1>5, <1>6, <1>7, CreatePartsMove

LEMMA CleanupHostMoves ==
  ASSUME ContractIInv, CleanupHost
  PROVE  Changed
  <1>0. Containerd /\ call.op = "create"
    BY DEF CleanupHost, At
  <1> PICK b, m : b = box[2] /\ m = marks[2]
    OBVIOUS
  <1>1. /\ Subject = 2 /\ b \in BoxType /\ Types /\ marks \in [Ids -> SUBSET MarkNames]
        /\ call \in CallType
    BY <1>0, TxFacts
  <1>2. /\ wire' = wire /\ Continue("cl.lease")
        /\ box' \in {box, Without(2, "host"), Without(2, "volume"), NoHostFiles(2)}
        /\ marks' = marks \/ marks' = [marks EXCEPT ![2] = Abandoned(m)]
    BY DEF CleanupHost, TryCleanup, Abandoned
  <1>3. PICK P : /\ box' = [box EXCEPT ![2] = Having(b, P)]
                 /\ P \cap {"snapshot", "netns"} = b.parts \cap {"snapshot", "netns"}
    <2> PICK c \in Ids : c = 2
      OBVIOUS
    <2>1. "host" \in Parts /\ "volume" \in Parts
      BY DEF Parts
    <2>2. /\ Without(c, "host") = [box EXCEPT ![c] = Having(box[c], box[c].parts \ {"host"})]
          /\ Without(c, "volume") = [box EXCEPT ![c] = Having(box[c], box[c].parts \ {"volume"})]
          /\ box = [box EXCEPT ![c] = Having(box[c], box[c].parts)]
      BY <1>1, <2>1, PartsIs
    <2>3. NoHostFiles(2) = [box EXCEPT ![2] = Having(b, b.parts \ {"host", "volume"})]
      BY <1>1 DEF NoHostFiles, Having, Types, BoxType
    <2>4. PICK P \in {b.parts, b.parts \ {"host"}, b.parts \ {"volume"}, b.parts \ {"host", "volume"}} :
            box' = [box EXCEPT ![2] = Having(b, P)]
      BY <1>2, <2>2, <2>3
    <2> QED BY <2>4
  <1>4. PICK n \in {m, Abandoned(m)} : marks' = [marks EXCEPT ![2] = n]
    BY <1>1, <1>2
  <1> PICK d : d = Having(b, P)
    OBVIOUS
  <1>5. "cl.lease" \notin Telling /\ Finds("cl.lease", d)
    BY DEF Telling, Finds
  <1>6. GoesOn(d, n)
    BY <1>1, <1>2, <1>5, ContinueTo
  <1>7. /\ Containerd /\ call.op = "create" /\ wire' = wire /\ b = box[2] /\ d = Having(b, P)
        /\ box' = [box EXCEPT ![2] = d] /\ n \in {marks[2], Abandoned(marks[2])}
        /\ marks' = [marks EXCEPT ![2] = n]
        /\ P \cap {"snapshot", "netns"} = b.parts \cap {"snapshot", "netns"}
    BY <1>0, <1>2, <1>3, <1>4
  <1> QED BY <1>6, <1>7, CreatePartsMove

-----------------------------------------------------------------------------
(* containerd: the other calls.                                              *)

LEMMA OpFacts ==
  ASSUME ContractIInv, Containerd, call.op \notin {"idle", "create"},
         NEW b, b = box[Subject], NEW m, m = marks[Subject]
  PROVE  /\ call.op # "idle" /\ Subject \in {1, 2} /\ Subject \in Ids /\ Types /\ call \in CallType
         /\ box \in [Ids -> BoxType] /\ marks \in [Ids -> SUBSET MarkNames]
         /\ b \in BoxType /\ m \in SUBSET MarkNames /\ BoxOK(Subject, b, m) /\ Placed(Subject, b, m)
         /\ StartCall(call, b, m) /\ StopCall(call, b) /\ RemoveCall(call, b, m) /\ ~Leak(b, m)
         /\ Finds(call.step, b) /\ ReadSoFar(call, seen)
         /\ Task.op = IF call.op = "resume" THEN "remove" ELSE call.op
         /\ b.record => (Decodable(Subject) <=> Intact(b))
  <1>1. /\ Subject \in {1, 2} /\ Types /\ call \in CallType /\ b \in BoxType
        /\ BoxOK(Subject, b, m) /\ Placed(Subject, b, m) /\ Finds(call.step, b)
        /\ ReadSoFar(call, seen) /\ RuntimesIInv
    BY ClientFacts
  <1>2. /\ StartCall(call, b, m) /\ StopCall(call, b) /\ RemoveCall(call, b, m) /\ ~Leak(b, m)
        /\ m \in SUBSET MarkNames
    BY <1>1, OtherFacts
  <1>3. b.record => b.owner # "none"
    BY <1>1 DEF BoxOK
  <1>4. b.record => (Decodable(Subject) <=> Intact(b))
    BY <1>3 DEF Decodable, Intact
  <1> QED BY <1>1, <1>2, <1>4, TaskIs DEF Types

LEMMA PlacedKept ==
  ASSUME NEW c \in {1, 2}, NEW b, NEW m, NEW d, NEW n, Placed(c, b, m), d.owner = b.owner,
         d.record = b.record, "lease" \in d.parts => "lease" \in b.parts,
         ~b.record /\ b.parts = {} => d.parts = {},
         d.record /\ d.task # "none" => Intact(d) \/ ("revived" \in n /\ d.task # "created")
  PROVE  Placed(c, d, n)
  BY DEF Placed

LEMMA OpMove ==
  ASSUME ContractIInv, Containerd, call.op \notin {"idle", "create"}, wire' = wire,
         NEW d, NEW n, box'[Subject] = d, marks'[Subject] = n, Placed(Subject, d, n),
         Turned(Task.op, box[Subject], marks[Subject], d, n),
         GoesOn(d, n) \/ Ends(d, n)
  PROVE  Changed
  <1>1. Sent
    BY DEF Sent
  <1> QED BY <1>1, MoveWith

(* The container looks as before.                                              *)
LEMMA SameMove ==
  ASSUME ContractIInv, Containerd, call.op \notin {"idle", "create"}, wire' = wire,
         NEW b, b = box[Subject], NEW m, m = marks[Subject],
         NEW d, NEW n, box'[Subject] = d, marks'[Subject] = n, Placed(Subject, d, n),
         d.record = b.record, d.name = b.name, b.record => ShownAs(d, n) = ShownAs(b, m),
         GoesOn(d, n) \/ Ends(d, n)
  PROVE  Changed
  <1>1. Turned(Task.op, b, m, d, n)
    BY DEF Turned
  <1> QED BY <1>1, OpMove

-----------------------------------------------------------------------------
(* containerd: start.                                                       *)

LEMMA StartGetMoves ==
  ASSUME ContractIInv, StartGet
  PROVE  Changed
  <1>0. Containerd /\ call.op \notin {"idle", "create"} /\ Read
    BY DEF StartGet, At, Starting, FailRead, Refuse
  <1> PICK b, m : b = box[Subject] /\ m = marks[Subject]
    OBVIOUS
  <1>1. call.op # "idle" /\ (b.record => (Decodable(Subject) <=> Intact(b)))
    BY <1>0, OpFacts
  <1>2. CASE Return("error")
    BY <1>0, <1>1, <1>2, ReadFails
  <1>3. CASE b.record /\ Decodable(Subject) /\ Continue("start.net")
    <2>1. "start.net" \notin Telling /\ Finds("start.net", b)
      BY <1>1, <1>3 DEF Telling, Finds
    <2> QED BY <1>0, <1>1, <1>3, <2>1, ReadContinues
  <1> QED BY <1>2, <1>3 DEF StartGet, FailRead, Refuse

LEMMA GiveUpMoves ==
  ASSUME call \in CallType, GiveUpStart, NEW d, NEW n
  PROVE  GoesOn(d, n) \/ Ends(d, n)
  <1>1. CASE Return("error")
    BY <1>1, ErrorEnds
  <1>2. CASE Continue("start.undo")
    <2>1. "start.undo" \notin Telling /\ Finds("start.undo", d)
      BY DEF Telling, Finds
    <2> QED BY <1>2, <2>1, ContinueTo
  <1> QED BY <1>1, <1>2 DEF GiveUpStart

LEMMA StartNetworkMoves ==
  ASSUME ContractIInv, StartNetwork \/ StartUndo
  PROVE  Changed
  <1>0. Containerd /\ call.op \notin {"idle", "create"} /\ call.step \in {"start.net", "start.undo"}
    BY DEF StartNetwork, StartUndo, At, Starting
  <1> PICK b, m : b = box[Subject] /\ m = marks[Subject]
    OBVIOUS
  <1>1. /\ Subject \in {1, 2} /\ Subject \in Ids /\ b \in BoxType /\ Types /\ Placed(Subject, b, m)
        /\ Finds(call.step, b) /\ call \in CallType /\ box \in [Ids -> BoxType]
    BY <1>0, OpFacts
  <1>2. /\ wire' = wire /\ marks' = marks
        /\ box' \in {box, With(Subject, "network"), Without(Subject, "network")}
        /\ ~b.record => box' \in {box, Without(Subject, "network")}
        /\ \/ Return("error")
           \/ /\ SameTask /\ answer' = answer /\ call'.step \in {"start.look", "start.undo"}
              /\ call.step = "start.net"
    <2>1. CASE StartUndo
      BY <2>1 DEF StartUndo, Try, Kept
    <2>2. CASE StartNetwork
      <3> PICK kept : kept = ("network" \in b.parts)
        OBVIOUS
      <3>1. /\ wire' = wire /\ marks' = marks /\ box' \in {box, With(Subject, "network")}
            /\ \/ Return("error")
               \/ call' = [call EXCEPT !.step = "start.look", !.keep = kept] /\ answer' = answer
               \/ call' = [call EXCEPT !.step = "start.undo"] /\ answer' = answer
        BY <2>2 DEF StartNetwork, Kept
      <3>2. call' = [call EXCEPT !.step = "start.look", !.keep = kept] =>
              SameTask /\ call'.step = "start.look"
        BY <1>1 DEF SameTask, CallType
      <3>3. call' = [call EXCEPT !.step = "start.undo"] => SameTask /\ call'.step = "start.undo"
        BY <1>1 DEF SameTask, CallType
      <3>4. call.step = "start.net"
        BY <2>2 DEF StartNetwork, At
      <3>5. b.record
        BY <1>1, <3>4 DEF Finds
      <3> QED BY <3>1, <3>2, <3>3, <3>4, <3>5
    <2> QED BY <2>1, <2>2
  <1>3. PICK P \in {b.parts, b.parts \cup {"network"}, b.parts \ {"network"}} :
          /\ box' = [box EXCEPT ![Subject] = Having(b, P)]
          /\ ~b.record => P \subseteq b.parts
    <2>1. /\ With(Subject, "network") = [box EXCEPT ![Subject] = Having(b, b.parts \cup {"network"})]
          /\ Without(Subject, "network") = [box EXCEPT ![Subject] = Having(b, b.parts \ {"network"})]
          /\ box = [box EXCEPT ![Subject] = Having(b, b.parts)]
      BY <1>1, PartsIs DEF Parts
    <2> QED BY <1>2, <2>1
  <1> PICK d : d = Having(b, P)
    OBVIOUS
  <1>4. /\ d.parts = P /\ d.record = b.record /\ d.task = b.task /\ d.restart = b.restart
        /\ d.owner = b.owner /\ d.name = b.name /\ box'[Subject] = d /\ marks'[Subject] = m
    BY <1>1, <1>2, <1>3, HavingIs
  <1>5. Intact(d) <=> Intact(b)
    BY <1>3, <1>4 DEF Intact
  <1>6. ShownAs(d, m) = ShownAs(b, m)
    BY <1>4, <1>5 DEF ShownAs, LifeIn, Intact
  <1>7. Placed(Subject, d, m)
    <2>1. d.record /\ d.task # "none" => Intact(d) \/ ("revived" \in m /\ d.task # "created")
      BY <1>0, <1>1, <1>4, <1>5 DEF Placed
    <2>2. "lease" \in P <=> "lease" \in b.parts
      BY <1>3
    <2> QED BY <1>1, <1>3, <1>4, <2>1, <2>2, PlacedKept
  <1>8. GoesOn(d, m) \/ Ends(d, m)
    <2>1. CASE Return("error")
      BY <2>1, ErrorEnds
    <2>2. CASE ~Return("error")
      <3>1. Finds(call'.step, d) /\ call'.step \notin Telling
        BY <1>1, <1>2, <1>4, <1>5, <2>2 DEF Finds, Telling
      <3> QED BY <1>2, <2>2, <3>1, StepGoesOn
    <2> QED BY <2>1, <2>2
  <1> QED BY <1>0, <1>2, <1>4, <1>6, <1>7, <1>8, SameMove

LEMMA StartLookMoves ==
  ASSUME ContractIInv, StartLook \/ StartDoubt
  PROVE  Changed
  <1>0. /\ Containerd /\ call.op \notin {"idle", "create"} /\ Read
        /\ call.step \in {"start.look", "start.doubt"}
    BY DEF StartLook, StartDoubt, At, Starting
  <1> PICK b, m : b = box[Subject] /\ m = marks[Subject]
    OBVIOUS
  <1>1. call.op # "idle" /\ b \in BoxType /\ call \in CallType /\ Finds(call.step, b)
    BY <1>0, OpFacts
  <1>2. CASE Return("error")
    BY <1>0, <1>1, <1>2, ReadFails
  <1>3. CASE GiveUpStart
    BY <1>0, <1>1, <1>3, GiveUpMoves, ReadMoves
  <1>4. CASE StartLook /\ Continue("start.label") /\ b.task = "running"
    <2>1. b.record /\ Intact(b)
      BY <1>1, <1>4 DEF StartLook, At, Finds
    <2>2. ShownAs(b, m) \in {"running", "revived"}
      BY <1>4, <2>1 DEF ShownAs, LifeIn, Intact
    <2>3. Now(b, m) \cap {"running", "revived"} # {}
      BY <2>1, <2>2 DEF Now
    <2>4. /\ SameTask /\ answer' = answer /\ call'.step = "start.label"
      BY <1>1, <1>4, ContinueGoesOn
    <2>5. \E V \in Later(b, m).at : V \cap {"running", "revived"} # {}
      BY <2>3 DEF Later
    <2>6. ReadSoFar(call', Later(b, m))
      BY <2>4, <2>5 DEF ReadSoFar
    <2>7. Finds(call'.step, b)
      BY <1>4, <2>1, <2>4 DEF Finds
    <2> QED BY <1>0, <1>1, <2>4, <2>6, <2>7, ReadMoves DEF GoesOn
  <1>5. ASSUME StartLook, NEW x \in {"start.clear", "start.run", "start.make"}, Continue(x)
        PROVE  Changed
    <2>1. x \notin Telling /\ Finds(x, b)
      BY <1>1, <1>5 DEF Telling, Finds, StartLook, At
    <2> QED BY <1>0, <1>1, <1>5, <2>1, ReadContinues
  <1>6. CASE StartLook
    <2>1. \/ Return("error") \/ GiveUpStart
          \/ Continue("start.label") /\ b.task = "running"
          \/ Continue("start.clear") \/ Continue("start.run") \/ Continue("start.make")
      BY <1>6 DEF StartLook
    <2> QED BY <1>2, <1>3, <1>4, <1>5, <1>6, <2>1
  <1>7. CASE StartDoubt
    <2>1. Return("error") \/ GiveUpStart
      BY <1>7 DEF StartDoubt
    <2> QED BY <1>2, <1>3, <2>1
  <1> QED BY <1>6, <1>7

(* Another task of the subject                                                  *)
LEMMA TaskIn ==
  ASSUME Types, Subject \in Ids, NEW b, b = box[Subject], NEW t, NEW e, e = Doing(b, t),
         box' \in {box, [box EXCEPT ![Subject].task = t]}
  PROVE  \E d \in {b, e} : /\ box'[Subject] = d
                           /\ box' = [box EXCEPT ![Subject].task = t] => d = e
  <1>1. [box EXCEPT ![Subject].task = t] = [box EXCEPT ![Subject] = e]
    BY BoxIs
  <1>2. [box EXCEPT ![Subject] = e][Subject] = e
    BY DEF Types
  <1> QED BY <1>1, <1>2

LEMMA StartTaskMoves ==
  ASSUME ContractIInv, StartClear \/ StartMake
  PROVE  Changed
  <1>0. /\ Containerd /\ call.op \notin {"idle", "create"} /\ call.op \in Starting
        /\ call.step \in {"start.clear", "start.make"}
    BY DEF StartClear, StartMake, At, Starting
  <1> PICK b, m : b = box[Subject] /\ m = marks[Subject]
    OBVIOUS
  <1>1. /\ Subject \in {1, 2} /\ Subject \in Ids /\ b \in BoxType /\ Types /\ Placed(Subject, b, m)
        /\ Finds(call.step, b) /\ call \in CallType /\ call.op # "idle" /\ Task.op = call.op
    BY <1>0, OpFacts DEF Starting
  <1>2. b.record /\ Intact(b)
    BY <1>0, <1>1 DEF Finds
  <1>3. CASE Read /\ GiveUpStart
    BY <1>0, <1>1, <1>3, GiveUpMoves, ReadMoves
  <1>4. CASE ~(Read /\ GiveUpStart)
    <2>1. PICK t \in {"none", "created"}, x \in {"start.make", "start.run"} :
            /\ wire' = wire /\ marks' = marks /\ box' \in {box, [box EXCEPT ![Subject].task = t]}
            /\ Continue(x) \/ GiveUpStart
            /\ t = "none" => b.task \notin {"running", "paused"}
            /\ t = "created" => b.task = "none"
      BY <1>4 DEF StartClear, StartMake, Try, Kept
    <2> PICK e : e = Doing(b, t)
      OBVIOUS
    <2>2. PICK d \in {b, e} : box'[Subject] = d
      BY <1>1, <2>1, TaskIn
    <2>3. marks'[Subject] = m
      BY <2>1
    <2>4. /\ d.parts = b.parts /\ d.record = b.record /\ d.task \in {b.task, t} /\ d.restart = b.restart
          /\ d.owner = b.owner /\ d.name = b.name
      BY <1>1, <2>2, DoingIs
    <2>5. Intact(d)
      BY <1>2, <2>4 DEF Intact
    <2>6. Placed(Subject, d, m)
      BY <1>1, <2>4, <2>5, PlacedKept
    <2>7. GoesOn(d, m) \/ Ends(d, m)
      <3>1. CASE GiveUpStart
        BY <1>1, <3>1, GiveUpMoves
      <3>2. CASE Continue(x)
        <4>1. x \notin Telling /\ Finds(x, d)
          BY <1>2, <2>4, <2>5 DEF Telling, Finds
        <4> QED BY <1>1, <3>2, <4>1, ContinueTo
      <3> QED BY <2>1, <3>1, <3>2
    <2>8. Turned(call.op, b, m, d, m)
      <3>1. CASE b.task # "exited" \/ d.task = b.task
        <4>1. ShownAs(d, m) = ShownAs(b, m)
          <5>1. d.task = b.task \/ {d.task, b.task} \subseteq {"none", "created"}
            BY <1>1, <2>1, <2>4, <3>1 DEF BoxType, Tasks
          <5> QED BY <1>2, <2>4, <2>5, <5>1 DEF ShownAs, LifeIn, Intact
        <4> QED BY <2>4, <4>1 DEF Turned
      <3>2. CASE b.task = "exited" /\ d.task # b.task
        <4>1. ShownAs(b, m) = "exited"
          BY <1>2, <3>2 DEF ShownAs, LifeIn, Intact
        <4>2. d.task \in {"none", "created"}
          BY <2>1, <2>4, <3>2
        <4>3. ShownAs(d, m) \in Contract!Down
          BY <1>2, <2>4, <2>5, <4>2 DEF ShownAs, LifeIn, Intact, Contract!Down
        <4> PICK v, w : v = Entry(b, m) /\ w = Entry(d, m)
          OBVIOUS
        <4>4. v[1] = "exited" /\ w[1] \in Contract!Down /\ w[2] = v[2]
          BY <2>4, <4>1, <4>3 DEF Entry
        <4>5. Contract!Permits(call.op, v, w)
          BY <1>0, <4>4 DEF Contract!Permits, Starting
        <4> QED BY <1>2, <2>4, <4>5 DEF Turned
      <3> QED BY <3>1, <3>2
    <2> QED BY <1>0, <1>1, <2>1, <2>2, <2>3, <2>6, <2>7, <2>8, OpMove
  <1> QED BY <1>3, <1>4

(* A request of a start or of a stop that is lost on its way.                        *)
LEMMA LostMoves ==
  ASSUME ContractIInv, Containerd, call.op \in Starting \cup Stopping, box' = box, marks' = marks,
         NEW kind \in {"run", "kill"}, kind = "run" <=> call.op \in Starting,
         wire' \in {wire, wire \cup {[kind |-> kind, id |-> Subject, name |-> "none"]}},
         GoesOn(box[Subject], marks[Subject]) \/ (Ends(box[Subject], marks[Subject]) /\ answer' = "error")
  PROVE  Changed
  <1>0. call.op \notin {"idle", "create"} /\ call.op \in Mutating
    BY DEF Starting, Stopping, Mutating
  <1> PICK b, m : b = box[Subject] /\ m = marks[Subject]
    OBVIOUS
  <1>1. Placed(Subject, b, m) /\ Subject \in {1, 2}
    BY <1>0, OpFacts
  <1>2. Turned(Task.op, b, m, b, m)
    BY DEF Turned
  <1>3. Sent
    <2>1. CASE wire' = wire
      BY <2>1 DEF Sent
    <2>2. CASE wire' = wire \cup {[kind |-> kind, id |-> Subject, name |-> "none"]}
      <3> PICK r : r = [kind |-> kind, id |-> Subject, name |-> "none"]
        OBVIOUS
      <3>1. r.kind = kind /\ r.id = Subject
        OBVIOUS
      <3>2. /\ Subject = 2 <=> call.op \in {"start", "discard"}
            /\ call.sub = IF Subject = 2 THEN "new" ELSE "old"
        BY <1>0, SubjectIs DEF ContractIInv, RuntimesIInv, CallForm, NewOps, Starting, Stopping
      <3>3. PendingOp(r) = [op |-> call.op, sub |-> call.sub, late |-> TRUE]
        <4>1. PendingOp(r) =
                 [op |-> IF r.kind = "kill" THEN (IF r.id = 2 THEN "discard" ELSE "stop")
                         ELSE (IF r.id = 2 THEN "start" ELSE "restart"),
                  sub |-> IF r.id = 2 THEN "new" ELSE "old", late |-> TRUE]
          BY DEF PendingOp
        <4>2. /\ (IF r.kind = "kill" THEN (IF r.id = 2 THEN "discard" ELSE "stop")
                         ELSE (IF r.id = 2 THEN "start" ELSE "restart")) = call.op
              /\ (IF r.id = 2 THEN "new" ELSE "old") = call.sub
          BY <3>1, <3>2 DEF Starting, Stopping
        <4> QED BY <4>1, <4>2
      <3> QED BY <1>0, <2>2, <3>3 DEF Sent
    <2> QED BY <2>1, <2>2
  <1>4. box'[Subject] = b /\ marks'[Subject] = m
    OBVIOUS
  <1> QED BY <1>1, <1>2, <1>3, <1>4, MoveWith

LEMMA StartRunMoves ==
  ASSUME ContractIInv, StartRun
  PROVE  Changed
  <1>0. /\ Containerd /\ call.op \notin {"idle", "create"} /\ call.op \in Starting
        /\ call.step = "start.run"
    BY DEF StartRun, At, Starting
  <1> PICK b, m : b = box[Subject] /\ m = marks[Subject]
    OBVIOUS
  <1>1. /\ Subject \in {1, 2} /\ Subject \in Ids /\ b \in BoxType /\ Types /\ Placed(Subject, b, m)
        /\ Finds(call.step, b) /\ call \in CallType /\ call.op # "idle" /\ Task.op = call.op
        /\ marks \in [Ids -> SUBSET MarkNames]
    BY <1>0, OpFacts DEF Starting
  <1>2. b.record /\ Intact(b)
    BY <1>0, <1>1 DEF Finds
  <1>3. "start.doubt" \notin Telling /\ \A d : Finds("start.doubt", d)
    BY DEF Telling, Finds
  <1>4. CASE box' = box /\ marks' = marks /\ wire' = wire /\ Continue("start.doubt")
    <2>1. Placed(Subject, b, m) /\ box'[Subject] = b /\ marks'[Subject] = m
      BY <1>1, <1>4
    <2>2. GoesOn(b, m)
      BY <1>1, <1>3, <1>4, ContinueTo
    <2> QED BY <1>0, <1>4, <2>1, <2>2, SameMove
  <1>5. CASE /\ box' = box /\ marks' = marks /\ Continue("start.doubt")
             /\ wire' \in {wire, wire \cup {[kind |-> "run", id |-> Subject, name |-> "none"]}}
    <2>2. GoesOn(b, m)
      BY <1>1, <1>3, <1>5, ContinueTo
    <2>3. call.op \in Starting \cup Stopping
      BY <1>0
    <2> QED BY <1>0, <1>5, <2>2, <2>3, LostMoves
  <1>6. CASE /\ b.task = "created" /\ box' = Run(Subject) /\ wire' = wire
             /\ marks' = [marks EXCEPT ![Subject] = @ \ {"stopped"}]
             /\ Continue("start.label") \/ Continue("start.doubt")
    <2> PICK d, n : d = Doing(b, "running") /\ n = m \ {"stopped"}
      OBVIOUS
    <2>1. marks'[Subject] = n /\ ("revived" \in n <=> "revived" \in m)
      BY <1>1, <1>6
    <2>2. box'[Subject] = d
      <3>1. [box EXCEPT ![Subject].task = "running"] = [box EXCEPT ![Subject] = d]
        BY <1>1, BoxIs
      <3> QED BY <1>1, <1>6, <3>1 DEF Run, Types
    <2>3. /\ d.parts = b.parts /\ d.record = b.record /\ d.task = "running" /\ d.restart = b.restart
          /\ d.owner = b.owner /\ d.name = b.name
      BY <1>1, DoingIs
    <2>4. Intact(d)
      BY <1>2, <2>3 DEF Intact
    <2>5. Placed(Subject, d, n)
      BY <1>1, <2>3, <2>4, PlacedKept
    <2>6. ShownAs(b, m) \in Contract!Down /\ ShownAs(d, n) \in Contract!Up
      BY <1>2, <1>6, <2>3, <2>4 DEF ShownAs, LifeIn, Intact, Contract!Down, Contract!Up
    <2>7. Turned(call.op, b, m, d, n)
      <3> PICK v, w : v = Entry(b, m) /\ w = Entry(d, n)
        OBVIOUS
      <3>1. v[1] \in Contract!Down /\ w[1] \in Contract!Up /\ w[2] = v[2]
        BY <2>3, <2>6 DEF Entry
      <3>2. Contract!Permits(call.op, v, w)
        BY <1>0, <3>1 DEF Contract!Permits, Starting
      <3> QED BY <1>2, <2>3, <3>2 DEF Turned
    <2>8. GoesOn(d, n)
      <3>1. CASE Continue("start.doubt")
        BY <1>1, <1>3, <3>1, ContinueTo
      <3>2. CASE Continue("start.label")
        <4>1. /\ SameTask /\ answer' = answer /\ call'.step = "start.label"
          BY <1>1, <3>2, ContinueGoesOn
        <4>2. Now(d, n) \cap {"running", "revived"} # {}
          BY <1>2, <2>3, <2>6 DEF Now, Contract!Up
        <4>3. \E V \in Later(d, n).at : V \cap {"running", "revived"} # {}
          BY <4>2 DEF Later
        <4>4. ReadSoFar(call', Later(d, n))
          BY <4>1, <4>3 DEF ReadSoFar
        <4>5. Finds(call'.step, d)
          BY <1>2, <2>3, <2>4, <4>1 DEF Finds
        <4> QED BY <4>1, <4>4, <4>5 DEF GoesOn
      <3> QED BY <1>6, <3>1, <3>2
    <2> QED BY <1>0, <1>1, <1>6, <2>1, <2>2, <2>5, <2>7, <2>8, OpMove
  <1> QED BY <1>4, <1>5, <1>6 DEF StartRun

LEMMA StartLabelMoves ==
  ASSUME ContractIInv, StartLabel
  PROVE  Changed
  <1>0. /\ Containerd /\ call.op \notin {"idle", "create"} /\ call.op \in Starting
        /\ call.step = "start.label"
    BY DEF StartLabel, At, Starting
  <1> PICK b, m : b = box[Subject] /\ m = marks[Subject]
    OBVIOUS
  <1>1. /\ Subject \in {1, 2} /\ Subject \in Ids /\ b \in BoxType /\ Types /\ Placed(Subject, b, m)
        /\ Finds(call.step, b) /\ call \in CallType /\ call.op # "idle" /\ Task.op = call.op
        /\ ReadSoFar(call, seen) /\ box \in [Ids -> BoxType]
    BY <1>0, OpFacts DEF Starting
  <1>2. b.record /\ Intact(b) /\ b.task \in {"running", "paused", "exited"}
    BY <1>0, <1>1 DEF Finds
  <1>3. /\ wire' = wire /\ marks' = marks /\ box' \in {box, [box EXCEPT ![Subject].restart = TRUE]}
        /\ Return("ok") \/ Return("error")
    BY <1>2 DEF StartLabel, Kept, Checked
  <1> PICK e : e = Told(b, TRUE)
    OBVIOUS
  <1>4. PICK d \in {b, e} : box'[Subject] = d
    <2>1. [box EXCEPT ![Subject].restart = TRUE] = [box EXCEPT ![Subject] = e]
      BY <1>1, BoxIs
    <2> QED BY <1>1, <1>3, <2>1
  <1>5. /\ d.parts = b.parts /\ d.record = b.record /\ d.task = b.task
        /\ d.owner = b.owner /\ d.name = b.name
    BY <1>1 DEF Told, BoxType
  <1>6. Intact(d) /\ marks'[Subject] = m
    BY <1>2, <1>3, <1>5 DEF Intact
  <1>7. Placed(Subject, d, m)
    BY <1>1, <1>5, <1>6, PlacedKept
  <1>8. ShownAs(d, m) = ShownAs(b, m)
    BY <1>2, <1>5, <1>6 DEF ShownAs, LifeIn, Intact
  <1>9. Ends(d, m)
    <2>1. CASE Return("error")
      BY <2>1, ErrorEnds
    <2>2. CASE Return("ok")
      <3>1. \E V \in seen.at \cup {Now(d, m)} : V \cap Contract!Up # {}
        BY <1>0, <1>1 DEF ReadSoFar, Contract!Up
      <3>2. Contract!Holds("ok", seen.at \cup {Now(d, m)}, seen.free \/ call.from \in Free')
        BY <1>0, <1>1, <3>1 DEF Contract!Holds, Starting
      <3> QED BY <1>0, <1>3, <2>2, <3>2 DEF Ends, Return, Starting
    <2> QED BY <1>3, <2>1, <2>2
  <1> QED BY <1>0, <1>3, <1>4, <1>5, <1>6, <1>7, <1>8, <1>9, SameMove

-----------------------------------------------------------------------------
(* containerd: stop.                                                        *)

StopPoints == {"stop.get", "stop.label", "stop.look", "stop.resume", "stop.term", "stop.wait",
               "stop.kill", "stop.last"}

LEMMA StopFacts ==
  ASSUME ContractIInv, Containerd, call.op \in Stopping, call.step \in StopPoints,
         NEW b, b = box[Subject], NEW m, m = marks[Subject]
  PROVE  /\ Subject \in {1, 2} /\ Subject \in Ids /\ b \in BoxType /\ Types /\ Placed(Subject, b, m)
         /\ call \in CallType /\ call.op \notin {"idle", "create"} /\ Task.op = call.op
         /\ marks \in [Ids -> SUBSET MarkNames] /\ box \in [Ids -> BoxType]
         /\ call.step # "stop.get" => b.record /\ Intact(b)
         /\ b.record => (Decodable(Subject) <=> Intact(b))
  <1>0. call.op \notin {"idle", "create"}
    BY DEF Stopping
  <1>1. Finds(call.step, b)
    BY <1>0, OpFacts
  <1>2. call.step # "stop.get" => b.record /\ Intact(b)
    BY <1>1 DEF Finds, StopPoints
  <1> QED BY <1>0, <1>2, OpFacts DEF Stopping

LEMMA StoppedMoves ==
  ASSUME ContractIInv, Containerd, call.op \in Stopping, call.step \in StopPoints,
         Stopped, box[Subject].task \notin {"running", "paused"}
  PROVE  Changed
  <1> PICK b, m, n : b = box[Subject] /\ m = marks[Subject] /\ n = marks'[Subject]
    OBVIOUS
  <1>1. /\ Placed(Subject, b, m) /\ call \in CallType /\ call.op \notin {"idle", "create"}
        /\ Task.op = call.op /\ marks \in [Ids -> SUBSET MarkNames] /\ Subject \in Ids
        /\ Subject \in {1, 2} /\ b \in BoxType
    BY StopFacts
  <1>2. /\ box'[Subject] = b /\ wire' = wire /\ n \in {m, m \cup {"stopped"}}
        /\ \/ Return("error")
           \/ call.op = "discard" /\ Continue("rm.look")
           \/ call.op # "discard" /\ Return("ok")
    BY <1>1 DEF Stopped
  <1>3. "revived" \in n <=> "revived" \in m
    BY <1>2
  <1>4. Placed(Subject, b, n) /\ ShownAs(b, n) = ShownAs(b, m)
    BY <1>1, <1>3 DEF Placed, ShownAs
  <1>5. GoesOn(b, n) \/ Ends(b, n)
    <2>1. CASE Return("error")
      BY <2>1, ErrorEnds
    <2>2. CASE Continue("rm.look")
      <3>1. "rm.look" \notin Telling /\ Finds("rm.look", b)
        BY DEF Telling, Finds
      <3> QED BY <1>1, <2>2, <3>1, ContinueTo
    <2>3. CASE call.op # "discard" /\ Return("ok")
      <3>1. call.op = "stop"
        BY <2>3 DEF Stopping
      <3>2. ShownAs(b, n) \notin Contract!Up
        BY <1>1 DEF ShownAs, LifeIn, Contract!Up, BoxType, Tasks
      <3>3. Now(b, n) \cap Contract!Up = {}
        BY <3>2 DEF Now
      <3>4. Contract!Holds("ok", seen.at \cup {Now(b, n)}, seen.free \/ call.from \in Free')
        BY <1>1, <3>1, <3>3 DEF Contract!Holds
      <3> QED BY <1>2, <2>3, <3>1, <3>4 DEF Ends, Return
    <2> QED BY <1>2, <2>1, <2>2, <2>3
  <1> QED BY <1>1, <1>2, <1>4, <1>5, SameMove

LEMMA StopReadMoves ==
  ASSUME ContractIInv, Containerd, call.op \in Stopping, call.step \in StopPoints, Read,
         NEW x \in StopPoints \ {"stop.get"}, Return("error") \/ Continue(x),
         ~Return("error") => box[Subject].record /\ Intact(box[Subject])
  PROVE  Changed
  <1>1. call.op # "idle"
    BY DEF Stopping
  <1>2. CASE Return("error")
    BY <1>1, <1>2, ReadFails
  <1>3. CASE ~Return("error")
    <2>1. x \notin Telling /\ Finds(x, box[Subject])
      BY <1>3 DEF Telling, Finds, StopPoints
    <2> QED BY <1>1, <1>3, <2>1, ReadContinues
  <1> QED BY <1>2, <1>3

LEMMA StopLooksMove ==
  ASSUME ContractIInv, StopGet \/ StopLook \/ StopWait \/ StopLast
  PROVE  Changed
  <1>0. Containerd /\ call.op \in Stopping /\ call.step \in {"stop.get", "stop.look", "stop.wait", "stop.last"}
        /\ call.step \in StopPoints
    BY DEF StopGet, StopLook, StopWait, StopLast, At, StopPoints
  <1> PICK b, m : b = box[Subject] /\ m = marks[Subject]
    OBVIOUS
  <1>1. /\ call.step # "stop.get" => b.record /\ Intact(b)
        /\ b.record => (Decodable(Subject) <=> Intact(b))
    BY <1>0, StopFacts
  <1>2. CASE Stopped /\ b.task \notin {"running", "paused"}
    BY <1>0, <1>2, StoppedMoves
  <1>3. CASE Read /\ Return("error")
    <2>1. "stop.label" \in StopPoints \ {"stop.get"}
      BY DEF StopPoints
    <2> QED BY <1>0, <1>3, <2>1, StopReadMoves
  <1>4. ASSUME Read, NEW x \in {"stop.label", "stop.resume", "stop.term", "stop.kill"}, Continue(x),
               b.record /\ Intact(b)
        PROVE  Changed
    <2>1. x \in StopPoints \ {"stop.get"}
      BY DEF StopPoints
    <2> QED BY <1>0, <1>4, <2>1, StopReadMoves
  <1>5. CASE StopGet
    BY <1>1, <1>3, <1>4, <1>5 DEF StopGet, FailRead, Refuse
  <1>6. CASE StopLook
    <2>1. \/ Read /\ Return("error")
          \/ Stopped /\ b.task \notin {"running", "paused"}
          \/ Read /\ (Continue("stop.resume") \/ Continue("stop.term")) /\ call.step = "stop.look"
      BY <1>6 DEF StopLook, FailRead, At
    <2> QED BY <1>1, <1>2, <1>3, <1>4, <2>1
  <1>7. CASE StopWait
    <2>1. \/ Read /\ Return("error")
          \/ Stopped /\ b.task \notin {"running", "paused"}
          \/ Read /\ Continue("stop.kill") /\ call.step = "stop.wait"
      BY <1>7 DEF StopWait, FailRead, At
    <2> QED BY <1>1, <1>2, <1>3, <1>4, <2>1
  <1>8. CASE StopLast
    BY <1>2, <1>3, <1>8 DEF StopLast, FailRead, Refuse
  <1> QED BY <1>0, <1>5, <1>6, <1>7, <1>8

LEMMA StopLabelMoves ==
  ASSUME ContractIInv, StopLabel
  PROVE  Changed
  <1>0. Containerd /\ call.op \in Stopping /\ call.step = "stop.label" /\ call.step \in StopPoints
    BY DEF StopLabel, At, StopPoints
  <1> PICK b, m : b = box[Subject] /\ m = marks[Subject]
    OBVIOUS
  <1>1. /\ Subject \in {1, 2} /\ Subject \in Ids /\ b \in BoxType /\ Types /\ Placed(Subject, b, m)
        /\ call \in CallType /\ call.op \notin {"idle", "create"} /\ Task.op = call.op
        /\ box \in [Ids -> BoxType] /\ b.record /\ Intact(b)
    BY <1>0, StopFacts
  <1>2. /\ wire' = wire /\ marks' = marks /\ box' \in {box, [box EXCEPT ![Subject].restart = FALSE]}
        /\ Continue("stop.look") \/ Return("error")
    BY <1>1 DEF StopLabel, Try, Kept
  <1> PICK e : e = Told(b, FALSE)
    OBVIOUS
  <1>4. PICK d \in {b, e} : box'[Subject] = d
    <2>1. [box EXCEPT ![Subject].restart = FALSE] = [box EXCEPT ![Subject] = e]
      BY <1>1, BoxIs
    <2> QED BY <1>1, <1>2, <2>1
  <1>5. /\ d.parts = b.parts /\ d.record = b.record /\ d.task = b.task
        /\ d.owner = b.owner /\ d.name = b.name /\ (d.restart => b.restart)
    BY <1>1 DEF Told, BoxType
  <1>6. Intact(d) /\ marks'[Subject] = m
    BY <1>1, <1>2, <1>5 DEF Intact
  <1>7. Placed(Subject, d, m)
    BY <1>1, <1>5, <1>6, PlacedKept
  <1>8. Turned(call.op, b, m, d, m)
    <2>1. ShownAs(d, m) = ShownAs(b, m) \/ (ShownAs(b, m) = "cleared" /\ ShownAs(d, m) = "created")
      BY <1>1, <1>5, <1>6 DEF ShownAs, LifeIn, Intact
    <2>2. CASE ShownAs(d, m) = ShownAs(b, m)
      BY <1>5, <2>2 DEF Turned
    <2>3. CASE ShownAs(b, m) = "cleared" /\ ShownAs(d, m) = "created"
      <3> PICK v, w : v = Entry(b, m) /\ w = Entry(d, m)
        OBVIOUS
      <3>1. v[1] = "cleared" /\ w[1] = "created" /\ w[2] = v[2]
        BY <1>5, <2>3 DEF Entry
      <3>2. Contract!Permits(call.op, v, w)
        BY <1>0, <3>1 DEF Contract!Permits, Stopping
      <3> QED BY <1>1, <1>5, <3>2 DEF Turned
    <2> QED BY <2>1, <2>2, <2>3
  <1>9. GoesOn(d, m) \/ Ends(d, m)
    <2>1. CASE Return("error")
      BY <2>1, ErrorEnds
    <2>2. CASE Continue("stop.look")
      <3>1. "stop.look" \notin Telling /\ Finds("stop.look", d)
        BY <1>1, <1>5, <1>6 DEF Telling, Finds
      <3> QED BY <1>1, <2>2, <3>1, ContinueTo
    <2> QED BY <1>2, <2>1, <2>2
  <1> QED BY <1>0, <1>1, <1>2, <1>4, <1>6, <1>7, <1>8, <1>9, OpMove

(* A signal, or a resumption before it: the task goes on, is resumed or exits.          *)
LEMMA StopTaskMoves ==
  ASSUME ContractIInv, Containerd, call.op \in Stopping, call.step \in StopPoints \ {"stop.get"},
         wire' = wire, marks' = marks, NEW t,
         box' \in {box, [box EXCEPT ![Subject].task = t]},
         \/ t = box[Subject].task
         \/ t = "running" /\ box[Subject].task = "paused"
         \/ t = "exited" /\ box[Subject].task = "running",
         NEW x \in StopPoints \ {"stop.get"}, Return("error") \/ Continue(x)
  PROVE  Changed
  <1> PICK b, m : b = box[Subject] /\ m = marks[Subject]
    OBVIOUS
  <1>0. call.step \in StopPoints /\ call.step # "stop.get"
    OBVIOUS
  <1>1. /\ Subject \in {1, 2} /\ Subject \in Ids /\ b \in BoxType /\ Types /\ Placed(Subject, b, m)
        /\ call \in CallType /\ call.op \notin {"idle", "create"} /\ Task.op = call.op
        /\ b.record /\ Intact(b)
    BY <1>0, StopFacts
  <1> PICK e : e = Doing(b, t)
    OBVIOUS
  <1>2. PICK d \in {b, e} : box'[Subject] = d
    BY <1>1, TaskIn
  <1>3. /\ d.parts = b.parts /\ d.record = b.record /\ d.task \in {b.task, t} /\ d.restart = b.restart
        /\ d.owner = b.owner /\ d.name = b.name
    <2>1. /\ e.parts = b.parts /\ e.record = b.record /\ e.task = t /\ e.restart = b.restart
          /\ e.owner = b.owner /\ e.name = b.name
      BY <1>1 DEF Doing, BoxType
    <2> QED BY <1>2, <2>1
  <1>4. Intact(d) /\ marks'[Subject] = m
    BY <1>1, <1>3 DEF Intact
  <1>5. Placed(Subject, d, m)
    BY <1>1, <1>3, <1>4, PlacedKept
  <1>6. GoesOn(d, m) \/ Ends(d, m)
    <2>1. CASE Return("error")
      BY <2>1, ErrorEnds
    <2>2. CASE Continue(x)
      <3>1. x \notin Telling /\ Finds(x, d)
        BY <1>1, <1>3, <1>4 DEF Telling, Finds, StopPoints
      <3> QED BY <1>1, <2>2, <3>1, ContinueTo
    <2> QED BY <2>1, <2>2
  <1>7. Turned(call.op, b, m, d, m)
    <2>1. CASE d.task = b.task
      <3>1. ShownAs(d, m) = ShownAs(b, m)
        BY <1>1, <1>3, <1>4, <2>1 DEF ShownAs, LifeIn, Intact
      <3> QED BY <1>3, <3>1 DEF Turned
    <2>2. CASE d.task # b.task
      <3> PICK v, w : v = Entry(b, m) /\ w = Entry(d, m)
        OBVIOUS
      <3>1. v[1] = ShownAs(b, m) /\ w[1] = ShownAs(d, m) /\ w[2] = v[2]
        BY <1>3 DEF Entry
      <3>2. CASE b.task = "paused" /\ d.task = "running"
        <4>1. \/ ShownAs(b, m) = "revived" /\ ShownAs(d, m) = "revived"
              \/ ShownAs(b, m) = "paused" /\ ShownAs(d, m) = "running"
          BY <1>1, <1>3, <1>4, <3>2 DEF ShownAs, LifeIn, Intact
        <4>2. CASE ShownAs(b, m) = "revived" /\ ShownAs(d, m) = "revived"
          BY <1>3, <4>2 DEF Turned
        <4>3. CASE ShownAs(b, m) = "paused" /\ ShownAs(d, m) = "running"
          <5>1. Contract!Permits(call.op, v, w)
            BY <3>1, <4>3 DEF Contract!Permits, Contract!Up, Stopping
          <5> QED BY <1>1, <1>3, <5>1 DEF Turned
        <4> QED BY <4>1, <4>2, <4>3
      <3>3. CASE b.task = "running" /\ d.task = "exited"
        <4>1. ShownAs(b, m) \in Contract!Up /\ ShownAs(d, m) = "exited"
          BY <1>1, <1>3, <1>4, <3>3 DEF ShownAs, LifeIn, Intact, Contract!Up
        <4>2. Contract!Permits(call.op, v, w)
          BY <3>1, <4>1 DEF Contract!Permits, Stopping
        <4> QED BY <1>1, <1>3, <4>2 DEF Turned
      <3> QED BY <1>3, <2>2, <3>2, <3>3
    <2> QED BY <2>1, <2>2
  <1> QED BY <1>1, <1>2, <1>4, <1>5, <1>6, <1>7, OpMove

LEMMA StopSignalMoves ==
  ASSUME ContractIInv, StopResume \/ StopTerm \/ StopKill
  PROVE  Changed
  <1>0. /\ Containerd /\ call.op \in Stopping /\ call.step \in {"stop.resume", "stop.term", "stop.kill"}
        /\ call.step \in StopPoints /\ call.step \in StopPoints \ {"stop.get"}
    BY DEF StopResume, StopTerm, StopKill, At, StopPoints
  <1> PICK b, m : b = box[Subject] /\ m = marks[Subject]
    OBVIOUS
  <1>1. Types /\ Subject \in Ids /\ box \in [Ids -> BoxType] /\ call.op \notin {"idle", "create"}
    BY <1>0, StopFacts
  <1>2. CASE Stopped /\ b.task \notin {"running", "paused"}
    BY <1>0, <1>2, StoppedMoves
  <1>3. CASE StopResume /\ ~(Stopped /\ b.task \notin {"running", "paused"})
    <2> PICK t : t = IF b.task = "paused" THEN "running" ELSE b.task
      OBVIOUS
    <2>1. /\ wire' = wire /\ marks' = marks /\ box' \in {box, [box EXCEPT ![Subject].task = t]}
          /\ Continue("stop.term") \/ Return("error")
      BY <1>1, <1>3 DEF StopResume, Try, Kept
    <2>2. "stop.term" \in StopPoints \ {"stop.get"}
      BY DEF StopPoints
    <2>3. \/ t = box[Subject].task
          \/ t = "running" /\ box[Subject].task = "paused"
      OBVIOUS
    <2> QED BY <1>0, <2>1, <2>2, <2>3, StopTaskMoves
  <1>4. CASE (StopTerm \/ StopKill) /\ ~(Stopped /\ b.task \notin {"running", "paused"})
    <2> PICK t : t = IF b.task = "running" THEN "exited" ELSE b.task
      OBVIOUS
    <2>1. Halted(Subject) = [box EXCEPT ![Subject].task = t]
      BY <1>1 DEF Halted
    <2>2. PICK x \in {"stop.wait", "stop.last"} :
            Signal(x, {box, Halted(Subject)}) \/ Signal(x, {Halted(Subject)})
      BY <1>4 DEF StopTerm, StopKill
    <2>3. \/ /\ wire' = wire /\ marks' = marks /\ box' \in {box, [box EXCEPT ![Subject].task = t]}
             /\ Continue(x) \/ Return("error")
          \/ /\ box' = box /\ marks' = marks /\ Return("error")
             /\ wire' \in {wire, wire \cup {[kind |-> "kill", id |-> Subject, name |-> "none"]}}
      BY <2>1, <2>2 DEF Signal
    <2>4. CASE /\ wire' = wire /\ marks' = marks /\ box' \in {box, [box EXCEPT ![Subject].task = t]}
               /\ Continue(x) \/ Return("error")
      <3>1. x \in StopPoints \ {"stop.get"}
        BY DEF StopPoints
      <3>2. t = box[Subject].task \/ (t = "exited" /\ box[Subject].task = "running")
        OBVIOUS
      <3> QED BY <1>0, <2>4, <3>1, <3>2, StopTaskMoves
    <2>5. CASE /\ box' = box /\ marks' = marks /\ Return("error")
               /\ wire' \in {wire, wire \cup {[kind |-> "kill", id |-> Subject, name |-> "none"]}}
      <3>1. Ends(box[Subject], marks[Subject]) /\ answer' = "error"
        BY <2>5, ErrorEnds DEF Return
      <3>2. call.op \in Starting \cup Stopping /\ call.op \notin Starting
        BY <1>0 DEF Starting, Stopping
      <3> QED BY <1>0, <2>5, <3>1, <3>2, LostMoves
    <2> QED BY <2>3, <2>4, <2>5
  <1> QED BY <1>2, <1>3, <1>4

-----------------------------------------------------------------------------
(* containerd: rename and remove.                                            *)

LEMMA RenameMoves ==
  ASSUME ContractIInv, RenameAvailable \/ RenameLabel
  PROVE  Changed
  <1>0. Containerd /\ call.op = "rename" /\ call.op \notin {"idle", "create"}
    BY DEF RenameAvailable, RenameLabel, At
  <1> PICK b, m : b = box[Subject] /\ m = marks[Subject]
    OBVIOUS
  <1>1. /\ Subject = 1 /\ b \in BoxType /\ Types /\ Placed(1, b, m) /\ call \in CallType
        /\ Task.op = "rename" /\ box \in [Ids -> BoxType]
    <2>1. Subject = 1
      BY <1>0, OldFacts DEF NewOps
    <2> QED BY <1>0, <2>1, OpFacts
  <1>2. CASE Read /\ Return("error")
    BY <1>0, <1>2, ReadFails
  <1>3. CASE Read /\ Continue("rename.label")
    <2>1. "rename.label" \notin Telling /\ Finds("rename.label", b)
      BY DEF Telling, Finds
    <2> QED BY <1>0, <1>3, <2>1, ReadContinues
  <1>4. CASE RenameLabel /\ ~(Read /\ Return("error"))
    <2>1. /\ wire' = wire /\ marks' = marks /\ b.record
          /\ \/ Return("ok") /\ box' = [box EXCEPT ![1].name = call.to]
             \/ Return("error") /\ box' \in {box, [box EXCEPT ![1].name = call.to]}
      BY <1>1, <1>4 DEF RenameLabel, Kept, Checked, Refuse
    <2> PICK d : d = box'[1]
      OBVIOUS
    <2>2. /\ d.parts = b.parts /\ d.record = b.record /\ d.task = b.task /\ d.restart = b.restart
          /\ d.owner = b.owner /\ (Return("ok") => d.name = call.to)
      <3>1. CASE box' = box
        <4>1. ~Return("ok") \/ d.name = call.to
          <5>1. CASE Return("ok") /\ box' = [box EXCEPT ![1].name = call.to]
            BY <1>1, <5>1 DEF BoxType
          <5>2. CASE Return("error")
            BY <5>2 DEF Return
          <5> QED BY <2>1, <5>1, <5>2
        <4> QED BY <1>1, <3>1, <4>1
      <3>2. CASE box' = [box EXCEPT ![1].name = call.to]
        BY <1>1, <3>2 DEF BoxType
      <3> QED BY <2>1, <3>1, <3>2
    <2>3. Intact(d) <=> Intact(b)
      BY <2>2 DEF Intact
    <2>4. Placed(1, d, m)
      BY <1>0, <1>1, <2>2, <2>3 DEF Placed
    <2>5. ShownAs(d, m) = ShownAs(b, m)
      BY <2>2, <2>3 DEF ShownAs, LifeIn, Intact
    <2>6. Turned("rename", b, m, d, m)
      <3>1. Entry(d, m)[1] = Entry(b, m)[1]
        BY <2>5 DEF Entry
      <3>2. Contract!Permits("rename", Entry(b, m), Entry(d, m))
        BY <3>1 DEF Contract!Permits
      <3> QED BY <2>1, <2>2, <3>2 DEF Turned
    <2>7. Ends(d, m)
      <3>1. CASE Return("error")
        BY <3>1, ErrorEnds
      <3>2. CASE Return("ok")
        <4>1. Contract!Holds("ok", seen.at \cup {Now(d, m)}, seen.free \/ call.from \in Free')
          BY <1>1 DEF Contract!Holds
        <4> QED BY <2>1, <2>2, <3>2, <4>1 DEF Ends, Return
      <3> QED BY <2>1, <3>1, <3>2
    <2>8. box'[Subject] = d /\ marks'[Subject] = m
      BY <1>1, <2>1
    <2> QED BY <1>0, <1>1, <2>1, <2>4, <2>6, <2>7, <2>8, OpMove
  <1> QED BY <1>2, <1>3, <1>4 DEF RenameAvailable, FailRead, Refuse

LEMMA RemoveLooksMove ==
  ASSUME ContractIInv, RemoveGet \/ RemoveLook
  PROVE  Changed
  <1>0. Containerd /\ call.op \in Removing /\ call.op \notin {"idle", "create"} /\ Read
    BY DEF RemoveGet, RemoveLook, At, Removing, FailRead, Refuse
  <1> PICK b, m : b = box[Subject] /\ m = marks[Subject]
    OBVIOUS
  <1>1. CASE Return("error")
    BY <1>0, <1>1, ReadFails
  <1>2. ASSUME NEW x \in {"stop.get", "rm.look", "rm.network", "rm.task"}, Continue(x),
               x = "rm.network" => b.task = "none"
        PROVE  Changed
    <2>1. x \notin Telling /\ Finds(x, b)
      BY <1>2 DEF Telling, Finds
    <2> QED BY <1>0, <1>2, <2>1, ReadContinues
  <1>3. CASE ~b.record /\ Return("ok")
    <2>1. Task.op \in {"remove", "discard"}
      BY <1>0, OpFacts DEF Removing
    <2>2. Now(b, m) = {}
      BY <1>3 DEF Now
    <2>3. Contract!Holds("ok", seen.at \cup {Now(b, m)}, seen.free \/ call.from \in Free')
      BY <2>1, <2>2 DEF Contract!Holds
    <2>4. Ends(b, m)
      BY <1>0, <1>3, <2>3 DEF Ends, Return, Removing, Read
    <2> QED BY <1>0, <2>4, ReadMoves
  <1>4. \/ Return("error") \/ (~b.record /\ Return("ok"))
        \/ Continue("stop.get") \/ Continue("rm.look") \/ Continue("rm.task")
        \/ Continue("rm.network") /\ b.task = "none"
    BY DEF RemoveGet, RemoveLook, FailRead, Refuse, Checked
  <1> QED BY <1>1, <1>2, <1>3, <1>4

(* A part of the subject is removed: what has no task any more may lose them all.      *)
LEMMA RemovePartMoves ==
  ASSUME ContractIInv, NEW step, NEW part \in {"network", "netns", "snapshot", "volume", "host"},
         NEW next \in {"rm.netns", "rm.snapshot", "rm.volume", "rm.host", "rm.record"},
         RemovePart(step, part, next),
         step \in {"rm.network", "rm.netns", "rm.snapshot", "rm.volume", "rm.host"}
  PROVE  Changed
  <1>0. Containerd /\ call.op \in Removing /\ call.op \notin {"idle", "create"} /\ call.step = step
    BY DEF RemovePart, At, Removing
  <1> PICK b, m : b = box[Subject] /\ m = marks[Subject]
    OBVIOUS
  <1>1. /\ Subject \in {1, 2} /\ Subject \in Ids /\ b \in BoxType /\ Types /\ Placed(Subject, b, m)
        /\ call \in CallType /\ Task.op \in {"remove", "discard"} /\ box \in [Ids -> BoxType]
        /\ b.task = "none" \/ "revived" \in m
        /\ b.task # "created"
    <2>1. b.task = "none" \/ "revived" \in m
      BY <1>0, OpFacts DEF RemoveCall
    <2>2. b.task # "created"
      BY <1>0, ClientFacts DEF Finds
    <2> QED BY <1>0, <2>1, <2>2, OpFacts DEF Removing
  <1>2. /\ wire' = wire /\ marks' = marks /\ box' \in {box, Without(Subject, part)}
        /\ Continue(next) \/ Return("error")
    BY DEF RemovePart, Try, Kept
  <1>3. PICK P \in {b.parts, b.parts \ {part}} : box' = [box EXCEPT ![Subject] = Having(b, P)]
    <2>1. part \in Parts
      BY DEF Parts
    <2>2. /\ Without(Subject, part) = [box EXCEPT ![Subject] = Having(b, b.parts \ {part})]
          /\ box = [box EXCEPT ![Subject] = Having(b, b.parts)]
      BY <1>1, <2>1, PartsIs
    <2> QED BY <1>2, <2>2
  <1> PICK d : d = Having(b, P)
    OBVIOUS
  <1>4. /\ d.parts = P /\ d.record = b.record /\ d.task = b.task /\ d.restart = b.restart
        /\ d.owner = b.owner /\ d.name = b.name /\ box'[Subject] = d /\ marks'[Subject] = m
    BY <1>1, <1>2, <1>3, HavingIs
  <1>5. Intact(d) => Intact(b)
    BY <1>3, <1>4 DEF Intact
  <1>6. Placed(Subject, d, m)
    BY <1>1, <1>3, <1>4, PlacedKept
  <1>7. GoesOn(d, m) \/ Ends(d, m)
    <2>1. CASE Return("error")
      BY <2>1, ErrorEnds
    <2>2. CASE Continue(next)
      <3>1. next \notin Telling /\ Finds(next, d)
        BY <1>1, <1>4 DEF Telling, Finds
      <3> QED BY <1>1, <2>2, <3>1, ContinueTo
    <2> QED BY <1>2, <2>1, <2>2
  <1>8. Turned(Task.op, b, m, d, m)
    <2>1. CASE ~b.record
      BY <1>4, <2>1 DEF Turned
    <2>2. CASE Intact(d) <=> Intact(b)
      BY <1>4, <2>2, LooksSame
    <2>3. CASE b.record /\ Intact(b) /\ ~Intact(d)
      <3>1. \/ ShownAs(b, m) = ShownAs(d, m)
            \/ /\ ShownAs(b, m) \in {"created", "cleared", "exited", "revived"}
               /\ ShownAs(d, m) = "removing"
        <4>1. CASE b.task \in {"running", "paused"} /\ "revived" \in m
          BY <1>4, <2>3, <4>1 DEF ShownAs, LifeIn, Intact
        <4>2. CASE b.task \in {"none", "created", "exited"}
          BY <1>4, <2>3, <4>2 DEF ShownAs, LifeIn, Intact
        <4>3. b.task \in {"none", "created", "exited", "running", "paused"}
          BY <1>1 DEF BoxType, Tasks
        <4> QED BY <1>1, <4>1, <4>2, <4>3
      <3>2. CASE ShownAs(b, m) = ShownAs(d, m)
        BY <1>4, <3>2 DEF Turned
      <3>3. CASE /\ ShownAs(b, m) \in {"created", "cleared", "exited", "revived"}
                 /\ ShownAs(d, m) = "removing"
        <4> PICK v, w : v = Entry(b, m) /\ w = Entry(d, m)
          OBVIOUS
        <4>1. v[1] \in {"created", "cleared", "exited", "revived"} /\ w[1] = "removing" /\ w[2] = v[2]
          BY <1>4, <3>3 DEF Entry
        <4>2. Contract!Permits(Task.op, v, w)
          BY <1>1, <4>1 DEF Contract!Permits, Contract!Down
        <4> QED BY <1>4, <2>3, <4>2 DEF Turned
      <3> QED BY <3>1, <3>2, <3>3
    <2> QED BY <1>5, <2>1, <2>2, <2>3
  <1> QED BY <1>0, <1>2, <1>4, <1>6, <1>7, <1>8, OpMove

LEMMA RemoveTaskMoves ==
  ASSUME ContractIInv, RemoveTask
  PROVE  Changed
  <1>0. Containerd /\ call.op \in Removing /\ call.op \notin {"idle", "create"}
    BY DEF RemoveTask, At, Removing
  <1> PICK b, m : b = box[Subject] /\ m = marks[Subject]
    OBVIOUS
  <1>1. /\ Subject \in {1, 2} /\ Subject \in Ids /\ b \in BoxType /\ Types /\ Placed(Subject, b, m)
        /\ call \in CallType /\ Task.op \in {"remove", "discard"}
    BY <1>0, OpFacts DEF Removing
  <1>2. CASE Read /\ Return("error")
    BY <1>0, <1>2, ReadFails
  <1>3. CASE ~(Read /\ Return("error"))
    <2>1. /\ wire' = wire /\ marks' = marks /\ box' \in {box, [box EXCEPT ![Subject].task = "none"]}
          /\ (Continue("rm.network") /\ box' = [box EXCEPT ![Subject].task = "none"]) \/ Return("error")
          /\ b.task \notin {"running", "paused"}
      BY <1>3 DEF RemoveTask, Try, Kept, Refuse
    <2> PICK e : e = Doing(b, "none")
      OBVIOUS
    <2>2. PICK d \in {b, e} : box'[Subject] = d
      BY <1>1, <2>1, TaskIn
    <2>3. /\ d.parts = b.parts /\ d.record = b.record /\ d.task \in {b.task, "none"}
          /\ d.restart = b.restart /\ d.owner = b.owner /\ d.name = b.name
          /\ marks'[Subject] = m
      BY <1>1, <2>1, <2>2 DEF Doing, BoxType
    <2>4. Intact(d) <=> Intact(b)
      BY <2>3 DEF Intact
    <2>5. d.task # "none" => d.task = b.task
      BY <2>3
    <2>6. Placed(Subject, d, m)
      BY <1>0, <1>1, <2>3, <2>4, <2>5 DEF Placed
    <2>7. GoesOn(d, m) \/ Ends(d, m)
      <3>1. CASE Return("error")
        BY <3>1, ErrorEnds
      <3>2. CASE Continue("rm.network") /\ box' = [box EXCEPT ![Subject].task = "none"]
        <4>0. d.task = "none"
          BY <1>1, <2>2, <3>2 DEF Types, BoxType
        <4>1. "rm.network" \notin Telling /\ Finds("rm.network", d)
          BY <4>0 DEF Telling, Finds
        <4> QED BY <1>1, <3>2, <4>1, ContinueTo
      <3> QED BY <2>1, <3>1, <3>2
    <2>8. Turned(Task.op, b, m, d, m)
      <3>1. b.task \in {"none", "created", "exited"}
        BY <1>1, <2>1 DEF BoxType, Tasks
      <3>2. CASE ~b.record
        BY <2>3, <3>2 DEF Turned
      <3>3. CASE b.record /\ ShownAs(d, m) = ShownAs(b, m)
        BY <2>3, <3>3 DEF Turned
      <3>4. CASE b.record /\ ShownAs(d, m) # ShownAs(b, m)
        <4>1. ShownAs(b, m) = "exited" /\ ShownAs(d, m) \in Contract!Down
          BY <2>3, <2>4, <3>1, <3>4 DEF ShownAs, LifeIn, Intact, Contract!Down
        <4> PICK v, w : v = Entry(b, m) /\ w = Entry(d, m)
          OBVIOUS
        <4>2. v[1] = "exited" /\ w[1] \in Contract!Down /\ w[2] = v[2]
          BY <2>3, <4>1 DEF Entry
        <4>3. Contract!Permits(Task.op, v, w)
          BY <1>1, <4>2 DEF Contract!Permits
        <4> QED BY <2>3, <3>4, <4>3 DEF Turned
      <3> QED BY <3>2, <3>3, <3>4
    <2> QED BY <1>0, <2>1, <2>2, <2>3, <2>6, <2>7, <2>8, OpMove
  <1> QED BY <1>2, <1>3

LEMMA RemoveRecordMoves ==
  ASSUME ContractIInv, RemoveRecord
  PROVE  Changed
  <1>0. Containerd /\ call.op \in Removing /\ call.op \notin {"idle", "create"} /\ call.step = "rm.record"
    BY DEF RemoveRecord, At, Removing
  <1> PICK b, m : b = box[Subject] /\ m = marks[Subject]
    OBVIOUS
  <1>1. /\ Subject \in {1, 2} /\ Subject \in Ids /\ b \in BoxType /\ Types /\ Placed(Subject, b, m)
        /\ call \in CallType /\ Task.op \in {"remove", "discard"} /\ box \in [Ids -> BoxType]
        /\ RemoveCall(call, b, m)
    BY <1>0, OpFacts DEF Removing
  <1>2. /\ b.task = "none" \/ "revived" \in m
        /\ b.parts \subseteq {"lease"}
    BY <1>0, <1>1 DEF RemoveCall, BoxType, Parts
  <1>3. ShownAs(b, m) \in {"none", "removing", "revived"} /\ (b.record => ShownAs(b, m) # "none")
    <2>1. ~Intact(b)
      BY <1>2 DEF Intact
    <2> QED BY <1>0, <2>1 DEF ShownAs, LifeIn, Intact
  <1>4. /\ wire' = wire /\ marks' = marks
        /\ \/ box' = NoRecord(Subject) /\ (Return("ok") \/ Return("error"))
           \/ box' = box /\ Return("error")
    BY DEF RemoveRecord, Kept, Checked
  <1> PICK d : d = box'[Subject]
    OBVIOUS
  <1>5. marks'[Subject] = m
    BY <1>4
  <1>6. CASE box' = box /\ Return("error")
    <2>1. d = b
      BY <1>6
    <2>2. Ends(d, m)
      BY <1>6, ErrorEnds
    <2> QED BY <1>0, <1>1, <1>4, <1>5, <2>1, <2>2, SameMove
  <1>7. CASE box' = NoRecord(Subject) /\ (Return("ok") \/ Return("error"))
    <2>1. ~d.record /\ d.owner = "none" /\ d.parts = b.parts
      BY <1>1, <1>7 DEF NoRecord, BoxType
    <2>2. Placed(Subject, d, m)
      BY <1>1, <1>2, <2>1 DEF Placed
    <2>3. Turned(Task.op, b, m, d, m)
      BY <1>1, <1>3, <2>1 DEF Turned
    <2>4. Ends(d, m)
      <3>1. CASE Return("error")
        BY <3>1, ErrorEnds
      <3>2. CASE Return("ok")
        <4>1. Now(d, m) = {}
          BY <2>1 DEF Now
        <4>2. Contract!Holds("ok", seen.at \cup {Now(d, m)}, seen.free \/ call.from \in Free')
          BY <1>1, <4>1 DEF Contract!Holds
        <4> QED BY <1>0, <1>4, <3>2, <4>2 DEF Ends, Return, Removing
      <3> QED BY <1>7, <3>1, <3>2
    <2> QED BY <1>0, <1>4, <1>5, <2>2, <2>3, <2>4, OpMove
  <1> QED BY <1>4, <1>6, <1>7

(* Every step of the client over containerd is one of the contract.                   *)
LEMMA ContainerdMoves ==
  ASSUME ContractIInv, ContainerdNext
  PROVE  Changed
  <1>1. CASE ContainerdRead
    BY <1>1, ListMoves, DecodeMoves, ReadExistingMoves, ProbeExistingMoves, ProbeRemovedMoves, ProbeNameMoves
       DEF ContainerdRead
  <1>2. CASE CreateNext
    BY <1>2, CreateLeaseMoves, PrepareMoves, PrepareHostMoves, CreateRecordMoves, ReleaseLeaseMoves,
       CleanupRecordMoves, CleanupPartMoves, CleanupHostMoves DEF CreateNext
  <1>3. CASE StartNext
    BY <1>3, StartGetMoves, StartNetworkMoves, StartLookMoves, StartTaskMoves, StartRunMoves, StartLabelMoves
       DEF StartNext
  <1>4. CASE StopNext
    BY <1>4, StopLooksMove, StopLabelMoves, StopSignalMoves DEF StopNext
  <1>5. CASE RenameAvailable \/ RenameLabel
    BY <1>5, RenameMoves
  <1>6. CASE RemoveNext
    BY <1>6, RemoveLooksMove, RemoveTaskMoves, RemovePartMoves, RemoveRecordMoves
       DEF RemoveNext, RemoveNetwork, RemoveNetns, RemoveSnapshot, RemoveVolume, RemoveHost
  <1> QED BY <1>1, <1>2, <1>3, <1>4, <1>5, <1>6 DEF ContainerdNext

LEMMA ContainerdRefines ==
  ASSUME ContractIInv, ContainerdNext, Watch
  PROVE  ContractIInv' /\ Contract!ContractNext
  <1>1. RuntimesIInv
    BY DEF ContractIInv
  <1>2. Containerd /\ call.op # "idle" /\ SubjectStep
    BY <1>1, ContainerdCallOK
  <1> QED BY <1>2, ContainerdMoves, ClientMoveOK DEF Changed

-----------------------------------------------------------------------------
(* Docker and Podman: what a call reads.                                        *)

ViewShown ==
    /\ \A c \in Ids : Visible(c, box[c]) =>
          /\ Entry(box[c], marks[c]) \in View[Side(c)]
          /\ ShownAs(box[c], marks[c]) \in LivesOf(View[Side(c)])
    /\ \A s \in {"old", "new"} : \A v \in View[s] :
          \E c \in Ids : Side(c) = s /\ Visible(c, box[c]) /\ v = Entry(box[c], marks[c])
    /\ \A s \in {"old", "new"} : \A x \in LivesOf(View[s]) :
          \E c \in Ids : Side(c) = s /\ Visible(c, box[c]) /\ x = ShownAs(box[c], marks[c])

LEMMA ViewShownOK == Places => ViewShown
  <1> SUFFICES ASSUME Places PROVE ViewShown
    OBVIOUS
  <1>1. \A s \in {"old", "new"} : View[s] = Entries(s, Ids)
    BY ViewIs
  <1>2. \A b, m : Entry(b, m)[1] = ShownAs(b, m)
    BY DEF Entry
  <1> HIDE DEF Ids
  <1>3. ASSUME NEW c \in Ids, Visible(c, box[c])
        PROVE  Entry(box[c], marks[c]) \in View[Side(c)]
    <2>1. Side(c) \in {"old", "new"}
      BY DEF Side
    <2> QED BY <1>1, <1>3, <2>1 DEF Entries
  <1>4. ASSUME NEW s \in {"old", "new"}, NEW v \in View[s]
        PROVE  \E c \in Ids : Side(c) = s /\ Visible(c, box[c]) /\ v = Entry(box[c], marks[c])
    BY <1>1, <1>4 DEF Entries
  <1> HIDE DEF Entry
  <1>5. ASSUME NEW c \in Ids, Visible(c, box[c])
        PROVE  ShownAs(box[c], marks[c]) \in LivesOf(View[Side(c)])
    BY <1>2, <1>3, <1>5 DEF LivesOf
  <1>6. ASSUME NEW s \in {"old", "new"}, NEW x \in LivesOf(View[s])
        PROVE  \E c \in Ids : Side(c) = s /\ Visible(c, box[c]) /\ x = ShownAs(box[c], marks[c])
    <2>1. PICK v \in View[s] : x = v[1]
      BY <1>6 DEF LivesOf
    <2> QED BY <1>2, <1>4, <2>1
  <1> QED BY <1>3, <1>4, <1>5, <1>6 DEF ViewShown

LEMMA EngineKnows ==
  ASSUME ContractIInv, ~Containerd
  PROVE  /\ RuntimesIInv /\ Types /\ Places /\ ViewShown /\ NamesApart /\ NamedApp /\ FromOK(call)
         /\ EngineRead(call, seen) /\ call \in CallType /\ CallForm(call)
         /\ \A r \in wire : RequestPlaced(r)
         /\ \A c \in Ids : /\ box[c] \in BoxType /\ (box[c].record => box[c].born)
                           /\ (c = 1 => box[c].owner # "tx") /\ (c # 1 => box[c].owner # "old")
                           /\ box[c].record => Shows(Life(c), ShownAs(box[c], marks[c]))
  <1>1. RuntimesIInv /\ Types /\ Places /\ ViewShown /\ call \in CallType /\ CallForm(call)
        /\ \A c \in Ids : box[c].record => box[c].born
    BY EngineFacts, ViewShownOK DEF ContractIInv
  <1>2. \A c \in Ids : box[c] \in BoxType
    BY <1>1 DEF Types
  <1>3. \A c \in Ids : /\ (c = 1 => box[c].owner # "tx") /\ (c # 1 => box[c].owner # "old")
    BY <1>1 DEF Places, Placed
  <1>4. \A c \in Ids : box[c].record => Shows(Life(c), ShownAs(box[c], marks[c]))
    BY <1>2, LifeShown, LifeIs
  <1> QED BY <1>1, <1>2, <1>3, <1>4 DEF ContractIInv

(* What has been seen after a step that only reads                                *)
Sees(s) == /\ s.at = seen.at \cup {LivesOf(View[call.sub])}
           /\ s.free <=> seen.free \/ call.from \in Free

ReadEnds == /\ call' = IdleCall
            /\ answer' = "error" \/ call.op # "rename"
            /\ \A s : Sees(s) => Contract!Holds(answer', s.at, s.free)

LEMMA SeesOne == \E s : Sees(s)
  <1> PICK A, f : A = seen.at \cup {LivesOf(View[call.sub])} /\ f \in BOOLEAN /\ (f <=> seen.free \/ call.from \in Free)
    OBVIOUS
  <1> PICK s : s = [at |-> A, free |-> f]
    OBVIOUS
  <1> WITNESS s
  <1>1. s.at = A /\ s.free = f
    OBVIOUS
  <1> QED BY <1>1 DEF Sees

LEMMA EngineReadStep ==
  ASSUME ContractIInv, ~Containerd, call.op # "idle", Read, Watch, RuntimesIInv',
         \/ SameTask /\ answer' = answer /\ \A s : Sees(s) => EngineRead(call', s)
         \/ ReadEnds
  PROVE  ContractIInv' /\ Contract!ContractNext
  <1>1. UNCHANGED <<plugin, box, wire, marks, foreign>> /\ ~Containerd'
    BY DEF Read
  <1>2. View' = View /\ Free' = Free
    BY <1>1 DEF View, ViewLife, Life, Owned, Free, Holders
  <1>3. Places' /\ NamesApart' /\ NamedApp' /\ \A r \in wire' : RequestPlaced(r)
    BY <1>1 DEF ContractIInv, Places, Placed, NamesApart, NamedApp
  <1>4. Sent
    BY <1>1 DEF Sent
  <1>5. CASE SameTask /\ answer' = answer /\ \A s : Sees(s) => EngineRead(call', s)
    <2>1. Sees(seen')
      BY <1>2, <1>5, SeenIs DEF Sees
    <2>2. EngineRead(call', seen')
      BY <1>5, <2>1
    <2>3. EngineRead(call, seen)'
      BY <1>1, <2>2 DEF EngineRead, Alien
    <2>4. FromOK(call')
      BY <1>5 DEF ContractIInv, FromOK, SameTask
    <2>5. ContractIInv'
      BY <1>1, <1>3, <2>3, <2>4 DEF ContractIInv
    <2>6. Contract!ContractNext
      BY <1>1, <1>2, <1>4, <1>5, OpenStep, GoStep
    <2> QED BY <2>5, <2>6
  <1>6. CASE ReadEnds
    <2>1. call' = IdleCall /\ (answer' = "error" \/ call.op # "rename")
      BY <1>6 DEF ReadEnds
    <2>2. ContractIInv'
      <3>1. EngineRead(call, seen)'
        BY <2>1, IdleType DEF EngineRead
      <3>2. FromOK(call')
        BY <2>1, IdleType DEF FromOK, NewOps
      <3> QED BY <1>1, <1>3, <3>1, <3>2 DEF ContractIInv
    <2>3. Contract!Holds(answer', seen.at \cup {LivesOf(View'[call.sub])}, seen.free \/ call.from \in Free')
      <3>1. PICK s : Sees(s)
        BY SeesOne
      <3>2. Contract!Holds(answer', s.at, s.free)
        BY <1>6, <3>1 DEF ReadEnds
      <3> QED BY <1>2, <3>1, <3>2 DEF Sees, Contract!Holds
    <2>4. Pending' \subseteq (IF answer' = "error" THEN Contract!Late ELSE {r \in Pending : r.late})
      BY <1>1, <1>4, <2>1, OpenStep
    <2>5. Contract!ContractNext
      BY <1>1, <1>2, <2>1, <2>3, <2>4, ReturnStep
    <2> QED BY <2>2, <2>5
  <1> QED BY <1>5, <1>6

LEMMA ErrorReadEnds == Return("error") => ReadEnds
  BY DEF Return, ReadEnds, Contract!Holds

(* The container of a name, and the containers with the labels                     *)
LEMMA NamedIs ==
  ASSUME ContractIInv, ~Containerd, NEW n \in Names, NEW a, a = ByName(n)
  PROVE  /\ a \in SnapshotType
         /\ a.id = 0 => n \in Free
         /\ a.id # 0 => /\ a.id \in Ids /\ box[a.id].record /\ a.life = Life(a.id)
                        /\ a.owner = box[a.id].owner
  <1>0. a \in SnapshotType
    BY FoundOK DEF ContractIInv
  <1>1. CASE Holders(n) = {}
    BY <1>0, <1>1, MissingType DEF ByName, Free
  <1>2. CASE Holders(n) # {}
    <2>1. PICK c \in Ids : c = (CHOOSE e \in Holders(n) : TRUE) /\ box[c].record
      BY <1>2 DEF Holders
    <2>2. a = Snapshot(c)
      BY <1>2, <2>1 DEF ByName
    <2>3. a.id = c /\ a.life = Life(c) /\ a.owner = box[c].owner
      BY <2>2 DEF Snapshot
    <2>4. c # 0 /\ a.id \in Ids /\ box[a.id] = box[c] /\ Life(a.id) = Life(c)
      BY <2>3
    <2>5. box[a.id].record /\ a.life = Life(a.id) /\ a.owner = box[a.id].owner
      BY <2>1, <2>3, <2>4
    <2> QED BY <1>0, <2>3, <2>4, <2>5
  <1> QED BY <1>1, <1>2

LEMMA IdIs ==
  ASSUME ContractIInv, ~Containerd, NEW c \in Ids, NEW a, a = ById(c)
  PROVE  /\ a \in SnapshotType
         /\ box[c].record => a.id = c /\ a.life = Life(c) /\ a.owner = box[c].owner /\ a.name = box[c].name
         /\ ~box[c].record => a = Missing /\ a.id = 0 /\ a.owner = "none"
  <1>1. a \in SnapshotType
    BY FoundOK DEF ContractIInv
  <1> QED BY <1>1, MissingType DEF ById, Snapshot

(* A visible container is seen as it is.                                          *)
LEMMA SeenNow ==
  ASSUME ContractIInv, ~Containerd, NEW c \in Ids, Visible(c, box[c]), Side(c) = call.sub,
         NEW s, Sees(s)
  PROVE  WasSeen(Life(c), s.at)
  <1>1. box[c].record
    BY DEF Visible
  <1>2. ShownAs(box[c], marks[c]) \in LivesOf(View[call.sub])
    BY EngineKnows DEF ViewShown
  <1>3. Shows(Life(c), ShownAs(box[c], marks[c]))
    BY <1>1, EngineKnows
  <1>4. s.at = seen.at \cup {LivesOf(View[call.sub])}
    BY DEF Sees
  <1> QED BY <1>2, <1>3, <1>4 DEF WasSeen

LEMMA SeenStays ==
  ASSUME NEW s, Sees(s)
  PROVE  /\ \A a : WasSeen(a, seen.at) => WasSeen(a, s.at)
         /\ {} \in seen.at => {} \in s.at
         /\ LivesOf(View[call.sub]) \in s.at
         /\ seen.free => s.free
         /\ call.from \in Free => s.free
  BY DEF Sees, WasSeen

LEMMA NewFacts ==
  ASSUME ContractIInv, ~Containerd, call.op \in EffectOps
  PROVE  call.op # "idle" /\ call.sub = "new" /\ call.from = "app" /\ call.op # "rename"
         /\ Task.op = call.op
  <1>1. CallForm(call) /\ FromOK(call)
    BY EngineKnows
  <1> QED BY <1>1, TaskIs DEF EffectOps, CallForm, FromOK, NewOps

NamedRead(a, s) == /\ a.id = 0 => s.free
                   /\ a.id # 0 /\ a.owner = "tx" => a.id # Predecessor /\ WasSeen(a.life, s.at)
                   /\ a.id # 0 /\ a.owner # "tx" => Alien(a.id)

LEMMA FoundSame ==
  ASSUME NEW k \in CallType, NEW s \in SnapshotType, NEW x \in Points
  PROVE  /\ FoundOwned(k, x, s).from = k.from /\ FoundOwned(k, x, s).to = k.to
         /\ FoundNamed(k, s).from = k.from /\ FoundNamed(k, s).to = k.to
  <1> HIDE DEF SnapshotType, Points
  <1> QED BY DEF CallType, FoundOwned, FoundNamed

LEMMA ReadNamedMoves ==
  ASSUME ContractIInv, ~Containerd, ReadNamed, Watch
  PROVE  ContractIInv' /\ Contract!ContractNext
  <1>0. call.op \in EffectOps /\ Read
    BY DEF ReadNamed, At, FailRead
  <1>1. call.op # "idle" /\ call.sub = "new" /\ call.from = "app" /\ call \in CallType
    BY <1>0, NewFacts, EngineKnows
  <1>2. RuntimesIInv'
    BY SelectorsOK DEF ContractIInv
  <1>3. CASE Return("error")
    BY <1>0, <1>1, <1>2, <1>3, ErrorReadEnds, EngineReadStep
  <1>4. CASE ~Return("error")
    <2>1. PICK k, a, n : /\ k = call /\ a = ByName("app") /\ n = FoundNamed(k, a)
                         /\ call' = n /\ answer' = answer
      BY <1>4 DEF ReadNamed, FailRead, FoundNamed
    <2>2. "app" \in Names
      BY DEF Names
    <2>3. /\ a \in SnapshotType
          /\ a.id = 0 => "app" \in Free
          /\ a.id # 0 => /\ a.id \in Ids /\ box[a.id].record /\ a.life = Life(a.id)
                         /\ a.owner = box[a.id].owner
      BY <2>1, <2>2, NamedIs
    <2>4. /\ n.op = k.op /\ n.sub = k.sub /\ n.step = "list" /\ n.named = a
          /\ n.from = k.from /\ n.to = k.to
      <3>1. PICK x \in Points : x = "list"
        BY DEF Points
      <3> HIDE DEF SnapshotType
      <3> QED BY <1>1, <2>1, <2>3, <3>1, NamedCall, FoundSame
    <2>5. SameTask
      BY <2>1, <2>4 DEF SameTask
    <2>6. ASSUME NEW s, Sees(s) PROVE NamedRead(a, s)
      <3>1. CASE a.id = 0
        BY <1>1, <2>3, <2>6, <3>1, SeenStays DEF NamedRead
      <3>2. CASE a.id # 0
        <4>1. PICK c \in Ids : /\ c = a.id /\ box[c].record /\ a.life = Life(c)
                               /\ a.owner = box[c].owner
          BY <2>3, <3>2
        <4>2. box[c].born /\ (c = 1 => box[c].owner # "tx")
          BY <4>1, EngineKnows
        <4>3. CASE a.owner = "tx"
          <5>1. c # 1 /\ Visible(c, box[c]) /\ Side(c) = call.sub
            BY <1>1, <4>1, <4>2, <4>3 DEF Visible, Side
          <5>2. WasSeen(Life(c), s.at)
            BY <2>6, <5>1, SeenNow
          <5> QED BY <3>2, <4>1, <4>3, <5>1, <5>2 DEF NamedRead
        <4>4. CASE a.owner # "tx"
          BY <3>2, <4>1, <4>2, <4>4 DEF NamedRead, Alien
        <4> QED BY <4>3, <4>4
      <3> QED BY <3>1, <3>2
    <2>7. \A s : Sees(s) => EngineRead(call', s)
      BY <2>1, <2>4, <2>6 DEF EngineRead, NamedRead
    <2> QED BY <1>0, <1>1, <1>2, <2>1, <2>5, <2>7, EngineReadStep
  <1> QED BY <1>3, <1>4

(* What the selectors say of the replacement                                      *)
LEMMA DecideMoves ==
  ASSUME ContractIInv, ~Containerd, call.op \in EffectOps, Read, Watch, RuntimesIInv',
         NEW a \in SnapshotType, NEW o \in SnapshotType, Decide(a, o),
         \A s : Sees(s) => NamedRead(a, s),
         o.id = 0 => o.owner # "tx" /\ LivesOf(View["new"]) = {},
         o.id # 0 => o.id \in Ids /\ box[o.id].record /\ box[o.id].owner = "tx" /\ o.owner = "tx"
                     /\ o.life = Life(o.id)
  PROVE  ContractIInv' /\ Contract!ContractNext
  <1>1. call.op # "idle" /\ call.sub = "new" /\ call.from = "app" /\ call \in CallType
        /\ call.op # "rename" /\ Task.op = call.op
    BY NewFacts, EngineKnows
  <1>2. CASE Return("error")
    BY <1>1, <1>2, ErrorReadEnds, EngineReadStep
  <1>3. CASE Consistent(a, o) /\ ~Return("error")
    <2>0. /\ a.id # 0 /\ o.id # 0 => a.id = o.id
          /\ a.id # 0 /\ o.id = 0 => a.owner # "tx"
      BY <1>3 DEF Consistent
    <2>1. a.id # 0 /\ o.id # 0 => a.owner = "tx"
      <3> PICK s : Sees(s)
        BY SeesOne
      <3> QED BY <2>0 DEF NamedRead, Alien
    <2>2. o.id # 0 => /\ o.id # 1 /\ \A s : Sees(s) => WasSeen(o.life, s.at)
      <3> SUFFICES ASSUME o.id # 0 PROVE o.id # 1 /\ \A s : Sees(s) => WasSeen(o.life, s.at)
        OBVIOUS
      <3>1. PICK c \in Ids : c = o.id /\ box[c].record /\ box[c].owner = "tx" /\ o.life = Life(c)
        OBVIOUS
      <3>2. c # 1
        BY <3>1, EngineKnows
      <3>3. Visible(c, box[c]) /\ Side(c) = call.sub
        BY <1>1, <3>1, <3>2 DEF Visible, Side
      <3> QED BY <3>1, <3>2, <3>3, SeenNow
    <2> PICK t : t = SelectCreatedContainer(a, o)
      OBVIOUS
    <2>3. t \in {a, o} /\ (t.id # 0 /\ t.owner = "tx" => t.id # 1 /\ \A s : Sees(s) => WasSeen(t.life, s.at))
          /\ (t.id # 0 /\ t.owner # "tx" => o.id = 0)
          /\ (t.id = 0 => a.id = 0 /\ o.id = 0)
      BY <2>0, <2>1, <2>2 DEF SelectCreatedContainer, NamedRead
    <2>4. CASE call.op = "probe"
      <3>1. Return(Evidence(t))
        BY <1>3, <2>4 DEF Decide
      <3>2. ASSUME NEW s, Sees(s) PROVE Contract!Holds(Evidence(t), s.at, s.free)
        <4>1. CASE t.id = 0
          <5>1. Evidence(t) = "missing" /\ s.free /\ {} \in s.at
            BY <1>1, <2>3, <3>2, <4>1, SeenStays DEF Evidence, NamedRead
          <5> QED BY <5>1 DEF Contract!Holds
        <4>2. CASE t.id # 0 /\ t.owner = "tx"
          <5>1. Evidence(t) = t.life
            BY <4>2 DEF Evidence
          <5> QED BY <2>3, <3>2, <4>2, <5>1, SeenHolds
        <4>3. CASE t.id # 0 /\ t.owner # "tx"
          <5>1. Evidence(t) = "other" /\ {} \in s.at
            BY <1>1, <2>3, <3>2, <4>3, SeenStays DEF Evidence
          <5> QED BY <5>1 DEF Contract!Holds
        <4> QED BY <4>1, <4>2, <4>3
      <3>3. ReadEnds
        BY <1>1, <3>1, <3>2 DEF Return, ReadEnds
      <3> QED BY <1>1, <3>3, EngineReadStep
    <2>5. CASE call.op # "probe"
      <3>1. PICK k, n : /\ k = call /\ n = FoundOwned(k, "send", t) /\ call' = n /\ answer' = answer
                        /\ Exact(t)
        BY <1>3, <2>5 DEF Decide, FoundOwned, MayStart, MayDiscard
      <3>2. t.id # 1
        BY <2>3, <3>1 DEF Exact
      <3>3. /\ n.op = k.op /\ n.sub = k.sub /\ n.step = "send" /\ n.owned = t
            /\ n.from = k.from /\ n.to = k.to
        <4>1. PICK x \in Points : x = "send"
          BY DEF Points
        <4>2. t \in SnapshotType
          BY <2>3
        <4> HIDE DEF SnapshotType
        <4> QED BY <1>1, <3>1, <4>1, <4>2, OwnedCall, FoundSame
      <3>4. SameTask
        BY <3>1, <3>3 DEF SameTask
      <3>5. \A s : Sees(s) => EngineRead(call', s)
        BY <3>1, <3>2, <3>3 DEF EngineRead
      <3> QED BY <1>1, <3>1, <3>4, <3>5, EngineReadStep
    <2> QED BY <2>4, <2>5
  <1> QED BY <1>2, <1>3 DEF Decide

LEMMA NamedStays ==
  ASSUME ContractIInv, ~Containerd, call.step \in {"list", "inspect"}
  PROVE  \A s : Sees(s) => NamedRead(call.named, s)
  <1>1. EngineRead(call, seen)
    BY EngineKnows
  <1>2. NamedRead(call.named, seen)
    BY <1>1 DEF EngineRead, NamedRead
  <1> QED BY <1>2, SeenStays DEF NamedRead

LEMMA ListOwnedMoves ==
  ASSUME ContractIInv, ~Containerd, ListOwned, Watch
  PROVE  ContractIInv' /\ Contract!ContractNext
  <1>0. call.op \in EffectOps /\ Read /\ call.step = "list"
    BY DEF ListOwned, At, FailRead
  <1>1. call.op # "idle" /\ call.sub = "new" /\ call.from = "app" /\ call \in CallType
    BY <1>0, NewFacts, EngineKnows
  <1>2. RuntimesIInv'
    BY SelectorsOK DEF ContractIInv
  <1>3. \A s : Sees(s) => NamedRead(call.named, s)
    BY <1>0, NamedStays
  <1>4. CASE Return("error")
    BY <1>0, <1>1, <1>2, <1>4, ErrorReadEnds, EngineReadStep
  <1>5. CASE Owned = {} /\ Decide(call.named, Missing)
    <2>1. PICK a, o : a = call.named /\ o = Missing
      OBVIOUS
    <2>2. a \in SnapshotType /\ o \in SnapshotType /\ o.id = 0 /\ o.owner = "none"
      BY <1>1, <2>1, MissingType DEF CallType
    <2>3. LivesOf(View["new"]) = {}
      BY <1>5 DEF View, LivesOf
    <2> QED BY <1>0, <1>2, <1>3, <1>5, <2>1, <2>2, <2>3, DecideMoves
  <1>6. CASE \E c \in Owned : call' = FoundOwned(call, "inspect", Snapshot(c)) /\ answer' = answer
    <2>1. PICK c \in Owned : call' = FoundOwned(call, "inspect", Snapshot(c)) /\ answer' = answer
      BY <1>6
    <2>2. PICK k, n, t : k = call /\ t = Snapshot(c) /\ n = FoundOwned(k, "inspect", t)
      OBVIOUS
    <2>3. t \in SnapshotType
      BY <2>2, FoundOK DEF ContractIInv
    <2>4. /\ n.op = k.op /\ n.sub = k.sub /\ n.step = "inspect" /\ n.named = k.named
          /\ n.from = k.from /\ n.to = k.to
      <3>1. PICK x \in Points : x = "inspect"
        BY DEF Points
      <3> HIDE DEF SnapshotType
      <3> QED BY <1>1, <2>2, <2>3, <3>1, OwnedCall, FoundSame
    <2>5. call' = n /\ SameTask
      BY <2>1, <2>2, <2>4 DEF SameTask
    <2>6. \A s : Sees(s) => EngineRead(call', s)
      BY <1>3, <2>2, <2>4, <2>5 DEF EngineRead, NamedRead
    <2> QED BY <1>0, <1>1, <1>2, <2>1, <2>5, <2>6, EngineReadStep
  <1>7. \/ Return("error")
        \/ Owned = {} /\ Decide(call.named, Missing)
        \/ \E c \in Owned : call' = FoundOwned(call, "inspect", Snapshot(c)) /\ answer' = answer
    BY DEF ListOwned, FailRead, FoundOwned
  <1> QED BY <1>4, <1>5, <1>6, <1>7

LEMMA InspectOwnedMoves ==
  ASSUME ContractIInv, ~Containerd, InspectOwned, Watch
  PROVE  ContractIInv' /\ Contract!ContractNext
  <1>0. call.op \in EffectOps /\ Read /\ call.step = "inspect"
    BY DEF InspectOwned, At, FailRead
  <1>1. call.op # "idle" /\ call.sub = "new" /\ call.from = "app" /\ call \in CallType
    BY <1>0, NewFacts, EngineKnows
  <1>2. RuntimesIInv'
    BY SelectorsOK DEF ContractIInv
  <1>3. \A s : Sees(s) => NamedRead(call.named, s)
    BY <1>0, NamedStays
  <1>4. CASE Return("error")
    BY <1>0, <1>1, <1>2, <1>4, ErrorReadEnds, EngineReadStep
  <1>5. CASE ~Return("error")
    <2>1. PICK c \in Ids : c = call.owned.id
      BY <1>0, <1>1, EngineFacts DEF ContractIInv, EngineCall, CallType, SnapshotType
    <2>2. PICK a, o : a = call.named /\ o = ById(c)
      OBVIOUS
    <2>3. o.owner = "tx" /\ Decide(a, o)
      BY <1>5, <2>1, <2>2 DEF InspectOwned, FailRead
    <2>4. /\ o \in SnapshotType /\ box[c].record /\ o.id = c /\ o.life = Life(c)
          /\ o.owner = box[c].owner
      BY <2>2, <2>3, IdIs
    <2>5. a \in SnapshotType
      BY <1>1, <2>2 DEF CallType
    <2>6. o.id # 0 /\ o.id \in Ids /\ box[o.id].record /\ box[o.id].owner = "tx" /\ o.life = Life(o.id)
      BY <2>3, <2>4
    <2> QED BY <1>0, <1>2, <1>3, <2>2, <2>3, <2>4, <2>5, <2>6, DecideMoves
  <1> QED BY <1>4, <1>5

(* What is read of the predecessor                                               *)
LEMMA OldSeen ==
  ASSUME ContractIInv, ~Containerd, call.sub = "old", NEW s, Sees(s)
  PROVE  /\ box[1].record => WasSeen(Life(1), s.at)
         /\ ~box[1].record => {} \in s.at
  <1> PICK c \in Ids : c = 1
    OBVIOUS
  <1>1. Side(c) = call.sub
    BY DEF Side
  <1>2. box[c].record => WasSeen(Life(c), s.at)
    <2>1. box[c].record => Visible(c, box[c])
      BY DEF Visible
    <2> QED BY <1>1, <2>1, SeenNow
  <1>3. ~box[c].record => LivesOf(View["old"]) = {}
    <2>1. \A x \in LivesOf(View["old"]) : \E e \in Ids : Side(e) = "old" /\ Visible(e, box[e])
      BY EngineKnows DEF ViewShown
    <2> QED BY <2>1 DEF Side, Visible
  <1> QED BY <1>2, <1>3, SeenStays

LEMMA ReadBeforeMoves ==
  ASSUME ContractIInv, ~Containerd, ReadBefore, Watch
  PROVE  ContractIInv' /\ Contract!ContractNext
  <1>0. call.op \in TransitionOps /\ Read /\ call.op # "idle" /\ call \in CallType
    BY EngineKnows DEF ReadBefore, At, FailRead, TransitionOps
  <1>2. RuntimesIInv'
    BY ReadBeforeOK DEF ContractIInv
  <1>3. CASE Return("error")
    BY <1>0, <1>2, <1>3, ErrorReadEnds, EngineReadStep
  <1>4. CASE Continue("send")
    <2>1. SameTask /\ answer' = answer /\ call'.step = "send"
      BY <1>0, <1>4, ContinueGoesOn
    <2>2. call'.op \in TransitionOps
      BY <1>0, <2>1 DEF SameTask
    <2>3. \A s : Sees(s) => EngineRead(call', s)
      BY <2>1, <2>2 DEF EngineRead, TransitionOps
    <2> QED BY <1>0, <1>2, <2>1, <2>3, EngineReadStep
  <1> QED BY <1>3, <1>4 DEF ReadBefore, FailRead

LEMMA ProbeFacts ==
  ASSUME ContractIInv, ~Containerd, call.op \in ProbeOps
  PROVE  call.op # "idle" /\ call.sub = "old" /\ call.from \in Names /\ call.op # "rename"
         /\ Task.op = call.op /\ call \in CallType
  <1>1. CallForm(call) /\ FromOK(call) /\ call \in CallType
    BY EngineKnows
  <1> QED BY <1>1, TaskIs DEF ProbeOps, CallForm, FromOK, NewOps, Names

LEMMA ReadTransitionMoves ==
  ASSUME ContractIInv, ~Containerd, ReadTransition, Watch
  PROVE  ContractIInv' /\ Contract!ContractNext
  <1>0. call.op \in ProbeOps /\ Read
    BY DEF ReadTransition, At, FailRead
  <1>1. call.op # "idle" /\ call.sub = "old" /\ call \in CallType /\ call.op # "rename" /\ Task.op = call.op
    BY <1>0, ProbeFacts
  <1>2. RuntimesIInv'
    BY ReadTransitionOK DEF ContractIInv
  <1>3. CASE Return("error")
    BY <1>0, <1>1, <1>2, <1>3, ErrorReadEnds, EngineReadStep
  <1>4. CASE ~Return("error")
    <2>1. PICK c \in Ids : c = 1
      OBVIOUS
    <2>2. PICK t : t = ById(c)
      OBVIOUS
    <2>3. /\ t \in SnapshotType
          /\ t.id # 0 => box[1].record /\ t.life = Life(1)
          /\ t.id = 0 => ~box[1].record
      BY <2>1, <2>2, IdIs
    <2>4. \/ /\ t.id = 0 => call.op # "probeRename"
             /\ call' = FoundOwned(call, "name", t) /\ answer' = answer
          \/ Return(IF t.id = 0 THEN "missing" ELSE t.life) /\ call.op # "probeRemove"
      BY <1>4, <2>1, <2>2 DEF ReadTransition, FailRead, FoundOwned
    <2>5. CASE /\ t.id = 0 => call.op # "probeRename"
               /\ call' = FoundOwned(call, "name", t) /\ answer' = answer
      <3>1. PICK k, n : k = call /\ n = FoundOwned(k, "name", t)
        OBVIOUS
      <3>2. /\ n.op = k.op /\ n.sub = k.sub /\ n.step = "name" /\ n.owned = t
            /\ n.from = k.from /\ n.to = k.to
        <4>1. PICK x \in Points : x = "name"
          BY DEF Points
        <4> HIDE DEF SnapshotType
        <4> QED BY <1>1, <2>3, <3>1, <4>1, OwnedCall, FoundSame
      <3>3. call' = n /\ SameTask
        BY <2>5, <3>1, <3>2 DEF SameTask
      <3>4. \A s : Sees(s) => EngineRead(call', s)
        BY <1>1, <2>3, <2>5, <3>1, <3>2, <3>3, OldSeen DEF EngineRead
      <3> QED BY <1>0, <1>1, <1>2, <2>5, <3>3, <3>4, EngineReadStep
    <2>6. CASE Return(IF t.id = 0 THEN "missing" ELSE t.life) /\ call.op # "probeRemove"
      <3>1. ASSUME NEW s, Sees(s)
            PROVE  Contract!Holds(IF t.id = 0 THEN "missing" ELSE t.life, s.at, s.free)
        <4>1. CASE t.id = 0
          <5>1. {} \in s.at
            BY <1>1, <2>3, <3>1, <4>1, OldSeen
          <5>2. Task.op \notin {"probe", "probeRemove"}
            BY <1>0, <1>1, <2>6 DEF ProbeOps
          <5> QED BY <4>1, <5>1, <5>2 DEF Contract!Holds
        <4>2. CASE t.id # 0
          BY <1>1, <2>3, <3>1, <4>2, OldSeen, SeenHolds
        <4> QED BY <4>1, <4>2
      <3>2. ReadEnds
        BY <1>1, <2>6, <3>1 DEF ReadEnds, Return
      <3> QED BY <1>0, <1>1, <1>2, <3>2, EngineReadStep
    <2> QED BY <2>4, <2>5, <2>6
  <1> QED BY <1>3, <1>4

LEMMA ReadOldNameMoves ==
  ASSUME ContractIInv, ~Containerd, ReadOldName, Watch
  PROVE  ContractIInv' /\ Contract!ContractNext
  <1>0. call.op \in ProbeOps /\ Read /\ call.step = "name"
    BY DEF ReadOldName, At, FailRead
  <1>1. call.op # "idle" /\ call.sub = "old" /\ call.op # "rename" /\ call.from \in Names
    BY <1>0, ProbeFacts
  <1>2. RuntimesIInv'
    BY ReadTransitionOK DEF ContractIInv
  <1>3. CASE Return("error")
    BY <1>0, <1>1, <1>2, <1>3, ErrorReadEnds, EngineReadStep
  <1>4. CASE ~Return("error")
    <2>1. PICK a, o : a = ByName(call.from) /\ o = call.owned
      OBVIOUS
    <2>2. a.id = 0 => call.from \in Free
      BY <1>1, <2>1, NamedIs
    <2>3. IF o.id = 0 THEN call.op # "probeRename" /\ {} \in seen.at ELSE WasSeen(o.life, seen.at)
      BY <1>0, <2>1, EngineKnows DEF EngineRead
    <2>4. \/ Return(o.life) /\ o.id # 0
          \/ Return("missing") /\ o.id = 0 /\ a.id = 0
      BY <1>0, <1>4, <2>1, <2>3 DEF ReadOldName, FailRead
    <2>5. ASSUME NEW s, Sees(s) PROVE Contract!Holds(answer', s.at, s.free)
      <3>1. CASE Return(o.life) /\ o.id # 0
        <4>1. WasSeen(o.life, s.at) /\ answer' = o.life
          BY <2>3, <2>5, <3>1, SeenStays DEF Return
        <4> QED BY <4>1, SeenHolds
      <3>2. CASE Return("missing") /\ o.id = 0 /\ a.id = 0
        <4>1. {} \in s.at /\ s.free /\ answer' = "missing"
          BY <2>2, <2>3, <2>5, <3>2, SeenStays DEF Return
        <4> QED BY <4>1 DEF Contract!Holds
      <3> QED BY <2>4, <3>1, <3>2
    <2>6. ReadEnds
      BY <1>1, <2>4, <2>5 DEF ReadEnds, Return
    <2> QED BY <1>0, <1>1, <1>2, <2>6, EngineReadStep
  <1> QED BY <1>3, <1>4

-----------------------------------------------------------------------------
(* Docker and Podman: what the engine carries out.                              *)

OpOf(r) == IF r.kind = "start" /\ r.id = Predecessor THEN "restart" ELSE r.kind
SubOf(r) == IF r.id = Predecessor THEN "old" ELSE "new"

LEMMA PendingOfEngine ==
  ~Containerd => \A r : PendingOp(r) = [op |-> OpOf(r), sub |-> SubOf(r), late |-> TRUE]
  BY DEF PendingOp, OpOf, SubOf

(* What a request makes of the container it is for.                                *)
Made(r, d, n) ==
    /\ d.born
    /\ r.kind \in {"remove", "discard"} => ~d.record /\ d.owner = "none"
    /\ r.kind \notin {"remove", "discard"} => d.record
    /\ r.kind = "create" => d.owner = "tx" /\ d.name = "app"
    /\ r.kind = "rename" => d.name = r.name
    /\ r.kind = "start" => ShownAs(d, n) \in Contract!Up
    /\ r.kind = "stop" => ShownAs(d, n) = "exited"

CarriedFor(r, c) ==
    /\ c = IF r.kind = "create" THEN NextId ELSE r.id
    /\ Moved(c, box[c], marks[c], box'[c], marks'[c])
    /\ Turns(OpOf(r), c, box[c], marks[c], box'[c], marks'[c])
    /\ Side(c) = SubOf(r)
    /\ r.kind # "create" => Visible(c, box[c])
    /\ Visible(c, box'[c]) <=> box'[c].record
    /\ Made(r, box'[c], marks'[c])
    /\ Placed(c, box'[c], marks'[c])
    /\ box[c].born /\ box[c].owner # "tx" => box'[c].owner # "tx"
    /\ box'[c].record /\ r.kind # "create" => box'[c].owner = box[c].owner
    /\ box'[c].record => box'[c].name = IF r.kind \in {"create", "rename"} THEN r.name ELSE box[c].name
    /\ r.kind \in {"stop", "rename", "remove"} => c = Predecessor

LEMMA PlacedEngine ==
  ASSUME ~Containerd, NEW c \in Ids, NEW d, NEW n,
         c = 1 => d.owner # "tx", c # 1 => d.owner # "old", d.parts = {}
  PROVE  Placed(c, d, n)
  BY DEF Placed

LEMMA CarriedMoves ==
  ASSUME ContractIInv, ~Containerd, NEW r, RequestOK(r), RequestPlaced(r), Permitted(r),
         NEW stopped, box' = Carried(r), marks' = MarkAs(r, stopped), UNCHANGED <<plugin, foreign>>
  PROVE  \E c \in Ids : CarriedFor(r, c)
  <1>0. /\ r.kind \in {"create", "start", "stop", "rename", "remove", "discard"}
        /\ r.kind # "create" => r.id \in Ids /\ box[r.id].born
                                /\ (box[r.id].record => box[r.id].owner # "none")
        /\ r.kind = "create" => r.id = 0 /\ r.name = "app"
        /\ r.kind \in {"stop", "rename", "remove"} => r.id = 1
        /\ r.kind = "discard" => r.id # 1
        /\ r.name \in Names \cup {"none"}
    BY DEF RequestOK, RequestType, RequestPlaced, Ours, OurBox
  <1>a. /\ box \in [Ids -> BoxType] /\ marks \in [Ids -> SUBSET MarkNames]
        /\ \A c \in Ids : box[c].parts = {}
    BY EngineKnows, EngineFacts DEF Types
  <1> PICK c : c = IF r.kind = "create" THEN NextId ELSE r.id
    OBVIOUS
  <1>1. c \in Ids
    BY <1>0 DEF NextId
  <1> PICK b, m, d, n : b = box[c] /\ m = marks[c] /\ d = box'[c] /\ n = marks'[c]
    OBVIOUS
  <1>2. /\ b \in BoxType /\ b.parts = {} /\ (b.record => b.born)
        /\ (c = 1 => b.owner # "tx") /\ (c # 1 => b.owner # "old")
        /\ Life(c) = LifeIn(b)
    BY <1>1, <1>a, EngineKnows, LifeIs
  <1>3. r.kind = "create" => c # 1 /\ Side(c) = "new"
    BY <1>0, <1>1 DEF NextId, Side
  <1>4. Side(c) = SubOf(r)
    BY <1>0, <1>1, <1>3 DEF Side, SubOf
  <1>5. n = IF r.kind = "start" THEN m \ {"stopped"}
            ELSE IF r.kind = "stop" /\ stopped THEN m \cup {"stopped"} ELSE m
    <2>1. CASE r.kind = "create"
      BY <1>0, <1>1, <2>1 DEF MarkAs
    <2>2. CASE r.kind # "create"
      BY <1>1, <2>2 DEF MarkAs
    <2> QED BY <2>1, <2>2
  <1>6. \A e \in Ids \ {c} : marks'[e] = marks[e]
    <2>1. CASE r.kind = "create"
      BY <1>0, <2>1 DEF MarkAs
    <2>2. CASE r.kind # "create"
      BY <2>2 DEF MarkAs
    <2> QED BY <2>1, <2>2
  <1>7. ASSUME NEW x, box' = [box EXCEPT ![c] = x]
        PROVE  d = x /\ Moved(c, b, m, d, n)
    <2>1. d = x /\ \A e \in Ids \ {c} : box'[e] = box[e]
      BY <1>1, <1>7, <1>a
    <2> QED BY <1>6, <2>1 DEF Moved
  <1>8. r.kind # "create" /\ b.record => Visible(c, b) /\ b.owner # "none"
    BY <1>0, <1>1, <1>2 DEF Visible, BoxType, Owners
  <1>9. CASE r.kind = "create"
    <2>1. PICK x : x = [Unborn EXCEPT !.born = TRUE, !.record = TRUE, !.name = r.name,
                                      !.owner = "tx", !.task = "created"]
      OBVIOUS
    <2>2. /\ x.born /\ x.record /\ x.name = "app" /\ x.owner = "tx" /\ x.task = "created"
          /\ ~x.restart /\ x.parts = {}
      BY <1>0, <1>9, <2>1 DEF Unborn
    <2>3. box' = [box EXCEPT ![c] = x]
      BY <1>9, <2>1 DEF Carried
    <2>4. d = x /\ Moved(c, b, m, d, n)
      BY <1>7, <2>3
    <2>5. "app" \in Free /\ ~b.born
      BY <1>0, <1>9 DEF Permitted
    <2>6. Entry(d, n) = <<"created", "app">>
      BY <2>2, <2>4 DEF Entry, ShownAs, LifeIn
    <2>7. ASSUME NEW v \in View["new"] PROVE v[2] # "app"
      <3>1. PICK e \in Ids : Visible(e, box[e]) /\ v = Entry(box[e], marks[e])
        BY <2>7, EngineKnows DEF ViewShown
      <3>2. box[e].name # "app"
        BY <2>5, <3>1 DEF Free, Holders, Visible
      <3> QED BY <3>1, <3>2 DEF Entry
    <2>8. ~Visible(c, b) /\ Visible(c, d)
      BY <1>2, <1>3, <1>9, <2>2, <2>4, <2>5 DEF Visible
    <2>9. Turns(OpOf(r), c, b, m, d, n)
      BY <1>3, <1>9, <2>6, <2>7, <2>8 DEF Turns, OpOf
    <2>10. Placed(c, d, n)
      BY <1>1, <1>3, <1>9, <2>2, <2>4, PlacedEngine
    <2>11. Made(r, d, n)
      BY <1>9, <2>2, <2>4 DEF Made
    <2>12. CarriedFor(r, c)
      BY <1>0, <1>4, <1>9, <2>2, <2>4, <2>5, <2>8, <2>9, <2>10, <2>11 DEF CarriedFor
    <2> QED BY <1>1, <2>12
  <1>10. CASE r.kind = "start"
    <2>1. PICK x : x = [b EXCEPT !.task = "running", !.restart = TRUE]
      OBVIOUS
    <2>2. /\ x.born = b.born /\ x.record = b.record /\ x.name = b.name /\ x.owner = b.owner
          /\ x.task = "running" /\ x.parts = b.parts
      BY <1>2, <2>1 DEF BoxType
    <2>3. box' = [box EXCEPT ![c] = x]
      BY <1>1, <1>10, <1>a, <2>1 DEF Carried
    <2>4. d = x /\ Moved(c, b, m, d, n)
      BY <1>7, <2>3
    <2>5. LifeIn(b) \in {"created", "exited"}
      BY <1>2, <1>10 DEF Permitted
    <2>6. b.record /\ b.born /\ b.task \in {"none", "created", "exited"}
      BY <1>2, <2>5 DEF LifeIn, BoxType, Tasks
    <2>7. Visible(c, b) /\ Visible(c, d)
      BY <1>8, <1>10, <2>2, <2>4, <2>6 DEF Visible
    <2>8. ShownAs(b, m) \in Contract!Down /\ ShownAs(d, n) \in Contract!Up
      <3>1. ShownAs(b, m) \in Contract!Down
        BY <2>5, <2>6 DEF ShownAs, Contract!Down
      <3>2. LifeIn(d) = "running"
        BY <2>2, <2>4, <2>6 DEF LifeIn
      <3> QED BY <2>2, <2>4, <3>1, <3>2 DEF ShownAs, Contract!Up
    <2>9. Turns(OpOf(r), c, b, m, d, n)
      <3>1. Contract!Permits(OpOf(r), Entry(b, m), Entry(d, n))
        BY <1>10, <2>2, <2>4, <2>8 DEF Contract!Permits, Entry, OpOf
      <3> QED BY <2>7, <3>1 DEF Turns
    <2>10. Placed(c, d, n)
      BY <1>1, <1>2, <2>2, <2>4, PlacedEngine
    <2>11. Made(r, d, n)
      BY <1>10, <2>2, <2>4, <2>6, <2>8 DEF Made
    <2>12. CarriedFor(r, c)
      BY <1>4, <1>10, <2>2, <2>4, <2>6, <2>7, <2>9, <2>10, <2>11, <1>0 DEF CarriedFor
    <2> QED BY <1>1, <2>12
  <1>11. CASE r.kind = "stop"
    <2>1. PICK x : x = [b EXCEPT !.task = "exited", !.restart = FALSE]
      OBVIOUS
    <2>2. /\ x.born = b.born /\ x.record = b.record /\ x.name = b.name /\ x.owner = b.owner
          /\ x.task = "exited" /\ x.parts = b.parts
      BY <1>2, <2>1 DEF BoxType
    <2>3. box' = [box EXCEPT ![c] = x]
      BY <1>1, <1>11, <1>a, <2>1 DEF Carried
    <2>4. d = x /\ Moved(c, b, m, d, n)
      BY <1>7, <2>3
    <2>5. LifeIn(b) \in {"running", "paused"}
      BY <1>2, <1>11 DEF Permitted
    <2>6. b.record /\ b.born /\ b.task \in {"running", "paused"}
      BY <1>2, <2>5 DEF LifeIn, BoxType, Tasks
    <2>7. Visible(c, b) /\ Visible(c, d)
      BY <1>8, <1>11, <2>2, <2>4, <2>6 DEF Visible
    <2>8. ShownAs(b, m) \in Contract!Up \cup {"paused"} /\ ShownAs(d, n) = "exited"
      <3>1. ShownAs(b, m) \in Contract!Up \cup {"paused"}
        BY <2>5, <2>6 DEF ShownAs, Contract!Up
      <3>2. LifeIn(d) = "exited"
        BY <2>2, <2>4, <2>6 DEF LifeIn
      <3> QED BY <2>2, <2>4, <3>1, <3>2 DEF ShownAs
    <2>9. Turns(OpOf(r), c, b, m, d, n)
      <3>1. Contract!Permits(OpOf(r), Entry(b, m), Entry(d, n))
        BY <1>11, <2>2, <2>4, <2>8 DEF Contract!Permits, Entry, OpOf
      <3> QED BY <2>7, <3>1 DEF Turns
    <2>10. Placed(c, d, n)
      BY <1>1, <1>2, <2>2, <2>4, PlacedEngine
    <2>11. Made(r, d, n)
      BY <1>11, <2>2, <2>4, <2>6, <2>8 DEF Made
    <2>12. CarriedFor(r, c)
      BY <1>4, <1>11, <2>2, <2>4, <2>6, <2>7, <2>9, <2>10, <2>11, <1>0 DEF CarriedFor
    <2> QED BY <1>1, <2>12
  <1>12. CASE r.kind = "rename"
    <2>1. PICK x : x = [b EXCEPT !.name = r.name]
      OBVIOUS
    <2>2. /\ x.born = b.born /\ x.record = b.record /\ x.name = r.name /\ x.owner = b.owner
          /\ x.task = b.task /\ x.restart = b.restart /\ x.parts = b.parts
      BY <1>2, <2>1 DEF BoxType
    <2>3. box' = [box EXCEPT ![c] = x]
      BY <1>1, <1>12, <1>a, <2>1 DEF Carried
    <2>4. d = x /\ Moved(c, b, m, d, n)
      BY <1>7, <2>3
    <2>5. b.record /\ b.born /\ n = m
      BY <1>2, <1>5, <1>12 DEF Permitted
    <2>6. Visible(c, b) /\ Visible(c, d)
      BY <1>8, <1>12, <2>2, <2>4, <2>5 DEF Visible
    <2>7. ShownAs(d, n) = ShownAs(b, m)
      <3>1. d.record /\ b.record /\ d.task = b.task /\ (d.restart <=> b.restart)
        BY <2>2, <2>4, <2>5
      <3>2. LifeIn(d) = LifeIn(b)
        BY <3>1 DEF LifeIn
      <3> QED BY <2>5, <3>1, <3>2 DEF ShownAs
    <2>8. Turns(OpOf(r), c, b, m, d, n)
      <3>1. Contract!Permits(OpOf(r), Entry(b, m), Entry(d, n))
        BY <1>12, <2>7 DEF Contract!Permits, Entry, OpOf
      <3> QED BY <2>6, <3>1 DEF Turns
    <2>9. Placed(c, d, n)
      BY <1>1, <1>2, <2>2, <2>4, PlacedEngine
    <2>10. Made(r, d, n)
      BY <1>12, <2>2, <2>4, <2>5 DEF Made
    <2>11. CarriedFor(r, c)
      BY <1>4, <1>12, <2>2, <2>4, <2>5, <2>6, <2>8, <2>9, <2>10, <1>0 DEF CarriedFor
    <2> QED BY <1>1, <2>11
  <1>13. CASE r.kind \in {"remove", "discard"}
    <2>1. PICK x : x = [Unborn EXCEPT !.born = TRUE]
      OBVIOUS
    <2>2. x.born /\ ~x.record /\ x.owner = "none" /\ x.parts = {}
      BY <2>1 DEF Unborn
    <2>3. box' = [box EXCEPT ![c] = x]
      BY <1>13, <2>1 DEF Carried
    <2>4. d = x /\ Moved(c, b, m, d, n)
      BY <1>7, <2>3
    <2>5. b.record /\ (r.kind = "remove" => ShownAs(b, m) \in Contract!Down)
      <3>1. CASE r.kind = "remove"
        <4>1. LifeIn(b) \in {"created", "exited"}
          BY <1>2, <1>13, <3>1 DEF Permitted
        <4>2. b.record /\ b.task \in {"none", "created", "exited"}
          BY <1>2, <4>1 DEF LifeIn, BoxType, Tasks
        <4> QED BY <4>1, <4>2 DEF ShownAs, Contract!Down
      <3>2. CASE r.kind = "discard"
        BY <3>2 DEF Permitted
      <3> QED BY <1>13, <3>1, <3>2
    <2>6. Visible(c, b) /\ ~Visible(c, d)
      BY <1>8, <1>13, <2>2, <2>4, <2>5 DEF Visible
    <2>7. Turns(OpOf(r), c, b, m, d, n)
      BY <1>13, <2>5, <2>6 DEF Turns, OpOf
    <2>8. Placed(c, d, n)
      BY <1>1, <2>2, <2>4, PlacedEngine
    <2>9. Made(r, d, n)
      BY <1>13, <2>2, <2>4 DEF Made
    <2>10. CarriedFor(r, c)
      BY <1>4, <1>13, <2>2, <2>4, <2>6, <2>7, <2>8, <2>9, <1>0 DEF CarriedFor
    <2> QED BY <1>1, <2>10
  <1> QED BY <1>0, <1>9, <1>10, <1>11, <1>12, <1>13

(* The names stay apart, and foreign containers stay foreign.                       *)
LEMMA CarriedKeeps ==
  ASSUME ContractIInv, ~Containerd, NEW r, Permitted(r), NEW c \in Ids, CarriedFor(r, c),
         UNCHANGED <<plugin, foreign>>
  PROVE  /\ Places' /\ NamesApart' /\ NamedApp'
         /\ \A e : Alien(e) => Alien(e)'
         /\ \A q \in Pending : q.op = OpOf(r) /\ q.sub = SubOf(r) => View' = View \/ Contract!Effect
  <1>1. /\ Moved(c, box[c], marks[c], box'[c], marks'[c])
        /\ Turns(OpOf(r), c, box[c], marks[c], box'[c], marks'[c])
        /\ Side(c) = SubOf(r) /\ Placed(c, box'[c], marks'[c])
        /\ Visible(c, box'[c]) <=> box'[c].record
        /\ box[c].born /\ box[c].owner # "tx" => box'[c].owner # "tx"
        /\ Made(r, box'[c], marks'[c])
    BY DEF CarriedFor
  <1>2. /\ box'[c].record /\ r.kind # "create" => box'[c].owner = box[c].owner
        /\ box'[c].record =>
              box'[c].name = IF r.kind \in {"create", "rename"} THEN r.name ELSE box[c].name
        /\ r.kind = "rename" => c = 1
        /\ r.kind # "create" => Visible(c, box[c])
        /\ c = IF r.kind = "create" THEN NextId ELSE r.id
    BY DEF CarriedFor
  <1>3. \A e \in Ids \ {c} : box'[e] = box[e] /\ marks'[e] = marks[e]
    BY <1>1 DEF Moved
  <1>4. Places'
    <2> SUFFICES ASSUME NEW e \in Ids PROVE Placed(e, box[e], marks[e])'
      BY DEF Places
    <2>1. Placed(e, box'[e], marks'[e])
      BY <1>1, <1>3, EngineKnows DEF Places
    <2> QED BY <2>1 DEF Placed
  <1>5. box'[c].record =>
           /\ \A e \in Ids \ {c} : box[e].record => box[e].name # box'[c].name
           /\ r.kind # "create" => box[c].record
    <2> SUFFICES ASSUME box'[c].record
                 PROVE  /\ \A e \in Ids \ {c} : box[e].record => box[e].name # box'[c].name
                        /\ r.kind # "create" => box[c].record
      OBVIOUS
    <2>1. r.kind # "create" => box[c].record
      BY <1>2 DEF Visible
    <2>2. CASE r.kind \in {"create", "rename"}
      <3>1. r.name \in Free
        BY <2>2 DEF Permitted
      <3> QED BY <1>2, <2>1, <2>2, <3>1 DEF Free, Holders
    <2>3. CASE r.kind \notin {"create", "rename"}
      BY <1>2, <2>1, <2>3, EngineKnows DEF NamesApart
    <2> QED BY <2>1, <2>2, <2>3
  <1>6. NamesApart'
    <2> SUFFICES ASSUME NEW e \in Ids, NEW f \in Ids, e # f, box'[e].record, box'[f].record
                 PROVE  box'[e].name # box'[f].name
      BY DEF NamesApart
    <2>1. CASE e # c /\ f # c
      BY <1>3, <2>1, EngineKnows DEF NamesApart
    <2>2. CASE e = c \/ f = c
      BY <1>3, <1>5, <2>2
    <2> QED BY <2>1, <2>2
  <1>7. NamedApp'
    <2> SUFFICES ASSUME foreign = 0, NEW e \in Ids, box'[e].record, box'[e].owner = "tx"
                 PROVE  box'[e].name = "app"
      BY DEF NamedApp
    <2>1. CASE e # c
      BY <1>3, <2>1, EngineKnows DEF NamedApp
    <2>2. CASE e = c /\ r.kind = "create"
      BY <1>1, <2>2 DEF Made
    <2>3. CASE e = c /\ r.kind # "create"
      <3>1. box[c].record /\ box[c].owner = "tx" /\ box[c].name = "app"
        BY <1>2, <1>5, <2>3, EngineKnows DEF NamedApp
      <3>2. r.kind # "rename"
        BY <1>2, <3>1, EngineKnows
      <3> QED BY <1>2, <2>3, <3>1, <3>2
    <2> QED BY <2>1, <2>2, <2>3
  <1>8. ASSUME NEW e, Alien(e) PROVE Alien(e)'
    <2>1. e \in Ids /\ box[e].born /\ box[e].owner # "tx"
      BY <1>8 DEF Alien
    <2> QED BY <1>1, <1>3, <2>1 DEF Alien, Made
  <1>9. ASSUME NEW q \in Pending, q.op = OpOf(r), q.sub = SubOf(r) PROVE View' = View \/ Contract!Effect
    <2> PICK b, m, d, n : b = box[c] /\ m = marks[c] /\ d = box'[c] /\ n = marks'[c]
      OBVIOUS
    <2>1. Moved(c, b, m, d, n) /\ Turns(q.op, c, b, m, d, n) /\ q.sub = Side(c)
      BY <1>1, <1>9
    <2> QED BY <1>4, <1>9, <2>1, EffectStep
  <1> QED BY <1>4, <1>6, <1>7, <1>8, <1>9

(* A call of an engine returns.                                                  *)
LEMMA EngineReturns ==
  ASSUME ContractIInv, ~Containerd, Watch, call.op # "idle", call' = IdleCall,
         UNCHANGED <<plugin, foreign>>, RuntimesIInv', Places', NamesApart', NamedApp',
         Sent, \A r \in wire' : RequestPlaced(r), answer' # "error" => wire' \subseteq wire,
         View' = View \/ Contract!Effect,
         Contract!Holds(answer', seen.at \cup {LivesOf(View'[call.sub])}, seen.free \/ call.from \in Free'),
         answer' = "ok" /\ call.op = "rename" => \E v \in View'[call.sub] : v[2] = call.to
  PROVE  ContractIInv' /\ Contract!ContractNext
  <1>1. ContractIInv'
    <2>1. EngineRead(call, seen)'
      BY IdleType DEF EngineRead
    <2>2. FromOK(call')
      BY IdleType DEF FromOK, NewOps
    <2> QED BY <2>1, <2>2 DEF ContractIInv
  <1>2. Pending' \subseteq (IF answer' = "error" THEN Contract!Late ELSE {r \in Pending : r.late})
    BY OpenStep
  <1>3. Contract!ContractNext
    BY <1>2, ReturnStep
  <1> QED BY <1>1, <1>3

(* What an answer of the engine rests on                                          *)
Obtained(V) == CASE call.op = "create" -> V # {}
                 [] call.op \in {"start", "restart"} -> V \cap Contract!Up # {}
                 [] call.op = "stop" -> V \cap Contract!Up = {}
                 [] call.op = "rename" -> TRUE
                 [] call.op = "discard" -> V = {} \/ foreign > 0
                 [] OTHER -> V = {}

LEMMA ObtainedHolds ==
  ASSUME call.op \in Mutating, UNCHANGED foreign, NEW V, Obtained(V), NEW at, NEW freed
  PROVE  Contract!Holds("ok", at \cup {V}, freed)
  <1>1. Task.op = call.op
    BY TaskIs DEF Mutating
  <1> QED BY <1>1 DEF Contract!Holds, Obtained, Mutating

(* The request of a call                                                        *)
RequestOf(r) == /\ RequestOK(r) /\ RequestPlaced(r) /\ call.op \in Mutating
                /\ OpOf(r) = call.op /\ SubOf(r) = call.sub
                /\ call.op = "rename" => r.name = call.to

LEMMA RequestPending ==
  ASSUME ContractIInv, ~Containerd, NEW r, RequestOf(r)
  PROVE  /\ call.op # "idle"
         /\ \E q \in Pending : q.op = OpOf(r) /\ q.sub = SubOf(r)
         /\ PendingOp(r) = [op |-> call.op, sub |-> call.sub, late |-> TRUE]
  <1>1. call.op \in Mutating /\ OpOf(r) = call.op /\ SubOf(r) = call.sub
    BY DEF RequestOf
  <1>2. PICK q \in Pending : q = [op |-> call.op, sub |-> call.sub, late |-> FALSE]
    BY <1>1, PendingIs
  <1>3. q.op = OpOf(r) /\ q.sub = SubOf(r)
    BY <1>1, <1>2
  <1> QED BY <1>1, <1>3, PendingOfEngine DEF Mutating

(* After a request was carried out its effect is seen.                             *)
LEMMA CarriedObtained ==
  ASSUME ContractIInv, ~Containerd, NEW r, RequestOf(r), NEW c \in Ids, CarriedFor(r, c),
         UNCHANGED <<plugin, foreign>>, Places'
  PROVE  /\ Obtained(LivesOf(View'[call.sub]))
         /\ call.op = "rename" => \E v \in View'[call.sub] : v[2] = call.to
  <1> PICK d, n : d = box'[c] /\ n = marks'[c]
    OBVIOUS
  <1>0. /\ call.op \in Mutating /\ OpOf(r) = call.op /\ SubOf(r) = call.sub /\ call.sub = Side(c)
        /\ call.op = "rename" => r.name = call.to
    BY DEF RequestOf, CarriedFor
  <1>1. /\ Made(r, d, n) /\ (Visible(c, d) <=> d.record)
        /\ \A e \in Ids \ {c} : box'[e] = box[e]
        /\ (r.kind # "create" => Visible(c, box[c]))
        /\ (r.kind \in {"stop", "rename", "remove"} => c = 1)
    BY DEF CarriedFor, Moved
  <1>2. \A x, y : ShownAs(x, y)' = ShownAs(x, y) /\ Entry(x, y)' = Entry(x, y)
    BY DEF ShownAs, LifeIn, Entry
  <1>3. ViewShown'
    <2>1. (Places => ViewShown)'
      BY ViewShownOK, PTL
    <2> QED BY <2>1
  <1>4. d.record => /\ Entry(d, n) \in View'[call.sub]
                    /\ ShownAs(d, n) \in LivesOf(View'[call.sub])
    <2>1. Visible(c, box'[c]) => /\ Entry(box[c], marks[c])' \in View'[Side(c)]
                                 /\ ShownAs(box[c], marks[c])' \in LivesOf(View'[Side(c)])
      BY <1>3 DEF ViewShown, Visible, Side, LivesOf
    <2>2. Entry(box[c], marks[c])' = Entry(d, n) /\ ShownAs(box[c], marks[c])' = ShownAs(d, n)
      BY DEF ShownAs, LifeIn, Entry
    <2> QED BY <1>0, <1>1, <2>1, <2>2
  <1>5. \A x \in LivesOf(View'[call.sub]) :
           \E e \in Ids : Side(e) = call.sub /\ Visible(e, box'[e]) /\ (e = c => x = ShownAs(d, n))
    <2>1. \A x \in LivesOf(View'[Side(c)]) : \E e \in Ids :
             Side(e) = Side(c) /\ Visible(e, box'[e]) /\ x = ShownAs(box[e], marks[e])'
      <3>1. Side(c) \in {"old", "new"}
        BY DEF Side
      <3> QED BY <1>3, <3>1 DEF ViewShown, Visible, Side, LivesOf
    <2>2. ShownAs(box[c], marks[c])' = ShownAs(d, n)
      BY DEF ShownAs, LifeIn
    <2> QED BY <1>0, <2>1, <2>2
  <1>6. c = 1 => \A e \in Ids : Side(e) = call.sub => e = c
    BY <1>0 DEF Side
  <1>7. /\ call.op = "create" => r.kind = "create"
        /\ call.op \in {"start", "restart"} => r.kind = "start"
        /\ call.op = "stop" => r.kind = "stop"
        /\ call.op = "rename" => r.kind = "rename"
        /\ call.op = "discard" => r.kind = "discard"
        /\ call.op \notin {"create", "start", "restart", "stop", "rename", "discard"} => r.kind = "remove"
    <2>1. r.kind # "restart"
      BY DEF RequestOf, RequestOK, RequestType
    <2> QED BY <1>0, <2>1 DEF OpOf, Mutating
  <1>8. CASE call.op = "create"
    BY <1>1, <1>4, <1>7, <1>8 DEF Made, Obtained
  <1>9. CASE call.op \in {"start", "restart"}
    BY <1>1, <1>4, <1>7, <1>9 DEF Made, Obtained
  <1>10. CASE call.op = "stop"
    <2>1. ShownAs(d, n) = "exited" /\ c = 1
      BY <1>1, <1>7, <1>10 DEF Made
    <2>2. LivesOf(View'[call.sub]) \cap Contract!Up = {}
      BY <1>5, <1>6, <2>1 DEF Contract!Up
    <2> QED BY <1>10, <2>2 DEF Obtained
  <1>11. CASE call.op = "rename"
    <2>1. d.record /\ d.name = call.to
      BY <1>0, <1>1, <1>7, <1>11 DEF Made
    <2>2. Entry(d, n)[2] = call.to
      BY <2>1 DEF Entry
    <2> QED BY <1>4, <1>11, <2>1, <2>2 DEF Obtained
  <1>12. CASE call.op = "discard"
    <2>1. ~d.record /\ c # 1 /\ r.kind = "discard"
      <3>1. ~d.record /\ r.kind = "discard" /\ r.id # 1
        BY <1>1, <1>7, <1>12 DEF Made, RequestOf, RequestPlaced
      <3> QED BY <3>1 DEF CarriedFor
    <2>2. Visible(c, box[c])
      BY <1>1, <2>1
    <2>3. ASSUME foreign = 0, NEW x \in LivesOf(View'[call.sub]) PROVE FALSE
      <3>1. PICK e \in Ids : Side(e) = call.sub /\ Visible(e, box'[e])
        BY <1>5, <2>3
      <3>2. e # c /\ e # 1
        BY <1>0, <2>1, <3>1 DEF Visible, Side
      <3>3. box[e].record /\ box[e].owner = "tx" /\ box[c].record /\ box[c].owner = "tx"
        BY <1>1, <2>1, <2>2, <3>1, <3>2 DEF Visible
      <3>4. box[e].name = "app" /\ box[c].name = "app"
        BY <2>3, <3>3, EngineKnows DEF NamedApp
      <3> QED BY <3>2, <3>3, <3>4, EngineKnows DEF NamesApart
    <2>4. foreign \in Nat
      BY EngineKnows DEF Types
    <2>5. LivesOf(View'[call.sub]) = {} \/ foreign > 0
      BY <2>3, <2>4
    <2> QED BY <1>12, <2>5 DEF Obtained
  <1>13. CASE call.op \notin {"create", "start", "restart", "stop", "rename", "discard"}
    <2>1. ~d.record /\ c = 1
      BY <1>1, <1>7, <1>13 DEF Made
    <2>2. LivesOf(View'[call.sub]) = {}
      BY <1>1, <1>5, <1>6, <2>1
    <2> QED BY <1>13, <2>2 DEF Obtained
  <1> QED BY <1>8, <1>9, <1>10, <1>11, <1>12, <1>13

(* What is the case already                                                     *)
LEMMA NotModifiedObtained ==
  ASSUME ContractIInv, ~Containerd, NEW r, RequestOf(r), NotModified(r)
  PROVE  Obtained(LivesOf(View[call.sub])) /\ call.op # "rename"
  <1>0. /\ call.op \in Mutating /\ OpOf(r) = call.op /\ SubOf(r) = call.sub
        /\ r.kind # "create" => Ours(r.id)
        /\ r.kind = "stop" => r.id = 1
    BY DEF RequestOf, RequestOK, RequestPlaced
  <1>1. PICK c \in Ids : c = r.id /\ OurBox(box[c])
    BY <1>0 DEF NotModified, Ours
  <1>2. /\ Life(c) = LifeIn(box[c]) /\ Side(c) = call.sub /\ box[c] \in BoxType
        /\ (c # 1 => box[c].owner # "old")
    BY <1>0, <1>1, LifeIs, EngineKnows DEF Side, SubOf
  <1>3. box[c].record
    BY <1>1, <1>2 DEF NotModified, LifeIn
  <1>4. Visible(c, box[c])
    BY <1>1, <1>2, <1>3 DEF Visible, OurBox, BoxType, Owners
  <1>5. CASE r.kind = "start" /\ Life(r.id) = "running"
    <2>1. ShownAs(box[c], marks[c]) \in Contract!Up
      BY <1>1, <1>2, <1>3, <1>5 DEF ShownAs, LifeIn, Contract!Up
    <2>2. ShownAs(box[c], marks[c]) \in LivesOf(View[call.sub])
      BY <1>2, <1>4, EngineKnows DEF ViewShown
    <2>3. call.op \in {"start", "restart"}
      BY <1>0, <1>5 DEF OpOf
    <2> QED BY <2>1, <2>2, <2>3 DEF Obtained
  <1>6. CASE r.kind = "stop" /\ Life(r.id) \in {"created", "exited"}
    <2>1. ShownAs(box[c], marks[c]) \notin Contract!Up
      BY <1>1, <1>2, <1>3, <1>6 DEF ShownAs, LifeIn, Contract!Up
    <2>2. c = 1 /\ call.op = "stop" /\ call.sub = "old"
      BY <1>0, <1>1, <1>6 DEF OpOf, SubOf
    <2>3. \A x \in LivesOf(View["old"]) :
             \E e \in Ids : Side(e) = "old" /\ x = ShownAs(box[e], marks[e])
      BY EngineKnows DEF ViewShown
    <2>4. \A e \in Ids : Side(e) = "old" => e = c
      BY <2>2 DEF Side
    <2>5. LivesOf(View[call.sub]) \cap Contract!Up = {}
      BY <2>1, <2>2, <2>3, <2>4
    <2> QED BY <2>2, <2>5 DEF Obtained
  <1> QED BY <1>5, <1>6 DEF NotModified

LEMMA SendMoves ==
  ASSUME ContractIInv, ~Containerd, Watch, NEW r, RequestOf(r), NEW accepts, Send(r, accepts),
         RuntimesIInv'
  PROVE  ContractIInv' /\ Contract!ContractNext
  <1>0. /\ call.op \in Mutating /\ call.op # "idle" /\ RequestOK(r) /\ RequestPlaced(r)
        /\ \E q \in Pending : q.op = OpOf(r) /\ q.sub = SubOf(r)
        /\ PendingOp(r) = [op |-> call.op, sub |-> call.sub, late |-> TRUE]
    BY RequestPending DEF RequestOf
  <1>1. call' = IdleCall /\ UNCHANGED <<plugin, foreign>>
    BY DEF Send, Return
  <1>2. Sent /\ \A q \in wire' : RequestPlaced(q)
    <2>1. wire' = wire \/ wire' = wire \cup {r}
      BY DEF Send
    <2> QED BY <1>0, <2>1, EngineKnows DEF Sent
  <1>3. answer' # "error" => wire' \subseteq wire
    BY DEF Send, Return
  <1>4. answer' \in {"ok", "error"}
    BY DEF Send, Return
  <1>5. answer' = "error" => Contract!Holds(answer', seen.at \cup {LivesOf(View'[call.sub])},
                                            seen.free \/ call.from \in Free')
    BY DEF Contract!Holds
  <1>6. CASE Permitted(r) /\ box' = Carried(r) /\ \E stopped : marks' = MarkAs(r, stopped)
    <2>1. PICK c \in Ids : CarriedFor(r, c)
      BY <1>0, <1>1, <1>6, CarriedMoves
    <2>2. Places' /\ NamesApart' /\ NamedApp' /\ (View' = View \/ Contract!Effect)
      BY <1>0, <1>1, <1>6, <2>1, CarriedKeeps
    <2>3. /\ Obtained(LivesOf(View'[call.sub]))
          /\ call.op = "rename" => \E v \in View'[call.sub] : v[2] = call.to
      BY <1>1, <2>1, <2>2, CarriedObtained
    <2>4. Contract!Holds(answer', seen.at \cup {LivesOf(View'[call.sub])}, seen.free \/ call.from \in Free')
      <3>1. Contract!Holds("ok", seen.at \cup {LivesOf(View'[call.sub])}, seen.free \/ call.from \in Free')
        BY <1>0, <1>1, <2>3, ObtainedHolds
      <3> QED BY <1>4, <1>5, <3>1
    <2> QED BY <1>0, <1>1, <1>2, <1>3, <2>2, <2>3, <2>4, EngineReturns
  <1>7. CASE UNCHANGED <<box, marks>> /\ (answer' = "ok" => NotModified(r))
    <2>1. Places' /\ NamesApart' /\ NamedApp' /\ View' = View
      BY <1>1, <1>7, EngineKnows
         DEF Places, Placed, NamesApart, NamedApp, View, ViewLife, Life, Owned
    <2>2. answer' = "ok" => Obtained(LivesOf(View'[call.sub])) /\ call.op # "rename"
      BY <1>7, <2>1, NotModifiedObtained
    <2>3. Contract!Holds(answer', seen.at \cup {LivesOf(View'[call.sub])}, seen.free \/ call.from \in Free')
      <3>1. answer' = "ok" =>
               Contract!Holds("ok", seen.at \cup {LivesOf(View'[call.sub])}, seen.free \/ call.from \in Free')
        BY <1>0, <1>1, <2>2, ObtainedHolds
      <3> QED BY <1>4, <1>5, <3>1
    <2> QED BY <1>0, <1>1, <1>2, <1>3, <2>1, <2>2, <2>3, EngineReturns
  <1>8. \/ Permitted(r) /\ box' = Carried(r) /\ \E stopped : marks' = MarkAs(r, stopped)
        \/ UNCHANGED <<box, marks>> /\ (answer' = "ok" => NotModified(r))
    BY DEF Send, Return
  <1> QED BY <1>6, <1>7, <1>8

LEMMA EngineSendsMove ==
  ASSUME ContractIInv, ~Containerd, Watch, NEW accepts,
         CreateNamed \/ StartOwned(accepts) \/ DiscardOwned \/ SendTransition(accepts)
  PROVE  ContractIInv' /\ Contract!ContractNext
  <1>0. call \in CallType /\ EngineCall(call) /\ CallForm(call) /\ EngineRead(call, seen)
    BY EngineKnows, EngineFacts
  <1>a. RuntimesIInv'
    BY EngineSendsOK DEF ContractIInv
  <1>1. CASE CreateNamed
    <2>1. PICK r : r = Request("create", 0, "app")
      OBVIOUS
    <2>2. /\ r.kind = "create" /\ r.id = 0 /\ r.name = "app" /\ RequestOK(r)
      BY <2>1 DEF RequestOK, Request, RequestType, Names
    <2>3. Send(r, FALSE) /\ call.op = "create" /\ call.sub = "new"
      BY <1>0, <1>1, <2>1 DEF CreateNamed, At, CallForm, NewOps
    <2>4. RequestOf(r)
      BY <2>2, <2>3 DEF RequestOf, RequestPlaced, OpOf, SubOf, Mutating
    <2> QED BY <1>a, <2>3, <2>4, SendMoves
  <1>2. CASE StartOwned(accepts) \/ DiscardOwned
    <2>1. call.op \in {"start", "discard"} /\ call.step = "send"
      BY <1>2 DEF StartOwned, DiscardOwned, At
    <2>2. PICK r : r = Request(call.op, call.owned.id, "none")
      OBVIOUS
    <2>3. Ours(call.owned.id) /\ call.owned.id # 1 /\ call.sub = "new"
      BY <1>0, <2>1 DEF EngineCall, EngineRead, CallForm, NewOps
    <2>4. RequestOK(r) /\ r.kind = call.op /\ r.id # 1
      BY <2>1, <2>2, <2>3 DEF RequestOK, Request, RequestType, Ours
    <2>5. Send(r, accepts) \/ Send(r, FALSE)
      BY <1>2, <2>2 DEF StartOwned, DiscardOwned, At
    <2>6. RequestOf(r)
      BY <2>1, <2>3, <2>4 DEF RequestOf, RequestPlaced, OpOf, SubOf, Mutating
    <2> QED BY <1>a, <2>5, <2>6, SendMoves
  <1>3. CASE SendTransition(accepts)
    <2>1. call.op \in TransitionOps /\ call.step = "send"
      BY <1>3 DEF SendTransition, At
    <2>2. PICK r : r = Request(TransitionKind, Predecessor, IF call.op = "rename" THEN call.to ELSE "none")
      OBVIOUS
    <2>3. Ours(Predecessor) /\ call.sub = "old"
      BY <1>0, <2>1 DEF EngineCall, CallForm, TransitionOps, NewOps
    <2>4. /\ r.id = 1 /\ r.kind = TransitionKind /\ RequestOK(r)
          /\ call.op = "rename" => r.name = call.to
      <3>1. call.to \in Names \cup {"none"}
        BY <1>0 DEF CallType, Names
      <3>2. TransitionKind \in {"start", "stop", "rename", "remove"}
        BY <2>1 DEF TransitionKind, TransitionOps
      <3> QED BY <2>2, <2>3, <3>1, <3>2 DEF RequestOK, Request, RequestType
    <2>5. Send(r, accepts)
      BY <1>3, <2>2 DEF SendTransition
    <2>6. RequestOf(r)
      BY <2>1, <2>3, <2>4 DEF RequestOf, RequestPlaced, OpOf, SubOf, Mutating, TransitionKind, TransitionOps
    <2> QED BY <1>a, <2>5, <2>6, SendMoves
  <1> QED BY <1>1, <1>2, <1>3

(* Every step of the client over an engine is one of the contract.                   *)
LEMMA EngineRefines ==
  ASSUME ContractIInv, DockerNext \/ PodmanNext, Watch
  PROVE  ContractIInv' /\ Contract!ContractNext
  <1>1. ~Containerd
    BY DEF DockerNext, PodmanNext
  <1>2. \/ ReadNamed \/ ListOwned \/ InspectOwned \/ ReadBefore \/ ReadTransition \/ ReadOldName
        \/ \E accepts : CreateNamed \/ StartOwned(accepts) \/ DiscardOwned \/ SendTransition(accepts)
    <2>1. CASE DockerNext
      BY <2>1, Zenon DEF DockerNext
    <2>2. CASE PodmanNext
      BY <2>2, Zenon DEF PodmanNext, PodmanCreate, PodmanCandidates, PodmanStart, PodmanDiscard,
                         PodmanTransition, PodmanProbe
    <2> QED BY <2>1, <2>2
  <1> QED BY <1>1, <1>2, ReadNamedMoves, ListOwnedMoves, InspectOwnedMoves, ReadBeforeMoves,
             ReadTransitionMoves, ReadOldNameMoves, EngineSendsMove

-----------------------------------------------------------------------------
(* What happens without the client.                                           *)

(* What was seen remains seen.                                                  *)
LEMMA ReadMonotone ==
  ASSUME NEW k, NEW s, NEW t, s.at \subseteq t.at, s.free => t.free
  PROVE  /\ ReadSoFar(k, s) => ReadSoFar(k, t)
         /\ EngineRead(k, s) => EngineRead(k, t)
  <1>1. \A a : WasSeen(a, s.at) => WasSeen(a, t.at)
    BY DEF WasSeen
  <1> QED BY <1>1 DEF ReadSoFar, EngineRead

(* A step that leaves the call where it is.                                      *)
LEMMA WorldGoes ==
  ASSUME ContractIInv, Watch, call' = call, answer' = answer, plugin' = plugin,
         wire' \subseteq wire, RuntimesIInv', Places',
         IF Containerd THEN Finds(call.step, box'[Subject])
         ELSE NamesApart' /\ NamedApp' /\ \A e : Alien(e) => Alien(e)',
         \/ View' = View /\ foreign' = foreign
         \/ Contract!Effect \/ Contract!World \/ foreign' = foreign + 1
  PROVE  ContractIInv' /\ Contract!ContractNext
  <1>1. SameTask /\ Sent
    BY DEF SameTask, Sent
  <1>2. Contract!ContractNext
    BY <1>1, OpenStep, GoStep
  <1>3. FromOK(call') /\ (call.op = "idle" => call.step = "none") /\ Subject' = Subject
    BY DEF ContractIInv, FromOK, Subject
  <1>4. call.op # "idle" => seen.at \subseteq seen'.at /\ (seen.free => seen'.free)
    BY <1>1, SeenIs
  <1>5. CASE Containerd
    <2>1. ReadSoFar(call, seen')
      <3>1. CASE call.op = "idle"
        BY <1>3, <3>1 DEF ReadSoFar
      <3>2. CASE call.op # "idle"
        BY <1>4, <1>5, <3>2, ReadMonotone DEF ContractIInv
      <3> QED BY <3>1, <3>2
    <2> QED BY <1>2, <1>3, <1>5, <2>1 DEF ContractIInv
  <1>6. CASE ~Containerd
    <2>1. EngineRead(call, seen')
      <3>1. CASE call.op = "idle"
        BY <1>3, <3>1 DEF EngineRead
      <3>2. CASE call.op # "idle"
        BY <1>4, <1>6, <3>2, ReadMonotone DEF ContractIInv
      <3> QED BY <3>1, <3>2
    <2>2. EngineRead(call, seen)'
      <3>1. \A e : Alien(e) => Alien(e)'
        BY <1>6
      <3> QED BY <2>1, <3>1 DEF EngineRead
    <2> QED BY <1>2, <1>3, <1>6, <2>2 DEF ContractIInv
  <1> QED BY <1>5, <1>6

(* One container becomes d with marks n and is placed.                              *)
LEMMA BecomesPlaced ==
  ASSUME ContractIInv, plugin' = plugin, NEW c \in Ids, NEW d, NEW n, Becomes(c, d, n),
         Placed(c, d, n)
  PROVE  /\ Places' /\ Moved(c, box[c], marks[c], d, n)
         /\ box'[c] = d /\ marks'[c] = n /\ \A e \in Ids \ {c} : box'[e] = box[e]
  <1>1. /\ box'[c] = d /\ marks'[c] = n
        /\ \A e \in Ids \ {c} : box'[e] = box[e] /\ marks'[e] = marks[e]
    BY DEF ContractIInv, RuntimesIInv, Types, Becomes
  <1>2. Places'
    <2> SUFFICES ASSUME NEW e \in Ids PROVE Placed(e, box[e], marks[e])'
      BY DEF Places
    <2>1. Placed(e, box'[e], marks'[e])
      BY <1>1 DEF ContractIInv, Places
    <2> QED BY <2>1 DEF Placed
  <1> QED BY <1>1, <1>2 DEF Moved

(* A container of an engine changes: names and owners stay, or the name was free.     *)
LEMMA EngineKept ==
  ASSUME ContractIInv, ~Containerd, plugin' = plugin, NEW c \in Ids, NEW d,
         box'[c] = d, \A e \in Ids \ {c} : box'[e] = box[e],
         box[c].born => d.born,
         box[c].born /\ box[c].owner # "tx" => d.owner # "tx",
         d.record => d.name \in Free \/ (box[c].record /\ d.name = box[c].name),
         foreign' = foreign + 1 \/ (foreign' = foreign /\ d.record = box[c].record
                                    /\ d.owner = box[c].owner /\ d.name = box[c].name)
  PROVE  NamesApart' /\ NamedApp' /\ \A e : Alien(e) => Alien(e)'
  <1>1. NamesApart'
    <2> SUFFICES ASSUME NEW e \in Ids, NEW f \in Ids, e # f, box'[e].record, box'[f].record
                 PROVE  box'[e].name # box'[f].name
      BY DEF NamesApart
    <2>1. CASE e # c /\ f # c
      BY <2>1, EngineKnows DEF NamesApart
    <2>2. d.record => \A g \in Ids \ {c} : box[g].record => box[g].name # d.name
      BY EngineKnows DEF NamesApart, Free, Holders
    <2> QED BY <2>1, <2>2
  <1>2. NamedApp'
    <2>1. foreign \in Nat
      BY EngineKnows DEF Types
    <2>2. CASE foreign' = foreign + 1
      BY <2>1, <2>2 DEF NamedApp
    <2>3. CASE foreign' = foreign /\ d.record = box[c].record /\ d.owner = box[c].owner /\ d.name = box[c].name
      <3> SUFFICES ASSUME foreign = 0, NEW e \in Ids, box'[e].record, box'[e].owner = "tx"
                   PROVE  box'[e].name = "app"
        BY <2>3 DEF NamedApp
      <3>1. box[e].record /\ box[e].owner = "tx" /\ box'[e].name = box[e].name
        BY <2>3
      <3> QED BY <3>1, EngineKnows DEF NamedApp
    <2> QED BY <2>2, <2>3
  <1>3. ASSUME NEW e, Alien(e) PROVE Alien(e)'
    <2>1. e \in Ids /\ box[e].born /\ box[e].owner # "tx"
      BY <1>3 DEF Alien
    <2> QED BY <2>1 DEF Alien
  <1> QED BY <1>1, <1>2, <1>3

(* A task that comes to run, stops to run or pauses: the calls still find their parts.   *)
LEMMA TaskFinds ==
  ASSUME NEW x, NEW b, NEW d, Finds(x, b), d.record = b.record, d.parts = b.parts,
         d.restart = b.restart, d.task \in {"running", "paused", "exited"},
         b.task # "none" \/ b.restart
  PROVE  Finds(x, d)
  BY DEF Finds, Intact

LEMMA TaskPlaced ==
  ASSUME NEW c \in Ids, NEW b, NEW m, NEW d, NEW n, Placed(c, b, m), d.record = b.record,
         d.parts = b.parts, d.owner = b.owner, d.task # "created", "revived" \in m => "revived" \in n,
         b.task # "none" \/ (Containerd => Intact(b))
  PROVE  Placed(c, d, n)
  BY DEF Placed, Intact

(* A task ends by itself, or is killed.                                            *)
LEMMA ExitWorld ==
  ASSUME ContractIInv, UNCHANGED <<plugin, foreign>>, NEW c \in Ids, NEW b, b = box[c],
         NEW m, m = marks[c], b.task = "running", Becomes(c, Doing(b, "exited"), m)
  PROVE  /\ Places' /\ (View' = View \/ Contract!World)
         /\ \A x : Finds(x, b) => Finds(x, box'[c])
         /\ ~Containerd => NamesApart' /\ NamedApp' /\ \A e : Alien(e) => Alien(e)'
  <1>0. b \in BoxType /\ (b.record => b.born \/ Containerd) /\ Placed(c, b, m) /\ BoxOK(c, b, m)
    BY BoxFacts, EngineKnows DEF ContractIInv, Places
  <1> PICK d : d = Doing(b, "exited")
    OBVIOUS
  <1>1. /\ d.record = b.record /\ d.parts = b.parts /\ d.restart = b.restart /\ d.owner = b.owner
        /\ d.task = "exited" /\ d.name = b.name /\ d.born = b.born
    BY <1>0 DEF Doing, BoxType
  <1>2. Placed(c, d, m)
    BY <1>0, <1>1, TaskPlaced
  <1>3. /\ Places' /\ Moved(c, b, m, d, m) /\ box'[c] = d
        /\ \A e \in Ids \ {c} : box'[e] = box[e]
    BY <1>2, BecomesPlaced
  <1>4. \A x : Finds(x, b) => Finds(x, d)
    BY <1>1, TaskFinds
  <1>5. ~Containerd => NamesApart' /\ NamedApp' /\ \A e : Alien(e) => Alien(e)'
    BY <1>0, <1>1, <1>3, EngineKept
  <1>6. View' = View \/ Contract!World
    <2>1. Visible(c, b) <=> Visible(c, d)
      BY <1>1 DEF Visible
    <2>2. CASE ~Visible(c, b)
      BY <1>3, <2>1, <2>2, ViewStep
    <2>3. CASE Visible(c, b)
      <3>1. b.record /\ d.record
        BY <1>1, <2>3 DEF Visible
      <3>2. CASE ~Containerd \/ Intact(b)
        <4>1. LifeIn(b) = "running" /\ LifeIn(d) = "exited"
          BY <1>1, <3>1, <3>2 DEF LifeIn, Intact
        <4>2. ShownAs(b, m) \in Contract!Up /\ ShownAs(d, m) = "exited"
          BY <1>1, <4>1 DEF ShownAs, Contract!Up
        <4> QED BY <1>1, <1>3, <2>1, <2>3, <4>2, WorldStep
      <3>3. CASE Containerd /\ ~Intact(b)
        <4>1. c # 3
          BY <1>0, <2>3, <3>3 DEF Placed, Visible
        <4>2. "revived" \in m
          BY <1>0, <3>1, <3>3, <4>1 DEF Placed
        <4>3. LifeIn(b) = "removing" /\ LifeIn(d) = "removing"
          BY <1>1, <3>1, <3>3 DEF LifeIn, Intact
        <4>4. ShownAs(b, m) = "revived" /\ ShownAs(d, m) = "removing"
          BY <1>1, <4>2, <4>3 DEF ShownAs
        <4> QED BY <1>1, <1>3, <2>1, <2>3, <4>4, WorldStep
      <3> QED BY <3>2, <3>3
    <2> QED BY <2>2, <2>3
  <1> QED BY <1>3, <1>4, <1>5, <1>6

LEMMA ExitMoves ==
  ASSUME ContractIInv, NEW c \in Ids, Exit(c), Watch
  PROVE  ContractIInv' /\ Contract!ContractNext
  <1> PICK b, m : b = box[c] /\ m = marks[c]
    OBVIOUS
  <1>0. Types /\ b \in BoxType
    BY BoxFacts DEF ContractIInv
  <1>1. /\ box' = [box EXCEPT ![c].task = "exited"] /\ b.task = "running"
        /\ UNCHANGED <<plugin, call, wire, answer, marks, faults, foreign>>
    BY DEF Exit, Outside
  <1>2. Becomes(c, Doing(b, "exited"), m)
    <2>1. marks = [marks EXCEPT ![c] = m]
      BY <1>0 DEF Types
    <2>2. [box EXCEPT ![c].task = "exited"] = [box EXCEPT ![c] = Doing(b, "exited")]
      BY <1>0, BoxIs
    <2> QED BY <1>1, <2>1, <2>2 DEF Becomes
  <1>3. RuntimesIInv'
    BY ExitOK DEF ContractIInv
  <1>4. /\ Places' /\ (View' = View \/ Contract!World)
        /\ \A x : Finds(x, b) => Finds(x, box'[c])
        /\ ~Containerd => NamesApart' /\ NamedApp' /\ \A e : Alien(e) => Alien(e)'
    BY <1>1, <1>2, ExitWorld
  <1>5. Containerd => Finds(call.step, box'[Subject])
    <2>1. \A e \in Ids \ {c} : box'[e] = box[e]
      BY <1>0, <1>1 DEF Types
    <2>2. Subject \in Ids
      BY DEF Subject
    <2> QED BY <1>4, <2>1, <2>2 DEF ContractIInv
  <1> QED BY <1>1, <1>3, <1>4, <1>5, WorldGoes

LEMMA MonitorMoves ==
  ASSUME ContractIInv, NEW c \in Ids, Monitor(c), Watch
  PROVE  ContractIInv' /\ Contract!ContractNext
  <1> PICK b, m : b = box[c] /\ m = marks[c]
    OBVIOUS
  <1>0. Types /\ b \in BoxType /\ Placed(c, b, m)
    BY BoxFacts DEF ContractIInv, Places
  <1> PICK n : n = IF b.task = "none" THEN m \cup {"revived"} ELSE m
    OBVIOUS
  <1>1. /\ box' = [box EXCEPT ![c].task = "running"] /\ b.record /\ b.restart
        /\ \/ b.task = "exited" \/ (Containerd /\ b.task = "none")
        /\ Containerd => Intact(b)
        /\ UNCHANGED <<plugin, call, wire, answer, faults, foreign>>
        /\ marks' = [marks EXCEPT ![c] = n]
    BY <1>0 DEF Monitor, Types, Intact
  <1> PICK d : d = Doing(b, "running")
    OBVIOUS
  <1>2. Becomes(c, d, n)
    <2>1. [box EXCEPT ![c].task = "running"] = [box EXCEPT ![c] = Doing(b, "running")]
      BY <1>0, BoxIs
    <2> QED BY <1>1, <2>1 DEF Becomes
  <1>3. RuntimesIInv'
    BY MonitorOK DEF ContractIInv
  <1>4. /\ d.record = b.record /\ d.parts = b.parts /\ d.restart = b.restart /\ d.owner = b.owner
        /\ d.task = "running" /\ d.name = b.name /\ d.born = b.born
    BY <1>0 DEF Doing, BoxType
  <1>5. Placed(c, d, n)
    BY <1>0, <1>1, <1>4, TaskPlaced
  <1>6. /\ Places' /\ Moved(c, b, m, d, n) /\ box'[c] = d
        /\ \A e \in Ids \ {c} : box'[e] = box[e]
    BY <1>1, <1>2, <1>5, BecomesPlaced
  <1>7. ~Containerd => NamesApart' /\ NamedApp' /\ \A e : Alien(e) => Alien(e)'
    BY <1>1, <1>4, <1>6, EngineKept
  <1>8. Containerd => Finds(call.step, box'[Subject])
    <2>1. Finds(call.step, b) => Finds(call.step, d)
      BY <1>1, <1>4, TaskFinds
    <2>2. Subject \in Ids
      BY DEF Subject
    <2> QED BY <1>6, <2>1, <2>2 DEF ContractIInv
  <1>9. View' = View \/ Contract!World
    <2>1. Visible(c, b) <=> Visible(c, d)
      BY <1>4 DEF Visible
    <2>2. CASE ~Visible(c, b)
      BY <1>6, <2>1, <2>2, ViewStep
    <2>3. CASE Visible(c, b)
      <3>1. ShownAs(b, m) \in {"exited", "cleared"}
        <4>1. LifeIn(b) = IF b.task = "none" THEN "created" ELSE "exited"
          BY <1>1 DEF LifeIn, Intact
        <4> QED BY <1>1, <4>1 DEF ShownAs
      <3>2. ShownAs(d, n) \in Contract!Up
        <4>1. LifeIn(d) = "running"
          BY <1>1, <1>4 DEF LifeIn, Intact
        <4> QED BY <1>4, <4>1 DEF ShownAs, Contract!Up
      <3> QED BY <1>1, <1>4, <1>6, <2>1, <2>3, <3>1, <3>2, WorldStep
    <2> QED BY <2>2, <2>3
  <1> QED BY <1>1, <1>3, <1>6, <1>7, <1>8, <1>9, WorldGoes

(* What others do                                                              *)
LEMMA ForeignMoves ==
  ASSUME ContractIInv, NEW c \in Ids, Watch,
         ForeignRename(c) \/ ForeignCreate(c) \/ ForeignPause(c) \/ ForeignRemove(c)
  PROVE  ContractIInv' /\ Contract!ContractNext
  <1> PICK b, m : b = box[c] /\ m = marks[c]
    OBVIOUS
  <1>0. Types /\ b \in BoxType /\ Placed(c, b, m) /\ BoxOK(c, b, m)
    BY BoxFacts DEF ContractIInv, Places
  <1>1. /\ UNCHANGED <<plugin, call, wire, answer, marks, faults>> /\ foreign' = foreign + 1
        /\ marks' = [marks EXCEPT ![c] = m]
    BY <1>0 DEF ForeignRename, ForeignCreate, ForeignPause, ForeignRemove, ForeignStep, Outside, Types
  <1>2. RuntimesIInv'
    BY ExitOK, ForeignRenameOK, ForeignBoxOK DEF ContractIInv
  <1>3. ASSUME NEW d, box' = [box EXCEPT ![c] = d], Placed(c, d, m), b.born => d.born,
               b.born /\ b.owner # "tx" => d.owner # "tx",
               d.record => d.name \in Free \/ (b.record /\ d.name = b.name),
               Containerd /\ c # 3 => \A x : Finds(x, b) => Finds(x, d)
        PROVE  ContractIInv' /\ Contract!ContractNext
    <2>1. Becomes(c, d, m)
      BY <1>1, <1>3 DEF Becomes
    <2>2. Places' /\ box'[c] = d /\ \A e \in Ids \ {c} : box'[e] = box[e]
      BY <1>1, <1>3, <2>1, BecomesPlaced
    <2>3. ~Containerd => NamesApart' /\ NamedApp' /\ \A e : Alien(e) => Alien(e)'
      BY <1>1, <1>3, <2>2, EngineKept
    <2>4. Containerd => Finds(call.step, box'[Subject])
      <3>1. Subject \in Ids /\ Subject # 3
        BY DEF Subject
      <3> QED BY <1>3, <2>2, <3>1 DEF ContractIInv
    <2> QED BY <1>1, <1>2, <2>2, <2>3, <2>4, WorldGoes
  <1>4. CASE ForeignRename(c)
    <2>1. PICK d : d = Called(b, "other")
      OBVIOUS
    <2>2. /\ d.record = b.record /\ d.parts = b.parts /\ d.restart = b.restart
          /\ d.owner = b.owner /\ d.task = b.task /\ d.born = b.born /\ d.name = "other"
      BY <1>0, <2>1 DEF Called, BoxType
    <2>3. box' = [box EXCEPT ![c] = d] /\ "other" \in Free
      BY <1>0, <1>4, <2>1 DEF ForeignRename, Called, Types
    <2>4. Placed(c, d, m)
      BY <1>0, <2>2 DEF Placed, Intact
    <2>5. \A x : Finds(x, b) => Finds(x, d)
      BY <2>2 DEF Finds, Intact
    <2> QED BY <1>3, <2>2, <2>3, <2>4, <2>5
  <1>5. CASE ForeignCreate(c)
    <2>1. PICK w \in Free : box' = [box EXCEPT ![c] = [Unborn EXCEPT !.born = TRUE, !.record = TRUE,
                                                        !.name = w, !.task = "running"]]
      BY <1>5 DEF ForeignCreate
    <2>2. PICK d : d = [Unborn EXCEPT !.born = TRUE, !.record = TRUE, !.name = w, !.task = "running"]
      OBVIOUS
    <2>3. d.record /\ d.born /\ d.owner = "none" /\ d.parts = {} /\ d.name = w
      BY <2>2 DEF Unborn
    <2>4. c = 3
      BY <1>5 DEF ForeignCreate
    <2>5. Placed(c, d, m)
      BY <2>3, <2>4 DEF Placed
    <2> QED BY <1>3, <2>1, <2>2, <2>3, <2>4, <2>5
  <1>6. CASE ForeignPause(c)
    <2>1. PICK d : d = Doing(b, "paused")
      OBVIOUS
    <2>2. /\ d.record = b.record /\ d.parts = b.parts /\ d.restart = b.restart
          /\ d.owner = b.owner /\ d.task = "paused" /\ d.born = b.born /\ d.name = b.name
      BY <1>0, <2>1 DEF Doing, BoxType
    <2>3. box' = [box EXCEPT ![c] = d] /\ b.task = "running"
      <3>1. [box EXCEPT ![c].task = "paused"] = [box EXCEPT ![c] = Doing(b, "paused")]
        BY <1>0, BoxIs
      <3> QED BY <1>6, <2>1, <3>1 DEF ForeignPause
    <2>4. Placed(c, d, m)
      BY <1>0, <2>2, <2>3, TaskPlaced
    <2>5. \A x : Finds(x, b) => Finds(x, d)
      BY <2>2, <2>3, TaskFinds
    <2> QED BY <1>3, <2>2, <2>3, <2>4, <2>5
  <1>7. CASE ForeignRemove(c)
    <2>1. PICK d : d = [Unborn EXCEPT !.born = TRUE]
      OBVIOUS
    <2>2. d.born /\ ~d.record /\ d.owner = "none" /\ d.parts = {}
      BY <2>1 DEF Unborn
    <2>3. box' = [box EXCEPT ![c] = d] /\ ~Containerd
      BY <1>7, <2>1 DEF ForeignRemove
    <2>4. Placed(c, d, m)
      BY <2>2, <2>3, PlacedEngine
    <2> QED BY <1>3, <2>2, <2>3, <2>4
  <1> QED BY <1>4, <1>5, <1>6, <1>7

(* Nothing about the containers changes but marks the contract does not know.        *)
LEMMA BoxSame ==
  ASSUME ContractIInv, UNCHANGED <<plugin, box>>,
         \A c \in Ids : "revived" \in marks'[c] <=> "revived" \in marks[c]
  PROVE  /\ Places' /\ View' = View /\ Free' = Free
         /\ ~Containerd => NamesApart' /\ (foreign' = foreign => NamedApp')
                           /\ \A e : Alien(e) => Alien(e)'
  <1>1. Places'
    <2> SUFFICES ASSUME NEW e \in Ids PROVE Placed(e, box[e], marks[e])'
      BY DEF Places
    <2>1. Placed(e, box[e], marks[e])
      BY DEF ContractIInv, Places
    <2> QED BY <2>1 DEF Placed
  <1>2. View' = View
    <2>1. /\ View = [s \in {"old", "new"} |-> View[s]]
          /\ \A s \in {"old", "new"} : View[s] = Entries(s, Ids)
      BY ViewIs DEF ContractIInv
    <2>2. (Places => /\ View = [s \in {"old", "new"} |-> View[s]]
                    /\ \A s \in {"old", "new"} : View[s] = Entries(s, Ids))'
      BY ViewIs, PTL
    <2>3. \A x \in Ids : Entry(box[x], marks'[x]) = Entry(box[x], marks[x])
      BY DEF Entry, ShownAs
    <2>4. \A x, y : Entry(x, y)' = Entry(x, y)
      BY DEF Entry, ShownAs, LifeIn
    <2>5. \A s \in {"old", "new"} : Entries(s, Ids)' = Entries(s, Ids)
      BY <2>3, <2>4 DEF Entries, Side, Visible
    <2>6. View' = [s \in {"old", "new"} |-> View'[s]] /\ \A s \in {"old", "new"} : View'[s] = View[s]
      BY <1>1, <2>1, <2>2, <2>5
    <2> QED BY <2>1, <2>6
  <1>3. Free' = Free
    BY DEF Free, Holders
  <1>4. ~Containerd => NamesApart' /\ (foreign' = foreign => NamedApp') /\ \A e : Alien(e) => Alien(e)'
    BY DEF ContractIInv, NamesApart, NamedApp, Alien
  <1> QED BY <1>1, <1>2, <1>3, <1>4

(* An engine carries out what nobody waits for any more, or refuses it.               *)
LEMMA EngineDeliverMoves ==
  ASSUME ContractIInv, EngineDeliver, Watch
  PROVE  ContractIInv' /\ Contract!ContractNext
  <1>1. PICK r \in wire :
          /\ RequestOK(r) /\ wire' \subseteq wire
          /\ \/ Permitted(r) /\ box' = Carried(r) /\ marks' = MarkAs(r, FALSE)
             \/ UNCHANGED <<box, marks>>
    BY DEF ContractIInv, RuntimesIInv, WireOK, EngineDeliver
  <1>2. /\ ~Containerd /\ UNCHANGED <<plugin, call, faults, foreign, answer>> /\ wire' \subseteq wire
        /\ \/ Permitted(r) /\ box' = Carried(r) /\ marks' = MarkAs(r, FALSE)
           \/ UNCHANGED <<box, marks>>
    BY <1>1 DEF EngineDeliver
  <1>3. RuntimesIInv' /\ RequestPlaced(r)
    BY <1>1, <1>2, EngineDeliverOK DEF ContractIInv
  <1>4. CASE Permitted(r) /\ box' = Carried(r) /\ marks' = MarkAs(r, FALSE)
    <2>1. PICK c \in Ids : CarriedFor(r, c)
      BY <1>1, <1>2, <1>3, <1>4, CarriedMoves
    <2>2. PICK q \in Pending : q = PendingOp(r)
      BY PendingIs
    <2>3. q.op = OpOf(r) /\ q.sub = SubOf(r)
      BY <1>2, <2>2, PendingOfEngine
    <2>4. /\ Places' /\ NamesApart' /\ NamedApp'
          /\ \A e : Alien(e) => Alien(e)'
          /\ View' = View \/ Contract!Effect
      BY <1>2, <1>4, <2>1, <2>3, CarriedKeeps
    <2> QED BY <1>2, <1>3, <2>4, WorldGoes
  <1>5. CASE UNCHANGED <<box, marks>>
    <2>1. Places' /\ View' = View /\ NamesApart' /\ NamedApp' /\ \A e : Alien(e) => Alien(e)'
      BY <1>2, <1>5, BoxSame
    <2> QED BY <1>2, <1>3, <2>1, WorldGoes
  <1> QED BY <1>2, <1>4, <1>5

(* A task that was made is started late.                                           *)
LEMMA LateStart ==
  ASSUME ContractIInv, Containerd, UNCHANGED <<plugin, foreign>>, NEW c \in Ids, c # 3,
         NEW b, b = box[c], NEW m, m = marks[c], b.task = "created",
         NEW n, n = (m \cup {"stray"}) \ {"stopped"}, Becomes(c, Doing(b, "running"), n),
         NEW q \in Pending, q.sub = Side(c), q.op \in {"start", "restart"}
  PROVE  /\ Places' /\ (View' = View \/ Contract!Effect)
         /\ \A x : Finds(x, b) => Finds(x, box'[c])
         /\ \A e \in Ids \ {c} : box'[e] = box[e]
  <1>0. b \in BoxType /\ Placed(c, b, m)
    BY BoxFacts DEF ContractIInv, Places
  <1> PICK d : d = Doing(b, "running")
    OBVIOUS
  <1>1. /\ d.record = b.record /\ d.parts = b.parts /\ d.restart = b.restart /\ d.owner = b.owner
        /\ d.task = "running" /\ d.name = b.name
    BY <1>0 DEF Doing, BoxType
  <1>2. Placed(c, d, n)
    BY <1>0, <1>1, TaskPlaced
  <1>3. /\ Places' /\ Moved(c, b, m, d, n) /\ box'[c] = d
        /\ \A e \in Ids \ {c} : box'[e] = box[e]
    BY <1>2, BecomesPlaced
  <1>4. \A x : Finds(x, b) => Finds(x, d)
    BY <1>1, TaskFinds
  <1>5. Turns(q.op, c, b, m, d, n)
    <2>1. Visible(c, b) <=> Visible(c, d)
      BY <1>1 DEF Visible
    <2>2. CASE ~Visible(c, b)
      BY <2>1, <2>2 DEF Turns
    <2>3. CASE Visible(c, b)
      <3>1. b.record /\ d.record
        BY <1>1, <2>3 DEF Visible
      <3>2. Intact(b)
        BY <1>0, <3>1 DEF Placed
      <3>3. LifeIn(b) = "created" /\ LifeIn(d) = "running"
        BY <1>1, <3>1, <3>2 DEF LifeIn, Intact
      <3>4. ShownAs(b, m) \in Contract!Down
        BY <3>3 DEF ShownAs, Contract!Down
      <3>5. ShownAs(d, n) \in Contract!Up
        BY <1>1, <3>3 DEF ShownAs, Contract!Up
      <3>6. Contract!Permits(q.op, Entry(b, m), Entry(d, n))
        BY <1>1, <3>4, <3>5 DEF Contract!Permits, Entry
      <3> QED BY <2>1, <2>3, <3>6 DEF Turns
    <2> QED BY <2>2, <2>3
  <1>6. View' = View \/ Contract!Effect
    BY <1>3, <1>5, EffectStep
  <1> QED BY <1>3, <1>4, <1>6

LEMMA ContainerdDeliverMoves ==
  ASSUME ContractIInv, ContainerdDeliver, Watch
  PROVE  ContractIInv' /\ Contract!ContractNext
  <1>1. PICK r \in wire : RequestOK(r) /\ wire' \subseteq wire /\ TaskDelivered(r)
    BY DeliveryIs DEF ContractIInv
  <1>2. PICK c \in Ids : c = r.id /\ c # 3
    BY <1>1 DEF RequestOK, ContainerdDeliver
  <1> PICK b, m : b = box[c] /\ m = marks[c]
    OBVIOUS
  <1> PICK n : n = (m \cup {"stray"}) \ {"stopped"}
    OBVIOUS
  <1>0. Types /\ b \in BoxType /\ Subject \in Ids
    BY BoxFacts DEF ContractIInv, Subject
  <1>3. /\ UNCHANGED <<plugin, call, faults, foreign, answer>> /\ wire' \subseteq wire /\ Containerd
        /\ r.kind \in {"run", "kill"}
    BY <1>1 DEF ContainerdDeliver, RequestOK
  <1>4. \/ UNCHANGED <<box, marks>>
        \/ Becomes(c, Doing(b, "exited"), m) /\ b.task = "running"
        \/ Becomes(c, Doing(b, "running"), n) /\ b.task = "created" /\ r.kind = "run"
    <2>1. box = [box EXCEPT ![c] = b] /\ marks = [marks EXCEPT ![c] = m]
      BY <1>0, <1>2 DEF Types
    <2>2. Run(c) = [box EXCEPT ![c] = Doing(b, "running")]
      BY <1>0, <1>2, BoxIs DEF Run
    <2>3. Halted(c) = IF b.task = "running" THEN [box EXCEPT ![c] = Doing(b, "exited")] ELSE box
      BY <1>0, <1>2 DEF Halted, Doing, Types, BoxType
    <2>4. \/ box' = box /\ marks' = marks
          \/ box' = Halted(c) /\ marks' = marks
          \/ /\ box' = Run(c) /\ b.task = "created" /\ r.kind = "run"
             /\ marks' = [marks EXCEPT ![c] = (m \cup {"stray"}) \ {"stopped"}]
      BY <1>1, <1>2, <2>1 DEF TaskDelivered
    <2> QED BY <2>1, <2>2, <2>3, <2>4 DEF Becomes
  <1>5. RuntimesIInv' /\ Finds(call.step, box[Subject])
    BY <1>3, ContainerdDeliverOK DEF ContractIInv
  <1>6. CASE UNCHANGED <<box, marks>>
    <2>1. Places' /\ View' = View
      BY <1>3, <1>6, BoxSame
    <2> QED BY <1>3, <1>5, <1>6, <2>1, WorldGoes
  <1>7. CASE Becomes(c, Doing(b, "exited"), m) /\ b.task = "running"
    <2>1. /\ Places' /\ (View' = View \/ Contract!World)
          /\ \A x : Finds(x, b) => Finds(x, box'[c])
      BY <1>3, <1>7, ExitWorld
    <2>2. \A e \in Ids \ {c} : box'[e] = box[e]
      BY <1>0, <1>7 DEF Becomes, Types
    <2>3. Finds(call.step, box'[Subject])
      BY <1>0, <1>5, <2>1, <2>2
    <2> QED BY <1>3, <1>5, <2>1, <2>3, WorldGoes
  <1>8. CASE Becomes(c, Doing(b, "running"), n) /\ b.task = "created" /\ r.kind = "run"
    <2>1. PICK q \in Pending : q = PendingOp(r)
      BY PendingIs
    <2>2. q.sub = Side(c) /\ q.op \in {"start", "restart"}
      BY <1>2, <1>3, <1>8, <2>1 DEF PendingOp, Side
    <2>3. /\ Places' /\ (View' = View \/ Contract!Effect)
          /\ \A x : Finds(x, b) => Finds(x, box'[c])
          /\ \A e \in Ids \ {c} : box'[e] = box[e]
      BY <1>2, <1>3, <1>8, <2>2, LateStart
    <2>4. Finds(call.step, box'[Subject])
      BY <1>0, <1>5, <2>3
    <2> QED BY <1>3, <1>5, <2>3, <2>4, WorldGoes
  <1> QED BY <1>4, <1>6, <1>7, <1>8

(* The garbage collector takes nothing the contract knows of.                        *)
LEMMA GarbageCollectMoves ==
  ASSUME ContractIInv, GarbageCollect, Watch
  PROVE  ContractIInv' /\ Contract!ContractNext
  <1> PICK c \in Ids : c = 2
    OBVIOUS
  <1> PICK b, m : b = box[c] /\ m = marks[c]
    OBVIOUS
  <1>0. Types /\ b \in BoxType /\ Placed(c, b, m) /\ Subject \in Ids
        /\ b.parts \ {"snapshot"} \in SUBSET Parts
    BY BoxFacts DEF ContractIInv, Places, Subject, BoxType
  <1>1. /\ box' = Without(c, "snapshot") /\ ~b.record /\ Containerd /\ "lease" \notin b.parts
        /\ UNCHANGED <<plugin, call, wire, marks, faults, foreign, answer>>
    BY DEF GarbageCollect
  <1> PICK d : d = Having(b, b.parts \ {"snapshot"})
    OBVIOUS
  <1>2. /\ d.record = b.record /\ d.parts = b.parts \ {"snapshot"} /\ d.owner = b.owner
        /\ d.restart = b.restart /\ d.task = b.task /\ d.name = b.name
    BY <1>0 DEF Having, BoxType
  <1>3. Becomes(c, d, m)
    <2>1. marks = [marks EXCEPT ![c] = m]
      BY <1>0 DEF Types
    <2>2. Without(c, "snapshot") = [box EXCEPT ![c] = d]
      BY <1>0, PartsIs DEF Parts
    <2> QED BY <1>1, <2>1, <2>2 DEF Becomes
  <1>4. RuntimesIInv' /\ Finds(call.step, box[Subject])
    BY <1>1, GarbageCollectOK DEF ContractIInv
  <1>5. Placed(c, d, m)
    BY <1>0, <1>1, <1>2 DEF Placed
  <1>6. /\ Places' /\ Moved(c, b, m, d, m) /\ box'[c] = d
        /\ \A e \in Ids \ {c} : box'[e] = box[e]
    BY <1>1, <1>3, <1>5, BecomesPlaced
  <1>7. ~Visible(c, b) /\ ~Visible(c, d)
    BY <1>1, <1>2 DEF Visible
  <1>8. View' = View
    BY <1>6, <1>7, ViewStep
  <1>9. Finds(call.step, b) => Finds(call.step, d)
    BY <1>1, <1>2 DEF Finds
  <1>10. Finds(call.step, box'[Subject])
    BY <1>0, <1>4, <1>6, <1>9
  <1> QED BY <1>1, <1>4, <1>6, <1>8, <1>10, WorldGoes

-----------------------------------------------------------------------------
(* A call begins, or its client dies.                                           *)

LEMMA AskMoves ==
  ASSUME ContractIInv, Ask, Watch
  PROVE  ContractIInv' /\ Contract!ContractNext
  <1>1. /\ call.op = "idle" /\ UNCHANGED <<plugin, box, wire, marks, foreign>> /\ answer' = "none"
    BY DEF Ask, Begin, Read, Fine
  <1>2. PICK op \in Operations \ {"idle"}, from \in {"app", "backup"}, to \in {"app", "backup"} :
          /\ call' = [IdleCall EXCEPT !.op = op, !.sub = IF op \in NewOps THEN "new" ELSE "old",
                                      !.from = from, !.to = to, !.step = "begin"]
          /\ op \in NewOps => from = "app"
    BY DEF Ask, Begin, NewOps
  <1>3. /\ call'.op = op /\ call'.step = "begin" /\ call'.from = from /\ call'.op # "idle"
        /\ call'.sub = (IF op \in NewOps THEN "new" ELSE "old")
    BY <1>2 DEF IdleCall
  <1>4. RuntimesIInv'
    BY AskOK DEF ContractIInv
  <1>5. /\ Places' /\ View' = View /\ Free' = Free
        /\ ~Containerd => NamesApart' /\ NamedApp' /\ \A e : Alien(e) => Alien(e)'
    BY <1>1, BoxSame
  <1>6. FromOK(call')
    BY <1>2, <1>3 DEF FromOK
  <1>7. ContractIInv'
    <2>1. ReadSoFar(call', seen') /\ EngineRead(call, seen)' /\ \A b : Finds(call'.step, b)
      BY <1>3 DEF ReadSoFar, EngineRead, Finds
    <2>2. ~Containerd => \A r \in wire' : RequestPlaced(r)
      BY <1>1 DEF ContractIInv
    <2> QED BY <1>1, <1>4, <1>5, <1>6, <2>1, <2>2 DEF ContractIInv
  <1>8. Contract!Begin
    <2>1. Task = Contract!Idle
      BY <1>1, TaskIs
    <2>2. /\ Task' # Contract!Idle /\ Task'.sub = call'.sub /\ Task'.from = call'.from
          /\ Task'.op = IF call'.op = "resume" THEN "remove" ELSE call'.op
      <3>1. (/\ call.op = "idle" <=> Task = Contract!Idle
             /\ call.op # "idle" => /\ Task.sub = call.sub /\ Task.from = call.from /\ Task.to = call.to
                                    /\ Task.op = IF call.op = "resume" THEN "remove" ELSE call.op)'
        BY TaskIs, PTL
      <3> QED BY <1>3, <3>1
    <2>3. Pending' = IF Task'.op \in Contract!Requests
                     THEN Pending \cup {[op |-> Task'.op, sub |-> Task'.sub, late |-> FALSE]}
                     ELSE Pending
      <3> PICK S : S = {PendingOp(r) : r \in wire}
        OBVIOUS
      <3>1. Pending = S
        BY <1>1 DEF Pending, Mutating
      <3>2. Pending' = S \cup (IF op \in Mutating THEN {[op |-> op, sub |-> call'.sub, late |-> FALSE]}
                 ELSE IF op = "resume" THEN {[op |-> "remove", sub |-> "old", late |-> FALSE]} ELSE {})
        <4>1. \A r : PendingOp(r)' = PendingOp(r)
          BY <1>1 DEF PendingOp
        <4> QED BY <1>1, <1>3, <4>1 DEF Pending
      <3>3. CASE op \in Mutating
        BY <1>3, <2>2, <3>1, <3>2, <3>3 DEF Mutating, Contract!Requests
      <3>4. CASE op = "resume"
        <4>1. call'.sub = "old"
          BY <1>3, <3>4 DEF NewOps
        <4> QED BY <1>3, <2>2, <3>1, <3>2, <3>4, <4>1 DEF Mutating, Contract!Requests
      <3>5. CASE op \notin Mutating \cup {"resume"}
        BY <1>3, <2>2, <3>1, <3>2, <3>5 DEF Mutating, Contract!Requests
      <3> QED BY <3>3, <3>4, <3>5
    <2>4. seen' = [at |-> {Contract!LivesOf(View[Task'.sub])}, free |-> Task'.from \in Free]
      <3>1. seen' = [at |-> {LivesOf(View'[call'.sub])}, free |-> call'.from \in Free']
        BY <1>1, <1>3, SeenIs
      <3> QED BY <1>5, <2>2, <3>1 DEF LivesOf, Contract!LivesOf
    <2> QED BY <1>1, <1>5, <2>1, <2>2, <2>3, <2>4 DEF Contract!Begin
  <1> QED BY <1>7, <1>8 DEF Contract!ContractNext

LEMMA CrashMoves ==
  ASSUME ContractIInv, Crash, Watch
  PROVE  ContractIInv' /\ Contract!ContractNext
  <1>1. /\ UNCHANGED <<plugin, box, wire, foreign>> /\ call' = IdleCall /\ call.op # "idle"
        /\ answer' = "none"
    BY DEF Crash
  <1>2. \A c \in Ids : "revived" \in marks'[c] <=> "revived" \in marks[c]
    BY DEF Crash
  <1>3. RuntimesIInv'
    BY CrashOK DEF ContractIInv
  <1>4. /\ Places' /\ View' = View /\ Free' = Free
        /\ ~Containerd => NamesApart' /\ NamedApp' /\ \A e : Alien(e) => Alien(e)'
    BY <1>1, <1>2, BoxSame
  <1>5. ContractIInv'
    <2>1. ReadSoFar(call', seen') /\ EngineRead(call, seen)' /\ \A b : Finds(call'.step, b)
      BY <1>1, IdleType DEF ReadSoFar, EngineRead, Finds
    <2>2. ~Containerd => \A r \in wire' : RequestPlaced(r)
      BY <1>1 DEF ContractIInv
    <2>3. FromOK(call')
      BY <1>1, IdleType DEF FromOK, NewOps
    <2> QED BY <1>1, <1>3, <1>4, <2>1, <2>2, <2>3 DEF ContractIInv
  <1>6. Task # Contract!Idle /\ Task' = Contract!Idle
    <2>1. (call.op = "idle" <=> Task = Contract!Idle)'
      BY TaskIs, PTL
    <2> QED BY <1>1, <2>1, TaskIs, IdleType
  <1>7. Pending' \subseteq Contract!Late
    BY <1>1, OpenStep DEF Sent
  <1>8. seen' = Contract!Unseen
    BY <1>1, SeenIs, IdleType
  <1>9. Contract!Die
    BY <1>1, <1>4, <1>6, <1>7, <1>8 DEF Contract!Die
  <1> QED BY <1>5, <1>9 DEF Contract!ContractNext

LEMMA StutterMoves ==
  ASSUME ContractIInv, UNCHANGED vars
  PROVE  ContractIInv' /\ UNCHANGED Contract!contractVars
  <1>1. UNCHANGED <<plugin, box, call, wire, seen, answer, marks, foreign>>
    BY DEF vars
  <1>2. RuntimesIInv'
    BY StepOK DEF ContractIInv
  <1>3. /\ Places' /\ View' = View /\ Free' = Free
        /\ ~Containerd => NamesApart' /\ NamedApp' /\ \A e : Alien(e) => Alien(e)'
    BY <1>1, BoxSame
  <1>4. ContractIInv'
    <2>1. CASE Containerd
      <3>1. ReadSoFar(call', seen') /\ Finds(call'.step, box'[Subject'])
        BY <1>1, <2>1 DEF ContractIInv, Subject
      <3> QED BY <1>1, <1>2, <1>3, <2>1, <3>1 DEF ContractIInv
    <2>2. CASE ~Containerd
      <3>1. EngineRead(call, seen)'
        BY <1>1, <1>3, <2>2 DEF ContractIInv, EngineRead
      <3> QED BY <1>1, <1>2, <1>3, <2>2, <3>1 DEF ContractIInv
    <2> QED BY <2>1, <2>2
  <1>5. Task' = Task
    BY <1>1, TaskIs DEF SameTask
  <1>6. Pending' = Pending
    <2>1. \A r : PendingOp(r)' = PendingOp(r)
      BY <1>1 DEF PendingOp
    <2> QED BY <1>1, <2>1 DEF Pending
  <1> QED BY <1>1, <1>3, <1>4, <1>5, <1>6 DEF Contract!contractVars

LEMMA ContractStep ==
  ASSUME ContractIInv, [RuntimesNext]_vars
  PROVE  ContractIInv' /\ [Contract!ContractNext]_Contract!contractVars
  <1>1. CASE UNCHANGED vars
    BY <1>1, StutterMoves
  <1>2. CASE RuntimesNext
    <2>1. Watch /\ (\/ Ask \/ DockerNext \/ PodmanNext \/ ContainerdNext \/ Crash
                    \/ EngineDeliver \/ ContainerdDeliver \/ GarbageCollect
                    \/ \E c \in Ids : \/ Exit(c) \/ Monitor(c) \/ ForeignRename(c)
                                      \/ ForeignCreate(c) \/ ForeignPause(c) \/ ForeignRemove(c))
      BY <1>2, Zenon DEF RuntimesNext, Step, ClientStep, Environment
    <2>2. ContractIInv' /\ Contract!ContractNext
      BY <2>1, AskMoves, EngineRefines, ContainerdRefines, CrashMoves, EngineDeliverMoves,
         ContainerdDeliverMoves, GarbageCollectMoves, ExitMoves, MonitorMoves, ForeignMoves
    <2> QED BY <2>2
  <1> QED BY <1>1, <1>2

(* The beginning: the predecessor runs, if there is one.                            *)
LEMMA ContractBegins ==
  ASSUME RuntimesInit
  PROVE  ContractIInv /\ Contract!ContractInit
  <1>1. /\ RuntimesIInv /\ call = IdleCall /\ wire = {} /\ seen = Unseen /\ answer = "none"
        /\ foreign = 0 /\ marks = [c \in Ids |-> {}]
    BY InitOK DEF RuntimesInit
  <1>2. box[2] = Unborn /\ box[3] = Unborn
    BY DEF RuntimesInit
  <1>3. \/ box[1] = Unborn
        \/ /\ box[1].record /\ box[1].owner = "old" /\ box[1].name = "app" /\ box[1].task = "running"
           /\ box[1].parts = IF Containerd THEN Workload \cup {"network"} ELSE {}
    BY DEF RuntimesInit
  <1>4. Places
    <2>1. /\ ~Unborn.record /\ Unborn.owner = "none" /\ Unborn.parts = {}
      BY DEF Unborn
    <2> SUFFICES ASSUME NEW c \in Ids PROVE Placed(c, box[c], marks[c])
      BY DEF Places
    <2>2. CASE box[c] = Unborn
      BY <2>1, <2>2 DEF Placed
    <2>3. CASE c = 1 /\ box[1] # Unborn
      BY <1>3, <2>3 DEF Placed, Intact, Workload
    <2> QED BY <1>2, <2>2, <2>3
  <1>5. \A c \in Ids : box[c].record => c = 1 /\ box[c].owner = "old"
    <2>1. ~Unborn.record
      BY DEF Unborn
    <2> QED BY <1>2, <1>3, <2>1
  <1>6. ContractIInv
    <2>1. FromOK(call) /\ ReadSoFar(call, seen) /\ EngineRead(call, seen)
      BY <1>1, IdleType DEF FromOK, NewOps, ReadSoFar, EngineRead
    <2>2. \A b : Finds(call.step, b)
      BY <1>1, IdleType DEF Finds
    <2>3. NamesApart /\ NamedApp
      BY <1>5 DEF NamesApart, NamedApp
    <2> QED BY <1>1, <1>4, <2>1, <2>2, <2>3 DEF ContractIInv
  <1>7. Task = Contract!Idle /\ Pending = {} /\ seen = Contract!Unseen
    BY <1>1, IdleType, TaskIs DEF Pending, Mutating, Unseen, Contract!Unseen
  <1>8. /\ View["old"] = IF box[1].record THEN {<<"running", "app">>} ELSE {}
        /\ View["new"] = {}
        /\ View = [s \in {"old", "new"} |-> View[s]]
    <2>1. Owned = {}
      BY <1>5 DEF Owned
    <2>2. ~box[1].record => box[1].parts = {}
      BY <1>3 DEF Unborn
    <2>3. box[1].record => ViewLife(1) = "running" /\ box[1].name = "app"
      <3> SUFFICES ASSUME box[1].record PROVE ViewLife(1) = "running" /\ box[1].name = "app"
        OBVIOUS
      <3>1. Life(1) = "running" /\ box[1].name = "app"
        BY <1>3 DEF Life, Workload, Unborn
      <3> QED BY <1>1, <3>1 DEF ViewLife
    <2> QED BY <2>1, <2>2, <2>3 DEF View
  <1>9. View \in [{"old", "new"} -> SUBSET ({"running"} \X {"app"})]
    <2>1. \A s \in {"old", "new"} : View[s] \in SUBSET ({"running"} \X {"app"})
      BY <1>8
    <2> QED BY <1>8, <2>1
  <1>10. Free = {"app", "backup", "other"} \ {v[2] : v \in View["old"]}
    <2>1. \A n : Holders(n) = IF box[1].record /\ n = "app" THEN {1} ELSE {}
      <3>1. box[1].record => box[1].name = "app"
        BY <1>3 DEF Unborn
      <3> QED BY <1>5, <3>1 DEF Holders
    <2>2. {v[2] : v \in View["old"]} = IF box[1].record THEN {"app"} ELSE {}
      <3> PICK w : w = <<"running", "app">>
        OBVIOUS
      <3>1. w[2] = "app"
        OBVIOUS
      <3>2. View["old"] = IF box[1].record THEN {w} ELSE {}
        BY <1>8
      <3>3. CASE box[1].record
        BY <3>1, <3>2, <3>3
      <3>4. CASE ~box[1].record
        BY <3>2, <3>4
      <3> QED BY <3>3, <3>4
    <2> QED BY <2>1, <2>2 DEF Free, Names
  <1>11. Contract!ContractInit
    BY <1>1, <1>7, <1>9, <1>10 DEF Contract!ContractInit
  <1> QED BY <1>6, <1>11

(* What a call has read was true since it began, each step of it finds the parts it      *)
(* rests on, and names stay apart: with any plugin, whatever fails or comes late.           *)
THEOREM ContractInvariant == RuntimesSpec => []ContractIInv
  BY ContractBegins, ContractStep, PTL DEF RuntimesSpec

(* Docker, Podman and containerd implement the contract the application layer relies on    *)
(* (Apply and Recover rest on it): a workload changes only as an unsettled request asks     *)
(* for, by itself or by foreign hands; a call that succeeds had its effect; what a probe     *)
(* answers was true at some moment of it.                                             *)
THEOREM ContractTheorem == RuntimesSpec => ImplementsWorkloadContract
  <1>1. RuntimesInit => Contract!ContractInit
    BY ContractBegins
  <1>2. ContractIInv /\ [RuntimesNext]_vars => [Contract!ContractNext]_Contract!contractVars
    BY ContractStep
  <1> QED BY <1>1, <1>2, ContractInvariant, PTL
          DEF RuntimesSpec, ImplementsWorkloadContract, Contract!ContractSpec
=============================================================================
