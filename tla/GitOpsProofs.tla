---------------------------- MODULE GitOpsProofs ----------------------------
(***************************************************************************)
(* Safety of the daemon's life and of the GitOps cycle, for any number of    *)
(* daemon processes, commits, services, pushes and faults.                   *)
(*                                                                         *)
(* Three chains meet here.  The lease makes at most one daemon poll, and      *)
(* what the stop command read in the lock file is a daemon that was polling   *)
(* once.  HEAD only moves to descendants, so a snapshot that ends at the       *)
(* commit it began with was read from that commit alone: a HEAD that left      *)
(* cannot have come back.  And a recovery round passes every service with a    *)
(* transaction of a daemon, so when the checkout advances none is open.        *)
(***************************************************************************)
EXTENDS GitOps, TLAPS

(* A daemon holds the lease from the flock to the end of its poll loop, and   *)
(* it is past its start once its process ID is in the lock file.             *)
Holding == {"locked", "cleared", "polling", "closing"}
Late    == {"polling", "closing", "released", "deaf", "gone"}
Over    == {"released", "deaf", "gone"}

(* Who has the flock of daemon.lock, and what the stop command knows.        *)
LeaseInv ==
    /\ \A d \in Daemons : phase[d] \in Holding <=> holder = d
    /\ stopAt \in {"free", "vacant"} => holder = Stopper
    /\ \A d \in Daemons : pidFile = d => phase[d] \in Late
    /\ \A d \in Daemons : target = d => phase[d] \in Late
    /\ stopAt \in {"signal", "wait", "vacant", "stopped"} => target \in Daemons
    /\ stopAt = "stopped" => \A d \in Daemons : target = d => phase[d] \in Over

(* What gitops init has done, and that nothing starts without it.            *)
RepoInv ==
    /\ checkout = "whole" => head \in Commits
    /\ initAt \in {"prove", "register"} =>
          checkout = "whole" /\ initCommit \in Commits /\ initCommit \in Ancestors[head]
    /\ registration # NoCommit => initAt = "done" /\ checkout = "whole" /\ registration \in Ancestors[head]
    /\ registration = NoCommit => \A d \in Daemons : phase[d] = "off"

(* The apply a person runs has a service and a version to apply.             *)
HandInv == byHand.at # "idle" => byHand.service \in ServiceNames /\ byHand.source \in Versions

(* A transaction of a daemon is one of a version of the commit checked out.  *)
OpenInv ==
    \A s \in ServiceNames : open[s].by = "daemon" =>
        /\ registration # NoCommit
        /\ open[s].version \in Versions
        /\ ~moved => open[s].version = Content[head][s]

(* Where a reconcile stands in its list of services.                         *)
Placed(w) ==
    /\ w.at \in {"load", "mutate", "effects"} \/ (w.next = 1 /\ w.chosen = {})
    /\ w.at = "effects" => w.next <= Len(Services)
    /\ w.at \in {"list", "load", "mutate", "effects", "merge"} => w.commit \in Commits

(* What it has read: while HEAD is where it was, the list and the files of    *)
(* one commit.                                                               *)
HasRead(w, h) ==
    /\ w.at = "load" =>
         /\ w.commit \in Ancestors[h]
         /\ \A i \in 1 .. w.next - 1 :
               /\ w.source[Services[i]] # Invalid
               /\ h = w.commit => w.source[Services[i]] = Content[w.commit][Services[i]]
         /\ h = w.commit =>
               \A s \in ServiceNames : w.source[s] = Absent <=> Content[w.commit][s] = Absent
         /\ \A s \in w.chosen : w.source[s] \in Versions /\ \E i \in 1 .. w.next - 1 : Services[i] = s
    /\ w.at \in {"mutate", "effects"} =>
         /\ \A s \in ServiceNames : w.source[s] = Content[w.commit][s] /\ w.source[s] # Invalid
         /\ \A s \in w.chosen : w.source[s] \in Versions

(* What it has recovered, as long as nobody moved HEAD by hand: before the   *)
(* checkout advances no transaction of a daemon is open.                     *)
HasRecovered(w, h, o) ==
    /\ w.at \in {"list", "load", "mutate", "effects"} => h = w.commit
    /\ w.at = "load" /\ w.round = "recover" =>
         \A i \in 1 .. w.next - 1 : o[Services[i]].by = "daemon" => Services[i] \in w.chosen
    /\ w.at \in {"mutate", "effects"} /\ w.round = "recover" =>
         /\ \A s \in ServiceNames : o[s].by = "daemon" => s \in w.chosen
         /\ \A i \in 1 .. w.next - 1 : o[Services[i]].by # "daemon"
    /\ w.at \in {"fetch", "merge"} => \A s \in ServiceNames : o[s].by # "daemon"

(* The reconcile of a daemon; one that does not poll has none.               *)
WorkInv ==
    \A d \in Daemons :
       /\ ~Polling(d) => work[d] = Fresh
       /\ Placed(work[d]) /\ HasRead(work[d], head)
       /\ ~moved => HasRecovered(work[d], head, open)

(* The inductive invariant.                                                  *)
GitOpsIInv == GitOpsTypeOK /\ LeaseInv /\ RepoInv /\ HandInv /\ OpenInv /\ WorkInv

-----------------------------------------------------------------------------
(* Commits, service files and their content.                                 *)

(* A commit descends from itself, and descent is transitive.                 *)
LEMMA AncestorFacts ==
  /\ \A c \in Commits : c \in Ancestors[c] /\ Ancestors[c] \subseteq Commits
  /\ \A a, b, c \in Commits : a \in Ancestors[b] /\ b \in Ancestors[c] => a \in Ancestors[c]
  <1>1. ASSUME NEW c \in Commits PROVE c \in Ancestors[c] /\ Ancestors[c] \subseteq Commits
    BY DEF Ancestors
  <1>2. ASSUME NEW a \in Commits, NEW b \in Commits, NEW c \in Commits,
               a \in Ancestors[b], b \in Ancestors[c]
        PROVE  a \in Ancestors[c]
    <2> SUFFICES ASSUME NEW S \in SUBSET Commits, c \in S, WithParents(S) PROVE a \in S
      BY DEF Ancestors
    <2>1. b \in S
      BY <1>2 DEF Ancestors
    <2> QED BY <1>2, <2>1 DEF Ancestors
  <1> QED BY <1>1, <1>2

(* The service files are listed once each.                                   *)
LEMMA ServiceFacts ==
  /\ Len(Services) \in Nat
  /\ \A i \in 1 .. Len(Services) : Services[i] \in ServiceNames
  /\ \A s \in ServiceNames : \E i \in 1 .. Len(Services) : Services[i] = s
  /\ \A i, j \in 1 .. Len(Services) : Services[i] = Services[j] => i = j
  <1>1. Services \in Seq(ServiceNames) /\ Len(Services) \in Nat /\ DOMAIN Services = 1 .. Len(Services)
    BY ServicesAssumption
  <1> QED BY <1>1, ServicesAssumption DEF ServiceNames

(* What a commit says of a service is a version, or that there is none.      *)
LEMMA ContentFacts ==
  /\ \A c \in Commits : \A s \in ServiceNames : Content[c][s] \in Versions \cup {Absent, Invalid}
  /\ Absent \notin Versions /\ Invalid \notin Versions
  BY DEF Versions

(* A process ID is none of the marks.                                        *)
LEMMA ProcessFacts ==
  \A d \in Daemons : d # Nobody /\ d # Stopper /\ d # Hand /\ d # "absent" /\ d # "empty"
  BY ProcessesAssumption, HandAssumption

-----------------------------------------------------------------------------
(* The lease and the stop command.                                           *)

(* How a step may move the daemons while no reconcile is left behind.        *)
KeepsPolling == \A d \in Daemons : phase[d] = "polling" => phase'[d] = "polling"
KeepsOff     == \A d \in Daemons : phase[d] = "off" => phase'[d] = "off"

LEMMA StartStep ==
  ASSUME ControlTypeOK, LeaseInv, NEW d \in Daemons, StartDaemon(d)
  PROVE  ControlTypeOK' /\ LeaseInv' /\ KeepsPolling
  BY ProcessFacts DEF ControlTypeOK, LeaseInv, StartDaemon, Enter, KeepsPolling, Phases, Holding, Late, Over,
       leaseVars, stopVars

LEMMA ListenStep ==
  ASSUME ControlTypeOK, LeaseInv, NEW d \in Daemons, ListenForStop(d)
  PROVE  ControlTypeOK' /\ LeaseInv' /\ KeepsPolling /\ KeepsOff
  BY ProcessFacts DEF ControlTypeOK, LeaseInv, ListenForStop, Enter, KeepsPolling, KeepsOff, Phases, Holding, Late,
       Over, leaseVars, stopVars

LEMMA AcquireStep ==
  ASSUME ControlTypeOK, LeaseInv, NEW d \in Daemons, AcquireDaemonLease(d)
  PROVE  ControlTypeOK' /\ LeaseInv' /\ KeepsPolling /\ KeepsOff
  <1>1. CASE holder = Nobody
    <2>1. /\ phase' = [phase EXCEPT ![d] = "locked"] /\ holder' = d /\ phase[d] = "listening"
          /\ pidFile' \in {pidFile, "empty"}
          /\ UNCHANGED <<requested, cancelled, stopAt, target>>
      BY <1>1 DEF AcquireDaemonLease, Enter, stopVars
    <2>2. ControlTypeOK'
      BY <2>1 DEF ControlTypeOK, Phases
    <2>3. \A e \in Daemons : e # d => phase'[e] = phase[e] /\ phase[e] \notin Holding
      BY <1>1, <2>1, ProcessFacts DEF LeaseInv, ControlTypeOK
    <2>4. phase'[d] = "locked"
      BY <2>1 DEF ControlTypeOK
    <2>5. /\ stopAt \notin {"free", "vacant"}
          /\ \A e \in Daemons : pidFile' = e => pidFile = e
      BY <1>1, <2>1, ProcessFacts DEF LeaseInv, Stopper, Nobody
    <2> QED BY <2>1, <2>2, <2>3, <2>4, <2>5, ProcessFacts DEF LeaseInv, KeepsPolling, KeepsOff, Holding, Late, Over
  <1>2. CASE holder # Nobody
    BY <1>2, ProcessFacts DEF ControlTypeOK, LeaseInv, AcquireDaemonLease, Enter, KeepsPolling, KeepsOff, Phases,
         Holding, Late, Over, leaseVars, stopVars
  <1> QED BY <1>1, <1>2

LEMMA PIDStep ==
  ASSUME ControlTypeOK, LeaseInv, NEW d \in Daemons, TruncatePID(d) \/ WritePID(d) \/ WritePIDFails(d)
  PROVE  ControlTypeOK' /\ LeaseInv' /\ KeepsPolling /\ KeepsOff
  <1>1. CASE TruncatePID(d)
    BY <1>1, ProcessFacts DEF ControlTypeOK, LeaseInv, TruncatePID, Enter, KeepsPolling, KeepsOff, Phases, Holding,
         Late, Over, leaseVars, stopVars
  <1>2. CASE WritePID(d)
    BY <1>2, ProcessFacts DEF ControlTypeOK, LeaseInv, WritePID, Enter, KeepsPolling, KeepsOff, Phases, Holding,
         Late, Over, leaseVars, stopVars
  <1>3. CASE WritePIDFails(d)
    BY <1>3, ProcessFacts DEF ControlTypeOK, LeaseInv, WritePIDFails, Enter, KeepsPolling, KeepsOff, Phases, Holding,
         Late, Over, leaseVars, stopVars
  <1> QED BY <1>1, <1>2, <1>3

LEMMA EndStep ==
  ASSUME ControlTypeOK, LeaseInv, NEW d \in Daemons, CloseDaemonLease(d) \/ CloseSignals(d) \/ ExitDaemon(d)
  PROVE  ControlTypeOK' /\ LeaseInv' /\ KeepsPolling /\ KeepsOff
  <1>1. CASE CloseDaemonLease(d)
    BY <1>1, ProcessFacts DEF ControlTypeOK, LeaseInv, CloseDaemonLease, Enter, KeepsPolling, KeepsOff, Phases,
         Holding, Late, Over, leaseVars, stopVars
  <1>2. CASE CloseSignals(d)
    BY <1>2, ProcessFacts DEF ControlTypeOK, LeaseInv, CloseSignals, Enter, KeepsPolling, KeepsOff, Phases, Holding,
         Late, Over, leaseVars, stopVars
  <1>3. CASE ExitDaemon(d)
    BY <1>3, ProcessFacts DEF ControlTypeOK, LeaseInv, ExitDaemon, Enter, KeepsPolling, KeepsOff, Phases, Holding,
         Late, Over, leaseVars, stopVars
  <1> QED BY <1>1, <1>2, <1>3

(* The poll loop ends.                                                       *)
LEMMA ClosingStep ==
  ASSUME ControlTypeOK, LeaseInv, NEW d \in Daemons, Polling(d), Enter(d, "closing"),
         UNCHANGED <<requested, cancelled, leaseVars, stopVars>>
  PROVE  ControlTypeOK' /\ LeaseInv' /\ KeepsOff
  BY ProcessFacts DEF ControlTypeOK, LeaseInv, Polling, Enter, KeepsOff, Phases, Holding, Late, Over, leaseVars,
       stopVars

LEMMA CrashStep ==
  ASSUME ControlTypeOK, LeaseInv, NEW d \in Daemons, CrashDaemon(d)
  PROVE  /\ ControlTypeOK' /\ LeaseInv' /\ KeepsOff
         /\ phase' = [phase EXCEPT ![d] = "gone"]
  BY ProcessFacts DEF ControlTypeOK, LeaseInv, CrashDaemon, Alive, Die, KeepsOff, Phases, Holding, Late, Over,
       leaseVars, stopVars

LEMMA InterruptStep ==
  ASSUME ControlTypeOK, LeaseInv, NEW d \in Daemons, Interrupt(d)
  PROVE  ControlTypeOK' /\ LeaseInv' /\ KeepsPolling /\ KeepsOff
  BY ProcessFacts DEF ControlTypeOK, LeaseInv, Interrupt, KeepsPolling, KeepsOff, Phases, Holding, Late, Over,
       leaseVars, stopVars

(* SIGUSR1 ends only a daemon that has closed its lease and its handler.      *)
LEMMA SignalStep ==
  ASSUME ControlTypeOK, LeaseInv, SignalDaemon
  PROVE  /\ ControlTypeOK' /\ LeaseInv' /\ KeepsPolling /\ KeepsOff
         /\ \A d \in Daemons : phase'[d] # phase[d] => phase[d] = "deaf" /\ holder # d
  <1>1. PICK t \in Daemons : t = target
    BY DEF LeaseInv, SignalDaemon
  <1>2. phase[t] \in Late /\ phase[t] \in Phases
    BY <1>1 DEF LeaseInv, ControlTypeOK
  <1>3. CASE Alive(t) /\ ~Listening(t)
    <2>1. phase[t] = "deaf"
      BY <1>2, <1>3 DEF Alive, Listening, Late
    <2>2. holder # t
      BY <2>1 DEF LeaseInv, Holding
    <2>3. /\ phase' = [phase EXCEPT ![t] = "gone"] /\ holder' = holder /\ stopAt' = "wait"
          /\ UNCHANGED <<requested, cancelled, pidFile, target>>
      BY <1>1, <1>3, <2>2 DEF SignalDaemon, Die
    <2> QED BY <1>1, <2>1, <2>2, <2>3, ProcessFacts DEF ControlTypeOK, LeaseInv, KeepsPolling, KeepsOff, Phases,
               Holding, Late, Over, SignalDaemon
  <1>4. CASE ~(Alive(t) /\ ~Listening(t))
    <2>1. /\ phase' = phase /\ holder' = holder /\ stopAt' \in {"wait", "failed"}
          /\ requested' = [requested EXCEPT ![t] = @ \/ Alive(t)]
          /\ UNCHANGED <<cancelled, pidFile, target>>
      BY <1>1, <1>4 DEF SignalDaemon
    <2>2. requested' \in [Daemons -> BOOLEAN]
      BY <2>1 DEF ControlTypeOK, Alive
    <2> QED BY <1>1, <2>1, <2>2 DEF ControlTypeOK, LeaseInv, KeepsPolling, KeepsOff
  <1> QED BY <1>3, <1>4

LEMMA StopStep ==
  ASSUME ControlTypeOK, LeaseInv, StopCommand
  PROVE  ControlTypeOK' /\ LeaseInv' /\ KeepsPolling /\ KeepsOff
  <1>1. CASE RequestDaemonStop
    BY <1>1 DEF ControlTypeOK, LeaseInv, KeepsPolling, KeepsOff, RequestDaemonStop, daemonVars, leaseVars
  <1>2. CASE ProbeOwner
    BY <1>2, ProcessFacts DEF ControlTypeOK, LeaseInv, KeepsPolling, KeepsOff, ProbeOwner, daemonVars
  <1>3. CASE ReleaseProbe
    BY <1>3, ProcessFacts DEF ControlTypeOK, LeaseInv, KeepsPolling, KeepsOff, ReleaseProbe, daemonVars, Phases,
         Holding, Late, Over
  <1>4. CASE SignalDaemon
    BY <1>4, SignalStep
  <1>5. CASE WaitForRelease
    BY <1>5, ProcessFacts DEF ControlTypeOK, LeaseInv, KeepsPolling, KeepsOff, WaitForRelease, daemonVars
  <1>6. CASE AbandonStop
    BY <1>6 DEF ControlTypeOK, LeaseInv, KeepsPolling, KeepsOff, AbandonStop, daemonVars, leaseVars
  <1> QED BY <1>1, <1>2, <1>3, <1>4, <1>5, <1>6 DEF StopCommand

-----------------------------------------------------------------------------
(* The type invariant in parts.                                              *)
WorkType == [at : Steps, round : {"recover", "forward"},
             commit : Commits \cup {NoCommit}, next : 1..Len(Services) + 1,
             source : [ServiceNames -> Versions \cup {Nothing, Absent, Invalid}],
             chosen : SUBSET ServiceNames]

OpenType == [version : Versions \cup {Nothing}, by : {Nobody, Hand, "daemon"}]

RepoTypes ==
    /\ registration \in Commits \cup {NoCommit} /\ head \in Commits \cup {NoCommit}
    /\ remote \in Commits \cup {NoCommit}
    /\ checkout \in {"absent", "partial", "whole"}
    /\ initAt \in {"idle", "populate", "existing", "prove", "register", "done"}
    /\ initCommit \in Commits \cup {NoCommit}
    /\ clean \in BOOLEAN

ServiceTypes ==
    /\ deployed \in [ServiceNames -> Versions \cup {Nothing}]
    /\ open \in [ServiceNames -> OpenType]
    /\ locked \in [ServiceNames -> Daemons \cup {Nobody, Hand}]

HandTypes ==
    byHand \in [at : {"idle", "loaded", "effects"}, service : ServiceNames \cup {Nothing},
                source : Versions \cup {Nothing}]

BoundTypes == moved \in BOOLEAN /\ pushes \in 0..MaxPushes /\ faults \in 0..MaxFaults

WorkTypes == work \in [Daemons -> WorkType]

TypesInParts ==
    GitOpsTypeOK <=> ControlTypeOK /\ RepoTypes /\ ServiceTypes /\ HandTypes /\ BoundTypes /\ WorkTypes

LEMMA TypeParts == TypesInParts
  BY DEF TypesInParts, GitOpsTypeOK, RepoTypes, ServiceTypes, HandTypes, BoundTypes, WorkTypes, WorkType, OpenType

LEMMA TypePartsAfter == TypesInParts'
  BY TypeParts, PTL

(* A daemon that begins has read and recovered nothing, and need not have.   *)
LEMMA FreshFacts ==
  /\ Fresh \in WorkType /\ Placed(Fresh)
  /\ \A h, o : HasRead(Fresh, h) /\ HasRecovered(Fresh, h, o)
  /\ \A step \in {"top", "check", "wait"} :
        /\ [Fresh EXCEPT !.at = step] \in WorkType /\ Placed([Fresh EXCEPT !.at = step])
        /\ \A h, o : /\ HasRead([Fresh EXCEPT !.at = step], h)
                     /\ HasRecovered([Fresh EXCEPT !.at = step], h, o)
  <1>1. Fresh \in WorkType
    BY ServiceFacts DEF Fresh, WorkType, Steps
  <1>2. \A step \in {"top", "check", "wait"} : [Fresh EXCEPT !.at = step] \in WorkType
    BY ServiceFacts DEF Fresh, WorkType, Steps
  <1>3. Placed(Fresh) /\ \A step \in {"top", "check", "wait"} : Placed([Fresh EXCEPT !.at = step])
    BY DEF Fresh, Placed
  <1>4. \A h, o : HasRead(Fresh, h) /\ HasRecovered(Fresh, h, o)
    BY DEF Fresh, HasRead, HasRecovered
  <1>5. \A step \in {"top", "check", "wait"} : \A h, o :
           /\ HasRead([Fresh EXCEPT !.at = step], h)
           /\ HasRecovered([Fresh EXCEPT !.at = step], h, o)
    BY DEF Fresh, HasRead, HasRecovered
  <1> QED BY <1>1, <1>2, <1>3, <1>4, <1>5

(* A fresh reconcile placed at a step, for a commit.                         *)
FreshFor(step, c) == [Fresh EXCEPT !.at = step, !.commit = c]

LEMMA FreshAt ==
  ASSUME NEW step \in Steps, NEW c \in Commits \cup {NoCommit}
  PROVE  /\ FreshFor(step, c) \in WorkType /\ FreshFor(step, c).at = step /\ FreshFor(step, c).commit = c
         /\ FreshFor(step, c).next = 1 /\ FreshFor(step, c).chosen = {} /\ FreshFor(step, c).round = "recover"
  <1>1. Fresh \in WorkType
    BY FreshFacts
  <1>2. Fresh.next = 1 /\ Fresh.chosen = {} /\ Fresh.round = "recover"
    BY DEF Fresh
  <1> QED BY <1>1, <1>2 DEF WorkType, FreshFor

(* A reconcile moved to another step and another service.                    *)
Moved(w, step, n) == [w EXCEPT !.at = step, !.next = n]

LEMMA MoveTo ==
  ASSUME NEW w \in WorkType, NEW step \in Steps, NEW n \in 1..Len(Services) + 1
  PROVE  /\ Moved(w, step, n) \in WorkType
         /\ Moved(w, step, n).at = step /\ Moved(w, step, n).next = n
         /\ Moved(w, step, n).chosen = w.chosen /\ Moved(w, step, n).source = w.source
         /\ Moved(w, step, n).commit = w.commit /\ Moved(w, step, n).round = w.round
  BY DEF WorkType, Moved

LEMMA GitOpsInitInv == GitOpsInit => GitOpsIInv
  <1> SUFFICES ASSUME GitOpsInit PROVE GitOpsIInv
    OBVIOUS
  <1>1. ControlTypeOK /\ LeaseInv
    BY ProcessFacts DEF GitOpsInit, ControlInit, ControlTypeOK, LeaseInv, Phases, Holding, Nobody, Stopper
  <1>2. RepoTypes /\ HandTypes /\ BoundTypes
    <2>1. RepoTypes
      BY CommitsAssumption DEF GitOpsInit, RepoTypes
    <2>2. HandTypes
      BY DEF GitOpsInit, HandTypes, NoHand
    <2>3. moved = FALSE /\ pushes = 0 /\ faults = 0
      BY DEF GitOpsInit
    <2>5. pushes \in 0..MaxPushes /\ faults \in 0..MaxFaults
      BY <2>3, BoundsAssumption
    <2>6. moved \in BOOLEAN
      BY <2>3
    <2>4. BoundTypes
      BY <2>5, <2>6 DEF BoundTypes
    <2> QED BY <2>1, <2>2, <2>4
  <1>3. ServiceTypes
    BY DEF GitOpsInit, ServiceTypes, OpenType, Settled
  <1>4. WorkTypes
    BY FreshFacts DEF GitOpsInit, WorkTypes
  <1>5. RepoInv
    BY CommitsAssumption DEF GitOpsInit, ControlInit, RepoInv
  <1>6. HandInv /\ OpenInv
    BY DEF GitOpsInit, HandInv, NoHand, OpenInv, Settled, Nobody
  <1>7. WorkInv
    BY FreshFacts DEF GitOpsInit, WorkInv
  <1> QED BY <1>1, <1>2, <1>3, <1>4, <1>5, <1>6, <1>7, TypeParts DEF GitOpsIInv, TypesInParts

-----------------------------------------------------------------------------
(* What a step that is not a daemon's own leaves to the daemons.             *)

(* No transaction of a daemon is new or changed.                             *)
NoNewOpen == \A s \in ServiceNames : open'[s].by = "daemon" => open'[s] = open[s]

LEMMA RecoveredLess ==
  ASSUME NEW w \in WorkType, NEW h, NEW o, NEW p, HasRecovered(w, h, o),
         \A s \in ServiceNames : p[s].by = "daemon" => o[s].by = "daemon"
  PROVE  HasRecovered(w, h, p)
  <1>1. \A i \in 1 .. w.next - 1 : Services[i] \in ServiceNames
    BY ServiceFacts DEF WorkType
  <1> QED BY <1>1 DEF HasRecovered

LEMMA WorkKept ==
  ASSUME WorkTypes, WorkInv, work' = work, head' = head, moved' = moved, KeepsPolling, NoNewOpen
  PROVE  WorkInv'
  <1> SUFFICES ASSUME NEW d \in Daemons
               PROVE  /\ ~(phase'[d] = "polling") => work[d] = Fresh
                      /\ Placed(work[d]) /\ HasRead(work[d], head)
                      /\ ~moved => HasRecovered(work[d], head, open')
    BY DEF WorkInv, Polling
  <1>1. /\ ~(phase'[d] = "polling") => work[d] = Fresh
        /\ Placed(work[d]) /\ HasRead(work[d], head)
    BY DEF WorkInv, Polling, KeepsPolling
  <1>2. work[d] \in WorkType
    BY DEF WorkTypes
  <1>3. ASSUME ~moved PROVE HasRecovered(work[d], head, open')
    BY <1>2, <1>3, RecoveredLess DEF WorkInv, NoNewOpen
  <1> QED BY <1>1, <1>3

LEMMA OpenKept ==
  ASSUME OpenInv, head' = head, moved' = moved, registration # NoCommit => registration' # NoCommit, NoNewOpen
  PROVE  OpenInv'
  BY DEF OpenInv, NoNewOpen

(* Before the registration there is no reconcile and no transaction of one.  *)
LEMMA BeforeRegistration ==
  ASSUME GitOpsIInv, registration = NoCommit
  PROVE  /\ \A d \in Daemons : work[d] = Fresh
         /\ \A s \in ServiceNames : open[s].by # "daemon"
  BY DEF GitOpsIInv, RepoInv, WorkInv, OpenInv, Polling

-----------------------------------------------------------------------------
(* One apply of one service.                                                 *)
LEMMA BeginStep ==
  ASSUME ServiceTypes, NEW p \in Daemons \cup {Hand}, NEW s \in ServiceNames, NEW v \in Versions,
         NEW maker \in {Hand, "daemon"}, Begin(p, s, v, maker)
  PROVE  /\ ServiceTypes'
         /\ \A t \in ServiceNames : t # s => open'[t] = open[t]
         /\ open'[s] = open[s] \/ open'[s] = [version |-> v, by |-> maker]
         /\ open'[s].version = v
  <1> DEFINE o == IF open[s] = Settled THEN [version |-> v, by |-> maker] ELSE open[s]
  <1>1. /\ open \in [ServiceNames -> OpenType] /\ locked \in [ServiceNames -> Daemons \cup {Nobody, Hand}]
        /\ deployed \in [ServiceNames -> Versions \cup {Nothing}]
    BY DEF ServiceTypes
  <1>2. o \in OpenType /\ o.version = v
    BY <1>1 DEF OpenType, Begin, Admits
  <1>3. /\ open' = [open EXCEPT ![s] = o] /\ locked' = [locked EXCEPT ![s] = p] /\ deployed' = deployed
    BY DEF Begin
  <1>4. o = open[s] \/ o = [version |-> v, by |-> maker]
    OBVIOUS
  <1> HIDE DEF o
  <1> QED BY <1>1, <1>2, <1>3, <1>4 DEF ServiceTypes

LEMMA SucceedStep ==
  ASSUME ServiceTypes, NEW s \in ServiceNames, Succeed(s)
  PROVE  /\ ServiceTypes'
         /\ \A t \in ServiceNames : t # s => open'[t] = open[t]
         /\ open'[s] = Settled
  <1>1. /\ open \in [ServiceNames -> OpenType] /\ locked \in [ServiceNames -> Daemons \cup {Nobody, Hand}]
        /\ deployed \in [ServiceNames -> Versions \cup {Nothing}]
    BY DEF ServiceTypes
  <1>2. open[s].version \in Versions \cup {Nothing} /\ Settled \in OpenType
    BY <1>1 DEF OpenType, Settled
  <1> QED BY <1>1, <1>2 DEF ServiceTypes, Succeed

LEMMA FailStep ==
  ASSUME ServiceTypes, NEW s \in ServiceNames, Fail(s)
  PROVE  /\ ServiceTypes'
         /\ \A t \in ServiceNames : t # s => open'[t] = open[t]
         /\ open'[s] = Settled \/ open'[s] = open[s]
  <1>1. /\ open \in [ServiceNames -> OpenType] /\ locked \in [ServiceNames -> Daemons \cup {Nobody, Hand}]
        /\ deployed \in [ServiceNames -> Versions \cup {Nothing}] /\ Settled \in OpenType
    BY DEF ServiceTypes, OpenType, Settled
  <1> QED BY <1>1 DEF ServiceTypes, Fail

-----------------------------------------------------------------------------
(* The invariant taken apart and put together.                               *)
LEMMA Parts ==
  ASSUME GitOpsIInv
  PROVE  /\ ControlTypeOK /\ RepoTypes /\ ServiceTypes /\ HandTypes /\ BoundTypes /\ WorkTypes
         /\ LeaseInv /\ RepoInv /\ HandInv /\ OpenInv /\ WorkInv
  BY TypeParts DEF GitOpsIInv, TypesInParts

LEMMA Together ==
  ASSUME ControlTypeOK', RepoTypes', ServiceTypes', HandTypes', BoundTypes', WorkTypes',
         LeaseInv', RepoInv', HandInv', OpenInv', WorkInv'
  PROVE  GitOpsIInv'
  BY TypePartsAfter DEF GitOpsIInv, TypesInParts

LEMMA ControlKept ==
  ASSUME ControlTypeOK, LeaseInv, UNCHANGED controlVars
  PROVE  ControlTypeOK' /\ LeaseInv' /\ KeepsPolling /\ phase' = phase
  BY DEF ControlTypeOK, LeaseInv, controlVars, daemonVars, leaseVars, stopVars, KeepsPolling

LEMMA BoundsKept ==
  ASSUME BoundTypes, Fault \/ NoFault, moved' \in BOOLEAN,
         pushes' = pushes \/ (pushes < MaxPushes /\ pushes' = pushes + 1)
  PROVE  BoundTypes'
  BY BoundsAssumption DEF BoundTypes, Fault, NoFault

(* HEAD may be anything before the registration.                             *)
LEMMA HeadIsFree ==
  ASSUME GitOpsIInv, registration = NoCommit, work' = work, open' = open, phase' = phase
  PROVE  WorkInv' /\ OpenInv'
  BY BeforeRegistration, FreshFacts DEF WorkInv, OpenInv, Polling

(* gitops init, step by step: nothing is registered before its last step.    *)
LEMMA InitCommandStep ==
  ASSUME GitOpsIInv, GitOpsInitCommand
  PROVE  GitOpsIInv'
  <1>p. /\ ControlTypeOK /\ RepoTypes /\ ServiceTypes /\ HandTypes /\ BoundTypes /\ WorkTypes
        /\ LeaseInv /\ RepoInv /\ HandInv /\ OpenInv /\ WorkInv
    BY Parts
  <1>f. /\ InitFrame /\ clean' = clean /\ (Fault \/ NoFault)
        /\ initAt \in {"idle", "populate", "existing", "prove", "register"}
    BY DEF GitOpsInitCommand, InitMkdir, PopulateCheckout, ExistingCheckout, ProveCheckout, WriteRegistration,
         CrashInit
  <1>c. /\ ControlTypeOK' /\ LeaseInv' /\ KeepsPolling /\ phase' = phase /\ remote' = remote
        /\ deployed' = deployed /\ open' = open /\ locked' = locked /\ work' = work /\ byHand' = byHand
        /\ moved' = moved /\ pushes' = pushes
    BY <1>p, <1>f, ControlKept DEF InitFrame, serviceVars
  <1>t. ServiceTypes' /\ HandTypes' /\ WorkTypes' /\ HandInv'
    BY <1>p, <1>c DEF ServiceTypes, HandTypes, WorkTypes, HandInv
  <1>b. BoundTypes'
    BY <1>p, <1>f, <1>c, BoundsKept DEF BoundTypes
  <1>r. registration = NoCommit /\ \A d \in Daemons : phase[d] = "off"
    BY <1>p, <1>f DEF RepoInv
  <1>w. WorkInv' /\ OpenInv'
    BY <1>c, <1>r, HeadIsFree
  <1>1. RepoTypes' /\ RepoInv'
    <2>1. CASE InitMkdir
      BY <2>1, <1>p, <1>c, <1>r DEF InitMkdir, RepoTypes, RepoInv
    <2>2. CASE PopulateCheckout
      BY <2>2, <1>p, <1>c, <1>r, CommitsAssumption, AncestorFacts DEF PopulateCheckout, RepoTypes, RepoInv
    <2>3. CASE ExistingCheckout
      <3>1. /\ checkout' = checkout /\ head' = head /\ registration' = registration
            /\ \/ initAt' = "prove" /\ initCommit' = head /\ checkout = "whole"
               \/ initAt' = "done" /\ initCommit' = initCommit
        BY <2>3 DEF ExistingCheckout, InspectCheckout, InspectLocal
      <3> QED BY <1>p, <1>f, <1>c, <1>r, <3>1, AncestorFacts DEF RepoTypes, RepoInv
    <2>6. CASE ProveCheckout
      BY <2>6, <1>p, <1>c, <1>r, CommitsAssumption DEF ProveCheckout, RepoTypes, RepoInv
    <2>4. CASE WriteRegistration
      <3>1. /\ head \in Commits /\ checkout = "whole" /\ initCommit \in Commits
            /\ initCommit \in Ancestors[head]
        BY <2>4, <1>p DEF WriteRegistration, RepoInv
      <3>2. /\ initCommit' = NoCommit
            /\ \/ registration' = initCommit /\ initAt' = "done" /\ checkout' = checkout /\ head' = head
               \/ /\ initAt' = "idle" /\ registration' = registration
                  /\ \/ checkout' = "absent" /\ head' = NoCommit
                     \/ checkout' = checkout /\ head' = head
        BY <2>4 DEF WriteRegistration
      <3> QED BY <1>p, <1>f, <1>c, <1>r, <3>1, <3>2, CommitsAssumption DEF RepoTypes, RepoInv
    <2>5. CASE CrashInit
      BY <2>5, <1>p, <1>c, <1>r DEF CrashInit, RepoTypes, RepoInv
    <2> QED BY <2>1, <2>2, <2>3, <2>4, <2>5, <2>6 DEF GitOpsInitCommand
  <1> QED BY <1>c, <1>t, <1>b, <1>w, <1>1, Together

(* A pull by hand moves HEAD to a proper descendant: a reconcile that reads   *)
(* its services will not see the commit it began with again.                 *)
LEMMA PullStep ==
  ASSUME GitOpsIInv, PullByHand
  PROVE  GitOpsIInv'
  <1>p. /\ ControlTypeOK /\ RepoTypes /\ ServiceTypes /\ HandTypes /\ BoundTypes /\ WorkTypes
        /\ LeaseInv /\ RepoInv /\ HandInv /\ OpenInv /\ WorkInv
    BY Parts
  <1>f. /\ head' = remote /\ moved' = TRUE /\ Fault /\ head # remote /\ checkout = "whole"
        /\ remote \in Commits /\ head \in Ancestors[remote]
        /\ PeopleFrame /\ UNCHANGED <<clean, remote, byHand, pushes>>
    BY DEF PullByHand, RequireFastForward, InspectCheckout, InspectLocal
  <1>c. /\ ControlTypeOK' /\ LeaseInv' /\ phase' = phase /\ registration' = registration
        /\ checkout' = checkout /\ initAt' = initAt /\ initCommit' = initCommit /\ work' = work
        /\ deployed' = deployed /\ open' = open /\ locked' = locked
    BY <1>p, <1>f, ControlKept DEF PeopleFrame, serviceVars
  <1>t. /\ ServiceTypes' /\ HandTypes' /\ WorkTypes' /\ HandInv' /\ OpenInv'
    BY <1>p, <1>f, <1>c DEF ServiceTypes, HandTypes, WorkTypes, HandInv, OpenInv
  <1>b. BoundTypes'
    BY <1>p, <1>f, BoundsKept
  <1>h. head \in Commits
    BY <1>p, <1>f DEF RepoInv
  <1>r. RepoTypes' /\ RepoInv'
    BY <1>p, <1>f, <1>c, <1>h, AncestorFacts DEF RepoTypes, RepoInv
  <1>w. WorkInv'
    <2> SUFFICES ASSUME NEW d \in Daemons PROVE HasRead(work[d], remote)
      BY <1>p, <1>f, <1>c DEF WorkInv, Polling
    <2>1. HasRead(work[d], head) /\ Placed(work[d])
      BY <1>p DEF WorkInv
    <2>2. ASSUME work[d].at = "load"
          PROVE  work[d].commit \in Ancestors[remote] /\ remote # work[d].commit
      BY <1>f, <1>h, <2>1, <2>2, AncestorFacts, HistoryAssumption DEF HasRead, Placed
    <2> QED BY <2>1, <2>2 DEF HasRead
  <1> QED BY <1>c, <1>t, <1>b, <1>r, <1>w, Together

(* People at the remote and at the worktree.                                 *)
LEMMA RemoteStep ==
  ASSUME GitOpsIInv, AddOrigin \/ Push \/ EditWorktree
  PROVE  GitOpsIInv'
  <1>p. /\ ControlTypeOK /\ RepoTypes /\ ServiceTypes /\ HandTypes /\ BoundTypes /\ WorkTypes
        /\ LeaseInv /\ RepoInv /\ HandInv /\ OpenInv /\ WorkInv
    BY Parts
  <1>f. /\ PeopleFrame /\ head' = head /\ byHand' = byHand /\ moved' = moved /\ (Fault \/ NoFault)
        /\ pushes' = pushes \/ (pushes < MaxPushes /\ pushes' = pushes + 1)
    BY DEF AddOrigin, Push, EditWorktree
  <1>1. clean' \in BOOLEAN /\ remote' \in Commits \cup {NoCommit}
    BY <1>p DEF AddOrigin, Push, EditWorktree, RepoTypes
  <1>c. /\ ControlTypeOK' /\ LeaseInv' /\ KeepsPolling /\ phase' = phase /\ registration' = registration
        /\ checkout' = checkout /\ initAt' = initAt /\ initCommit' = initCommit /\ work' = work
        /\ deployed' = deployed /\ open' = open /\ locked' = locked
    BY <1>p, <1>f, ControlKept DEF PeopleFrame, serviceVars
  <1>t. ServiceTypes' /\ HandTypes' /\ WorkTypes' /\ HandInv' /\ RepoTypes' /\ RepoInv'
    BY <1>p, <1>f, <1>1, <1>c DEF ServiceTypes, HandTypes, WorkTypes, HandInv, RepoTypes, RepoInv
  <1>b. BoundTypes'
    BY <1>p, <1>f, BoundsKept DEF BoundTypes
  <1>n. NoNewOpen
    BY <1>c DEF NoNewOpen
  <1>w. WorkInv' /\ OpenInv'
    BY <1>p, <1>f, <1>c, <1>n, WorkKept, OpenKept
  <1> QED BY <1>c, <1>t, <1>b, <1>w, Together

-----------------------------------------------------------------------------
(* An apply by hand may end a transaction of a daemon and begins none.       *)
LEMMA HandKept ==
  ASSUME GitOpsIInv, HandFrame, Fault \/ NoFault, ServiceTypes', HandTypes', HandInv', NoNewOpen
  PROVE  GitOpsIInv'
  <1>p. /\ ControlTypeOK /\ RepoTypes /\ ServiceTypes /\ HandTypes /\ BoundTypes /\ WorkTypes
        /\ LeaseInv /\ RepoInv /\ HandInv /\ OpenInv /\ WorkInv
    BY Parts
  <1>f. /\ registration' = registration /\ checkout' = checkout /\ initAt' = initAt /\ initCommit' = initCommit
        /\ head' = head
        /\ clean' = clean /\ remote' = remote /\ work' = work /\ moved' = moved /\ pushes' = pushes
        /\ UNCHANGED controlVars
    BY DEF HandFrame, repoVars
  <1>c. ControlTypeOK' /\ LeaseInv' /\ KeepsPolling /\ phase' = phase
    BY <1>p, <1>f, ControlKept
  <1>t. RepoTypes' /\ RepoInv' /\ WorkTypes'
    BY <1>p, <1>f, <1>c DEF RepoTypes, RepoInv, WorkTypes
  <1>b. BoundTypes'
    BY <1>p, <1>f, BoundsKept DEF BoundTypes
  <1>w. WorkInv' /\ OpenInv'
    BY <1>p, <1>f, <1>c, WorkKept, OpenKept
  <1> QED BY <1>c, <1>t, <1>b, <1>w, Together

LEMMA HandStep ==
  ASSUME GitOpsIInv, ApplyByHand
  PROVE  GitOpsIInv'
  <1>p. ServiceTypes /\ HandTypes /\ HandInv
    BY Parts
  <1>f. HandFrame /\ (Fault \/ NoFault)
    BY DEF ApplyByHand, LoadByHand, FinishByHand, BeginByHand, EffectsByHand
  <1>n. NoHand \in [at : {"idle", "loaded", "effects"}, service : ServiceNames \cup {Nothing},
                    source : Versions \cup {Nothing}] /\ NoHand.at = "idle"
    BY DEF NoHand
  <1>s. Settled.by # "daemon"
    BY DEF Settled, Nobody
  <1>1. CASE LoadByHand
    <2>1. PICK s \in ServiceNames : /\ Committed(s) \in Versions
                                    /\ byHand' = [at |-> "loaded", service |-> s, source |-> Committed(s)]
      BY <1>1 DEF LoadByHand
    <2>2. HandTypes' /\ HandInv'
      BY <2>1 DEF HandTypes, HandInv
    <2>3. ServiceTypes' /\ NoNewOpen
      BY <1>1, <1>p DEF LoadByHand, serviceVars, ServiceTypes, NoNewOpen
    <2> QED BY <1>f, <2>2, <2>3, HandKept
  <1>2. CASE BeginByHand
    <2>1. PICK s \in ServiceNames, v \in Versions : s = byHand.service /\ v = byHand.source
      BY <1>2, <1>p DEF BeginByHand, HandInv
    <2>2. CASE Begin(Hand, s, v, Hand) /\ byHand' = [byHand EXCEPT !.at = "effects"]
      <3>1. /\ ServiceTypes'
            /\ \A t \in ServiceNames : t # s => open'[t] = open[t]
            /\ open'[s] = open[s] \/ open'[s] = [version |-> v, by |-> Hand]
        BY <1>p, <2>2, BeginStep
      <3>2. NoNewOpen
        BY <3>1 DEF NoNewOpen, Hand
      <3>3. HandTypes' /\ HandInv'
        BY <1>p, <2>1, <2>2 DEF HandTypes, HandInv
      <3> QED BY <1>f, <3>1, <3>2, <3>3, HandKept
    <2>3. CASE byHand' = NoHand /\ UNCHANGED serviceVars
      <3>1. HandTypes' /\ HandInv'
        BY <1>n, <2>3 DEF HandTypes, HandInv
      <3>2. ServiceTypes' /\ NoNewOpen
        BY <1>p, <2>3 DEF serviceVars, ServiceTypes, NoNewOpen
      <3> QED BY <1>f, <3>1, <3>2, HandKept
    <2> QED BY <1>2, <2>1, <2>2, <2>3 DEF BeginByHand
  <1>3. CASE EffectsByHand
    <2>1. PICK s \in ServiceNames : s = byHand.service
      BY <1>3, <1>p DEF EffectsByHand, HandInv
    <2>2. Succeed(s) \/ Fail(s)
      BY <1>3, <2>1 DEF EffectsByHand
    <2>3. /\ ServiceTypes'
          /\ \A t \in ServiceNames : t # s => open'[t] = open[t]
          /\ open'[s] = Settled \/ open'[s] = open[s]
      BY <1>p, <2>2, SucceedStep, FailStep
    <2>4. NoNewOpen
      BY <1>s, <2>3 DEF NoNewOpen
    <2>5. HandTypes' /\ HandInv'
      BY <1>3, <1>n DEF EffectsByHand, HandTypes, HandInv
    <2> QED BY <1>f, <2>3, <2>4, <2>5, HandKept
  <1> QED BY <1>1, <1>2, <1>3 DEF ApplyByHand, FinishByHand

-----------------------------------------------------------------------------
(* The start, the end, the stop command and the crash of a daemon.           *)
LEMMA ControlOnly ==
  ASSUME GitOpsIInv, RepoFrame, Fault \/ NoFault, ControlTypeOK', LeaseInv', KeepsPolling,
         registration # NoCommit \/ KeepsOff
  PROVE  GitOpsIInv'
  <1>p. /\ ControlTypeOK /\ RepoTypes /\ ServiceTypes /\ HandTypes /\ BoundTypes /\ WorkTypes
        /\ LeaseInv /\ RepoInv /\ HandInv /\ OpenInv /\ WorkInv
    BY Parts
  <1>f. /\ registration' = registration /\ checkout' = checkout /\ initAt' = initAt /\ initCommit' = initCommit
        /\ head' = head
        /\ clean' = clean /\ remote' = remote /\ work' = work /\ moved' = moved /\ pushes' = pushes
        /\ deployed' = deployed /\ open' = open /\ locked' = locked /\ byHand' = byHand
    BY DEF RepoFrame, repoVars, serviceVars
  <1>t. RepoTypes' /\ ServiceTypes' /\ WorkTypes' /\ HandTypes' /\ HandInv' /\ NoNewOpen
    BY <1>p, <1>f DEF RepoTypes, ServiceTypes, WorkTypes, HandTypes, HandInv, NoNewOpen
  <1>r. RepoInv'
    BY <1>p, <1>f DEF RepoInv, KeepsOff
  <1>b. BoundTypes'
    BY <1>p, <1>f, BoundsKept DEF BoundTypes
  <1>w. WorkInv' /\ OpenInv'
    BY <1>p, <1>f, <1>t, WorkKept, OpenKept
  <1> QED BY <1>t, <1>r, <1>b, <1>w, Together

LEMMA DaemonStartStep ==
  ASSUME GitOpsIInv, NEW d \in Daemons, DaemonStart(d)
  PROVE  GitOpsIInv'
  <1>p. ControlTypeOK /\ LeaseInv
    BY Parts
  <1>f. RepoFrame /\ (Fault \/ NoFault)
    BY DEF DaemonStart
  <1>1. CASE registration # NoCommit /\ StartDaemon(d)
    BY <1>p, <1>f, <1>1, StartStep, ControlOnly
  <1>2. CASE ListenForStop(d)
    BY <1>p, <1>f, <1>2, ListenStep, ControlOnly
  <1>3. CASE AcquireDaemonLease(d)
    BY <1>p, <1>f, <1>3, AcquireStep, ControlOnly
  <1>4. CASE TruncatePID(d) \/ WritePID(d) \/ WritePIDFails(d)
    BY <1>p, <1>f, <1>4, PIDStep, ControlOnly
  <1> QED BY <1>1, <1>2, <1>3, <1>4 DEF DaemonStart

LEMMA DaemonOtherStep ==
  ASSUME GitOpsIInv, NEW d \in Daemons, DaemonEnd(d) \/ DaemonInterrupt(d) \/ DaemonStop
  PROVE  GitOpsIInv'
  <1>p. ControlTypeOK /\ LeaseInv
    BY Parts
  <1>1. CASE DaemonEnd(d)
    BY <1>p, <1>1, EndStep, ControlOnly DEF DaemonEnd
  <1>2. CASE DaemonInterrupt(d)
    BY <1>p, <1>2, InterruptStep, ControlOnly DEF DaemonInterrupt
  <1>3. CASE DaemonStop
    BY <1>p, <1>3, StopStep, ControlOnly DEF DaemonStop
  <1> QED BY <1>1, <1>2, <1>3

LEMMA DaemonCrashStep ==
  ASSUME GitOpsIInv, NEW d \in Daemons, DaemonCrash(d)
  PROVE  GitOpsIInv'
  <1>p. /\ ControlTypeOK /\ RepoTypes /\ ServiceTypes /\ HandTypes /\ BoundTypes /\ WorkTypes
        /\ LeaseInv /\ RepoInv /\ HandInv /\ OpenInv /\ WorkInv
    BY Parts
  <1>f. /\ registration' = registration /\ checkout' = checkout /\ initAt' = initAt /\ initCommit' = initCommit
        /\ head' = head
        /\ clean' = clean /\ remote' = remote /\ moved' = moved /\ pushes' = pushes
        /\ deployed' = deployed /\ open' = open /\ byHand' = byHand /\ Fault
        /\ work' = [work EXCEPT ![d] = Fresh] /\ Unlock(d)
    BY DEF DaemonCrash, repoVars
  <1>c. ControlTypeOK' /\ LeaseInv' /\ KeepsOff /\ phase' = [phase EXCEPT ![d] = "gone"]
    BY <1>p, CrashStep DEF DaemonCrash
  <1>t. RepoTypes' /\ HandTypes' /\ HandInv' /\ NoNewOpen
    BY <1>p, <1>f DEF RepoTypes, HandTypes, HandInv, NoNewOpen
  <1>l. locked' \in [ServiceNames -> Daemons \cup {Nobody, Hand}]
    BY <1>p, <1>f DEF Unlock, ServiceTypes
  <1>s. ServiceTypes'
    BY <1>p, <1>f, <1>l DEF ServiceTypes
  <1>r. RepoInv'
    BY <1>p, <1>f, <1>c DEF RepoInv, KeepsOff
  <1>b. BoundTypes'
    BY <1>p, <1>f, BoundsKept DEF BoundTypes
  <1>o. OpenInv'
    BY <1>p, <1>f, <1>t, OpenKept
  <1>x. /\ WorkTypes' /\ work'[d] = Fresh
        /\ \A e \in Daemons : e # d => work'[e] = work[e] /\ phase'[e] = phase[e]
    BY <1>p, <1>f, <1>c, FreshFacts DEF WorkTypes, ControlTypeOK
  <1>w. WorkInv'
    BY <1>p, <1>f, <1>x, FreshFacts DEF WorkInv, Polling
  <1> QED BY <1>c, <1>t, <1>s, <1>r, <1>b, <1>o, <1>x, <1>w, Together

-----------------------------------------------------------------------------
(* A step of a reconcile: only one daemon polls, so the others have none.    *)
LEMMA OnlyOnePolls ==
  ASSUME GitOpsIInv, NEW d \in Daemons, Polling(d)
  PROVE  /\ \A e \in Daemons : e # d => ~Polling(e) /\ work[e] = Fresh
         /\ registration # NoCommit /\ initAt = "done" /\ checkout = "whole"
         /\ head \in Commits /\ registration \in Ancestors[head]
         /\ work[d] \in WorkType /\ Placed(work[d]) /\ HasRead(work[d], head)
         /\ ~moved => HasRecovered(work[d], head, open)
  <1>p. /\ ControlTypeOK /\ RepoTypes /\ ServiceTypes /\ HandTypes /\ BoundTypes /\ WorkTypes
        /\ LeaseInv /\ RepoInv /\ HandInv /\ OpenInv /\ WorkInv
    BY Parts
  <1>1. \A e \in Daemons : e # d => ~Polling(e)
    BY <1>p DEF LeaseInv, Polling, Holding
  <1>2. \A e \in Daemons : e # d => work[e] = Fresh
    BY <1>p, <1>1 DEF WorkInv
  <1>3. /\ registration # NoCommit /\ initAt = "done" /\ checkout = "whole"
        /\ head \in Commits /\ registration \in Ancestors[head]
    BY <1>p DEF RepoInv, Polling
  <1>4. /\ work[d] \in WorkType /\ Placed(work[d]) /\ HasRead(work[d], head)
        /\ ~moved => HasRecovered(work[d], head, open)
    BY <1>p DEF WorkInv, WorkTypes
  <1> QED BY <1>1, <1>2, <1>3, <1>4

LEMMA ReconcileMoves ==
  ASSUME GitOpsIInv, NEW d \in Daemons, Polling(d), NEW w \in WorkType, Goto(d, w), DaemonFrame,
         Stays \/ (Enter(d, "closing") /\ w = Fresh), Fault \/ NoFault,
         ServiceTypes', OpenInv', head' \in Commits, head \in Ancestors[head'],
         Placed(w), HasRead(w, head'), ~moved => HasRecovered(w, head', open')
  PROVE  GitOpsIInv'
  <1>p. /\ ControlTypeOK /\ RepoTypes /\ ServiceTypes /\ HandTypes /\ BoundTypes /\ WorkTypes
        /\ LeaseInv /\ RepoInv /\ HandInv /\ OpenInv /\ WorkInv
    BY Parts
  <1>f. /\ registration' = registration /\ checkout' = checkout /\ initAt' = initAt /\ initCommit' = initCommit
        /\ clean' = clean /\ remote' = remote /\ moved' = moved /\ pushes' = pushes /\ byHand' = byHand
        /\ UNCHANGED <<requested, cancelled, leaseVars, stopVars>>
    BY DEF DaemonFrame
  <1>c. /\ ControlTypeOK' /\ LeaseInv' /\ KeepsOff
        /\ \A e \in Daemons : e # d => phase'[e] = phase[e]
        /\ phase'[d] = "polling" \/ w = Fresh
    <2>1. CASE Stays
      <3>1. UNCHANGED controlVars /\ phase' = phase
        BY <1>f, <2>1 DEF Stays, controlVars, daemonVars
      <3> QED BY <1>p, <3>1, ControlKept DEF KeepsOff, Polling
    <2>2. CASE Enter(d, "closing") /\ w = Fresh
      <3>1. ControlTypeOK' /\ LeaseInv' /\ KeepsOff
        BY <1>p, <1>f, <2>2, ClosingStep
      <3>2. \A e \in Daemons : e # d => phase'[e] = phase[e]
        BY <1>p, <2>2 DEF Enter, ControlTypeOK
      <3> QED BY <2>2, <3>1, <3>2
    <2> QED BY <2>1, <2>2
  <1>t. HandTypes' /\ HandInv' /\ RepoTypes'
    BY <1>p, <1>f DEF HandTypes, HandInv, RepoTypes
  <1>b. BoundTypes'
    BY <1>p, <1>f, BoundsKept DEF BoundTypes
  <1>r. RepoInv'
    <2>1. /\ registration # NoCommit /\ initAt = "done" /\ checkout = "whole"
          /\ head \in Commits /\ registration \in Ancestors[head] /\ registration \in Commits
      BY <1>p, OnlyOnePolls DEF RepoTypes
    <2>2. registration \in Ancestors[head']
      BY <2>1, AncestorFacts
    <2> QED BY <1>f, <2>1, <2>2 DEF RepoInv
  <1>x. WorkTypes' /\ work'[d] = w /\ \A e \in Daemons : e # d => work'[e] = Fresh
    BY <1>p, OnlyOnePolls DEF WorkTypes, Goto
  <1>w. WorkInv'
    <2>1. ASSUME NEW e \in Daemons
          PROVE  /\ ~(phase'[e] = "polling") => work'[e] = Fresh
                 /\ Placed(work'[e]) /\ HasRead(work'[e], head')
                 /\ ~moved => HasRecovered(work'[e], head', open')
      <3>1. CASE e = d
        BY <1>c, <1>x, <3>1
      <3>2. CASE e # d
        BY <1>x, <3>2, FreshFacts
      <3> QED BY <3>1, <3>2
    <2> QED BY <1>f, <2>1 DEF WorkInv, Polling
  <1> QED BY <1>c, <1>t, <1>b, <1>r, <1>x, <1>w, Together

(* A step of a reconcile that leaves the services and HEAD as they are.      *)
LEMMA ReconcileReads ==
  ASSUME GitOpsIInv, NEW d \in Daemons, Polling(d), NEW w \in WorkType, Goto(d, w), DaemonFrame,
         Stays \/ (Enter(d, "closing") /\ w = Fresh), Fault \/ NoFault,
         UNCHANGED <<head, serviceVars>>,
         Placed(w), HasRead(w, head), ~moved => HasRecovered(w, head, open)
  PROVE  GitOpsIInv'
  <1>1. head' = head /\ open' = open /\ deployed' = deployed /\ locked' = locked
    BY DEF serviceVars
  <1>2. ServiceTypes' /\ NoNewOpen
    BY <1>1, Parts DEF ServiceTypes, NoNewOpen
  <1>3. OpenInv'
    BY <1>1, <1>2, Parts, OpenKept DEF DaemonFrame
  <1>4. head \in Commits /\ head \in Ancestors[head]
    BY OnlyOnePolls, AncestorFacts
  <1> QED BY <1>1, <1>2, <1>3, <1>4, ReconcileMoves

(* A reconcile that ends, for good or for this interval, keeps the invariant  *)
(* as long as it begins no transaction.                                      *)
LEMMA ReconcileEnds ==
  ASSUME GitOpsIInv, NEW d \in Daemons, Polling(d), Unavailable(d) \/ Fatal(d), DaemonFrame,
         Fault \/ NoFault, ServiceTypes', NoNewOpen, head' = head
  PROVE  GitOpsIInv'
  <1>1. PICK w \in WorkType :
          /\ Goto(d, w) /\ Placed(w) /\ \A h, o : HasRead(w, h) /\ HasRecovered(w, h, o)
          /\ Stays \/ (Enter(d, "closing") /\ w = Fresh)
    BY FreshFacts DEF Unavailable, Fatal
  <1>2. OpenInv'
    BY Parts, OpenKept DEF DaemonFrame
  <1>3. head \in Commits /\ head \in Ancestors[head]
    BY OnlyOnePolls, AncestorFacts
  <1> QED BY <1>1, <1>2, <1>3, ReconcileMoves

LEMMA EndsUntouched ==
  ASSUME GitOpsIInv, NEW d \in Daemons, Polling(d), Unavailable(d) \/ Fatal(d), DaemonFrame,
         Fault \/ NoFault, UNCHANGED <<head, serviceVars>>
  PROVE  GitOpsIInv'
  <1>1. head' = head /\ open' = open /\ deployed' = deployed /\ locked' = locked
    BY DEF serviceVars
  <1>2. ServiceTypes' /\ NoNewOpen
    BY <1>1, Parts DEF ServiceTypes, NoNewOpen
  <1> QED BY <1>1, <1>2, ReconcileEnds

(* The beginning of a reconcile: the commit is the one checked out.          *)
LEMMA TopStep ==
  ASSUME GitOpsIInv, NEW d \in Daemons, ReconcileTop(d)
  PROVE  GitOpsIInv'
  <1>f. /\ Polling(d) /\ NoFault /\ UNCHANGED <<head, serviceVars>> /\ DaemonFrame
    BY DEF ReconcileTop, At
  <1>1. CASE Registered
    <2> DEFINE w == FreshFor("list", head)
    <2>1. head \in Commits
      BY <1>f, OnlyOnePolls
    <2>2. /\ w \in WorkType /\ w.at = "list" /\ w.next = 1 /\ w.chosen = {} /\ w.commit = head
      BY <2>1, FreshAt DEF Steps
    <2>3. Goto(d, w) /\ Stays
      BY <1>1 DEF ReconcileTop, FreshFor
    <2> HIDE DEF w
    <2>4. Placed(w) /\ HasRead(w, head) /\ HasRecovered(w, head, open)
      BY <2>1, <2>2 DEF Placed, HasRead, HasRecovered
    <2> QED BY <1>f, <2>2, <2>3, <2>4, ReconcileReads
  <1>2. CASE ~Registered
    BY <1>f, <1>2, EndsUntouched DEF ReconcileTop
  <1> QED BY <1>1, <1>2

LEMMA ListStep ==
  ASSUME GitOpsIInv, NEW d \in Daemons, ListServices(d)
  PROVE  GitOpsIInv'
  <1>f. /\ Polling(d) /\ NoFault /\ UNCHANGED <<head, serviceVars>> /\ DaemonFrame /\ work[d].at = "list"
    BY DEF ListServices, At
  <1>1. CASE SameCheckout(d)
    <2>l. PICK l : l = [s \in ServiceNames |-> IF Committed(s) = Absent THEN Absent ELSE Nothing]
      OBVIOUS
    <2>m. /\ l \in [ServiceNames -> Versions \cup {Nothing, Absent, Invalid}]
          /\ \A s \in ServiceNames : l[s] = Absent <=> Content[head][s] = Absent
      BY <2>l DEF Committed, Absent, Nothing
    <2> DEFINE w == [work[d] EXCEPT !.at = "load", !.source = l]
    <2>0. work[d] \in WorkType /\ Placed(work[d]) /\ head \in Commits /\ head = work[d].commit
      BY <1>f, <1>1, OnlyOnePolls DEF SameCheckout
    <2>1. w \in WorkType /\ w.at = "load" /\ w.next = 1 /\ w.chosen = {} /\ w.commit = head /\ w.source = l
      BY <1>f, <2>0, <2>m DEF WorkType, Steps, Placed
    <2>2. Goto(d, w) /\ Stays
      BY <1>1, <2>l DEF ListServices
    <2> HIDE DEF w
    <2>3. Placed(w)
      BY <2>0, <2>1 DEF Placed
    <2>4. HasRead(w, head) /\ HasRecovered(w, head, open)
      BY <2>0, <2>1, <2>m, AncestorFacts DEF HasRead, HasRecovered
    <2> QED BY <1>f, <2>1, <2>2, <2>3, <2>4, ReconcileReads
  <1>2. CASE ~SameCheckout(d)
    BY <1>f, <1>2, EndsUntouched DEF ListServices
  <1> QED BY <1>1, <1>2

-----------------------------------------------------------------------------
(* captureGitOpsSnapshot: one more service is read from the commit checked    *)
(* out, or passed because the list does not have it.                         *)
ReadWork(w, s, v, C) == [w EXCEPT !.next = @ + 1, !.source[s] = v, !.chosen = C]

(* Reconcile w goes over its next service s with HEAD at h: r has v as its   *)
(* source, which is what the commit says while HEAD is where it was.         *)
Reads(w, h, s, v, C, r) ==
    /\ w \in WorkType /\ w.at = "load" /\ w.next <= Len(Services) /\ Placed(w) /\ HasRead(w, h)
    /\ s = Services[w.next] /\ v \in Versions \cup {Absent} /\ (h = w.commit => v = Content[w.commit][s])
    /\ C = w.chosen \/ (C = w.chosen \cup {s} /\ v \in Versions)
    /\ r = ReadWork(w, s, v, C)

LEMMA ReadOne ==
  ASSUME NEW w, NEW h, NEW s, NEW v, NEW C, NEW r, Reads(w, h, s, v, C, r)
  PROVE  /\ r \in WorkType /\ Placed(r) /\ HasRead(r, h)
         /\ \A o : HasRecovered(w, h, o) /\ (o[s].by = "daemon" => s \in C) => HasRecovered(r, h, o)
  <1>0. /\ w \in WorkType /\ w.at = "load" /\ w.next <= Len(Services) /\ Placed(w) /\ HasRead(w, h)
        /\ s = Services[w.next] /\ v \in Versions \cup {Absent} /\ (h = w.commit => v = Content[w.commit][s])
        /\ C = w.chosen \/ (C = w.chosen \cup {s} /\ v \in Versions)
        /\ r = ReadWork(w, s, v, C)
    BY DEF Reads
  <1>1. /\ Len(Services) \in Nat /\ w.next \in 1 .. Len(Services) /\ s \in ServiceNames
        /\ w.source \in [ServiceNames -> Versions \cup {Nothing, Absent, Invalid}]
        /\ w.chosen \subseteq ServiceNames /\ C \subseteq ServiceNames
    BY <1>0, ServiceFacts DEF WorkType
  <1>2. /\ r \in WorkType /\ r.at = "load" /\ r.next = w.next + 1 /\ r.chosen = C
        /\ r.commit = w.commit /\ r.round = w.round
        /\ r.source = [w.source EXCEPT ![s] = v]
    <2>1. w.next + 1 \in 1 .. Len(Services) + 1
      BY <1>0, <1>1
    <2>2. [w.source EXCEPT ![s] = v] \in [ServiceNames -> Versions \cup {Nothing, Absent, Invalid}]
      BY <1>0, <1>1
    <2>3. PICK n, q : n = w.next + 1 /\ q = [w.source EXCEPT ![s] = v]
      OBVIOUS
    <2>4. r = [w EXCEPT !.next = n, !.source = q, !.chosen = C]
      BY <1>0, <2>3 DEF ReadWork
    <2>5. /\ n \in 1 .. Len(Services) + 1 /\ C \in SUBSET ServiceNames
          /\ q \in [ServiceNames -> Versions \cup {Nothing, Absent, Invalid}]
      BY <1>0, <1>1, <2>1, <2>2, <2>3
    <2>6. /\ r \in WorkType /\ r.at = "load" /\ r.next = n /\ r.chosen = C
          /\ r.commit = w.commit /\ r.round = w.round /\ r.source = q
      BY <1>0, <2>4, <2>5 DEF WorkType
    <2> QED BY <1>0, <2>3, <2>6
  <1>3. r.source[s] = v /\ \A t \in ServiceNames : t # s => r.source[t] = w.source[t]
    BY <1>0, <1>1, <1>2
  <1>4. Placed(r)
    BY <1>0, <1>1, <1>2 DEF Placed
  <1>5. \A i \in 1 .. r.next - 1 : i \in 1 .. w.next - 1 \/ (i = w.next /\ Services[i] = s)
    BY <1>0, <1>1, <1>2
  <1>6. \A i \in 1 .. w.next - 1 : Services[i] \in ServiceNames /\ Services[i] # s
    BY <1>0, <1>1, ServiceFacts
  <1>7. v # Invalid
    BY <1>0, ContentFacts DEF Absent, Invalid
  <1>8. HasRead(r, h)
    <2>1. ASSUME NEW i \in 1 .. r.next - 1
          PROVE  /\ r.source[Services[i]] # Invalid
                 /\ h = r.commit => r.source[Services[i]] = Content[r.commit][Services[i]]
      <3>1. CASE i \in 1 .. w.next - 1
        BY <1>0, <1>2, <1>3, <1>6, <3>1 DEF HasRead
      <3>2. CASE i = w.next /\ Services[i] = s
        BY <1>0, <1>2, <1>3, <1>7, <3>2
      <3> QED BY <1>0, <1>5, <2>1, <3>1, <3>2
    <2>2. ASSUME NEW t \in C
          PROVE  r.source[t] \in Versions /\ \E i \in 1 .. r.next - 1 : Services[i] = t
      <3>1. CASE t \in w.chosen
        <4>1. PICK i \in 1 .. w.next - 1 : Services[i] = t
          BY <1>0, <3>1 DEF HasRead
        <4>2. t # s /\ t \in ServiceNames /\ i \in 1 .. r.next - 1
          BY <1>0, <1>1, <1>2, <1>6, <4>1
        <4> QED BY <1>0, <1>3, <3>1, <4>1, <4>2 DEF HasRead
      <3>2. CASE t = s /\ v \in Versions
        BY <1>0, <1>1, <1>2, <1>3, <3>2
      <3> QED BY <1>0, <2>2, <3>1, <3>2
    <2>3. r.commit \in Ancestors[h]
      BY <1>0, <1>2 DEF HasRead
    <2>4. ASSUME h = r.commit, NEW t \in ServiceNames
          PROVE  r.source[t] = Absent <=> Content[r.commit][t] = Absent
      <3>1. CASE t = s
        BY <1>0, <1>2, <1>3, <2>4, <3>1
      <3>2. CASE t # s
        BY <1>0, <1>2, <1>3, <2>4, <3>2 DEF HasRead
      <3> QED BY <1>0, <3>1, <3>2
    <2> QED BY <1>0, <1>2, <2>1, <2>2, <2>3, <2>4 DEF HasRead
  <1>9. ASSUME NEW o, HasRecovered(w, h, o), o[s].by = "daemon" => s \in C
        PROVE  HasRecovered(r, h, o)
    <2>1. h = r.commit
      BY <1>0, <1>2, <1>9 DEF HasRecovered
    <2>2. ASSUME r.round = "recover", NEW i \in 1 .. r.next - 1, o[Services[i]].by = "daemon"
          PROVE  Services[i] \in C
      BY <1>0, <1>2, <1>5, <1>9, <2>2 DEF HasRecovered
    <2> QED BY <1>0, <1>2, <2>1, <2>2 DEF HasRecovered
  <1> QED BY <1>0, <1>2, <1>4, <1>8, <1>9

LEMMA LoadStep ==
  ASSUME GitOpsIInv, NEW d \in Daemons, LoadService(d)
  PROVE  GitOpsIInv'
  <1>f. /\ Polling(d) /\ (Fault \/ NoFault) /\ UNCHANGED <<head, serviceVars>> /\ DaemonFrame
        /\ work[d].at = "load" /\ work[d].next <= Len(Services)
    BY DEF LoadService, At
  <1>0. /\ work[d] \in WorkType /\ Placed(work[d]) /\ HasRead(work[d], head) /\ head \in Commits
        /\ ~moved => HasRecovered(work[d], head, open)
    BY <1>f, OnlyOnePolls
  <1>1. PICK s : s = Services[work[d].next]
    OBVIOUS
  <1>2. PICK v : v = Content[head][s]
    OBVIOUS
  <1>3. s \in ServiceNames
    BY <1>0, <1>1, <1>f, ServiceFacts DEF WorkType
  <1>4. ASSUME work[d].source[s] = Absent, ~moved PROVE open[s].by # "daemon"
    <2>1. Content[head][s] = Absent
      BY <1>f, <1>0, <1>3, <1>4 DEF HasRead, HasRecovered
    <2> QED BY <1>3, <1>4, <2>1, Parts, ContentFacts DEF OpenInv
  <1> DEFINE C == work[d].chosen \cup IF RecoveryPlan(s) THEN {s} ELSE {}
             Next1(c) == ReadWork(work[d], s, v, c)
             Passed == [work[d] EXCEPT !.next = @ + 1]
  <1>5. ASSUME work[d].source[s] = Absent, Goto(d, Passed), Stays PROVE GitOpsIInv'
    <2>1. PICK r : r = ReadWork(work[d], s, Absent, work[d].chosen)
      OBVIOUS
    <2>2. Passed = r
      <3>1. [work[d].source EXCEPT ![s] = Absent] = work[d].source
        BY <1>0, <1>3, <1>5 DEF WorkType
      <3>2. PICK w \in WorkType : w = work[d]
        BY <1>0
      <3>3. r = [w EXCEPT !.next = w.next + 1, !.source = w.source, !.chosen = w.chosen]
        BY <2>1, <3>1, <3>2 DEF ReadWork
      <3> QED BY <3>2, <3>3 DEF WorkType
    <2>3. /\ r \in WorkType /\ Placed(r) /\ HasRead(r, head)
          /\ \A o : HasRecovered(work[d], head, o) /\ (o[s].by = "daemon" => s \in work[d].chosen)
                      => HasRecovered(r, head, o)
      <3>w. PICK w \in WorkType : w = work[d]
        BY <1>0
      <3>h. PICK h : h = head
        OBVIOUS
      <3>1. w = work[d] /\ h = head
        BY <3>w, <3>h
      <3>2. /\ w.at = "load" /\ w.next <= Len(Services) /\ Placed(w) /\ HasRead(w, h)
            /\ s = Services[w.next]
        BY <1>f, <1>0, <1>1, <3>1
      <3>z. PICK z \in Versions \cup {Absent} : z = Absent
        OBVIOUS
      <3>3. r = ReadWork(w, s, z, w.chosen) /\ (h = w.commit => z = Content[w.commit][s])
        BY <1>3, <1>5, <2>1, <3>1, <3>2, <3>z DEF HasRead
      <3>5. Reads(w, h, s, z, w.chosen, r)
        BY <3>2, <3>3, <3>z DEF Reads
      <3>4. /\ r \in WorkType /\ Placed(r) /\ HasRead(r, h)
            /\ \A o : HasRecovered(w, h, o) /\ (o[s].by = "daemon" => s \in w.chosen) => HasRecovered(r, h, o)
        BY <3>5, ReadOne
      <3> QED BY <3>1, <3>4
    <2>4. ~moved => HasRecovered(r, head, open)
      BY <1>0, <1>4, <1>5, <2>3
    <2> QED BY <1>f, <1>5, <2>2, <2>3, <2>4, ReconcileReads
  <1>6. ASSUME v \in Versions, Goto(d, Next1(C)), Stays PROVE GitOpsIInv'
    <2>1. PICK c : c = C
      OBVIOUS
    <2>2. PICK r : r = Next1(c)
      OBVIOUS
    <2>3. c = work[d].chosen \/ c = work[d].chosen \cup {s}
      BY <2>1
    <2>4. open[s].by = "daemon" => s \in c
      BY <2>1 DEF RecoveryPlan, Settled, Nobody
    <2> HIDE DEF C
    <2>5. /\ r \in WorkType /\ Placed(r) /\ HasRead(r, head)
          /\ \A o : HasRecovered(work[d], head, o) /\ (o[s].by = "daemon" => s \in c)
                      => HasRecovered(r, head, o)
      <3>w. PICK w \in WorkType : w = work[d]
        BY <1>0
      <3>h. PICK h : h = head
        OBVIOUS
      <3>1. w = work[d] /\ h = head
        BY <3>w, <3>h
      <3>2. /\ w.at = "load" /\ w.next <= Len(Services) /\ Placed(w) /\ HasRead(w, h)
            /\ s = Services[w.next] /\ (h = w.commit => v = Content[w.commit][s])
        BY <1>f, <1>0, <1>1, <1>2, <3>1
      <3>3. /\ v \in Versions \cup {Absent} /\ r = ReadWork(w, s, v, c)
            /\ c = w.chosen \/ (c = w.chosen \cup {s} /\ v \in Versions)
        BY <1>6, <2>2, <2>3, <3>1
      <3>5. Reads(w, h, s, v, c, r)
        BY <3>2, <3>3 DEF Reads
      <3>4. /\ r \in WorkType /\ Placed(r) /\ HasRead(r, h)
            /\ \A o : HasRecovered(w, h, o) /\ (o[s].by = "daemon" => s \in c) => HasRecovered(r, h, o)
        BY <3>5, ReadOne
      <3> QED BY <3>1, <3>4
    <2>6. ~moved => HasRecovered(r, head, open)
      BY <1>0, <2>4, <2>5
    <2> QED BY <1>f, <1>6, <2>1, <2>2, <2>5, <2>6, ReconcileReads
  <1>7. ASSUME Unavailable(d) \/ Fatal(d) PROVE GitOpsIInv'
    BY <1>f, <1>7, EndsUntouched
  <1> QED BY <1>1, <1>2, <1>5, <1>6, <1>7 DEF LoadService, Committed, ReadWork

(* The second look at the checkout: all services are of its commit.          *)
LEMMA VerifyStep ==
  ASSUME GitOpsIInv, NEW d \in Daemons, VerifySnapshot(d)
  PROVE  GitOpsIInv'
  <1>f. /\ Polling(d) /\ NoFault /\ UNCHANGED <<head, serviceVars>> /\ DaemonFrame
        /\ work[d].at = "load" /\ work[d].next > Len(Services)
    BY DEF VerifySnapshot, At
  <1>0. /\ work[d] \in WorkType /\ Placed(work[d]) /\ HasRead(work[d], head) /\ head \in Commits
        /\ ~moved => HasRecovered(work[d], head, open)
    BY <1>f, OnlyOnePolls
  <1>1. CASE SameCheckout(d)
    <2> DEFINE w == Moved(work[d], "mutate", 1)
    <2>0. 1 \in 1..Len(Services) + 1 /\ "mutate" \in Steps
      BY ServiceFacts DEF Steps
    <2>1. /\ w \in WorkType /\ w.at = "mutate" /\ w.next = 1 /\ w.chosen = work[d].chosen
          /\ w.source = work[d].source /\ w.commit = work[d].commit /\ w.round = work[d].round
      BY <1>0, <2>0, MoveTo
    <2>2. Goto(d, w) /\ Stays
      BY <1>1 DEF VerifySnapshot, Moved
    <2> HIDE DEF w
    <2>3. head = work[d].commit /\ Placed(w)
      BY <1>1, <1>0, <1>f, <2>1 DEF SameCheckout, Placed
    <2>4. \A s \in ServiceNames : \E i \in 1 .. work[d].next - 1 : Services[i] = s
      BY <1>0, <1>f, ServiceFacts DEF WorkType
    <2>5. HasRead(w, head)
      BY <1>0, <1>f, <2>1, <2>3, <2>4 DEF HasRead
    <2>6. ~moved => HasRecovered(w, head, open)
      BY <1>0, <1>f, <2>1, <2>3, <2>4 DEF HasRecovered
    <2> QED BY <1>f, <2>1, <2>2, <2>3, <2>5, <2>6, ReconcileReads
  <1>2. CASE ~SameCheckout(d)
    BY <1>f, <1>2, EndsUntouched DEF VerifySnapshot
  <1> QED BY <1>1, <1>2

-----------------------------------------------------------------------------
(* A round over the services.  Passing one that has no transaction of a       *)
(* daemon leaves the reconcile where a recovery may go on.                    *)
LEMMA PassOne ==
  ASSUME NEW w \in WorkType, w.at \in {"mutate", "effects"}, w.next <= Len(Services), Placed(w),
         NEW h, HasRead(w, h), NEW s, s = Services[w.next], NEW r, r = Moved(w, "mutate", w.next + 1)
  PROVE  /\ r \in WorkType /\ Placed(r) /\ HasRead(r, h)
         /\ \A o, p : /\ HasRecovered(w, h, o)
                      /\ w.round = "recover" => p[s].by # "daemon"
                      /\ \A t \in ServiceNames : t # s => p[t] = o[t]
                      => HasRecovered(r, h, p)
  <1>1. /\ Len(Services) \in Nat /\ w.next \in 1 .. Len(Services) /\ s \in ServiceNames
        /\ w.next + 1 \in 1 .. Len(Services) + 1 /\ "mutate" \in Steps
    BY ServiceFacts DEF WorkType, Steps
  <1>2. /\ r \in WorkType /\ r.at = "mutate" /\ r.next = w.next + 1 /\ r.chosen = w.chosen
        /\ r.source = w.source /\ r.commit = w.commit /\ r.round = w.round
    BY <1>1, MoveTo
  <1>3. Placed(r) /\ HasRead(r, h)
    BY <1>1, <1>2 DEF Placed, HasRead
  <1>4. \A i \in 1 .. r.next - 1 : i \in 1 .. w.next - 1 \/ (i = w.next /\ Services[i] = s)
    BY <1>1, <1>2
  <1>5. \A i \in 1 .. w.next - 1 : Services[i] \in ServiceNames /\ Services[i] # s
    BY <1>1, ServiceFacts
  <1>6. ASSUME NEW o, NEW p, HasRecovered(w, h, o), w.round = "recover" => p[s].by # "daemon",
               \A t \in ServiceNames : t # s => p[t] = o[t]
        PROVE  HasRecovered(r, h, p)
    <2>1. h = r.commit
      BY <1>2, <1>6 DEF HasRecovered
    <2>2. ASSUME r.round = "recover", NEW t \in ServiceNames, p[t].by = "daemon" PROVE t \in r.chosen
      BY <1>2, <1>6, <2>2 DEF HasRecovered
    <2>3. ASSUME r.round = "recover", NEW i \in 1 .. r.next - 1 PROVE p[Services[i]].by # "daemon"
      <3>1. CASE i \in 1 .. w.next - 1
        BY <1>2, <1>5, <1>6, <2>3, <3>1 DEF HasRecovered
      <3>2. CASE i = w.next /\ Services[i] = s
        BY <1>2, <1>6, <2>3, <3>2
      <3> QED BY <1>4, <2>3, <3>1, <3>2
    <2> QED BY <1>2, <2>1, <2>2, <2>3 DEF HasRecovered
  <1> QED BY <1>2, <1>3, <1>6

(* Beginning the transaction of a service of the round.                      *)
LEMMA BeginOne ==
  ASSUME NEW w \in WorkType, w.at = "mutate", w.next <= Len(Services), Placed(w),
         NEW h, HasRead(w, h), NEW s, s = Services[w.next], NEW r, r = Moved(w, "effects", w.next),
         w.round = "recover" => s \in w.chosen
  PROVE  /\ r \in WorkType /\ Placed(r) /\ HasRead(r, h)
         /\ \A o, p : /\ HasRecovered(w, h, o)
                      /\ \A t \in ServiceNames : t # s => p[t] = o[t]
                      => HasRecovered(r, h, p)
  <1>1. /\ Len(Services) \in Nat /\ w.next \in 1 .. Len(Services) /\ s \in ServiceNames
        /\ w.next \in 1 .. Len(Services) + 1 /\ "effects" \in Steps
    BY ServiceFacts DEF WorkType, Steps
  <1>2. /\ r \in WorkType /\ r.at = "effects" /\ r.next = w.next /\ r.chosen = w.chosen
        /\ r.source = w.source /\ r.commit = w.commit /\ r.round = w.round
    BY <1>1, MoveTo
  <1>3. Placed(r) /\ HasRead(r, h)
    BY <1>1, <1>2 DEF Placed, HasRead
  <1>5. \A i \in 1 .. w.next - 1 : Services[i] \in ServiceNames /\ Services[i] # s
    BY <1>1, ServiceFacts
  <1>6. ASSUME NEW o, NEW p, HasRecovered(w, h, o), \A t \in ServiceNames : t # s => p[t] = o[t]
        PROVE  HasRecovered(r, h, p)
    <2>1. h = r.commit
      BY <1>2, <1>6 DEF HasRecovered
    <2>2. ASSUME r.round = "recover", NEW t \in ServiceNames, p[t].by = "daemon" PROVE t \in r.chosen
      BY <1>2, <1>6, <2>2 DEF HasRecovered
    <2>3. ASSUME r.round = "recover", NEW i \in 1 .. r.next - 1 PROVE p[Services[i]].by # "daemon"
      BY <1>2, <1>5, <1>6, <2>3 DEF HasRecovered
    <2> QED BY <1>2, <2>1, <2>2, <2>3 DEF HasRecovered
  <1> QED BY <1>2, <1>3, <1>6

(* The record updates of the code's loop are these moves.                    *)
LEMMA LoopMoves ==
  ASSUME NEW w \in WorkType, w.at = "mutate"
  PROVE  /\ [w EXCEPT !.next = @ + 1] = Moved(w, "mutate", w.next + 1)
         /\ [w EXCEPT !.at = "effects"] = Moved(w, "effects", w.next)
  BY DEF WorkType, Moved

LEMMA MutateStep ==
  ASSUME GitOpsIInv, NEW d \in Daemons, MutateService(d)
  PROVE  GitOpsIInv'
  <1>f. /\ Polling(d) /\ (Fault \/ NoFault) /\ head' = head /\ DaemonFrame
        /\ work[d].at = "mutate" /\ work[d].next <= Len(Services)
    BY DEF MutateService, At
  <1>p. ServiceTypes /\ OpenInv
    BY Parts
  <1>0. /\ work[d] \in WorkType /\ Placed(work[d]) /\ HasRead(work[d], head) /\ head \in Commits
        /\ head \in Ancestors[head] /\ registration # NoCommit
        /\ ~moved => HasRecovered(work[d], head, open)
    BY <1>f, OnlyOnePolls, AncestorFacts
  <1>w. PICK w \in WorkType : w = work[d]
    BY <1>0
  <1>h. PICK h : h = head
    OBVIOUS
  <1>1. w = work[d] /\ h = head
    BY <1>w, <1>h
  <1>2. PICK s : s = Services[w.next]
    OBVIOUS
  <1>3. PICK v : v = w.source[s]
    OBVIOUS
  <1>4. /\ w.at = "mutate" /\ w.next <= Len(Services) /\ Placed(w) /\ HasRead(w, h)
        /\ ~moved => HasRecovered(w, h, open)
    BY <1>f, <1>0, <1>1
  <1>5. s \in ServiceNames
    BY <1>2, <1>4, ServiceFacts DEF WorkType
  <1>6. ASSUME ~InRound(d, s) \/ open[s] = Settled, Goto(d, [w EXCEPT !.next = @ + 1]), Stays, UNCHANGED serviceVars
        PROVE  GitOpsIInv'
    <2>1. PICK r : r = Moved(w, "mutate", w.next + 1)
      OBVIOUS
    <2>2. /\ r \in WorkType /\ Placed(r) /\ HasRead(r, h)
          /\ \A o, p : /\ HasRecovered(w, h, o)
                       /\ w.round = "recover" => p[s].by # "daemon"
                       /\ \A t \in ServiceNames : t # s => p[t] = o[t]
                       => HasRecovered(r, h, p)
      BY <1>2, <1>4, <2>1, PassOne
    <2>3. ~moved /\ w.round = "recover" => open[s].by # "daemon"
      BY <1>1, <1>4, <1>5, <1>6 DEF InRound, HasRecovered, Settled, Nobody
    <2>4. ~moved => HasRecovered(r, h, open)
      BY <1>4, <2>2, <2>3
    <2>5. Goto(d, r)
      BY <1>4, <1>6, <2>1, LoopMoves
    <2> QED BY <1>f, <1>1, <1>6, <2>2, <2>4, <2>5, ReconcileReads
  <1>7. ASSUME InRound(d, s), Begin(d, s, v, "daemon"), Go(d, "effects"), Stays PROVE GitOpsIInv'
    <2>1. w.round = "recover" => s \in w.chosen
      BY <1>1, <1>7 DEF InRound
    <2>2. v = Content[w.commit][s] /\ v # Invalid /\ w.commit \in Commits
      BY <1>3, <1>4, <1>5 DEF HasRead, Placed
    <2>3. v \in Versions
      <3>1. CASE w.round = "recover"
        BY <1>3, <1>4, <2>1, <3>1 DEF HasRead
      <3>2. CASE w.round # "recover"
        BY <1>1, <1>3, <1>5, <1>7, <2>2, <3>2, ContentFacts DEF InRound
      <3> QED BY <3>1, <3>2
    <2>4. /\ ServiceTypes'
          /\ \A t \in ServiceNames : t # s => open'[t] = open[t]
          /\ open'[s].version = v
      BY <1>p, <1>5, <1>7, <2>3, BeginStep
    <2>5. PICK r : r = Moved(w, "effects", w.next)
      OBVIOUS
    <2>6. /\ r \in WorkType /\ Placed(r) /\ HasRead(r, h)
          /\ \A o, p : /\ HasRecovered(w, h, o)
                       /\ \A t \in ServiceNames : t # s => p[t] = o[t]
                       => HasRecovered(r, h, p)
      BY <1>2, <1>4, <2>1, <2>5, BeginOne
    <2>7. ~moved => HasRecovered(r, h, open')
      BY <1>4, <2>4, <2>6
    <2>8. ~moved => v = Content[head][s]
      BY <1>1, <1>4, <2>2 DEF HasRecovered
    <2>9. OpenInv'
      BY <1>f, <1>p, <1>0, <2>3, <2>4, <2>8 DEF OpenInv, DaemonFrame
    <2>10. Goto(d, r)
      BY <1>1, <1>4, <1>7, <2>5, LoopMoves DEF Go
    <2> QED BY <1>f, <1>0, <1>1, <1>7, <2>4, <2>6, <2>7, <2>9, <2>10, ReconcileMoves
  <1>8. ASSUME Unavailable(d) \/ Fatal(d), UNCHANGED serviceVars PROVE GitOpsIInv'
    BY <1>f, <1>8, EndsUntouched
  <1> QED BY <1>1, <1>2, <1>3, <1>6, <1>7, <1>8 DEF MutateService, Unchanged

(* The effects of one service end.                                           *)
LEMMA EffectsSucceedStep ==
  ASSUME GitOpsIInv, NEW d \in Daemons, EffectsSucceed(d)
  PROVE  GitOpsIInv'
  <1>f. /\ Polling(d) /\ (Fault \/ NoFault) /\ head' = head /\ DaemonFrame /\ Stays
        /\ work[d].at = "effects"
    BY DEF EffectsSucceed, At
  <1>p. ServiceTypes /\ OpenInv
    BY Parts
  <1>0. /\ work[d] \in WorkType /\ Placed(work[d]) /\ HasRead(work[d], head) /\ head \in Commits
        /\ head \in Ancestors[head] /\ registration # NoCommit
        /\ ~moved => HasRecovered(work[d], head, open)
    BY <1>f, OnlyOnePolls, AncestorFacts
  <1>w. PICK w \in WorkType : w = work[d]
    BY <1>0
  <1>h. PICK h : h = head
    OBVIOUS
  <1>1. w = work[d] /\ h = head
    BY <1>w, <1>h
  <1>2. PICK s : s = Services[w.next]
    OBVIOUS
  <1>4. /\ w.at = "effects" /\ w.next <= Len(Services) /\ Placed(w) /\ HasRead(w, h)
        /\ ~moved => HasRecovered(w, h, open)
    BY <1>f, <1>0, <1>1 DEF Placed
  <1>5. s \in ServiceNames
    BY <1>2, <1>4, ServiceFacts DEF WorkType
  <1>6. /\ ServiceTypes' /\ open'[s] = Settled
        /\ \A t \in ServiceNames : t # s => open'[t] = open[t]
    BY <1>p, <1>1, <1>2, <1>5, SucceedStep DEF EffectsSucceed
  <1>7. NoNewOpen /\ open'[s].by # "daemon"
    BY <1>6 DEF NoNewOpen, Settled, Nobody
  <1>8. PICK r : r = Moved(w, "mutate", w.next + 1)
    OBVIOUS
  <1>9. /\ r \in WorkType /\ Placed(r) /\ HasRead(r, h)
        /\ \A o, p : /\ HasRecovered(w, h, o)
                     /\ w.round = "recover" => p[s].by # "daemon"
                     /\ \A t \in ServiceNames : t # s => p[t] = o[t]
                     => HasRecovered(r, h, p)
    BY <1>2, <1>4, <1>8, PassOne
  <1>10. ~moved => HasRecovered(r, h, open')
    BY <1>4, <1>6, <1>7, <1>9
  <1>11. Goto(d, r)
    BY <1>1, <1>8 DEF EffectsSucceed, Moved
  <1>12. OpenInv'
    BY <1>f, <1>p, <1>7, OpenKept DEF DaemonFrame
  <1> QED BY <1>f, <1>0, <1>1, <1>6, <1>9, <1>10, <1>11, <1>12, ReconcileMoves

LEMMA EffectsFailStep ==
  ASSUME GitOpsIInv, NEW d \in Daemons, Polling(d), work[d].at = "effects", Fail(Services[work[d].next]),
         Unavailable(d) \/ Fatal(d), DaemonFrame, Fault \/ NoFault, head' = head
  PROVE  GitOpsIInv'
  <1>1. PICK s : s = Services[work[d].next]
    OBVIOUS
  <1>2. s \in ServiceNames
    BY <1>1, OnlyOnePolls, ServiceFacts DEF WorkType, Placed
  <1>3. /\ ServiceTypes'
        /\ \A t \in ServiceNames : t # s => open'[t] = open[t]
        /\ open'[s] = Settled \/ open'[s] = open[s]
    BY <1>1, <1>2, FailStep, Parts
  <1>4. NoNewOpen
    BY <1>3 DEF NoNewOpen, Settled, Nobody
  <1> QED BY <1>3, <1>4, ReconcileEnds

-----------------------------------------------------------------------------
(* A recovery round that ends has passed every service.                      *)
LEMMA FinishStep ==
  ASSUME GitOpsIInv, NEW d \in Daemons, FinishRound(d)
  PROVE  GitOpsIInv'
  <1>f. /\ Polling(d) /\ (Fault \/ NoFault) /\ UNCHANGED <<head, serviceVars>> /\ DaemonFrame /\ Stays
        /\ work[d].at = "mutate" /\ work[d].next > Len(Services)
    BY DEF FinishRound, At
  <1>0. /\ work[d] \in WorkType
        /\ ~moved => HasRecovered(work[d], head, open)
    BY <1>f, OnlyOnePolls
  <1>1. PICK step \in Steps : step = IF work[d].round = "recover" THEN "fetch" ELSE "check"
    BY DEF Steps
  <1>2. PICK r : r = FreshFor(step, NoCommit)
    OBVIOUS
  <1>3. /\ r \in WorkType /\ r.at = step /\ r.next = 1 /\ r.chosen = {}
    BY <1>2, FreshAt
  <1>4. Goto(d, r)
    <2>1. Goto(d, [Fresh EXCEPT !.at = step])
      BY <1>1 DEF FinishRound
    <2>2. [Fresh EXCEPT !.at = step] = r
      <3>1. Fresh \in WorkType /\ Fresh.commit = NoCommit
        BY FreshFacts DEF Fresh
      <3> QED BY <1>2, <3>1 DEF FreshFor, WorkType
    <2> QED BY <2>1, <2>2
  <1>5. Placed(r) /\ HasRead(r, head)
    BY <1>1, <1>3 DEF Placed, HasRead
  <1>6. \A s \in ServiceNames : \E i \in 1 .. work[d].next - 1 : Services[i] = s
    BY <1>0, <1>f, ServiceFacts DEF WorkType
  <1>7. ASSUME ~moved, step = "fetch", NEW s \in ServiceNames PROVE open[s].by # "daemon"
    <2>1. work[d].round = "recover"
      BY <1>1, <1>7
    <2> QED BY <1>f, <1>0, <1>6, <1>7, <2>1 DEF HasRecovered
  <1>8. ~moved => HasRecovered(r, head, open)
    BY <1>1, <1>3, <1>7 DEF HasRecovered
  <1> QED BY <1>f, <1>3, <1>4, <1>5, <1>8, ReconcileReads

LEMMA FetchStep ==
  ASSUME GitOpsIInv, NEW d \in Daemons, FetchUpstream(d)
  PROVE  GitOpsIInv'
  <1>f. /\ Polling(d) /\ (Fault \/ NoFault) /\ UNCHANGED <<head, serviceVars>> /\ DaemonFrame
        /\ work[d].at = "fetch"
    BY DEF FetchUpstream, At
  <1>1. ASSUME RequireFastForward(head, remote), Goto(d, [Fresh EXCEPT !.at = "merge", !.commit = remote]), Stays
        PROVE  GitOpsIInv'
    <2>1. PICK c \in Commits : c = remote
      BY <1>1 DEF RequireFastForward
    <2>2. PICK r : r = FreshFor("merge", c)
      OBVIOUS
    <2>3. "merge" \in Steps
      BY DEF Steps
    <2>4. r \in WorkType /\ r.at = "merge" /\ r.commit = c /\ r.next = 1 /\ r.chosen = {}
      BY <2>2, <2>3, FreshAt
    <2>5. Goto(d, r)
      BY <1>1, <2>1, <2>2 DEF FreshFor
    <2>6. Placed(r) /\ HasRead(r, head)
      BY <2>4 DEF Placed, HasRead
    <2>7. ~moved => HasRecovered(r, head, open)
      BY <1>f, <2>4, OnlyOnePolls DEF HasRecovered
    <2> QED BY <1>f, <1>1, <2>4, <2>5, <2>6, <2>7, ReconcileReads
  <1>2. ASSUME Fatal(d) PROVE GitOpsIInv'
    BY <1>f, <1>2, EndsUntouched
  <1> QED BY <1>1, <1>2 DEF FetchUpstream

(* The checkout advances to a descendant, and no transaction of a daemon is   *)
(* left behind at the commit before.                                         *)
LEMMA AdvanceStep ==
  ASSUME GitOpsIInv, NEW d \in Daemons, AdvanceCheckout(d)
  PROVE  GitOpsIInv'
  <1>f. /\ Polling(d) /\ (Fault \/ NoFault) /\ UNCHANGED serviceVars /\ DaemonFrame
        /\ work[d].at = "merge"
    BY DEF AdvanceCheckout, At
  <1>p. ServiceTypes /\ OpenInv
    BY Parts
  <1>0. /\ work[d] \in WorkType /\ Placed(work[d]) /\ head \in Commits /\ head \in Ancestors[head]
        /\ ~moved => HasRecovered(work[d], head, open)
    BY <1>f, OnlyOnePolls, AncestorFacts
  <1>c. work[d].commit \in Commits /\ work[d].next = 1 /\ work[d].chosen = {}
    BY <1>f, <1>0 DEF Placed
  <1>s. /\ open' = open /\ ServiceTypes'
    BY <1>f, <1>p DEF serviceVars, ServiceTypes
  <1>1. ASSUME head' = work[d].commit, head' = head \/ head \in Ancestors[head'],
               Goto(d, [work[d] EXCEPT !.at = "list", !.round = "forward"]), Stays
        PROVE  GitOpsIInv'
    <2>1. PICK w \in WorkType : w = work[d]
      BY <1>0
    <2>2. PICK r : r = [w EXCEPT !.at = "list", !.round = "forward"]
      OBVIOUS
    <2>3. /\ r \in WorkType /\ r.at = "list" /\ r.commit = w.commit /\ r.next = w.next /\ r.chosen = w.chosen
      BY <2>2 DEF WorkType, Steps
    <2>4. Placed(r) /\ HasRead(r, head')
      BY <1>c, <2>1, <2>3 DEF Placed, HasRead
    <2>5. ~moved => HasRecovered(r, head', open')
      BY <1>1, <2>1, <2>3 DEF HasRecovered
    <2>6. ~moved => \A s \in ServiceNames : open[s].by # "daemon"
      BY <1>f, <1>0 DEF HasRecovered
    <2>7. OpenInv'
      BY <1>f, <1>p, <1>s, <2>6 DEF OpenInv, DaemonFrame
    <2>8. head' \in Commits /\ head \in Ancestors[head']
      BY <1>0, <1>c, <1>1
    <2>9. Goto(d, r)
      BY <1>1, <2>1, <2>2
    <2> QED BY <1>f, <1>1, <1>s, <2>3, <2>4, <2>5, <2>7, <2>8, <2>9, ReconcileMoves
  <1>2. ASSUME Fatal(d), head' = head PROVE GitOpsIInv'
    BY <1>f, <1>2, EndsUntouched
  <1>8. ASSUME Fatal(d), head' \in Commits, head \in Ancestors[head'] PROVE GitOpsIInv'
    <2>1. PICK w \in WorkType : w = Fresh
      BY FreshFacts
    <2>2. Goto(d, w) /\ Enter(d, "closing")
      BY <1>8, <2>1 DEF Fatal
    <2>3. Placed(w) /\ HasRead(w, head') /\ HasRecovered(w, head', open')
      BY <2>1, FreshFacts
    <2>4. ~moved => \A s \in ServiceNames : open[s].by # "daemon"
      BY <1>f, <1>0 DEF HasRecovered
    <2>5. OpenInv'
      BY <1>f, <1>p, <1>s, <2>4 DEF OpenInv, DaemonFrame
    <2> QED BY <1>f, <1>8, <1>s, <2>1, <2>2, <2>3, <2>5, ReconcileMoves
  <1>3. PICK merged : merged = IF RequireFastForward(head, work[d].commit) THEN work[d].commit ELSE head
    OBVIOUS
  <1>4. merged = head \/ (merged = work[d].commit /\ head \in Ancestors[merged])
    BY <1>3 DEF RequireFastForward
  <1>5. CASE clean /\ merged = work[d].commit
    <2>1. /\ head' = merged
          /\ Goto(d, [work[d] EXCEPT !.at = "list", !.round = "forward"]) /\ Stays
      BY <1>3, <1>5 DEF AdvanceCheckout
    <2> QED BY <1>1, <1>4, <1>5, <2>1
  <1>6. CASE clean /\ merged # work[d].commit
    <2>1. head' = merged /\ Fatal(d)
      BY <1>3, <1>6 DEF AdvanceCheckout
    <2> QED BY <1>2, <1>4, <1>6, <2>1
  <1>7. CASE ~clean
    <2>1. (head' = head \/ head' = merged) /\ Fatal(d)
      BY <1>3, <1>7 DEF AdvanceCheckout
    <2>2. head' \in Commits /\ head \in Ancestors[head']
      BY <1>0, <1>c, <1>4, <2>1
    <2> QED BY <1>8, <2>1, <2>2
  <1> QED BY <1>5, <1>6, <1>7

(* Between two reconciles.                                                   *)
LEMMA PauseStep ==
  ASSUME GitOpsIInv, NEW d \in Daemons, CheckStop(d) \/ WaitInterval(d)
  PROVE  GitOpsIInv'
  <1>f. /\ Polling(d) /\ (Fault \/ NoFault) /\ UNCHANGED <<head, serviceVars>> /\ DaemonFrame
        /\ work[d].at \in {"check", "wait"}
    BY DEF CheckStop, WaitInterval, At
  <1>0. work[d] \in WorkType /\ work[d].next = 1 /\ work[d].chosen = {}
    BY <1>f, OnlyOnePolls DEF Placed
  <1>1. ASSUME NEW step \in {"wait", "top"}, Go(d, step), Stays PROVE GitOpsIInv'
    <2>1. PICK w \in WorkType : w = work[d]
      BY <1>0
    <2>2. PICK r : r = [w EXCEPT !.at = step]
      OBVIOUS
    <2>3. r \in WorkType /\ r.at = step /\ r.next = w.next /\ r.chosen = w.chosen
      BY <2>2 DEF WorkType, Steps
    <2>4. Placed(r) /\ HasRead(r, head) /\ HasRecovered(r, head, open)
      BY <1>0, <2>1, <2>3 DEF Placed, HasRead, HasRecovered
    <2>5. Goto(d, r)
      BY <1>1, <2>1, <2>2 DEF Go
    <2> QED BY <1>f, <1>1, <2>3, <2>4, <2>5, ReconcileReads
  <1>2. ASSUME Enter(d, "closing"), Goto(d, Fresh) PROVE GitOpsIInv'
    BY <1>f, <1>2, EndsUntouched DEF Fatal
  <1> QED BY <1>1, <1>2 DEF CheckStop, WaitInterval

LEMMA ReconcileStep ==
  ASSUME GitOpsIInv, NEW d \in Daemons, Reconcile(d)
  PROVE  GitOpsIInv'
  <1>1. CASE ReconcileTop(d) BY <1>1, TopStep
  <1>2. CASE ListServices(d) BY <1>2, ListStep
  <1>3. CASE LoadService(d) BY <1>3, LoadStep
  <1>4. CASE VerifySnapshot(d) BY <1>4, VerifyStep
  <1>5. CASE MutateService(d) BY <1>5, MutateStep
  <1>6. CASE EffectsSucceed(d) BY <1>6, EffectsSucceedStep
  <1>7. CASE EffectsFail(d) BY <1>7, EffectsFailStep DEF EffectsFail, At
  <1>8. CASE FinishRound(d) BY <1>8, FinishStep
  <1>9. CASE FetchUpstream(d) BY <1>9, FetchStep
  <1>10. CASE AdvanceCheckout(d) BY <1>10, AdvanceStep
  <1>11. CASE CheckStop(d) \/ WaitInterval(d) BY <1>11, PauseStep
  <1>12. CASE ReconcileCancelled(d)
    <2>1. /\ Polling(d) /\ Fatal(d) /\ NoFault /\ head' = head /\ DaemonFrame
      BY <1>12 DEF ReconcileCancelled
    <2>2. CASE work[d].at = "effects"
      BY <1>12, <2>1, <2>2, EffectsFailStep DEF ReconcileCancelled
    <2>3. CASE work[d].at # "effects"
      BY <1>12, <2>1, <2>3, EndsUntouched DEF ReconcileCancelled
    <2> QED BY <2>2, <2>3
  <1> QED BY <1>1, <1>2, <1>3, <1>4, <1>5, <1>6, <1>7, <1>8, <1>9, <1>10, <1>11, <1>12 DEF Reconcile

LEMMA GitOpsStep == GitOpsIInv /\ [GitOpsNext]_vars => GitOpsIInv'
  <1> SUFFICES ASSUME GitOpsIInv, [GitOpsNext]_vars PROVE GitOpsIInv'
    OBVIOUS
  <1>1. CASE People
    BY <1>1, InitCommandStep, PullStep, RemoteStep, HandStep DEF People
  <1>2. ASSUME NEW d \in Daemons, Daemon(d) \/ DaemonCrash(d) \/ DaemonInterrupt(d) PROVE GitOpsIInv'
    BY <1>2, DaemonStartStep, ReconcileStep, DaemonOtherStep, DaemonCrashStep DEF Daemon
  <1>3. CASE DaemonStop
    <2>1. ControlTypeOK /\ LeaseInv
      BY Parts
    <2> QED BY <1>3, <2>1, StopStep, ControlOnly DEF DaemonStop
  <1>4. CASE UNCHANGED vars
    <2>1. /\ UNCHANGED controlVars /\ RepoFrame /\ NoFault
      BY <1>4 DEF vars, RepoFrame, boundVars, NoFault
    <2>2. ControlTypeOK' /\ LeaseInv' /\ KeepsPolling /\ phase' = phase
      BY <2>1, Parts, ControlKept
    <2>3. KeepsOff
      BY <2>2 DEF KeepsOff
    <2> QED BY <2>1, <2>2, <2>3, ControlOnly
  <1> QED BY <1>1, <1>2, <1>3, <1>4 DEF GitOpsNext

-----------------------------------------------------------------------------
(* Every reachable state of the GitOps cycle satisfies the inductive         *)
(* invariant, whatever daemons, people and faults do.                        *)
THEOREM GitOpsInvariant == GitOpsSpec => []GitOpsIInv
  <1>1. GitOpsSpec => GitOpsInit /\ [][GitOpsNext]_vars
    BY PTL DEF GitOpsSpec
  <1> QED BY <1>1, GitOpsInitInv, GitOpsStep, PTL

(* A registration names a whole checkout whose HEAD descends from the         *)
(* baseline, a daemon's unresolved transaction can be continued from HEAD      *)
(* unless someone pulled by hand, and "Daemon stopped." is printed only when   *)
(* the daemon that was signalled reconciles no more.                          *)
THEOREM GitOpsTheorem == GitOpsSpec => []GitOpsInv
  <1>1. GitOpsIInv => GitOpsInv
    <2> SUFFICES ASSUME GitOpsIInv PROVE GitOpsInv
      OBVIOUS
    <2>1. RegisteredIsWhole
      BY Parts DEF RepoInv, RegisteredIsWhole, RequireFastForward
    <2>2. OpenIsAtHead
      BY Parts DEF OpenInv, OpenIsAtHead
    <2>3. StoppedIsTrue
      BY Parts DEF LeaseInv, StoppedIsTrue, Over
    <2> QED BY <2>1, <2>2, <2>3 DEF GitOpsIInv, GitOpsInv
  <1> QED BY <1>1, GitOpsInvariant, PTL

(* What a daemon applies is the content of one commit, every file of which    *)
(* loads, whenever someone pulls, edits, pushes or applies beside it.         *)
THEOREM OneGoodCommitTheorem == GitOpsSpec => []AppliesOneGoodCommit
  <1>1. GitOpsIInv => AppliesOneGoodCommit
    <2> SUFFICES ASSUME GitOpsIInv PROVE AppliesOneGoodCommit
      OBVIOUS
    <2>1. ASSUME NEW d \in Daemons, Polling(d), work[d].at \in {"mutate", "effects"}, NEW s \in ServiceNames
          PROVE  work[d].source[s] = Content[work[d].commit][s] /\ work[d].source[s] # Invalid
      BY <2>1, Parts DEF WorkInv, HasRead
    <2> QED BY <2>1 DEF AppliesOneGoodCommit, SnapshotIsOneCommit, NothingOfABadCommit
  <1> QED BY <1>1, GitOpsInvariant, PTL

(* At most one daemon reconciles the checkout at a time.                     *)
THEOREM OneDaemonPolls == GitOpsSpec => [](\A d, e \in Daemons : Polling(d) /\ Polling(e) => d = e)
  <1>1. GitOpsIInv => \A d, e \in Daemons : Polling(d) /\ Polling(e) => d = e
    BY OnlyOnePolls
  <1> QED BY <1>1, GitOpsInvariant, PTL

(* SIGUSR1 of the stop command ends only a daemon that has given its lease    *)
(* back: it listens before it takes the lease and until it has closed it.     *)
THEOREM StopKillsNoHolderTheorem == GitOpsSpec => StopKillsNoHolder
  <1> DEFINE Kill == \A d \in Daemons :
               stopAt = "signal" /\ stopAt' # "signal" /\ phase[d] # "gone" /\ phase'[d] = "gone"
                  => phase[d] \in {"released", "deaf"} /\ holder # d
  <1>1. GitOpsIInv /\ [GitOpsNext]_vars => [Kill]_controlVars
    <2> SUFFICES ASSUME GitOpsIInv, [GitOpsNext]_vars, stopAt = "signal", stopAt' # "signal",
                        NEW d \in Daemons, phase[d] # "gone", phase'[d] = "gone"
                 PROVE  phase[d] \in {"released", "deaf"} /\ holder # d
      OBVIOUS
    <2>1. SignalDaemon
      <3>1. CASE DaemonStop
        BY <3>1 DEF DaemonStop, StopCommand, RequestDaemonStop, ProbeOwner, ReleaseProbe, WaitForRelease, AbandonStop
      <3>2. CASE ~DaemonStop
        <4>1. stopAt' = stopAt
          BY <3>2 DEF GitOpsNext, People, GitOpsInitCommand, InitMkdir, PopulateCheckout, ExistingCheckout,
               ProveCheckout, WriteRegistration, CrashInit, InitFrame, AddOrigin, Push, PullByHand, EditWorktree, PeopleFrame,
               ApplyByHand, LoadByHand, FinishByHand, BeginByHand, EffectsByHand, HandFrame,
               Daemon, DaemonStart, StartDaemon, ListenForStop, AcquireDaemonLease, TruncatePID, WritePID,
               WritePIDFails, DaemonEnd, CloseDaemonLease, CloseSignals, ExitDaemon, DaemonCrash, CrashDaemon,
               DaemonInterrupt, Interrupt, Reconcile, ReconcileTop, ListServices, LoadService, VerifySnapshot,
               MutateService, EffectsSucceed, EffectsFail, FinishRound, FetchUpstream, AdvanceCheckout, CheckStop,
               WaitInterval, ReconcileCancelled, DaemonFrame, stopVars, controlVars, vars
        <4> QED BY <4>1
      <3> QED BY <3>1, <3>2
    <2>2. ControlTypeOK /\ LeaseInv
      BY Parts
    <2> QED BY <2>1, <2>2, SignalStep
  <1>2. GitOpsSpec => GitOpsInit /\ [][GitOpsNext]_vars
    BY PTL DEF GitOpsSpec
  <1> QED BY <1>1, <1>2, GitOpsInvariant, PTL DEF StopKillsNoHolder
=============================================================================
