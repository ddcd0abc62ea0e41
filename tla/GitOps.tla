------------------------------- MODULE GitOps -------------------------------
(***************************************************************************)
(* The GitOps cycle: `maniud gitops init` registers a checkout, the daemon  *)
(* of module DaemonControl reconciles it with its remote branch, and people *)
(* push, pull, edit the worktree and run `maniud apply` beside it.          *)
(*                                                                         *)
(* A commit names the content of every service file; a service has at most  *)
(* one unresolved transaction, which only a request with the same source    *)
(* may continue.  What happens inside one apply is module Apply.            *)
(***************************************************************************)
EXTENDS DaemonControl

CONSTANTS
    Commits,    \* the commits of the branch and of rewritten branches
    Parent,     \* Parent[c]: the commit before c, or NoCommit
    Root,       \* the first commit
    Services,   \* the service files in the order listGitOpsServiceFiles sorts them
    Content,    \* Content[c][s]: what commit c says about service s
    MaxPushes,  \* bound on the pushes of other people
    MaxFaults   \* bound on failures, crashes, signals, edits, pulls and applies by hand

NoCommit == "no_commit"
Absent   == "no_file"   \* the commit has no such service file
Invalid  == "invalid"   \* the file cannot be loaded or planned

ServiceNames == {Services[i] : i \in DOMAIN Services}
Versions == {Content[c][s] : c \in Commits, s \in ServiceNames} \ {Absent, Invalid}

ASSUME CommitsAssumption == NoCommit \notin Commits /\ Root \in Commits
ASSUME ParentAssumption  == Parent \in [Commits -> Commits \cup {NoCommit}] /\ Parent[Root] = NoCommit
ASSUME ServicesAssumption ==
    /\ Services \in Seq(ServiceNames) /\ Services # << >>
    /\ \A i, j \in 1..Len(Services) : Services[i] = Services[j] => i = j
    /\ \A c \in Commits : ServiceNames = DOMAIN Content[c]
ASSUME BoundsAssumption  == MaxPushes \in Nat /\ MaxFaults \in Nat

(* merge-base --is-ancestor: a is an ancestor of c if every set of commits    *)
(* that has c and, with a commit, its parent has a.                           *)
WithParents(S) == \A x \in S : Parent[x] # NoCommit => Parent[x] \in S
Ancestors == [c \in Commits |->
                {a \in Commits : \A S \in SUBSET Commits : c \in S /\ WithParents(S) => a \in S}]

(* A commit names its parent by its hash, so no commit precedes itself.      *)
ASSUME HistoryAssumption ==
    \A a, c \in Commits : a \in Ancestors[c] /\ c \in Ancestors[a] => a = c

VARIABLES
    registration, \* the baseline commit in gitops.json, or NoCommit
    checkout,     \* the checkout is "absent", "partial" or "whole"
    initAt,       \* the program counter of gitops init
    initCommit,   \* the commit gitops init made or read, which it registers
    head,         \* the commit checked out
    clean,        \* git status prints nothing
    remote,       \* the tip of the branch at origin, NoCommit without an origin
    deployed,     \* deployed[s]: the version last applied
    open,         \* open[s]: the version and maker of the unresolved transaction
    locked,       \* locked[s]: the process that holds the service lock
    work,         \* work[d]: the reconcile of daemon d
    byHand,       \* the apply a person runs
    moved,        \* history: someone moved HEAD by hand
    pushes,       \* pushes so far
    faults        \* faults so far

repoVars    == <<registration, checkout, initAt, initCommit, head, clean>>
serviceVars == <<deployed, open, locked>>
boundVars   == <<moved, pushes, faults>>
vars == <<controlVars, repoVars, remote, serviceVars, work, byHand, boundVars>>

Nothing == "nothing"
Settled == [version |-> Nothing, by |-> Nobody]
Hand    == "hand"

ASSUME HandAssumption == Hand \notin Daemons

Steps == {"top", "list", "load", "mutate", "effects", "fetch", "merge", "check", "wait"}

Fresh == [at |-> "top", round |-> "recover", commit |-> NoCommit, next |-> 1,
          source |-> [s \in ServiceNames |-> Nothing], chosen |-> {}]
NoHand == [at |-> "idle", service |-> Nothing, source |-> Nothing]

GitOpsTypeOK ==
    /\ ControlTypeOK
    /\ {registration, initCommit, head, remote} \subseteq Commits \cup {NoCommit}
    /\ checkout \in {"absent", "partial", "whole"}
    /\ initAt \in {"idle", "populate", "existing", "prove", "register", "done"}
    /\ clean \in BOOLEAN
    /\ deployed \in [ServiceNames -> Versions \cup {Nothing}]
    /\ open \in [ServiceNames -> [version : Versions \cup {Nothing}, by : {Nobody, Hand, "daemon"}]]
    /\ locked \in [ServiceNames -> Daemons \cup {Nobody, Hand}]
    /\ work \in [Daemons -> [at : Steps, round : {"recover", "forward"},
                             commit : Commits \cup {NoCommit}, next : 1..Len(Services) + 1,
                             source : [ServiceNames -> Versions \cup {Nothing, Absent, Invalid}],
                             chosen : SUBSET ServiceNames]]
    /\ byHand \in [at : {"idle", "loaded", "effects"}, service : ServiceNames \cup {Nothing},
                   source : Versions \cup {Nothing}]
    /\ moved \in BOOLEAN
    /\ pushes \in 0..MaxPushes
    /\ faults \in 0..MaxFaults

(* Nothing yet, or a clone of the first commit whose origin may have moved.   *)
GitOpsInit ==
    /\ ControlInit
    /\ registration = NoCommit
    /\ initAt = "idle" /\ initCommit = NoCommit
    /\ \/ checkout = "absent" /\ head = NoCommit /\ remote = NoCommit
       \/ checkout = "whole" /\ head = Root /\ remote \in Commits
    /\ clean = TRUE
    /\ deployed = [s \in ServiceNames |-> Nothing]
    /\ open = [s \in ServiceNames |-> Settled]
    /\ locked = [s \in ServiceNames |-> Nobody]
    /\ work = [d \in Daemons |-> Fresh]
    /\ byHand = NoHand
    /\ moved = FALSE
    /\ pushes = 0 /\ faults = 0

Fault == faults < MaxFaults /\ faults' = faults + 1
NoFault == UNCHANGED faults

-----------------------------------------------------------------------------
(* git, as the code uses it.                                                 *)

RequireFastForward(older, newer) == newer \in Commits /\ older \in Ancestors[newer]

(* The committed blob of a service file, read through HEAD's tree and never  *)
(* from the worktree: a path that is no regular file makes it Invalid.       *)
Committed(s) == Content[head][s]

(* inspectGitOpsCheckout: a clean worktree of the registered branch with an  *)
(* origin.                                                                   *)
InspectLocal    == checkout = "whole" /\ clean
InspectCheckout == InspectLocal /\ remote # NoCommit
Registered      == InspectCheckout /\ registration # NoCommit /\ RequireFastForward(registration, head)

-----------------------------------------------------------------------------
(* executeGitOpsInit.                                                        *)

InitFrame == UNCHANGED <<controlVars, remote, serviceVars, work, byHand, moved, pushes>>

(* os.Mkdir decides between a new checkout and an existing one.              *)
InitMkdir ==
    /\ initAt = "idle"
    /\ IF checkout = "absent"
       THEN checkout' = "partial" /\ initAt' = "populate"
       ELSE initAt' = "existing" /\ UNCHANGED checkout
    /\ NoFault
    /\ UNCHANGED <<registration, initCommit, head, clean>>
    /\ InitFrame

(* Mutant: the checkout is registered before it is populated. *)
RegisterFirst ==
    /\ initAt = "populate"
    /\ registration' = Root
    /\ initAt' = "done"
    /\ NoFault
    /\ UNCHANGED <<checkout, initCommit, head, clean>>
    /\ InitFrame

(* populateGitOpsCheckout: services, git init, an empty first commit; what   *)
(* fails removes the directory.                                              *)
PopulateCheckout ==
    /\ initAt = "populate"
    /\ \/ NoFault /\ checkout' = "whole" /\ head' = Root /\ initAt' = "register" /\ initCommit' = Root
       \/ Fault /\ checkout' = "absent" /\ initAt' = "idle" /\ UNCHANGED <<head, initCommit>>
    /\ UNCHANGED <<registration, clean>>
    /\ InitFrame

(* An existing checkout is reused as registered, or inspected and required    *)
(* to descend from the recorded upstream, which is what was fetched last.    *)
ExistingCheckout ==
    /\ initAt = "existing"
    /\ NoFault
    /\ \E upstream \in {head, remote} :
          IF registration = NoCommit /\ InspectCheckout /\ RequireFastForward(upstream, head)
          THEN initAt' = "prove" /\ initCommit' = head
          ELSE initAt' = "done" /\ UNCHANGED initCommit
    /\ UNCHANGED <<registration, checkout, head, clean>>
    /\ InitFrame

(* The final state: the checkout is what it was when it was inspected.       *)
ProveCheckout ==
    /\ initAt = "prove"
    /\ NoFault
    /\ IF clean /\ head = initCommit
       THEN initAt' = "register" /\ UNCHANGED initCommit
       ELSE initAt' = "done" /\ initCommit' = NoCommit
    /\ UNCHANGED <<registration, checkout, head, clean>>
    /\ InitFrame

(* writeGitOpsRegistration: a temporary file renamed into place, with the     *)
(* commit read before it.  A failure removes a checkout this init made.      *)
WriteRegistration ==
    /\ initAt = "register"
    /\ \/ NoFault /\ registration' = initCommit /\ initAt' = "done" /\ UNCHANGED <<checkout, head>>
       \/ /\ Fault
          /\ initAt' = "idle"
          /\ IF remote = NoCommit
             THEN checkout' = "absent" /\ head' = NoCommit
             ELSE UNCHANGED <<checkout, head>>
          /\ UNCHANGED registration
    /\ initCommit' = NoCommit
    /\ UNCHANGED clean
    /\ InitFrame

CrashInit ==
    /\ initAt \in {"populate", "existing", "prove", "register"}
    /\ Fault
    /\ initAt' = "idle" /\ initCommit' = NoCommit
    /\ UNCHANGED <<registration, checkout, head, clean>>
    /\ InitFrame

GitOpsInitCommand ==
    \/ InitMkdir \/ PopulateCheckout \/ ExistingCheckout \/ ProveCheckout
    \/ WriteRegistration \/ CrashInit

-----------------------------------------------------------------------------
(* People at the remote and at the checkout.                                 *)

PeopleFrame == UNCHANGED <<controlVars, registration, checkout, initAt, initCommit, serviceVars, work>>

AddOrigin ==
    /\ initAt = "done" /\ checkout = "whole" /\ remote = NoCommit
    /\ remote' = head
    /\ NoFault
    /\ UNCHANGED <<head, clean, byHand, moved, pushes>>
    /\ PeopleFrame

(* A push, forced or not.                                                    *)
Push ==
    /\ remote # NoCommit /\ pushes < MaxPushes
    /\ remote' \in Commits \ {remote, Root}
    /\ pushes' = pushes + 1
    /\ NoFault
    /\ UNCHANGED <<head, clean, byHand, moved>>
    /\ PeopleFrame

(* git pull --ff-only in the registered checkout.                            *)
PullByHand ==
    /\ InspectCheckout
    /\ head # remote /\ RequireFastForward(head, remote)
    /\ Fault
    /\ head' = remote
    /\ moved' = TRUE
    /\ UNCHANGED <<clean, remote, byHand, pushes>>
    /\ PeopleFrame

EditWorktree ==
    /\ checkout = "whole"
    /\ \/ clean /\ Fault /\ clean' = FALSE
       \/ ~clean /\ NoFault /\ clean' = TRUE
    /\ UNCHANGED <<head, remote, byHand, moved, pushes>>
    /\ PeopleFrame

-----------------------------------------------------------------------------
(* One apply of one service, by a daemon or by hand.                         *)

(* The journal admits a request with this source: there is nothing to        *)
(* continue, or what there is has the same source.                           *)
Admits(s, version) == open[s] = Settled \/ open[s].version = version

(* classifyPreparedApply, for what the daemon asks of a plan.                *)
RecoveryPlan(s)       == open[s] # Settled
Unchanged(s, version) == open[s] = Settled /\ deployed[s] = version

(* TryLockService and BeginTransaction, or the transaction found there.      *)
Begin(p, s, version, maker) ==
    /\ locked[s] = Nobody
    /\ Admits(s, version)
    /\ ~Unchanged(s, version)
    /\ locked' = [locked EXCEPT ![s] = p]
    /\ open' = [open EXCEPT ![s] = IF @ = Settled THEN [version |-> version, by |-> maker] ELSE @]
    /\ UNCHANGED deployed

Succeed(s) ==
    /\ deployed' = [deployed EXCEPT ![s] = open[s].version]
    /\ open' = [open EXCEPT ![s] = Settled]
    /\ locked' = [locked EXCEPT ![s] = Nobody]

(* The transaction failed or was restored, or it stays to be recovered.      *)
Fail(s) ==
    /\ \/ open' = [open EXCEPT ![s] = Settled]
       \/ UNCHANGED open
    /\ locked' = [locked EXCEPT ![s] = Nobody]
    /\ UNCHANGED deployed

-----------------------------------------------------------------------------
(* One reconcile of a polling daemon.                                        *)

At(d, step) == Polling(d) /\ work[d].at = step /\ ~cancelled[d]
Goto(d, w)  == work' = [work EXCEPT ![d] = w]
Go(d, step) == Goto(d, [work[d] EXCEPT !.at = step])

DaemonFrame == UNCHANGED <<requested, cancelled, leaseVars, stopVars,
                           registration, checkout, initAt, initCommit, clean, remote, byHand,
                           moved, pushes>>
Stays == UNCHANGED phase

(* pollRegisteredRepositoryUntilStop: a failure that is not retryable ends   *)
(* the loop, the others are reported and the loop goes on.                   *)
Unavailable(d) == Goto(d, [Fresh EXCEPT !.at = "check"]) /\ Stays
Fatal(d)       == Enter(d, "closing") /\ Goto(d, Fresh)

(* The registration, the state directory and the checkout are read again.    *)
ReconcileTop(d) ==
    /\ At(d, "top")
    /\ IF Registered
       THEN Goto(d, [Fresh EXCEPT !.at = "list", !.commit = head]) /\ Stays
       ELSE Fatal(d)
    /\ NoFault
    /\ UNCHANGED <<head, serviceVars>>
    /\ DaemonFrame

SameCheckout(d) == clean /\ head = work[d].commit

(* captureGitOpsSnapshot: the expected commit, then the list of the service  *)
(* files.  A service that is not on the list stays Absent in this snapshot.  *)
ListServices(d) ==
    /\ At(d, "list")
    /\ IF SameCheckout(d)
       THEN /\ Goto(d, [work[d] EXCEPT !.at = "load",
                          !.source = [s \in ServiceNames |-> IF Committed(s) = Absent THEN Absent ELSE Nothing]])
            /\ Stays
       ELSE Fatal(d)
    /\ NoFault
    /\ UNCHANGED <<head, serviceVars>>
    /\ DaemonFrame

(* Mutant: a service file is taken without being validated. *)
LoadServiceAnyway(d) ==
    LET s == Services[work[d].next]
        v == Committed(s)
        listed == work[d].source[s] # Absent
        passed == [work[d] EXCEPT !.next = @ + 1]
        read == [passed EXCEPT !.source[s] = v, !.chosen = @ \cup IF RecoveryPlan(s) THEN {s} ELSE {}]
    IN  /\ At(d, "load")
        /\ work[d].next <= Len(Services)
        /\ \/ ~listed /\ Goto(d, passed) /\ Stays /\ NoFault
           \/ listed /\ clean /\ v # Absent /\ Admits(s, v) /\ Goto(d, read) /\ Stays /\ NoFault
           \/ listed /\ clean /\ v # Absent /\ Fault /\ Unavailable(d)
           \/ listed /\ (~clean \/ v = Absent \/ ~Admits(s, v)) /\ Fatal(d) /\ NoFault
        /\ UNCHANGED <<head, serviceVars>>
        /\ DaemonFrame

(* Every service file on the list is loaded from the commit checked out when  *)
(* it is read, and planned; one that is gone by then cannot be read.         *)
LoadService(d) ==
    LET s == Services[work[d].next]
        v == Committed(s)
        listed == work[d].source[s] # Absent
        passed == [work[d] EXCEPT !.next = @ + 1]
        read == [passed EXCEPT !.source[s] = v, !.chosen = @ \cup IF RecoveryPlan(s) THEN {s} ELSE {}]
    IN  /\ At(d, "load")
        /\ work[d].next <= Len(Services)
        /\ \/ ~listed /\ Goto(d, passed) /\ Stays /\ NoFault
           \/ listed /\ clean /\ v \in Versions /\ Admits(s, v) /\ Goto(d, read) /\ Stays /\ NoFault
           \/ listed /\ clean /\ v \in Versions /\ Fault /\ Unavailable(d)
           \/ listed /\ (~clean \/ v \notin Versions \/ ~Admits(s, v)) /\ Fatal(d) /\ NoFault
        /\ UNCHANGED <<head, serviceVars>>
        /\ DaemonFrame

(* Mutant: HEAD is not compared again after the services were read. *)
VerifySnapshotNot(d) ==
    /\ At(d, "load")
    /\ work[d].next > Len(Services)
    /\ Goto(d, [work[d] EXCEPT !.at = "mutate", !.next = 1]) /\ Stays
    /\ NoFault
    /\ UNCHANGED <<head, serviceVars>>
    /\ DaemonFrame

(* The second look at the checkout: nothing is changed for a snapshot of     *)
(* which some part may come from another commit.                             *)
VerifySnapshot(d) ==
    /\ At(d, "load")
    /\ work[d].next > Len(Services)
    /\ IF SameCheckout(d)
       THEN Goto(d, [work[d] EXCEPT !.at = "mutate", !.next = 1]) /\ Stays
       ELSE Fatal(d)
    /\ NoFault
    /\ UNCHANGED <<head, serviceVars>>
    /\ DaemonFrame

(* Mutant: recorded transactions are not continued before the checkout moves. *)
InRoundForward(d, s) == work[d].round = "forward" /\ work[d].source[s] # Absent

(* recoverGitOpsServices goes over the services whose plan was a recovery,   *)
(* reconcileGitOpsSnapshot over all of them.                                 *)
InRound(d, s) ==
    IF work[d].round = "recover" THEN s \in work[d].chosen ELSE work[d].source[s] # Absent

(* executeGitOpsMutation with the pinned source.                             *)
MutateService(d) ==
    LET s == Services[work[d].next]
        v == work[d].source[s]
        passed == [work[d] EXCEPT !.next = @ + 1]
    IN  /\ At(d, "mutate")
        /\ work[d].next <= Len(Services)
        /\ NoFault
        /\ \/ /\ ~InRound(d, s)
              /\ Goto(d, passed) /\ Stays /\ UNCHANGED serviceVars
           \/ /\ InRound(d, s)
              /\ \/ Unchanged(s, v) /\ locked[s] = Nobody /\ Goto(d, passed) /\ Stays /\ UNCHANGED serviceVars
                 \/ Begin(d, s, v, "daemon") /\ Go(d, "effects") /\ Stays
                 \/ locked[s] # Nobody /\ Unavailable(d) /\ UNCHANGED serviceVars
                 \/ ~Admits(s, v) /\ Fatal(d) /\ UNCHANGED serviceVars
        /\ UNCHANGED head
        /\ DaemonFrame

EffectsSucceed(d) ==
    /\ At(d, "effects")
    /\ Succeed(Services[work[d].next])
    /\ Goto(d, [work[d] EXCEPT !.at = "mutate", !.next = @ + 1]) /\ Stays
    /\ NoFault
    /\ UNCHANGED head
    /\ DaemonFrame

EffectsFail(d) ==
    /\ At(d, "effects")
    /\ Fault
    /\ Fail(Services[work[d].next])
    /\ Unavailable(d) \/ Fatal(d)
    /\ UNCHANGED head
    /\ DaemonFrame

FinishRound(d) ==
    /\ At(d, "mutate")
    /\ work[d].next > Len(Services)
    /\ Goto(d, [Fresh EXCEPT !.at = IF work[d].round = "recover" THEN "fetch" ELSE "check"])
    /\ Stays
    /\ NoFault
    /\ UNCHANGED <<head, serviceVars>>
    /\ DaemonFrame

(* fastForwardGitOpsCheckout: the checkout is inspected again, the branch    *)
(* fetched and required to descend from HEAD.                                *)
FetchUpstream(d) ==
    /\ At(d, "fetch")
    /\ \/ /\ NoFault
          /\ IF Registered /\ RequireFastForward(head, remote)
             THEN Goto(d, [Fresh EXCEPT !.at = "merge", !.commit = remote]) /\ Stays
             ELSE Fatal(d)
       \/ Fault /\ Fatal(d)
    /\ UNCHANGED <<head, serviceVars>>
    /\ DaemonFrame

(* Mutant: a checkout already at the commit is not reconciled. *)
AdvanceCheckoutSkips(d) ==
    LET merged == IF RequireFastForward(head, work[d].commit) THEN work[d].commit ELSE head
    IN  /\ At(d, "merge")
        /\ NoFault
        /\ IF clean
           THEN /\ head' = merged
                /\ IF merged = work[d].commit
                   THEN Goto(d, [work[d] EXCEPT !.at = IF merged = head THEN "check" ELSE "list", !.round = "forward"]) /\ Stays
                   ELSE Fatal(d)
           ELSE Fatal(d) /\ head' \in {head, merged}
        /\ UNCHANGED serviceVars
        /\ DaemonFrame

(* advanceGitOpsCheckout: git merge --ff-only, then the clean commit is      *)
(* required to be the one fetched.  A merge may succeed beside an edit of     *)
(* another file, and it is not taken back when the worktree is refused.      *)
AdvanceCheckout(d) ==
    LET merged == IF RequireFastForward(head, work[d].commit) THEN work[d].commit ELSE head
    IN  /\ At(d, "merge")
        /\ NoFault
        /\ IF clean
           THEN /\ head' = merged
                /\ IF merged = work[d].commit
                   THEN Goto(d, [work[d] EXCEPT !.at = "list", !.round = "forward"]) /\ Stays
                   ELSE Fatal(d)
           ELSE Fatal(d) /\ head' \in {head, merged}
        /\ UNCHANGED serviceVars
        /\ DaemonFrame

(* Mutant: a cycle does not look at the stop request. *)
CheckStopNot(d) ==
    /\ At(d, "check")
    /\ Go(d, "wait") /\ Stays
    /\ NoFault
    /\ UNCHANGED <<head, serviceVars>>
    /\ DaemonFrame

(* channelClosed(stop) after every reconcile.                                *)
CheckStop(d) ==
    /\ At(d, "check")
    /\ IF requested[d] THEN Enter(d, "closing") /\ Goto(d, Fresh) ELSE Go(d, "wait") /\ Stays
    /\ NoFault
    /\ UNCHANGED <<head, serviceVars>>
    /\ DaemonFrame

(* waitDaemonIntervalOrStop: the timer and the stop request both return nil, *)
(* so a request that ends the wait is honoured after one more reconcile.     *)
WaitInterval(d) ==
    /\ At(d, "wait")
    /\ Go(d, "top") /\ Stays
    /\ NoFault
    /\ UNCHANGED <<head, serviceVars>>
    /\ DaemonFrame

(* A cancelled context fails the git command, the wait or the call at hand;  *)
(* an apply saves recoverable state first.                                   *)
ReconcileCancelled(d) ==
    /\ Polling(d) /\ cancelled[d]
    /\ Fatal(d)
    /\ IF work[d].at = "effects" THEN Fail(Services[work[d].next]) ELSE UNCHANGED serviceVars
    /\ NoFault
    /\ UNCHANGED head
    /\ DaemonFrame

Reconcile(d) ==
    \/ ReconcileTop(d) \/ ListServices(d) \/ LoadService(d) \/ VerifySnapshot(d)
    \/ MutateService(d) \/ EffectsSucceed(d) \/ EffectsFail(d) \/ FinishRound(d)
    \/ FetchUpstream(d) \/ AdvanceCheckout(d) \/ CheckStop(d) \/ WaitInterval(d)
    \/ ReconcileCancelled(d)

-----------------------------------------------------------------------------
(* maniud apply, run by hand on a file of the registered checkout.           *)

HandFrame == UNCHANGED <<controlVars, repoVars, remote, work, moved, pushes>>

LoadByHand ==
    /\ byHand = NoHand
    /\ InspectLocal
    /\ Fault
    /\ \E s \in ServiceNames :
          /\ Committed(s) \in Versions
          /\ byHand' = [at |-> "loaded", service |-> s, source |-> Committed(s)]
    /\ UNCHANGED serviceVars
    /\ HandFrame

BeginByHand ==
    /\ byHand.at = "loaded"
    /\ \/ Begin(Hand, byHand.service, byHand.source, Hand) /\ byHand' = [byHand EXCEPT !.at = "effects"]
       \/ /\ \/ locked[byHand.service] # Nobody
             \/ ~Admits(byHand.service, byHand.source)
             \/ Unchanged(byHand.service, byHand.source)
          /\ byHand' = NoHand
          /\ UNCHANGED serviceVars
    /\ NoFault
    /\ HandFrame

EffectsByHand ==
    /\ byHand.at = "effects"
    /\ \/ Succeed(byHand.service) /\ NoFault
       \/ Fail(byHand.service) /\ Fault
    /\ byHand' = NoHand
    /\ HandFrame

FinishByHand == BeginByHand \/ EffectsByHand
ApplyByHand  == LoadByHand \/ FinishByHand

-----------------------------------------------------------------------------
(* The start, the stop command and the crashes of DaemonControl.             *)
RepoFrame == UNCHANGED <<repoVars, remote, serviceVars, work, byHand, moved, pushes>>

Unlock(d) == locked' = [s \in ServiceNames |-> IF locked[s] = d THEN Nobody ELSE locked[s]]

DaemonStart(d) ==
    /\ \/ registration # NoCommit /\ StartDaemon(d) /\ NoFault
       \/ (ListenForStop(d) \/ AcquireDaemonLease(d) \/ TruncatePID(d) \/ WritePID(d)) /\ NoFault
       \/ WritePIDFails(d) /\ Fault
    /\ RepoFrame

DaemonEnd(d) ==
    /\ CloseDaemonLease(d) \/ CloseSignals(d) \/ ExitDaemon(d)
    /\ NoFault
    /\ RepoFrame

DaemonCrash(d) ==
    /\ CrashDaemon(d)
    /\ Fault
    /\ Unlock(d)
    /\ work' = [work EXCEPT ![d] = Fresh]
    /\ UNCHANGED <<repoVars, remote, deployed, open, byHand, moved, pushes>>

DaemonInterrupt(d) == Interrupt(d) /\ Fault /\ RepoFrame

(* A daemon the stop signal ends holds no service lock by then.              *)
DaemonStop == StopCommand /\ NoFault /\ RepoFrame

Daemon(d) == DaemonStart(d) \/ Reconcile(d) \/ DaemonEnd(d)

People == GitOpsInitCommand \/ AddOrigin \/ Push \/ PullByHand \/ EditWorktree \/ ApplyByHand

GitOpsNext ==
    \/ People
    \/ DaemonStop
    \/ \E d \in Daemons : Daemon(d) \/ DaemonCrash(d) \/ DaemonInterrupt(d)

(* A daemon that was started keeps running: every command it waits for has a *)
(* timeout (gitCommandTimeout, the runtime and registry clients' own).       *)
GitOpsSpec ==
    /\ GitOpsInit /\ [][GitOpsNext]_vars
    /\ \A d \in Daemons : WF_vars(Daemon(d))
    /\ WF_vars(FinishByHand)

-----------------------------------------------------------------------------
(* A registration names a whole checkout whose HEAD descends from the        *)
(* recorded baseline, whatever step of gitops init fails or is cut off:      *)
(* executeGitOpsInit registers last and takes back a checkout it made.       *)
RegisteredIsWhole ==
    registration # NoCommit => checkout = "whole" /\ RequireFastForward(registration, head)

(* The sources a daemon is about to apply are those of one commit, also when *)
(* someone pulls while captureGitOpsSnapshot reads the files one by one.     *)
SnapshotIsOneCommit ==
    \A d \in Daemons :
       Polling(d) /\ work[d].at \in {"mutate", "effects"} =>
          \A s \in ServiceNames : work[d].source[s] = Content[work[d].commit][s]

(* No service is changed for a commit with a service file that does not load *)
(* (docs/recovery.md: every service file is validated before any of them is  *)
(* applied).                                                                 *)
NothingOfABadCommit ==
    \A d \in Daemons :
       Polling(d) /\ work[d].at = "effects" =>
          \A s \in ServiceNames : Content[work[d].commit][s] # Invalid

(* A transaction a daemon left open can be continued from the commit that is *)
(* checked out, as long as nobody pulls by hand: the daemon recovers at HEAD *)
(* before it moves HEAD.                                                     *)
OpenIsAtHead ==
    ~moved => \A s \in ServiceNames : open[s].by = "daemon" => open[s].version = Content[head][s]

(* A stop request that reaches a polling daemon ends it, whether it comes    *)
(* during a reconcile, between two, or before the first.                     *)
Asked == target # Nobody /\ Polling(target) /\ requested[target]
StopHonoured == Asked ~> ~Asked

(* While some daemon runs for good, every service comes to the version the   *)
(* last push names: no retryable failure, interrupted service or snapshot    *)
(* gone stale makes the daemon skip one for ever.                            *)
Converges ==
    <>[](\E d \in Daemons : Polling(d)) =>
       <>[](\A s \in ServiceNames :
              remote # NoCommit /\ Content[remote][s] \in Versions => deployed[s] = Content[remote][s])

(* What holds after every step: the types, that a registration names a whole *)
(* checkout, that what a daemon left open can be continued from HEAD, and    *)
(* that a stop was reported only when it is true.                            *)
GitOpsInv == GitOpsTypeOK /\ RegisteredIsWhole /\ OpenIsAtHead /\ StoppedIsTrue

(* What a daemon applies is one commit, and one whose every file loads.      *)
AppliesOneGoodCommit == SnapshotIsOneCommit /\ NothingOfABadCommit
=============================================================================
