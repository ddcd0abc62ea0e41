--------------------------- MODULE DaemonControl ---------------------------
(***************************************************************************)
(* The life of `maniud daemon start` and `maniud daemon stop` around one    *)
(* lock file: src/internal/cli/daemon.go, daemon_lease_unix.go and          *)
(* interrupt.go.                                                           *)
(*                                                                         *)
(* The lease is an exclusive flock(2) on daemon.lock; the file's content is *)
(* the process ID the last holder wrote.  The stop command learns whether a *)
(* daemon runs by trying the same flock, so for an instant it holds it      *)
(* itself.  SIGUSR1 asks a daemon that listens for it to stop and kills a    *)
(* process that does not.  A process identity is used once.                 *)
(***************************************************************************)
EXTENDS Naturals, Sequences

CONSTANT Processes  \* the IDs of the daemon processes, in the order they are started

Daemons == {Processes[i] : i \in DOMAIN Processes}
Earlier(d) == {Processes[i] : i \in {i \in DOMAIN Processes : \E j \in DOMAIN Processes : i < j /\ Processes[j] = d}}

VARIABLES
    phase,      \* phase[d]: how far daemon d is in executeDaemonStart
    requested,  \* requested[d]: its stop channel is closed
    cancelled,  \* cancelled[d]: its context is cancelled by SIGINT or SIGTERM
    holder,     \* the process that holds the flock of daemon.lock
    pidFile,    \* the content of daemon.lock
    stopAt,     \* the program counter of the stop command
    target      \* the process ID the stop command read

daemonVars == <<phase, requested, cancelled>>
leaseVars  == <<holder, pidFile>>
stopVars   == <<stopAt, target>>
controlVars == <<daemonVars, leaseVars, stopVars>>

Nobody == "nobody"
Stopper == "stopper"

(* A process ID is none of the other values a variable may have.             *)
ASSUME ProcessesAssumption == Daemons \cap {Nobody, Stopper, "absent", "empty"} = {}

Phases == {"off", "started", "listening", "locked", "cleared", "polling",
           "closing", "released", "deaf", "gone"}

(* A daemon between signal.Notify and signal.Stop has SIGUSR1 delivered.     *)
Listening(d) == phase[d] \in {"listening", "locked", "cleared", "polling", "closing", "released"}
Alive(d)     == phase[d] \notin {"off", "gone"}
Polling(d)   == phase[d] = "polling"

ControlTypeOK ==
    /\ phase \in [Daemons -> Phases]
    /\ requested \in [Daemons -> BOOLEAN]
    /\ cancelled \in [Daemons -> BOOLEAN]
    /\ holder \in Daemons \cup {Nobody, Stopper}
    /\ pidFile \in Daemons \cup {"absent", "empty"}
    /\ stopAt \in {"idle", "probe", "free", "signal", "wait", "vacant",
                   "not_running", "stopped", "failed"}
    /\ target \in Daemons \cup {Nobody}

ControlInit ==
    /\ phase = [d \in Daemons |-> "off"]
    /\ requested = [d \in Daemons |-> FALSE]
    /\ cancelled = [d \in Daemons |-> FALSE]
    /\ holder = Nobody
    /\ pidFile = "absent"
    /\ stopAt = "idle"
    /\ target = Nobody

Enter(d, p) == phase' = [phase EXCEPT ![d] = p]

-----------------------------------------------------------------------------
(* executeDaemonStart.                                                       *)

(* The registration is readable; a start without one never gets here.        *)
StartDaemon(d) ==
    /\ phase[d] = "off"
    /\ \A e \in Earlier(d) : phase[e] # "off"
    /\ Enter(d, "started")
    /\ UNCHANGED <<requested, cancelled, leaseVars, stopVars>>

(* daemonStopRequests: from here on SIGUSR1 is a request.                    *)
ListenForStop(d) ==
    /\ phase[d] = "started"
    /\ Enter(d, "listening")
    /\ UNCHANGED <<requested, cancelled, leaseVars, stopVars>>

(* acquireDaemonLease: without the flock the daemon reports that another one *)
(* runs and returns.                                                         *)
AcquireDaemonLease(d) ==
    /\ phase[d] = "listening"
    /\ IF holder = Nobody
       THEN /\ holder' = d
            /\ pidFile' = IF pidFile = "absent" THEN "empty" ELSE pidFile
            /\ Enter(d, "locked")
       ELSE /\ Enter(d, "released")
            /\ UNCHANGED leaseVars
    /\ UNCHANGED <<requested, cancelled, stopVars>>

(* writeDaemonPID: truncate, then write and sync.                            *)
TruncatePID(d) ==
    /\ phase[d] = "locked"
    /\ pidFile' = "empty"
    /\ Enter(d, "cleared")
    /\ UNCHANGED <<requested, cancelled, holder, stopVars>>

WritePID(d) ==
    /\ phase[d] = "cleared"
    /\ pidFile' = d
    /\ Enter(d, "polling")
    /\ UNCHANGED <<requested, cancelled, holder, stopVars>>

(* A failed write gives the lock back and the start up.                      *)
WritePIDFails(d) ==
    /\ phase[d] \in {"locked", "cleared"}
    /\ holder' = Nobody
    /\ Enter(d, "released")
    /\ UNCHANGED <<requested, cancelled, pidFile, stopVars>>

(* Mutant: the signal handler is removed before the lease is given up. *)
CloseSignalsFirst(d) ==
    /\ phase[d] = "closing"
    /\ Enter(d, "deaf")
    /\ UNCHANGED <<requested, cancelled, leaseVars, stopVars>>

(* The poll loop returned: lease.Close, then the deferred closeSignals.      *)
CloseDaemonLease(d) ==
    /\ phase[d] = "closing"
    /\ holder' = Nobody
    /\ Enter(d, "released")
    /\ UNCHANGED <<requested, cancelled, pidFile, stopVars>>

CloseSignals(d) ==
    /\ phase[d] = "released"
    /\ Enter(d, "deaf")
    /\ UNCHANGED <<requested, cancelled, leaseVars, stopVars>>

(* The command returned; the notification sink is closed and the process     *)
(* ends.                                                                     *)
ExitDaemon(d) ==
    /\ phase[d] = "deaf"
    /\ Enter(d, "gone")
    /\ UNCHANGED <<requested, cancelled, leaseVars, stopVars>>

(* SIGKILL, a second SIGINT or a power cut: the kernel drops the flock.      *)
Die(d) ==
    /\ phase' = [phase EXCEPT ![d] = "gone"]
    /\ holder' = IF holder = d THEN Nobody ELSE holder

CrashDaemon(d) ==
    /\ Alive(d)
    /\ Die(d)
    /\ UNCHANGED <<requested, cancelled, pidFile, stopVars>>

(* watchInterrupt: the first SIGINT or SIGTERM cancels the context.          *)
Interrupt(d) ==
    /\ Polling(d)
    /\ ~cancelled[d]
    /\ cancelled' = [cancelled EXCEPT ![d] = TRUE]
    /\ UNCHANGED <<phase, requested, leaseVars, stopVars>>

-----------------------------------------------------------------------------
(* requestDaemonStop.                                                        *)

RequestDaemonStop ==
    /\ stopAt = "idle"
    /\ stopAt' = "probe"
    /\ UNCHANGED <<daemonVars, leaseVars, target>>

(* daemonLeaseOwner: with the flock no daemon runs, and it is given back;    *)
(* without it the file says who does.                                        *)
ProbeOwner ==
    /\ stopAt = "probe"
    /\ IF holder = Nobody /\ pidFile # "absent"
       THEN stopAt' = "free" /\ holder' = Stopper /\ UNCHANGED target
       ELSE /\ UNCHANGED holder
            /\ IF pidFile \in Daemons
               THEN stopAt' = "signal" /\ target' = pidFile
               ELSE /\ stopAt' = IF pidFile = "absent" THEN "not_running" ELSE "failed"
                    /\ UNCHANGED target
    /\ UNCHANGED <<daemonVars, pidFile>>

ReleaseProbe ==
    /\ stopAt \in {"free", "vacant"}
    /\ holder' = Nobody
    /\ stopAt' = IF stopAt = "free" THEN "not_running" ELSE "stopped"
    /\ UNCHANGED <<daemonVars, pidFile, target>>

(* signalDaemon: a process that does not listen is ended by the signal, one  *)
(* that is gone cannot be signalled.                                         *)
SignalDaemon ==
    /\ stopAt = "signal"
    /\ stopAt' = IF Alive(target) THEN "wait" ELSE "failed"
    /\ IF Alive(target) /\ ~Listening(target)
       THEN Die(target) /\ UNCHANGED requested
       ELSE /\ requested' = [requested EXCEPT ![target] = @ \/ Alive(target)]
            /\ UNCHANGED <<phase, holder>>
    /\ UNCHANGED <<cancelled, pidFile, target>>

(* Mutant: stop answers without waiting for the lease. *)
WaitForReleaseNot ==
    /\ stopAt = "wait"
    /\ stopAt' = "stopped"
    /\ UNCHANGED <<daemonVars, leaseVars, target>>

(* waitDaemonLeaseRelease: the flock is free, the same daemon still holds    *)
(* it, or another process has it or the file is being rewritten.             *)
WaitForRelease ==
    /\ stopAt = "wait"
    /\ \/ /\ holder = Nobody
          /\ holder' = Stopper
          /\ stopAt' = "vacant"
       \/ /\ holder # Nobody
          /\ pidFile # target
          /\ stopAt' = "failed"
          /\ UNCHANGED holder
    /\ UNCHANGED <<daemonVars, pidFile, target>>

(* The stop command's own context ends while it waits.                       *)
AbandonStop ==
    /\ stopAt = "wait"
    /\ stopAt' = "failed"
    /\ UNCHANGED <<daemonVars, leaseVars, target>>

StopCommand == RequestDaemonStop \/ ProbeOwner \/ ReleaseProbe
                 \/ SignalDaemon \/ WaitForRelease \/ AbandonStop

-----------------------------------------------------------------------------
(* Whatever the stop command and the daemons interleave, SIGUSR1 ends only a *)
(* daemon that has given its lease back: executeDaemonStart listens before   *)
(* it takes the lease and closes the lease before its deferred closeSignals, *)
(* so no reconcile is cut off by a stop request.                             *)
StopKillsNoHolder ==
    [][\A d \in Daemons :
          stopAt = "signal" /\ stopAt' # "signal" /\ phase[d] # "gone" /\ phase'[d] = "gone"
             => phase[d] \in {"released", "deaf"} /\ holder # d]_controlVars

(* "Daemon stopped." is printed only when the daemon that was signalled will *)
(* never reconcile again: waitDaemonLeaseRelease saw its lease given back.   *)
StoppedIsTrue ==
    stopAt = "stopped" => /\ target \in Daemons
                          /\ phase[target] \in {"released", "deaf", "gone"}
=============================================================================
