------------------------------- MODULE Monitor -------------------------------
(***************************************************************************)
(* The ptrace monitor of crates/ptracer/src/monitor.rs: one thread that    *)
(* seizes init, follows the processes init forks until they exec, hands a  *)
(* freshly exec'd zygote over to a tracer, keeps one daemon per ABI alive, *)
(* and obeys the datagrams of its controller socket.                       *)
(*                                                                         *)
(* A step of the monitor is one callback, or one iteration of the loop a   *)
(* callback runs (one datagram received, one child reaped, one look at a   *)
(* zygote being parked).  Between two steps the kernel and the other       *)
(* processes move: children stop, exec and die, datagrams arrive.          *)
(***************************************************************************)
EXTENDS Naturals, Sequences, FiniteSets

CONSTANTS
    Pids,           \* process ids of init's children and of the daemons
    Children,       \* bound: the pids that init's children get
    NoPid,          \* daemon_pid == -1
    Abis,           \* the ABIs of the device: a subset of {"64", "32"}
    MaxRetryCount,  \* ZygoteStartCounter::MAX_RETRY_COUNT
    MaxQueue,       \* bound: datagrams queued on the controller socket
    Commands,       \* the datagram kinds the environment sends
    SeizeMayFail,   \* another tracer may own init when tracing restarts
    ProcMayFail,    \* reads of /proc/<pid> may fail
    StartupRace     \* init may fork before SIGCHLD is blocked

AnyAbi == "any"
CommandKinds == {"start", "stop", "exit", "other", "oversized"}

ASSUME NoPidAssumption == NoPid \notin Pids
ASSUME ChildrenAssumption == Children \subseteq Pids
ASSUME AbisAssumption == Abis # {} /\ Abis \subseteq {"64", "32"}
ASSUME RetryAssumption == MaxRetryCount \in Nat \ {0}
ASSUME QueueAssumption == MaxQueue \in Nat
ASSUME CommandsAssumption == Commands \subseteq CommandKinds
ASSUME SwitchAssumption == {SeizeMayFail, ProcMayFail, StartupRace} \subseteq BOOLEAN

TracingState == {"Tracing", "Stopping", "Stopped", "Exiting"}

(***************************************************************************)
(* What a process id names.  Attached states are those in which the        *)
(* monitor is the process's tracer:                                        *)
(*   run      running            evstop   PTRACE_EVENT_STOP                *)
(*   jobstop  stopped by a job-control stop signal                         *)
(*   sigstop  stopped by the delivery of any other signal                  *)
(*   exec     PTRACE_EVENT_EXEC  frozen   that stop reaped, never resumed  *)
(*   zombie   dead, its exit status not yet reaped by the monitor          *)
(* The others: released (the monitor let it go), held (group-stopped, a    *)
(* tracer launched for it), deferred (running, the tango tracer launched   *)
(* for it), injected, daemon, dzombie (a dead daemon not yet reaped).      *)
(***************************************************************************)
TraceStops == {"evstop", "jobstop", "sigstop", "exec"}
AttachedStates == TraceStops \cup {"run", "frozen", "zombie"}
HandedStates == {"held", "deferred", "injected"}
DaemonStates == {"daemon", "dzombie"}
ProcState == {"none", "released"} \cup AttachedStates \cup HandedStates \cup DaemonStates

(* What a process executes: a zygote, another user of app_process, the     *)
(* tango translator (32-bit only), or anything else.                       *)
ProgramKinds == {"none", "zygote", "app_process", "tango", "other"}

VARIABLES
    tracing,        \* tracing_state
    pc,             \* where the monitor's thread is
    parkPid,        \* the zygote consider_handoff waits for
    tracked,        \* tracked (the non-zero slots)
    supported,      \* status.supported
    daemonPid,      \* status.daemon_pid
    daemonRunning,  \* status.daemon_running
    counter,        \* the ABI's zygote ZygoteStartCounter
    respawn,        \* the ABI's daemon_respawn ZygoteStartCounter
    initSeized,     \* init is our tracee
    initStop,       \* init's ptrace-stop, or "run"
    initIntr,       \* a PTRACE_INTERRUPT of init has not trapped yet
    proc,           \* what each pid names
    kind,           \* the program of a process between its exec and release
    abi,            \* the ABI of that program or daemon
    sigPending,     \* the signalfd is readable
    sockEdge,       \* epoll has an unreported edge on the socket
    queue           \* datagrams in the socket

daemonVars == <<supported, daemonPid, daemonRunning>>
limitVars == <<counter, respawn>>
initVars == <<initSeized, initStop, initIntr>>
procVars == <<proc, kind, abi>>
sockVars == <<sockEdge, queue>>
monitorVars == <<tracing, pc, parkPid, tracked, daemonVars, limitVars>>
vars == <<monitorVars, initVars, procVars, sigPending, sockVars>>

-----------------------------------------------------------------------------
(* ZygoteStartCounter: the count after one more start.  "within" says      *)
(* whether the previous start is less than 30 s old; Never means there was *)
(* none.  The count is only compared with MaxRetryCount, and with 1 when   *)
(* it is below that, so it saturates there.                                *)
Never == MaxRetryCount + 1
CountRange == 0 .. Never

(* Mutant: a first start counts, and the count goes on past the limit.     *)
BumpedOn(n, within) == IF within THEN n + 1 ELSE 0

Bumped(n, within) ==
    IF n = Never \/ ~within THEN 0
    ELSE IF n < MaxRetryCount THEN n + 1 ELSE n

(* Mutant: one start too many. *)
LimitReachedLate(n) == n > MaxRetryCount

LimitReached(n) == n >= MaxRetryCount

(* is_stopping_signal_stop: a stop that must not cost us the tracee.       *)
(* Mutant: only the event-channel form. *)
OnlyEventStop(s) == s = "evstop"

IsStoppingSignalStop(s) == s \in {"evstop", "jobstop"}

(* The forms in which a parked zygote reports its stop.                    *)
IsParked(s) == s \in {"jobstop", "evstop"}

(* check_daemon_exit: is this report of pid p the exit of ABI a's daemon?  *)
IsDaemonExit(p, a) ==
    /\ supported[a]
    /\ daemonPid[a] = p
    /\ proc[p] = "dzombie"

(* waitpid(-1, WNOHANG): what there is to reap, and whether it has anyone  *)
(* to wait for (otherwise it fails with ECHILD).                           *)
Reportable(p) == proc[p] \in TraceStops \cup {"zombie", "dzombie"}
InitReportable == initSeized /\ initStop # "run"
HasChildren ==
    \/ initSeized
    \/ \E p \in Pids : proc[p] \in AttachedStates \cup DaemonStates

Reaping == pc = "reap"

(* Forget pid p's program: the monitor no longer has a use for it.         *)
Forget(p) == kind' = [kind EXCEPT ![p] = "none"] /\ abi' = [abi EXCEPT ![p] = AnyAbi]

-----------------------------------------------------------------------------
(* claim_init_tracer succeeded; the listeners exist.  With StartupRace,    *)
(* init forked between PTRACE_SEIZE and the blocking of SIGCHLD, and the   *)
(* signal of that fork was discarded.                                      *)
Init ==
    /\ tracing = "Tracing"
    /\ pc = "idle"
    /\ parkPid = NoPid
    /\ tracked = {}
    /\ supported = [a \in Abis |-> FALSE]
    /\ daemonPid = [a \in Abis |-> NoPid]
    /\ daemonRunning = [a \in Abis |-> FALSE]
    /\ counter = [a \in Abis |-> Never]
    /\ respawn = [a \in Abis |-> Never]
    /\ initSeized = TRUE
    /\ initIntr = FALSE
    /\ kind = [p \in Pids |-> "none"]
    /\ abi = [p \in Pids |-> AnyAbi]
    /\ sigPending = FALSE
    /\ sockEdge = FALSE
    /\ queue = <<>>
    /\ \/ /\ initStop = "run"
          /\ proc = [p \in Pids |-> "none"]
       \/ /\ StartupRace
          /\ initStop = "fork"
          /\ \E p \in Children : proc = [q \in Pids |-> IF q = p THEN "evstop" ELSE "none"]

-----------------------------------------------------------------------------
(*                       The controller socket                             *)

(* epoll_wait reports the socket: its edge is consumed.                    *)
EpollSocket ==
    /\ pc = "idle"
    /\ sockEdge
    /\ pc' = "drain"
    /\ sockEdge' = FALSE
    /\ UNCHANGED <<tracing, parkPid, tracked, daemonVars, limitVars,
                   initVars, procVars, sigPending, queue>>

(* Back to events_loop, which ends once handle_exit has run; when the      *)
(* monitor's process exits the kernel detaches all it traces.              *)
Orphaned(s) == IF s \in AttachedStates \ {"zombie"} THEN "released"
               ELSE IF s \in {"zombie", "dzombie"} THEN "none" ELSE s

LeaveCallback ==
    IF tracing = "Exiting"
    THEN /\ pc' = "exited"
         /\ tracked' = {}
         /\ initSeized' = FALSE
         /\ initStop' = "run"
         /\ initIntr' = FALSE
         /\ proc' = [p \in Pids |-> Orphaned(proc[p])]
         /\ UNCHANGED <<kind, abi>>
    ELSE /\ pc' = "idle"
         /\ UNCHANGED <<tracked, initVars, procVars>>

(* Mutant: one datagram per epoll event, no drain loop. *)
OneDatagramPerEvent ==
    /\ pc = "drain"
    /\ queue' = IF queue = <<>> THEN queue ELSE Tail(queue)
    /\ LeaveCallback
    /\ UNCHANGED <<tracing, parkPid, daemonVars, limitVars,
                   sigPending, sockEdge>>

(* recv_control_datagram returns None: nothing queued, or the datagram it  *)
(* took off the queue is empty or oversized.                               *)
ReceiveNone ==
    /\ pc = "drain"
    /\ \/ queue = <<>> /\ UNCHANGED queue
       \/ queue # <<>> /\ Head(queue) = "oversized" /\ queue' = Tail(queue)
    /\ LeaveCallback
    /\ UNCHANGED <<tracing, parkPid, daemonVars, limitVars,
                   sigPending, sockEdge>>

(* Take a datagram off the queue; the drain loop goes on.                  *)
Receive(cmd) ==
    /\ pc = "drain"
    /\ queue # <<>>
    /\ Head(queue) = cmd
    /\ queue' = Tail(queue)
    /\ UNCHANGED <<pc, parkPid, tracked, daemonVars, limitVars, procVars,
                   sigPending, sockEdge>>

(* PTRACE_INTERRUPT of init: fails, unnoticed, when init is not seized.    *)
InterruptInit == initIntr' = (initIntr \/ initSeized) /\ UNCHANGED <<initSeized,
                                                                     initStop>>

(* PTRACE_SEIZE of init, its result ignored.                               *)
SeizeInit ==
    /\ \/ initSeized' = TRUE
       \/ SeizeMayFail /\ initSeized' = initSeized
    /\ UNCHANGED <<initStop, initIntr>>

(* handle_start.  Mutants: Start in any state, no seize.                   *)
HandleStartAlways ==
    /\ Receive("start")
    /\ tracing' = "Tracing"
    /\ IF tracing = "Stopped" THEN SeizeInit ELSE UNCHANGED initVars

HandleStartNoSeize ==
    /\ Receive("start")
    /\ tracing' = IF tracing \in {"Stopping", "Stopped"} THEN "Tracing" ELSE tracing
    /\ UNCHANGED initVars

HandleStart ==
    /\ Receive("start")
    /\ tracing' = IF tracing \in {"Stopping", "Stopped"} THEN "Tracing" ELSE tracing
    /\ IF tracing = "Stopped" THEN SeizeInit ELSE UNCHANGED initVars

HandleStop ==
    /\ Receive("stop")
    /\ IF tracing = "Tracing" THEN tracing' = "Stopping" /\ InterruptInit
       ELSE UNCHANGED <<tracing, initVars>>

HandleExit == Receive("exit") /\ tracing' = "Exiting" /\ UNCHANGED initVars

(* A report, or a reason to stop, only changes the text of the status; a   *)
(* command with a payload, an unknown one and a report that cannot be      *)
(* decoded are ignored.                                                    *)
HandleOther == Receive("other") /\ UNCHANGED <<tracing, initVars>>

-----------------------------------------------------------------------------
(*                        The SIGCHLD signalfd                             *)

(* epoll_wait reports the signalfd and its siginfo is read; what follows   *)
(* is the waitpid loop.                                                    *)
EpollSignal ==
    /\ pc = "idle"
    /\ sigPending
    /\ pc' = "reap"
    /\ sigPending' = FALSE
    /\ UNCHANGED <<tracing, parkPid, tracked, daemonVars, limitVars,
                   initVars, procVars, sockVars>>

(* waitpid returns 0, or fails with ECHILD in state Stopped; the signalfd  *)
(* is read again.  In any other state ECHILD repeats the waitpid for ever. *)
NothingToReap ==
    /\ Reaping
    /\ ~InitReportable
    /\ \A p \in Pids : ~Reportable(p)
    /\ HasChildren \/ tracing = "Stopped"
    /\ pc' = IF sigPending THEN "reap" ELSE "idle"
    /\ sigPending' = FALSE
    /\ UNCHANGED <<tracing, parkPid, tracked, daemonVars, limitVars,
                   initVars, procVars, sockVars>>

(* PTRACE_DETACH of init ends its custody and cancels a pending interrupt. *)
DetachInit == initSeized' = FALSE /\ initStop' = "run" /\ initIntr' = FALSE

ResumeInit == initStop' = "run" /\ UNCHANGED <<initSeized, initIntr>>

InitHandled == UNCHANGED <<pc, parkPid, tracked, daemonVars, limitVars,
                           procVars, sigPending, sockVars>>

(* Init's stop is reaped: the interrupt asked for by a stop detaches it,   *)
(* every other stop resumes it (a job-control stop signal is suppressed,   *)
(* any other signal injected).  Mutants: any trap detaches, none does, a   *)
(* stop signal leaves init stopped.                                        *)
ReapInitAlwaysDetach ==
    /\ Reaping /\ InitReportable
    /\ IF initStop = "trap" THEN DetachInit ELSE ResumeInit
    /\ tracing' = IF initStop = "trap" /\ tracing = "Stopping" THEN "Stopped" ELSE tracing
    /\ InitHandled

ReapInitNeverDetach ==
    Reaping /\ InitReportable /\ ResumeInit /\ UNCHANGED tracing /\ InitHandled

ReapInitKeepJobStop ==
    /\ Reaping /\ InitReportable /\ initStop # "jobstop"
    /\ IF initStop = "trap" /\ tracing = "Stopping"
       THEN DetachInit /\ tracing' = "Stopped"
       ELSE ResumeInit /\ UNCHANGED tracing
    /\ InitHandled

ReapInit ==
    /\ Reaping /\ InitReportable
    /\ IF initStop = "trap" /\ tracing = "Stopping"
       THEN DetachInit /\ tracing' = "Stopped"
       ELSE ResumeInit /\ UNCHANGED tracing
    /\ InitHandled

-----------------------------------------------------------------------------
(* ensure_daemon_created(a): d is the forked daemon or NoPid, ok what it   *)
(* returns.                                                                *)
EnsureDaemon(a, d, ok, procs) ==
    /\ IF daemonPid[a] # NoPid THEN d = NoPid /\ ok = daemonRunning[a]
       ELSE IF ok THEN d \in Pids /\ procs[d] = "none" ELSE d = NoPid
    /\ IF d = NoPid THEN UNCHANGED daemonVars
       ELSE /\ supported' = [supported EXCEPT ![a] = TRUE]
            /\ daemonPid' = [daemonPid EXCEPT ![a] = d]
            /\ daemonRunning' = [daemonRunning EXCEPT ![a] = TRUE]

WithDaemon(procs, d) == IF d = NoPid THEN procs ELSE [procs EXCEPT ![d] = "daemon"]
WithDaemonAbi(abis, d, a) == IF d = NoPid THEN abis ELSE [abis EXCEPT ![d] = a]

(* Mutant: daemon_pid is not cleared, so the daemon is not forked again. *)
RespawnKeepsPid(p, a, within, d) ==
    /\ d = NoPid
    /\ respawn' = [respawn EXCEPT ![a] = Bumped(respawn[a], within)]
    /\ daemonRunning' = [daemonRunning EXCEPT ![a] = FALSE]
    /\ proc' = [proc EXCEPT ![p] = "none"]
    /\ abi' = [abi EXCEPT ![p] = AnyAbi]
    /\ UNCHANGED <<supported, daemonPid>>

(* check_daemon_exit recognises a daemon: forget its pid, keep the first   *)
(* error, and respawn it unless the crash limiter says to leave it down.   *)
RespawnDaemon(p, a, within, d) ==
    LET count == Bumped(respawn[a], within)
        ok == d # NoPid
    IN  /\ respawn' = [respawn EXCEPT ![a] = count]
        /\ IF LimitReached(count) THEN d = NoPid ELSE ok => proc[d] = "none"
        /\ supported' = supported
        /\ daemonPid' = [daemonPid EXCEPT ![a] = d]
        /\ daemonRunning' = [daemonRunning EXCEPT ![a] = ok]
        /\ proc' = WithDaemon([proc EXCEPT ![p] = "none"], d)
        /\ abi' = WithDaemonAbi([abi EXCEPT ![p] = AnyAbi], d, a)

CheckDaemonExit(p) ==
    /\ Reaping /\ Reportable(p)
    /\ \E a \in Abis, within \in BOOLEAN, d \in Pids \cup {NoPid} :
         IsDaemonExit(p, a) /\ RespawnDaemon(p, a, within, d)
    /\ UNCHANGED <<tracing, pc, parkPid, tracked, counter, initVars, kind,
                   sigPending, sockVars>>

(* The part of handle_sigchld_child behind check_daemon_exit.              *)
ReapChild(p) == Reaping /\ Reportable(p) /\ ~\E a \in Abis : IsDaemonExit(p, a)

ChildHandled == UNCHANGED <<tracing, pc, parkPid, daemonVars, limitVars,
                            initVars, sigPending, sockVars>>

(* An untracked pid: a stop introduces a tracee, an exit is nobody's.      *)
NewTracee(p) ==
    /\ ReapChild(p) /\ p \notin tracked /\ proc[p] \in TraceStops
    /\ tracked' = tracked \cup {p}
    /\ proc' = [proc EXCEPT ![p] = "run"]
    /\ Forget(p)
    /\ ChildHandled

UntrackedExit(p) ==
    /\ ReapChild(p) /\ p \notin tracked /\ proc[p] \in {"zombie", "dzombie"}
    /\ proc' = [proc EXCEPT ![p] = "none"]
    /\ Forget(p)
    /\ UNCHANGED tracked
    /\ ChildHandled

(* Mutant: the stop is suppressed but the child not resumed. *)
SuppressStopNoCont(p) ==
    /\ ReapChild(p) /\ p \in tracked
    /\ tracing = "Tracing" /\ IsStoppingSignalStop(proc[p])
    /\ proc' = [proc EXCEPT ![p] = "frozen"]
    /\ UNCHANGED <<tracked, kind, abi>>
    /\ ChildHandled

(* A tracked child took a stop signal before its exec: suppress it, stay   *)
(* attached.                                                               *)
SuppressStop(p) ==
    /\ ReapChild(p) /\ p \in tracked
    /\ tracing = "Tracing" /\ IsStoppingSignalStop(proc[p])
    /\ proc' = [proc EXCEPT ![p] = "run"]
    /\ UNCHANGED <<tracked, kind, abi>>
    /\ ChildHandled

(* Any other report of a tracked child that is not its exec: forget it,    *)
(* and detach it if it is stopped.                                         *)
DropTracee(p) ==
    /\ ReapChild(p) /\ p \in tracked /\ proc[p] # "exec"
    /\ ~(tracing = "Tracing" /\ IsStoppingSignalStop(proc[p]))
    /\ tracked' = tracked \ {p}
    /\ proc' = [proc EXCEPT ![p] = IF @ = "zombie" THEN "none" ELSE "released"]
    /\ Forget(p)
    /\ ChildHandled

-----------------------------------------------------------------------------
(*              PTRACE_EVENT_EXEC of a tracked child                       *)

ReapExec(p) == ReapChild(p) /\ p \in tracked /\ proc[p] = "exec"

(* get_program fails: the child is forgotten as it is, in its exec-stop.   *)
ProgramUnreadable(p) ==
    /\ ProcMayFail
    /\ ReapExec(p)
    /\ tracked' = tracked \ {p}
    /\ proc' = [proc EXCEPT ![p] = "frozen"]
    /\ UNCHANGED <<kind, abi>>
    /\ ChildHandled

(* The /proc gate.  It fails open: when /proc/<pid> cannot be read any     *)
(* app_process passes for a zygote.                                        *)
PassesGate(k, readable) == k \in {"zygote", "tango"} \/ (k = "app_process" /\ ~readable)

Release(p) ==
    /\ tracked' = tracked \ {p}
    /\ Forget(p)

(* Not a zygote, or not tracing: detach.                                   *)
NotHandedOff(p) ==
    /\ ReapExec(p)
    /\ \E readable \in {TRUE, ~ProcMayFail} :
         ~PassesGate(kind[p], readable) \/ tracing # "Tracing"
    /\ proc' = [proc EXCEPT ![p] = "released"]
    /\ Release(p)
    /\ ChildHandled

(* The restart counter of the zygote's ABI counts this start.              *)
CountStart(p, count) ==
    /\ ReapExec(p)
    /\ tracing = "Tracing"
    /\ \E readable \in {TRUE, ~ProcMayFail} : PassesGate(kind[p], readable)
    /\ \E within \in BOOLEAN : count = Bumped(counter[abi[p]], within)
    /\ counter' = [counter EXCEPT ![abi[p]] = count]

StopInjecting == tracing' = "Stopping" /\ InterruptInit

(* Too many restarts, or no daemon to serve the zygote: give up injecting. *)
ZygoteCrashed(p) ==
    /\ \E count \in CountRange : CountStart(p, count) /\ LimitReached(count)
    /\ StopInjecting
    /\ proc' = [proc EXCEPT ![p] = "released"]
    /\ Release(p)
    /\ UNCHANGED <<pc, parkPid, daemonVars, respawn, sigPending, sockVars>>

NoDaemon(p) ==
    /\ \E count \in CountRange : CountStart(p, count) /\ ~LimitReached(count)
    /\ EnsureDaemon(abi[p], NoPid, FALSE, proc)
    /\ StopInjecting
    /\ proc' = [proc EXCEPT ![p] = "released"]
    /\ Release(p)
    /\ UNCHANGED <<pc, parkPid, respawn, sigPending, sockVars>>

(* A tango translator is detached without a stop and its tracer launched;  *)
(* if that cannot be done it is killed.                                    *)
HandoffTango(p) ==
    /\ kind[p] = "tango"
    /\ \E count \in CountRange : CountStart(p, count) /\ ~LimitReached(count)
    /\ \E d \in Pids \cup {NoPid}, s \in {"deferred", "none"} :
         /\ EnsureDaemon(abi[p], d, TRUE, proc)
         /\ proc' = WithDaemon([proc EXCEPT ![p] = s], d)
         /\ kind' = IF s = "none" THEN [kind EXCEPT ![p] = "none"] ELSE kind
         /\ abi' = WithDaemonAbi(IF s = "none" THEN [abi EXCEPT ![p] = AnyAbi] ELSE abi,
                                 d, abi[p])
    /\ tracked' = tracked \ {p}
    /\ UNCHANGED <<tracing, pc, parkPid, respawn, initVars, sigPending,
                   sockVars>>

(* A zygote is sent SIGSTOP and resumed; the monitor waits for it to park. *)
HandoffPark(p) ==
    /\ kind[p] # "tango"
    /\ \E count \in CountRange : CountStart(p, count) /\ ~LimitReached(count)
    /\ \E d \in Pids \cup {NoPid} :
         /\ EnsureDaemon(abi[p], d, TRUE, proc)
         /\ proc' = WithDaemon([proc EXCEPT ![p] = "run"], d)
         /\ abi' = WithDaemonAbi(abi, d, abi[p])
    /\ pc' = "park"
    /\ parkPid' = p
    /\ UNCHANGED <<tracing, tracked, respawn, initVars,
                   kind, sigPending, sockVars>>

-----------------------------------------------------------------------------
(*        The bounded wait of consider_handoff for the group-stop          *)

Parking(p) == pc = "park" /\ parkPid = p

EndPark(p) ==
    /\ pc' = "reap"
    /\ parkPid' = NoPid
    /\ tracked' = tracked \ {p}
    /\ UNCHANGED <<tracing, daemonVars, limitVars, initVars, sigPending,
                   sockVars>>

(* It parked: detach it stopped and launch its tracer, or kill it when the *)
(* tracer cannot be launched.                                              *)
Parked(p) ==
    /\ Parking(p) /\ IsParked(proc[p])
    /\ \/ proc' = [proc EXCEPT ![p] = "held"] /\ UNCHANGED <<kind, abi>>
       \/ proc' = [proc EXCEPT ![p] = "none"] /\ Forget(p)
    /\ EndPark(p)

(* Another stop: ask for the group-stop again and resume it.               *)
ParkForeignStop(p) ==
    /\ Parking(p) /\ proc[p] \in TraceStops /\ ~IsParked(proc[p])
    /\ proc' = [proc EXCEPT ![p] = "run"]
    /\ UNCHANGED <<pc, parkPid, tracked, kind, abi, tracing, daemonVars,
                   limitVars, initVars, sigPending, sockVars>>

ParkExited(p) ==
    /\ Parking(p) /\ proc[p] = "zombie"
    /\ proc' = [proc EXCEPT ![p] = "none"]
    /\ Forget(p)
    /\ EndPark(p)

(* Mutant: the zygote given up on stays in tracked. *)
ParkTimeoutKeepTracked(p) ==
    /\ Parking(p)
    /\ IF proc[p] \in TraceStops
       THEN proc' = [proc EXCEPT ![p] = "released"] /\ Forget(p)
       ELSE UNCHANGED procVars
    /\ pc' = "reap"
    /\ parkPid' = NoPid
    /\ UNCHANGED <<tracing, daemonVars, limitVars, tracked, initVars,
                   sigPending, sockVars>>

(* Ten seconds have passed since the last look.  The detaches that follow  *)
(* only take effect on a zygote that has stopped in the meantime; a        *)
(* running one stays our tracee, no longer tracked.                        *)
ParkTimeout(p) ==
    /\ Parking(p)
    /\ IF proc[p] \in TraceStops
       THEN proc' = [proc EXCEPT ![p] = "released"] /\ Forget(p)
       ELSE UNCHANGED procVars
    /\ EndPark(p)

-----------------------------------------------------------------------------
(* watchdog_check_init, on an epoll_wait that timed out.                   *)
Watchdog ==
    /\ pc = "idle" /\ ~sigPending /\ ~sockEdge
    /\ tracing = "Tracing" /\ InitReportable
    /\ ResumeInit
    /\ UNCHANGED <<monitorVars, procVars, sigPending, sockVars>>

-----------------------------------------------------------------------------
(*               The kernel, init, its children, the daemons               *)

(* PTRACE_O_TRACEFORK: the child starts attached and stopped, init stops.  *)
InitForks(p) ==
    /\ initSeized /\ initStop = "run" /\ p \in Children /\ proc[p] = "none"
    /\ initStop' = "fork"
    /\ proc' = [proc EXCEPT ![p] = "evstop"]
    /\ sigPending' = TRUE
    /\ UNCHANGED <<monitorVars, initSeized, initIntr, kind, abi, sockVars>>

(* Init takes a signal: a job-control stop signal, or another.  A pending  *)
(* interrupt traps before the next signal is delivered.                    *)
InitSignalled ==
    /\ initSeized /\ initStop = "run" /\ ~initIntr
    /\ initStop' \in {"jobstop", "sigstop"}
    /\ sigPending' = TRUE
    /\ UNCHANGED <<monitorVars, initSeized, initIntr, procVars, sockVars>>

(* The PTRACE_INTERRUPT takes effect.                                      *)
InitTraps ==
    /\ initSeized /\ initIntr /\ initStop = "run"
    /\ initStop' = "trap"
    /\ initIntr' = FALSE
    /\ sigPending' = TRUE
    /\ UNCHANGED <<monitorVars, initSeized, procVars, sockVars>>

ChildMoves == UNCHANGED <<monitorVars, initVars, sockVars>>

(* A running tracee stops; the group-stop a parking zygote was asked for   *)
(* may be reported as PTRACE_EVENT_STOP.                                   *)
ChildStops(p) ==
    /\ proc[p] = "run"
    /\ \E s \in {"jobstop", "sigstop"} \cup (IF Parking(p) THEN {"evstop"} ELSE {}) :
         proc' = [proc EXCEPT ![p] = s]
    /\ sigPending' = TRUE
    /\ UNCHANGED <<kind, abi>>
    /\ ChildMoves

(* An app_process that is no zygote is told from any other program only     *)
(* when the read of its command line may fail.                             *)
ChildExecs(p) ==
    /\ proc[p] = "run" /\ ~Parking(p)
    /\ proc' = [proc EXCEPT ![p] = "exec"]
    /\ \E k \in ProgramKinds \ {"none"}, a \in Abis :
         /\ k = "tango" => a = "32"
         /\ k = "app_process" => ProcMayFail
         /\ kind' = [kind EXCEPT ![p] = k]
         /\ abi' = [abi EXCEPT ![p] = IF k = "other" THEN AnyAbi ELSE a]
    /\ sigPending' = TRUE
    /\ ChildMoves

ChildDies(p) ==
    /\ proc[p] \in AttachedStates \ {"zombie"}
    /\ proc' = [proc EXCEPT ![p] = "zombie"]
    /\ sigPending' = TRUE
    /\ UNCHANGED <<kind, abi>>
    /\ ChildMoves

(* A process the monitor does not trace dies; init reaps it.               *)
UntracedDies(p) ==
    /\ proc[p] \in HandedStates \cup {"released"}
    /\ proc' = [proc EXCEPT ![p] = "none"]
    /\ Forget(p)
    /\ UNCHANGED sigPending
    /\ ChildMoves

(* The tracer injects libzygisk and lets the zygote run (a failing tracer  *)
(* kills it: UntracedDies).                                                *)
TracerInjects(p) ==
    /\ proc[p] \in {"held", "deferred"}
    /\ proc' = [proc EXCEPT ![p] = "injected"]
    /\ UNCHANGED <<kind, abi, sigPending>>
    /\ ChildMoves

DaemonDies(p) ==
    /\ proc[p] = "daemon" /\ pc # "exited"
    /\ proc' = [proc EXCEPT ![p] = "dzombie"]
    /\ sigPending' = TRUE
    /\ UNCHANGED <<kind, abi>>
    /\ ChildMoves

(* ctl, a daemon or anyone else sends one datagram: epoll has a new edge.  *)
SendDatagram ==
    /\ pc # "exited" /\ Len(queue) < MaxQueue
    /\ \E cmd \in Commands : queue' = Append(queue, cmd)
    /\ sockEdge' = TRUE
    /\ UNCHANGED <<monitorVars, initVars, procVars, sigPending>>

-----------------------------------------------------------------------------
ReceiveDatagram == HandleStart \/ HandleStop \/ HandleExit \/ HandleOther

ReapReport(p) ==
    \/ CheckDaemonExit(p) \/ NewTracee(p) \/ UntrackedExit(p) \/ SuppressStop(p)
    \/ DropTracee(p) \/ ProgramUnreadable(p) \/ NotHandedOff(p) \/ ZygoteCrashed(p)
    \/ NoDaemon(p) \/ HandoffTango(p) \/ HandoffPark(p)

ParkStep(p) == Parked(p) \/ ParkForeignStop(p) \/ ParkExited(p) \/ ParkTimeout(p)

MonitorStep ==
    \/ EpollSocket \/ ReceiveNone \/ ReceiveDatagram
    \/ EpollSignal \/ NothingToReap \/ ReapInit
    \/ \E p \in Pids : ReapReport(p) \/ ParkStep(p)
    \/ Watchdog

EnvironmentStep ==
    \/ InitSignalled \/ InitTraps \/ SendDatagram
    \/ \E p \in Pids :
         \/ InitForks(p) \/ ChildStops(p) \/ ChildExecs(p) \/ ChildDies(p)
         \/ UntracedDies(p) \/ TracerInjects(p) \/ DaemonDies(p)

Next == MonitorStep \/ EnvironmentStep

Spec == Init /\ [][Next]_vars

(***************************************************************************)
(* Fairness.  The monitor's thread is scheduled and the kernel delivers    *)
(* the trap of a PTRACE_INTERRUPT.  epoll_wait takes both descriptors at   *)
(* once, so neither is passed over for ever.  waitpid looks for reports    *)
(* along a list; a stopped init forks nothing, so only finitely many new   *)
(* entries can precede its own, and the same goes for a stopped child.     *)
(* ParkTimeout: the ten seconds pass, whatever the zygote does meanwhile.  *)
(* Pauses: nobody floods the socket faster than it is drained for ever.    *)
(***************************************************************************)
Pauses == []<>(queue = <<>>)

Fairness ==
    /\ WF_vars(MonitorStep)
    /\ Pauses
    /\ SF_vars(InitTraps)
    /\ SF_vars(EpollSignal) /\ SF_vars(EpollSocket) /\ SF_vars(ReceiveNone)
    /\ SF_vars(ReapInit)
    /\ \A p \in Pids : SF_vars(ReapReport(p)) /\ WF_vars(ParkTimeout(p))

FairSpec == Spec /\ Fairness

-----------------------------------------------------------------------------
TypeOK ==
    /\ tracing \in TracingState
    /\ pc \in {"idle", "drain", "reap", "park", "exited"}
    /\ parkPid \in Pids \cup {NoPid}
    /\ tracked \subseteq Pids
    /\ supported \in [Abis -> BOOLEAN]
    /\ daemonPid \in [Abis -> Pids \cup {NoPid}]
    /\ daemonRunning \in [Abis -> BOOLEAN]
    /\ counter \in [Abis -> CountRange]
    /\ respawn \in [Abis -> CountRange]
    /\ initSeized \in BOOLEAN
    /\ initStop \in {"run", "fork", "jobstop", "sigstop", "trap"}
    /\ initIntr \in BOOLEAN
    /\ proc \in [Pids -> ProcState]
    /\ kind \in [Pids -> ProgramKinds]
    /\ abi \in [Pids -> Abis \cup {AnyAbi}]
    /\ sigPending \in BOOLEAN
    /\ sockEdge \in BOOLEAN
    /\ queue \in Seq(CommandKinds)

(* While the monitor is Stopping the interrupt that will let it detach     *)
(* init is pending or its trap is waiting to be reaped, whatever Start and *)
(* Stop commands, forks, signals and watchdog ticks came in between.       *)
StopIsUnderway ==
    tracing = "Stopping" /\ initSeized => initIntr \/ initStop = "trap"

(* In state Stopped the monitor is not init's tracer, and (unless          *)
(* PTRACE_SEIZE failed on a restart) in Tracing and Stopping it is; a stop *)
(* that was asked for is on its way.  handle_start, handle_stop,           *)
(* consider_handoff and the detach of handle_sigchld_child keep them in    *)
(* step.                                                                   *)
InitCustody ==
    /\ tracing = "Stopped" => ~initSeized
    /\ tracing \in {"Tracing", "Stopping"} /\ ~SeizeMayFail => initSeized
    /\ ~initSeized => initStop = "run" /\ ~initIntr
    /\ StopIsUnderway

(* waitpid has somebody to wait for whenever the SIGCHLD loop calls it,    *)
(* except in state Stopped: ECHILD in another state makes the loop spin.   *)
NeverWaitsForNobody == Reaping => HasChildren \/ tracing = "Stopped"

(* Every slot of tracked names a process the monitor traces, so a stop     *)
(* report of a reused pid is never taken for an earlier child's.           *)
TrackedAreTracees ==
    /\ \A p \in tracked : proc[p] \in AttachedStates \ {"frozen"}
    /\ pc = "park" => parkPid \in tracked

(* The daemon recorded for an ABI is that ABI's only daemon process, alive *)
(* or not yet reaped: no daemon is forked while another one still exists.  *)
OneDaemonPerAbi ==
    /\ \A a \in Abis :
         /\ daemonRunning[a] <=> daemonPid[a] # NoPid
         /\ daemonPid[a] # NoPid =>
               supported[a] /\ abi[daemonPid[a]] = a
    /\ \A p \in Pids : proc[p] \in DaemonStates /\ pc # "exited" =>
         abi[p] \in Abis /\ daemonPid[abi[p]] = p

(* A child's report never waits without a wake-up: the signalfd is         *)
(* readable or the waitpid loop is still running.  (A report of before     *)
(* SIGCHLD was blocked can wait; the watchdog exists for it.)              *)
ReportPending == InitReportable \/ \E p \in Pids : Reportable(p)
NoLostReport ==
    ReportPending /\ ~StartupRace => sigPending \/ pc \in {"reap", "park"}

(* A datagram never waits in the socket without epoll having an edge to    *)
(* report, or the drain loop still running.                                *)
NoLostDatagram == queue # <<>> => sockEdge \/ pc \in {"drain", "exited"}

(* Whatever there is to do, something will wake the monitor up for it.      *)
NoLostWakeup == NoLostReport /\ NoLostDatagram

(* handle_exit is final: Start and Stop commands drained after Exit do not *)
(* revive the monitor.                                                     *)
ExitIsFinal == [][tracing = "Exiting" => tracing' = "Exiting"]_vars

(* A process is handed to a tracer only while tracing, if the /proc gate   *)
(* lets it pass for a zygote, with a daemon recorded as running for its    *)
(* ABI and the restart limiter not exhausted.                              *)
HandsOver(p) == proc[p] \notin HandedStates /\ proc'[p] \in HandedStates
HandoffIsGated ==
    [][\A p \in Pids : HandsOver(p) =>
         /\ tracing = "Tracing"
         /\ kind[p] \in {"zygote", "tango"} \/ (ProcMayFail /\ kind[p] = "app_process")
         /\ daemonRunning'[abi[p]]
         /\ counter'[abi[p]] < MaxRetryCount]_vars

(* The processes init forks are followed, decided once and handed over or  *)
(* let go as TraceeCustody says: none is let go before its exec because of *)
(* a job-control stop, handed over twice or followed again when free.      *)
CustodyOf(p) ==
    CASE proc[p] \in {"none", "zombie"} \cup DaemonStates -> "absent"
      [] proc[p] = "released"                             -> "free"
      [] proc[p] \in HandedStates                         -> "handed"
      [] OTHER -> IF kind[p] # "none"
                  THEN IF p \in tracked THEN "deciding" ELSE "forgotten"
                  ELSE IF proc[p] = "sigstop" THEN "signalled" ELSE "followed"

Abstract == INSTANCE TraceeCustody WITH
    Processes <- Pids, on <- (tracing = "Tracing"), custody <- [p \in Pids |-> CustodyOf(p)]

ImplementsCustody == Abstract!Spec

(* "Boot watchdog: init must never stay frozen, whatever happens           *)
(* elsewhere" (monitor.rs:678): init leaves every ptrace-stop.             *)
InitNotFrozen == initStop # "run" ~> initStop = "run"

(* A requested or forced stop of the tracing completes (or is revoked).    *)
StopCompletes == tracing = "Stopping" ~> tracing # "Stopping"

(* No tracee is left in a ptrace-stop.                                     *)
TraceesNotFrozen ==
    \A p \in Children : proc[p] \in TraceStops \cup {"frozen"}
                    ~> proc[p] \notin TraceStops \cup {"frozen"}
=============================================================================
