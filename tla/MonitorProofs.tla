---------------------------- MODULE MonitorProofs ----------------------------
(* Theorems about Monitor, for every set of processes and ABIs, every retry *)
(* limit and every bound on the socket.                                     *)
EXTENDS Monitor, TLAPS

(* Queue operations stay within Seq(CommandKinds). *)
LEMMA QueueTail ==
    ASSUME NEW q \in Seq(CommandKinds), q # <<>>
    PROVE  Tail(q) \in Seq(CommandKinds) /\ Head(q) \in CommandKinds
  OBVIOUS

(* A start keeps a restart counter in its range. *)
LEMMA BumpedType ==
    ASSUME NEW n \in CountRange, NEW within \in BOOLEAN
    PROVE  Bumped(n, within) \in CountRange
  BY RetryAssumption DEF Bumped, CountRange, Never

(* An interrupt of init keeps the types of init's custody. *)
LEMMA InterruptType ==
    ASSUME initIntr \in BOOLEAN, initSeized \in BOOLEAN, InterruptInit
    PROVE  initIntr' \in BOOLEAN /\ initSeized' = initSeized /\ initStop' = initStop
  <1>1. (initIntr \/ initSeized) \in BOOLEAN
    BY Zenon
  <1> QED BY <1>1, Zenon DEF InterruptInit

-----------------------------------------------------------------------------
LEMMA SocketStepType ==
    ASSUME TypeOK, EpollSocket \/ ReceiveNone \/ ReceiveDatagram \/ EpollSignal \/ NothingToReap
    PROVE  TypeOK'
  <1> USE DEF TypeOK, daemonVars, limitVars, initVars, procVars, sockVars
  <1>1. CASE EpollSocket
    BY <1>1 DEF EpollSocket
  <1>2. CASE EpollSignal \/ NothingToReap
    BY <1>2 DEF EpollSignal, NothingToReap
  <1>3. CASE ReceiveNone
    <2>1. queue' \in Seq(CommandKinds)
      BY <1>3, QueueTail DEF ReceiveNone
    <2>2. \A p \in Pids : Orphaned(proc[p]) \in ProcState
      BY DEF Orphaned, ProcState, AttachedStates, TraceStops, HandedStates, DaemonStates
    <2> QED BY <1>3, <2>1, <2>2 DEF ReceiveNone, LeaveCallback
  <1>4. CASE ReceiveDatagram
    <2>1. ASSUME NEW cmd, Receive(cmd)
          PROVE  queue' \in Seq(CommandKinds)
      BY <2>1, QueueTail DEF Receive
    <2>2. CASE HandleStart
      BY <2>2, <2>1 DEF HandleStart, Receive, SeizeInit, TracingState
    <2>3. CASE HandleStop
      <3>1. queue' \in Seq(CommandKinds)
        BY <2>3, <2>1 DEF HandleStop
      <3>2. initIntr' \in BOOLEAN /\ initSeized' \in BOOLEAN /\ initStop' = initStop
        BY <2>3, InterruptType DEF HandleStop
      <3> QED BY <2>3, <3>1, <3>2 DEF HandleStop, Receive, TracingState
    <2>4. CASE HandleExit
      BY <2>4, <2>1 DEF HandleExit, Receive, TracingState
    <2>5. CASE HandleOther
      BY <2>5, <2>1 DEF HandleOther, Receive
    <2> QED BY <1>4, <2>2, <2>3, <2>4, <2>5 DEF ReceiveDatagram
  <1> QED BY <1>1, <1>2, <1>3, <1>4

(* What ensure_daemon_created leaves of the daemon bookkeeping. *)
LEMMA EnsureDaemonType ==
    ASSUME TypeOK, NEW a \in Abis \cup {AnyAbi}, NEW d \in Pids \cup {NoPid},
           NEW ok \in BOOLEAN, EnsureDaemon(a, d, ok, proc)
    PROVE  /\ supported' \in [Abis -> BOOLEAN]
           /\ daemonPid' \in [Abis -> Pids \cup {NoPid}]
           /\ daemonRunning' \in [Abis -> BOOLEAN]
  BY DEF TypeOK, EnsureDaemon, daemonVars

(* A forked daemon is entered in the process table. *)
LEMMA WithDaemonType ==
    ASSUME NEW procs \in [Pids -> ProcState], NEW abis \in [Pids -> Abis \cup {AnyAbi}],
           NEW d \in Pids \cup {NoPid}, NEW a \in Abis \cup {AnyAbi}
    PROVE  /\ WithDaemon(procs, d) \in [Pids -> ProcState]
           /\ WithDaemonAbi(abis, d, a) \in [Pids -> Abis \cup {AnyAbi}]
  BY DEF WithDaemon, WithDaemonAbi, ProcState, DaemonStates

(* The process states by group. *)
LEMMA ProcStateGroups ==
    /\ {"none", "released", "run", "frozen", "zombie", "evstop", "jobstop", "sigstop",
        "exec", "held", "deferred", "injected", "daemon", "dzombie"} = ProcState
    /\ TraceStops \subseteq AttachedStates
    /\ AttachedStates \subseteq ProcState
    /\ {"none", "any"} \cap Abis = {}
  BY AbisAssumption DEF ProcState, AttachedStates, TraceStops, HandedStates, DaemonStates

(* A report that only concerns a child leaves the rest well-typed. *)
LEMMA ChildHandledType ==
    ASSUME TypeOK, ChildHandled,
           tracked' \subseteq Pids, proc' \in [Pids -> ProcState],
           kind' \in [Pids -> ProgramKinds], abi' \in [Pids -> Abis \cup {AnyAbi}]
    PROVE  TypeOK'
  <1>1. UNCHANGED <<tracing, pc, parkPid, supported, daemonPid, daemonRunning,
                    counter, respawn,
                    initSeized, initStop, initIntr, sigPending, sockEdge, queue>>
    BY DEF ChildHandled, daemonVars, limitVars, initVars, sockVars
  <1> QED BY <1>1 DEF TypeOK

LEMMA ReapStepType ==
    ASSUME TypeOK, NEW p \in Pids,
           \/ CheckDaemonExit(p) \/ NewTracee(p) \/ UntrackedExit(p) \/ SuppressStop(p)
           \/ DropTracee(p) \/ ProgramUnreadable(p) \/ NotHandedOff(p)
    PROVE  TypeOK'
  <1> USE DEF daemonVars, limitVars, initVars, procVars, sockVars
  <1>1. CASE CheckDaemonExit(p)
    <2>1. PICK a \in Abis, within \in BOOLEAN, d \in Pids \cup {NoPid} :
             RespawnDaemon(p, a, within, d)
      BY <1>1 DEF CheckDaemonExit
    <2>2. Bumped(respawn[a], within) \in CountRange
      BY BumpedType DEF TypeOK
    <2>3. /\ proc' \in [Pids -> ProcState]
          /\ abi' \in [Pids -> Abis \cup {AnyAbi}]
      <3>1. /\ [proc EXCEPT ![p] = "none"] \in [Pids -> ProcState]
            /\ [abi EXCEPT ![p] = AnyAbi] \in [Pids -> Abis \cup {AnyAbi}]
        BY ProcStateGroups DEF TypeOK
      <3> QED BY <2>1, <3>1, WithDaemonType DEF RespawnDaemon
    <2>4. /\ respawn' \in [Abis -> CountRange]
          /\ supported' \in [Abis -> BOOLEAN]
          /\ daemonPid' \in [Abis -> Pids \cup {NoPid}]
          /\ daemonRunning' \in [Abis -> BOOLEAN]
      BY <2>1, <2>2 DEF RespawnDaemon, TypeOK
    <2> QED BY <1>1, <2>3, <2>4 DEF CheckDaemonExit, TypeOK
  <1>2. CASE \/ NewTracee(p) \/ UntrackedExit(p) \/ SuppressStop(p) \/ DropTracee(p)
             \/ ProgramUnreadable(p) \/ NotHandedOff(p)
    <2>1. kind' \in [Pids -> ProgramKinds] /\ abi' \in [Pids -> Abis \cup {AnyAbi}]
      BY <1>2 DEF TypeOK, NewTracee, UntrackedExit, SuppressStop, DropTracee, ProgramUnreadable,
                  NotHandedOff, Release, Forget, ProgramKinds
    <2>2. proc' \in [Pids -> ProcState] /\ tracked' \subseteq Pids
      BY <1>2, ProcStateGroups DEF TypeOK, NewTracee, UntrackedExit, SuppressStop, DropTracee,
                  ProgramUnreadable, NotHandedOff, Release
    <2>3. ChildHandled
      BY <1>2 DEF NewTracee, UntrackedExit, SuppressStop, DropTracee, ProgramUnreadable,
                  NotHandedOff
    <2> QED BY <2>1, <2>2, <2>3, ChildHandledType
  <1> QED BY <1>1, <1>2

(* consider_handoff counts the start, within the counter's range. *)
LEMMA CountStartType ==
    ASSUME TypeOK, NEW p \in Pids, NEW count \in CountRange, CountStart(p, count)
    PROVE  counter' \in [Abis -> CountRange]
  BY DEF TypeOK, CountStart

LEMMA HandoffStepType ==
    ASSUME TypeOK, NEW p \in Pids,
           ZygoteCrashed(p) \/ NoDaemon(p) \/ HandoffTango(p) \/ HandoffPark(p)
    PROVE  TypeOK'
  <1> USE DEF daemonVars, limitVars, initVars, procVars, sockVars
  <1>1. counter' \in [Abis -> CountRange]
    BY CountStartType DEF ZygoteCrashed, NoDaemon, HandoffTango, HandoffPark
  <1>2. CASE ZygoteCrashed(p) \/ NoDaemon(p)
    <2>1. initIntr' \in BOOLEAN /\ initSeized' \in BOOLEAN /\ initStop' = initStop
      BY <1>2, InterruptType DEF TypeOK, ZygoteCrashed, NoDaemon, StopInjecting
    <2>2. kind' \in [Pids -> ProgramKinds] /\ abi' \in [Pids -> Abis \cup {AnyAbi}]
      BY <1>2 DEF TypeOK, ZygoteCrashed, NoDaemon, Release, Forget, ProgramKinds
    <2>3. proc' \in [Pids -> ProcState] /\ tracked' \subseteq Pids
      BY <1>2, ProcStateGroups DEF TypeOK, ZygoteCrashed, NoDaemon, Release
    <2>4. /\ supported' \in [Abis -> BOOLEAN]
          /\ daemonPid' \in [Abis -> Pids \cup {NoPid}]
          /\ daemonRunning' \in [Abis -> BOOLEAN]
      BY <1>2 DEF TypeOK, ZygoteCrashed, NoDaemon, EnsureDaemon
    <2> QED BY <1>1, <1>2, <2>1, <2>2, <2>3, <2>4
            DEF TypeOK, ZygoteCrashed, NoDaemon, StopInjecting, TracingState
  <1>3. CASE HandoffTango(p)
    <2>1. PICK d \in Pids \cup {NoPid}, s \in {"deferred", "none"} :
            /\ EnsureDaemon(abi[p], d, TRUE, proc)
            /\ proc' = WithDaemon([proc EXCEPT ![p] = s], d)
            /\ kind' = IF s = "none" THEN [kind EXCEPT ![p] = "none"] ELSE kind
            /\ abi' = WithDaemonAbi(IF s = "none" THEN [abi EXCEPT ![p] = AnyAbi] ELSE abi,
                                    d, abi[p])
      BY <1>3 DEF HandoffTango
    <2>2. /\ [proc EXCEPT ![p] = s] \in [Pids -> ProcState]
          /\ (IF s = "none" THEN [abi EXCEPT ![p] = AnyAbi] ELSE abi)
                \in [Pids -> Abis \cup {AnyAbi}]
          /\ kind' \in [Pids -> ProgramKinds]
      BY <2>1, ProcStateGroups DEF TypeOK, ProgramKinds
    <2>3. /\ proc' \in [Pids -> ProcState]
          /\ abi' \in [Pids -> Abis \cup {AnyAbi}]
      BY <2>1, <2>2, WithDaemonType DEF TypeOK
    <2>4. /\ supported' \in [Abis -> BOOLEAN]
          /\ daemonPid' \in [Abis -> Pids \cup {NoPid}]
          /\ daemonRunning' \in [Abis -> BOOLEAN]
      BY <2>1, EnsureDaemonType DEF TypeOK
    <2>5. /\ tracked' \subseteq Pids
          /\ UNCHANGED <<tracing, pc, parkPid, respawn,
                         initVars, sigPending, sockVars>>
      BY <1>3 DEF TypeOK, HandoffTango
    <2> QED BY <1>1, <2>2, <2>3, <2>4, <2>5 DEF TypeOK
  <1>4. CASE HandoffPark(p)
    <2>1. PICK d \in Pids \cup {NoPid} :
            /\ EnsureDaemon(abi[p], d, TRUE, proc)
            /\ proc' = WithDaemon([proc EXCEPT ![p] = "run"], d)
            /\ abi' = WithDaemonAbi(abi, d, abi[p])
      BY <1>4 DEF HandoffPark
    <2>2. [proc EXCEPT ![p] = "run"] \in [Pids -> ProcState]
      BY ProcStateGroups DEF TypeOK
    <2>3. /\ proc' \in [Pids -> ProcState]
          /\ abi' \in [Pids -> Abis \cup {AnyAbi}]
      BY <2>1, <2>2, WithDaemonType DEF TypeOK
    <2>4. /\ supported' \in [Abis -> BOOLEAN]
          /\ daemonPid' \in [Abis -> Pids \cup {NoPid}]
          /\ daemonRunning' \in [Abis -> BOOLEAN]
      BY <2>1, EnsureDaemonType DEF TypeOK
    <2> QED BY <1>1, <1>4, <2>3, <2>4 DEF TypeOK, HandoffPark
  <1> QED BY <1>2, <1>3, <1>4

LEMMA ParkStepType ==
    ASSUME TypeOK, NEW p \in Pids, ParkStep(p)
    PROVE  TypeOK'
  <1> USE DEF daemonVars, limitVars, initVars, procVars, sockVars
  <1>1. kind' \in [Pids -> ProgramKinds] /\ abi' \in [Pids -> Abis \cup {AnyAbi}]
    BY DEF TypeOK, ParkStep, Parked, ParkForeignStop, ParkExited, ParkTimeout, Forget,
           ProgramKinds
  <1>2. proc' \in [Pids -> ProcState]
    BY ProcStateGroups DEF TypeOK, ParkStep, Parked, ParkForeignStop, ParkExited, ParkTimeout
  <1>3. CASE ParkForeignStop(p)
    BY <1>1, <1>2, <1>3 DEF TypeOK, ParkForeignStop
  <1>4. CASE Parked(p) \/ ParkExited(p) \/ ParkTimeout(p)
    BY <1>1, <1>2, <1>4 DEF TypeOK, Parked, ParkExited, ParkTimeout, EndPark
  <1> QED BY <1>3, <1>4 DEF ParkStep

LEMMA InitStepType ==
    ASSUME TypeOK, ReapInit \/ Watchdog \/ InitSignalled \/ InitTraps
    PROVE  TypeOK'
  <1> USE DEF monitorVars, daemonVars, limitVars, initVars, procVars, sockVars
  <1>1. CASE ReapInit
    <2>1. initSeized' \in BOOLEAN /\ initIntr' \in BOOLEAN
      BY <1>1 DEF TypeOK, ReapInit, DetachInit, ResumeInit
    <2>2. initStop' = "run" /\ tracing' \in TracingState
      BY <1>1 DEF TypeOK, ReapInit, DetachInit, ResumeInit, TracingState
    <2> QED BY <1>1, <2>1, <2>2 DEF TypeOK, ReapInit, InitHandled
  <1>2. CASE Watchdog
    BY <1>2 DEF TypeOK, Watchdog, ResumeInit
  <1>3. CASE InitSignalled \/ InitTraps
    BY <1>3 DEF TypeOK, InitSignalled, InitTraps
  <1> QED BY <1>1, <1>2, <1>3

LEMMA ChildMoveType ==
    ASSUME TypeOK, NEW p \in Pids,
           \/ InitForks(p) \/ ChildStops(p) \/ ChildExecs(p) \/ ChildDies(p)
           \/ UntracedDies(p) \/ TracerInjects(p) \/ DaemonDies(p)
    PROVE  TypeOK'
  <1> USE DEF monitorVars, daemonVars, limitVars, initVars, procVars, sockVars
  <1>1. kind' \in [Pids -> ProgramKinds] /\ abi' \in [Pids -> Abis \cup {AnyAbi}]
    BY DEF TypeOK, InitForks, ChildStops, ChildExecs, ChildDies, UntracedDies, TracerInjects,
           DaemonDies, Forget, ProgramKinds
  <1>2. proc' \in [Pids -> ProcState]
    BY ProcStateGroups DEF TypeOK, InitForks, ChildStops, ChildExecs, ChildDies, UntracedDies,
                           TracerInjects, DaemonDies
  <1>3. CASE InitForks(p)
    BY <1>1, <1>2, <1>3 DEF TypeOK, InitForks
  <1>4. CASE \/ ChildStops(p) \/ ChildExecs(p) \/ ChildDies(p)
             \/ UntracedDies(p) \/ TracerInjects(p) \/ DaemonDies(p)
    <2>1. ChildMoves /\ sigPending' \in BOOLEAN
      BY <1>4 DEF TypeOK, ChildStops, ChildExecs, ChildDies, UntracedDies, TracerInjects,
                  DaemonDies
    <2> QED BY <1>1, <1>2, <2>1 DEF TypeOK, ChildMoves
  <1> QED BY <1>3, <1>4

LEMMA SendDatagramType ==
    ASSUME TypeOK, SendDatagram
    PROVE  TypeOK'
  BY CommandsAssumption
     DEF TypeOK, SendDatagram, monitorVars, daemonVars, limitVars, initVars, procVars

LEMMA InitType == Init => TypeOK
  <1> SUFFICES ASSUME Init PROVE TypeOK
    OBVIOUS
  <1>1. proc \in [Pids -> ProcState] /\ initStop \in {"run", "fork"}
    BY ProcStateGroups DEF Init
  <1>2. /\ counter \in [Abis -> CountRange] /\ respawn \in [Abis -> CountRange]
        /\ tracing \in TracingState
    BY RetryAssumption DEF Init, CountRange, Never, TracingState
  <1>3. kind \in [Pids -> ProgramKinds]
    BY DEF Init, ProgramKinds
  <1>4. queue \in Seq(CommandKinds)
    BY DEF Init
  <1>5. /\ supported \in [Abis -> BOOLEAN] /\ daemonPid \in [Abis -> Pids \cup {NoPid}]
        /\ daemonRunning \in [Abis -> BOOLEAN]
        /\ abi \in [Pids -> Abis \cup {AnyAbi}] /\ tracked \subseteq Pids
    BY DEF Init
  <1>6. /\ pc = "idle" /\ parkPid = NoPid
        /\ initSeized \in BOOLEAN /\ initIntr \in BOOLEAN
        /\ sigPending \in BOOLEAN /\ sockEdge \in BOOLEAN
    BY DEF Init
  <1> QED BY <1>1, <1>2, <1>3, <1>4, <1>5, <1>6 DEF TypeOK

LEMMA StepType == TypeOK /\ [Next]_vars => TypeOK'
  <1> SUFFICES ASSUME TypeOK, [Next]_vars PROVE TypeOK'
    OBVIOUS
  <1>1. CASE UNCHANGED vars
    BY <1>1 DEF TypeOK, vars, monitorVars, daemonVars, limitVars, initVars,
                procVars, sockVars
  <1>2. CASE MonitorStep
    BY <1>2, SocketStepType, ReapStepType, HandoffStepType, ParkStepType, InitStepType
       DEF MonitorStep, ReapReport
  <1>3. CASE EnvironmentStep
    BY <1>3, InitStepType, ChildMoveType, SendDatagramType DEF EnvironmentStep
  <1> QED BY <1>1, <1>2, <1>3 DEF Next

(* Type correctness, for every set of processes and ABIs and every limit. *)
THEOREM TypeCorrect == Spec => []TypeOK
  BY InitType, StepType, PTL DEF Spec

-----------------------------------------------------------------------------
(* Custody of init.  InitCustody is inductive together with where the       *)
(* monitor's thread is when it exits: the drain loop goes on after          *)
(* handle_exit, no other callback runs again.                               *)
ExitsFromDrain ==
    /\ tracing = "Exiting" => pc \in {"drain", "exited"}
    /\ pc = "exited" => ~initSeized /\ tracing = "Exiting"

CustodyInv == InitCustody /\ ExitsFromDrain

(* The steps that change nothing custody depends on. *)
LEMMA CustodyFrame ==
    ASSUME CustodyInv, UNCHANGED <<tracing, initSeized, initStop, initIntr>>,
           \/ pc' = pc
           \/ tracing # "Exiting" /\ pc' # "exited"
    PROVE  CustodyInv'
  BY DEF CustodyInv, InitCustody, StopIsUnderway, ExitsFromDrain

LEMMA CustodyStep == TypeOK /\ CustodyInv /\ [Next]_vars => CustodyInv'
  <1> SUFFICES ASSUME TypeOK, CustodyInv, [Next]_vars PROVE CustodyInv'
    OBVIOUS
  <1> USE DEF initVars
  <1>1. CASE UNCHANGED vars
    BY <1>1, CustodyFrame DEF vars, monitorVars
  <1>2. CASE EpollSocket \/ EpollSignal \/ NothingToReap
    <2>1. tracing # "Exiting" /\ pc' # "exited"
      BY <1>2 DEF EpollSocket, EpollSignal, NothingToReap, Reaping, CustodyInv, ExitsFromDrain
    <2> QED BY <1>2, <2>1, CustodyFrame DEF EpollSocket, EpollSignal, NothingToReap
  <1>3. CASE ReceiveNone
    <2>1. CASE tracing = "Exiting"
      BY <1>3, <2>1 DEF ReceiveNone, LeaveCallback, CustodyInv, InitCustody, StopIsUnderway,
                        ExitsFromDrain
    <2>2. CASE tracing # "Exiting"
      BY <1>3, <2>2, CustodyFrame DEF ReceiveNone, LeaveCallback
    <2> QED BY <2>1, <2>2
  <1>4. CASE HandleStart
    <2>1. pc = "drain" /\ pc' = pc
      BY <1>4 DEF HandleStart, Receive
    <2>2. CASE tracing = "Stopped"
      BY <1>4, <2>1, <2>2 DEF HandleStart, SeizeInit, CustodyInv, InitCustody, StopIsUnderway,
                              ExitsFromDrain, TypeOK
    <2>3. CASE tracing # "Stopped"
      BY <1>4, <2>1, <2>3 DEF HandleStart, CustodyInv, InitCustody, StopIsUnderway,
                              ExitsFromDrain, TypeOK, TracingState
    <2> QED BY <2>2, <2>3
  <1>5. CASE HandleStop
    <2>1. pc = "drain" /\ pc' = pc
      BY <1>5 DEF HandleStop, Receive
    <2>2. CASE tracing = "Tracing"
      <3>1. initSeized' = initSeized /\ initStop' = initStop /\ (initIntr' <=> initIntr \/ initSeized)
        BY <1>5, <2>2 DEF HandleStop, InterruptInit
      <3>2. tracing' = "Stopping"
        BY <1>5, <2>2 DEF HandleStop
      <3> QED BY <2>1, <2>2, <3>1, <3>2 DEF CustodyInv, InitCustody, StopIsUnderway,
                                            ExitsFromDrain
    <2>3. CASE tracing # "Tracing"
      BY <1>5, <2>1, <2>3, CustodyFrame DEF HandleStop
    <2> QED BY <2>2, <2>3
  <1>6. CASE HandleExit
    BY <1>6 DEF HandleExit, Receive, CustodyInv, InitCustody, StopIsUnderway, ExitsFromDrain
  <1>7. CASE HandleOther
    BY <1>7, CustodyFrame DEF HandleOther, Receive
  <1>8. CASE ReapInit
    <2>1. pc' = pc /\ pc = "reap"
      BY <1>8 DEF ReapInit, InitHandled, Reaping
    <2>2. CASE initStop = "trap" /\ tracing = "Stopping"
      BY <1>8, <2>1, <2>2 DEF ReapInit, DetachInit, CustodyInv, InitCustody, StopIsUnderway,
                              ExitsFromDrain
    <2>3. CASE ~(initStop = "trap" /\ tracing = "Stopping")
      BY <1>8, <2>1, <2>3 DEF ReapInit, ResumeInit, CustodyInv, InitCustody, StopIsUnderway,
                              ExitsFromDrain
    <2> QED BY <2>2, <2>3
  <1>9. CASE Watchdog
    BY <1>9 DEF Watchdog, ResumeInit, CustodyInv, InitCustody, StopIsUnderway, ExitsFromDrain,
                monitorVars
  <1>10. CASE InitSignalled \/ InitTraps \/ \E p \in Pids : InitForks(p)
    BY <1>10 DEF InitSignalled, InitTraps, InitForks, CustodyInv, InitCustody, StopIsUnderway,
                 ExitsFromDrain, monitorVars
  <1>11. ASSUME NEW p \in Pids, ZygoteCrashed(p) \/ NoDaemon(p)
         PROVE  CustodyInv'
    <2>1. tracing = "Tracing" /\ tracing' = "Stopping" /\ pc = "reap" /\ pc' = pc
      BY <1>11 DEF ZygoteCrashed, NoDaemon, CountStart, ReapExec, ReapChild, Reaping,
                   StopInjecting
    <2>2. initSeized' = initSeized /\ initStop' = initStop /\ (initIntr' <=> initIntr \/ initSeized)
      BY <1>11 DEF ZygoteCrashed, NoDaemon, StopInjecting, InterruptInit
    <2> QED BY <2>1, <2>2 DEF CustodyInv, InitCustody, StopIsUnderway, ExitsFromDrain
  <1>12. ASSUME NEW p \in Pids,
                \/ CheckDaemonExit(p) \/ NewTracee(p) \/ UntrackedExit(p) \/ SuppressStop(p)
                \/ DropTracee(p) \/ ProgramUnreadable(p) \/ NotHandedOff(p)
         PROVE  CustodyInv'
    BY <1>12, CustodyFrame
       DEF CheckDaemonExit, NewTracee, UntrackedExit, SuppressStop, DropTracee,
           ProgramUnreadable, NotHandedOff, ChildHandled
  <1>13. ASSUME NEW p \in Pids, HandoffTango(p) \/ HandoffPark(p)
         PROVE  CustodyInv'
    <2>1. UNCHANGED <<tracing, initSeized, initStop, initIntr>> /\ pc' \in {pc, "park"}
      BY <1>13 DEF HandoffTango, HandoffPark
    <2>2. tracing = "Tracing"
      BY <1>13 DEF HandoffTango, HandoffPark, CountStart
    <2> QED BY <2>1, <2>2, CustodyFrame
  <1>14. ASSUME NEW p \in Pids, ParkStep(p)
         PROVE  CustodyInv'
    <2>1. UNCHANGED <<tracing, initSeized, initStop, initIntr>> /\ pc' \in {pc, "reap"}
      BY <1>14 DEF ParkStep, Parked, ParkForeignStop, ParkExited, ParkTimeout, EndPark
    <2>2. pc = "park"
      BY <1>14 DEF ParkStep, Parked, ParkForeignStop, ParkExited, ParkTimeout, Parking
    <2> QED BY <2>1, <2>2, CustodyFrame DEF CustodyInv, ExitsFromDrain
  <1>15. CASE SendDatagram \/ \E p \in Pids : \/ ChildStops(p) \/ ChildExecs(p) \/ ChildDies(p)
                                              \/ UntracedDies(p) \/ TracerInjects(p)
                                              \/ DaemonDies(p)
    BY <1>15, CustodyFrame DEF SendDatagram, ChildStops, ChildExecs, ChildDies, UntracedDies,
                               TracerInjects, DaemonDies, ChildMoves, monitorVars
  <1> QED BY <1>1, <1>2, <1>3, <1>4, <1>5, <1>6, <1>7, <1>8, <1>9, <1>10, <1>11, <1>12,
             <1>13, <1>14, <1>15
          DEF Next, MonitorStep, ReceiveDatagram, ReapReport, EnvironmentStep

(* Whatever Start, Stop and Exit commands, restarts given up, forks, stops  *)
(* and traps of init do in between, the monitor's state and its hold on     *)
(* init stay in step.                                                       *)
THEOREM CustodyCorrect == Spec => []InitCustody
  <1>1. Init => CustodyInv
    BY DEF Init, CustodyInv, InitCustody, StopIsUnderway, ExitsFromDrain
  <1>2. Spec => []CustodyInv
    BY <1>1, CustodyStep, TypeCorrect, PTL DEF Spec
  <1>3. CustodyInv => InitCustody
    BY DEF CustodyInv
  <1> QED BY <1>2, <1>3, PTL
-----------------------------------------------------------------------------
(* The followed children.  TrackedAreTracees is inductive by itself.        *)
LEMMA GroupsApart ==
    /\ TraceStops \subseteq AttachedStates \ {"frozen", "zombie", "run"}
    /\ {"run", "zombie", "frozen"} \subseteq AttachedStates
    /\ AttachedStates \cap (HandedStates \cup DaemonStates \cup {"none", "released"}) = {}
    /\ HandedStates \cap (DaemonStates \cup {"none", "released"}) = {}
    /\ DaemonStates \cap {"none", "released"} = {}
    /\ {"evstop", "jobstop", "sigstop", "exec"} = TraceStops
    /\ {"daemon", "dzombie"} = DaemonStates
    /\ {"held", "deferred", "injected"} = HandedStates
  BY DEF AttachedStates, TraceStops, HandedStates, DaemonStates

(* One process moves; if it is tracked it stays a tracee. *)
LEMMA TrackMove ==
    ASSUME TypeOK, TrackedAreTracees, NEW p \in Pids, NEW s,
           proc' = [proc EXCEPT ![p] = s], tracked' = tracked, pc' = pc, parkPid' = parkPid,
           p \in tracked => s \in AttachedStates \ {"frozen"}
    PROVE  TrackedAreTracees'
  BY DEF TypeOK, TrackedAreTracees

(* One tracked process is forgotten, in the waitpid loop. *)
LEMMA TrackDrop ==
    ASSUME TypeOK, TrackedAreTracees, NEW p \in Pids, NEW s,
           proc' = [proc EXCEPT ![p] = s], tracked' = tracked \ {p}, pc' = "reap"
    PROVE  TrackedAreTracees'
  BY DEF TypeOK, TrackedAreTracees

(* A daemon is forked on a free process id. *)
LEMMA TrackFork ==
    ASSUME TypeOK, TrackedAreTracees, NEW procs \in [Pids -> ProcState],
           NEW d \in Pids \cup {NoPid}, d # NoPid => proc[d] = "none" /\ procs[d] = "none",
           \A q \in tracked' : q \in Pids /\ procs[q] \in AttachedStates \ {"frozen"},
           proc' = WithDaemon(procs, d),
           pc' = "park" => parkPid' \in tracked'
    PROVE  TrackedAreTracees'
  BY GroupsApart DEF TypeOK, TrackedAreTracees, WithDaemon

LEMMA TrackReap ==
    ASSUME TypeOK, TrackedAreTracees, NEW p \in Pids, ReapReport(p)
    PROVE  TrackedAreTracees'
  <1>1. CASE CheckDaemonExit(p)
    <2>1. PICK a \in Abis, within \in BOOLEAN, d \in Pids \cup {NoPid} :
             IsDaemonExit(p, a) /\ RespawnDaemon(p, a, within, d)
      BY <1>1 DEF CheckDaemonExit
    <2>2. p \notin tracked /\ proc[p] = "dzombie"
      BY <2>1, GroupsApart DEF IsDaemonExit, TrackedAreTracees
    <2> DEFINE procs == [proc EXCEPT ![p] = "none"]
    <2>3. /\ proc' = WithDaemon(procs, d) /\ procs \in [Pids -> ProcState]
          /\ d # NoPid => proc[d] = "none" /\ procs[d] = "none"
      BY <2>1, <2>2, ProcStateGroups DEF RespawnDaemon, TypeOK
    <2>4. \A q \in tracked : q \in Pids /\ procs[q] \in AttachedStates \ {"frozen"}
      BY <2>2 DEF TypeOK, TrackedAreTracees
    <2>5. tracked' = tracked /\ pc' = "reap"
      BY <1>1 DEF CheckDaemonExit, Reaping
    <2> HIDE DEF procs
    <2> QED BY <2>3, <2>4, <2>5, TrackFork
  <1>2. CASE NewTracee(p)
    BY <1>2, GroupsApart DEF NewTracee, ReapChild, Reaping, ChildHandled, TypeOK,
                             TrackedAreTracees
  <1>3. CASE UntrackedExit(p) \/ SuppressStop(p)
    <2>1. tracked' = tracked /\ pc' = pc /\ parkPid' = parkPid
      BY <1>3 DEF UntrackedExit, SuppressStop, ChildHandled
    <2> QED BY <1>3, <2>1, TrackMove, GroupsApart DEF UntrackedExit, SuppressStop
  <1>4. CASE DropTracee(p) \/ ProgramUnreadable(p) \/ NotHandedOff(p)
    <2>1. tracked' = tracked \ {p} /\ pc' = "reap"
      BY <1>4 DEF DropTracee, ProgramUnreadable, NotHandedOff, Release, ChildHandled, ReapExec,
                  ReapChild, Reaping
    <2> QED BY <1>4, <2>1, TrackDrop DEF DropTracee, ProgramUnreadable, NotHandedOff
  <1>5. CASE ZygoteCrashed(p) \/ NoDaemon(p)
    <2>1. tracked' = tracked \ {p} /\ pc' = "reap"
      BY <1>5 DEF ZygoteCrashed, NoDaemon, CountStart, Release, ReapExec, ReapChild, Reaping
    <2> QED BY <1>5, <2>1, TrackDrop DEF ZygoteCrashed, NoDaemon
  <1>6. CASE HandoffTango(p)
    <2>1. PICK d \in Pids \cup {NoPid}, s \in {"deferred", "none"} :
            /\ EnsureDaemon(abi[p], d, TRUE, proc)
            /\ proc' = WithDaemon([proc EXCEPT ![p] = s], d)
      BY <1>6 DEF HandoffTango
    <2>2. tracked' = tracked \ {p} /\ pc' = "reap" /\ proc[p] = "exec"
      BY <1>6 DEF HandoffTango, CountStart, ReapExec, ReapChild, Reaping
    <2> DEFINE procs == [proc EXCEPT ![p] = s]
    <2>3. /\ procs \in [Pids -> ProcState]
          /\ d # NoPid => proc[d] = "none" /\ procs[d] = "none"
      BY <2>1, <2>2, ProcStateGroups DEF EnsureDaemon, TypeOK
    <2>4. \A q \in tracked' : q \in Pids /\ procs[q] \in AttachedStates \ {"frozen"}
      BY <2>2 DEF TypeOK, TrackedAreTracees
    <2> HIDE DEF procs
    <2>5. proc' = WithDaemon(procs, d)
      BY <2>1 DEF procs
    <2> QED BY <2>2, <2>3, <2>4, <2>5, TrackFork
  <1>7. CASE HandoffPark(p)
    <2>1. PICK d \in Pids \cup {NoPid} :
            /\ EnsureDaemon(abi[p], d, TRUE, proc)
            /\ proc' = WithDaemon([proc EXCEPT ![p] = "run"], d)
      BY <1>7 DEF HandoffPark
    <2>2. tracked' = tracked /\ parkPid' = p /\ p \in tracked /\ proc[p] = "exec"
      BY <1>7 DEF HandoffPark, CountStart, ReapExec
    <2> DEFINE procs == [proc EXCEPT ![p] = "run"]
    <2>3. /\ procs \in [Pids -> ProcState]
          /\ d # NoPid => proc[d] = "none" /\ procs[d] = "none"
      BY <2>1, <2>2, ProcStateGroups DEF EnsureDaemon, TypeOK
    <2>4. \A q \in tracked' : q \in Pids /\ procs[q] \in AttachedStates \ {"frozen"}
      BY <2>2, GroupsApart DEF TypeOK, TrackedAreTracees
    <2> HIDE DEF procs
    <2>5. proc' = WithDaemon(procs, d)
      BY <2>1 DEF procs
    <2> QED BY <2>2, <2>3, <2>4, <2>5, TrackFork
  <1> QED BY <1>1, <1>2, <1>3, <1>4, <1>5, <1>6, <1>7 DEF ReapReport

LEMMA TrackStep == TypeOK /\ TrackedAreTracees /\ [Next]_vars => TrackedAreTracees'
  <1> SUFFICES ASSUME TypeOK, TrackedAreTracees, [Next]_vars PROVE TrackedAreTracees'
    OBVIOUS
  <1> USE DEF monitorVars, procVars
  <1>1. CASE UNCHANGED vars
    BY <1>1 DEF vars, TrackedAreTracees
  <1>2. CASE \/ EpollSocket \/ EpollSignal \/ NothingToReap \/ ReapInit \/ Watchdog
             \/ InitSignalled \/ InitTraps \/ SendDatagram
    <2>1. tracked' = tracked /\ proc' = proc /\ parkPid' = parkPid /\ (pc' = pc \/ pc' # "park")
      BY <1>2 DEF EpollSocket, EpollSignal, NothingToReap, ReapInit, InitHandled, Watchdog,
                  InitSignalled, InitTraps, SendDatagram
    <2> QED BY <2>1 DEF TrackedAreTracees
  <1>3. CASE ReceiveNone
    BY <1>3 DEF ReceiveNone, LeaveCallback, TrackedAreTracees
  <1>4. CASE ReceiveDatagram
    <2>1. tracked' = tracked /\ proc' = proc /\ parkPid' = parkPid /\ pc' = pc
      BY <1>4 DEF ReceiveDatagram, HandleStart, HandleStop, HandleExit, HandleOther, Receive
    <2> QED BY <2>1 DEF TrackedAreTracees
  <1>5. ASSUME NEW p \in Pids, ParkStep(p)
        PROVE  TrackedAreTracees'
    <2>1. Parking(p)
      BY <1>5 DEF ParkStep, Parked, ParkForeignStop, ParkExited, ParkTimeout
    <2>2. CASE ParkForeignStop(p)
      BY <2>2, TrackMove, GroupsApart DEF ParkForeignStop
    <2>3. CASE Parked(p) \/ ParkExited(p) \/ ParkTimeout(p)
      <3>1. tracked' = tracked \ {p} /\ pc' = "reap"
        BY <2>3 DEF Parked, ParkExited, ParkTimeout, EndPark
      <3>2. \A q \in tracked' : proc'[q] = proc[q]
        BY <2>3, <3>1 DEF Parked, ParkExited, ParkTimeout, TypeOK
      <3> QED BY <3>1, <3>2 DEF TrackedAreTracees
    <2> QED BY <1>5, <2>2, <2>3 DEF ParkStep
  <1>6. ASSUME NEW p \in Pids,
               \/ InitForks(p) \/ ChildStops(p) \/ ChildExecs(p) \/ ChildDies(p)
               \/ UntracedDies(p) \/ TracerInjects(p) \/ DaemonDies(p)
        PROVE  TrackedAreTracees'
    <2>1. tracked' = tracked /\ pc' = pc /\ parkPid' = parkPid
      BY <1>6 DEF InitForks, ChildStops, ChildExecs, ChildDies, UntracedDies, TracerInjects,
                  DaemonDies, ChildMoves
    <2>2. PICK s : /\ proc' = [proc EXCEPT ![p] = s]
                   /\ \/ s \in AttachedStates \ {"frozen"}
                      \/ proc[p] \in HandedStates \cup DaemonStates \cup {"none", "released"}
      BY <1>6, GroupsApart DEF InitForks, ChildStops, ChildExecs, ChildDies, UntracedDies,
                               TracerInjects, DaemonDies
    <2>3. p \in tracked => s \in AttachedStates \ {"frozen"}
      BY <2>2, GroupsApart DEF TrackedAreTracees
    <2> QED BY <2>1, <2>2, <2>3, TrackMove
  <1> QED BY <1>1, <1>2, <1>3, <1>4, <1>5, <1>6, TrackReap
          DEF Next, MonitorStep, EnvironmentStep

(* No slot of tracked outlives its tracee, whatever the children, the       *)
(* parked zygote and the daemons do.                                        *)
THEOREM TrackingCorrect == Spec => []TrackedAreTracees
  <1>1. Init => TrackedAreTracees
    BY DEF Init, TrackedAreTracees
  <1> QED BY <1>1, TrackStep, TypeCorrect, PTL DEF Spec
-----------------------------------------------------------------------------
(* The daemons.  OneDaemonPerAbi needs that a recorded daemon still is one  *)
(* (until the monitor exits and nobody reaps it), that the program of a     *)
(* free process id is forgotten, and that a zygote's ABI is known.          *)
ProgramKnown ==
    /\ \A p \in Pids : kind[p] \notin {"none", "other"} => abi[p] \in Abis
    /\ pc # "exited" =>
         \A p \in Pids : proc[p] \in {"none"} \cup DaemonStates => kind[p] = "none"

RecordedIsDaemon ==
    \A a \in Abis : daemonPid[a] # NoPid =>
        \/ proc[daemonPid[a]] \in DaemonStates
        \/ pc = "exited" /\ proc[daemonPid[a]] = "none"

DaemonInv == OneDaemonPerAbi /\ RecordedIsDaemon /\ ProgramKnown

LEMMA DaemonFrame ==
    ASSUME DaemonInv, UNCHANGED <<proc, kind, abi, supported, daemonPid, daemonRunning>>,
           pc' = pc \/ (pc # "exited" /\ pc' # "exited")
    PROVE  DaemonInv'
  BY DEF DaemonInv, OneDaemonPerAbi, RecordedIsDaemon, ProgramKnown

(* A process that is not a daemon moves. *)
LEMMA DaemonMove ==
    ASSUME TypeOK, DaemonInv, NEW p \in Pids,
           \A q \in Pids \ {p} :
             proc'[q] = proc[q] /\ abi'[q] = abi[q] /\ kind'[q] = kind[q],
           UNCHANGED <<supported, daemonPid, daemonRunning>>,
           pc' = pc \/ (pc # "exited" /\ pc' # "exited"),
           proc[p] \notin DaemonStates, proc'[p] \notin DaemonStates,
           pc = "exited" => proc[p] # "none",
           kind'[p] \notin {"none", "other"} => abi'[p] \in Abis,
           proc'[p] = "none" => kind'[p] = "none"
    PROVE  DaemonInv'
  <1>1. \A a \in Abis : daemonPid[a] # p \/ daemonPid[a] = NoPid
    BY GroupsApart DEF DaemonInv, RecordedIsDaemon
  <1>2. OneDaemonPerAbi'
    BY <1>1 DEF TypeOK, DaemonInv, OneDaemonPerAbi
  <1>3. RecordedIsDaemon'
    BY <1>1 DEF TypeOK, DaemonInv, RecordedIsDaemon
  <1>4. ProgramKnown'
    BY DEF TypeOK, DaemonInv, ProgramKnown
  <1> QED BY <1>2, <1>3, <1>4 DEF DaemonInv

(* A daemon d is forked for ABI a while process p moves. *)
LEMMA DaemonEntered ==
    ASSUME TypeOK, DaemonInv, NEW p \in Pids, NEW a \in Abis, NEW d \in Pids,
           pc # "exited", pc' # "exited",
           daemonPid[a] = NoPid, proc[d] = "none", d # p,
           \A c \in Abis :
             /\ supported'[c] = IF c = a THEN TRUE ELSE supported[c]
             /\ daemonPid'[c] = IF c = a THEN d ELSE daemonPid[c]
             /\ daemonRunning'[c] = IF c = a THEN TRUE ELSE daemonRunning[c],
           proc'[d] = "daemon" /\ abi'[d] = a /\ kind'[d] = kind[d],
           \A q \in Pids \ {p, d} :
             proc'[q] = proc[q] /\ abi'[q] = abi[q] /\ kind'[q] = kind[q],
           proc[p] = "exec", proc'[p] \notin DaemonStates,
           kind'[p] \notin {"none", "other"} => abi'[p] \in Abis,
           proc'[p] = "none" => kind'[p] = "none"
    PROVE  DaemonInv'
  <1>1. \A c \in Abis : daemonPid[c] # NoPid =>
                          daemonPid[c] \in Pids /\ daemonPid[c] \notin {p, d}
    BY GroupsApart DEF DaemonInv, RecordedIsDaemon, DaemonStates, TypeOK
  <1>2. \A c \in Abis : daemonPid'[c] # NoPid =>
             supported'[c] /\ abi'[daemonPid'[c]] = c
    <2>1. ASSUME NEW c \in Abis, daemonPid'[c] # NoPid, c = a
          PROVE  supported'[c] /\ abi'[daemonPid'[c]] = c
      BY <2>1
    <2>2. ASSUME NEW c \in Abis, daemonPid'[c] # NoPid, c # a
          PROVE  supported'[c] /\ abi'[daemonPid'[c]] = c
      <3>1. daemonPid'[c] = daemonPid[c] /\ supported'[c] = supported[c]
        BY <2>2
      <3>2. abi'[daemonPid[c]] = abi[daemonPid[c]]
        BY <1>1, <2>2, <3>1
      <3> QED BY <2>2, <3>1, <3>2 DEF DaemonInv, OneDaemonPerAbi
    <2> QED BY <2>1, <2>2
  <1>3. ASSUME NEW c \in Abis
        PROVE  daemonRunning'[c] <=> daemonPid'[c] # NoPid
    <2>1. CASE c = a
      BY <2>1, NoPidAssumption
    <2>2. CASE c # a
      <3>1. daemonPid'[c] = daemonPid[c] /\ daemonRunning'[c] = daemonRunning[c]
        BY <2>2
      <3> QED BY <3>1 DEF DaemonInv, OneDaemonPerAbi
    <2> QED BY <2>1, <2>2
  <1>4. ASSUME NEW q \in Pids, proc'[q] \in DaemonStates
        PROVE  abi'[q] \in Abis /\ daemonPid'[abi'[q]] = q
    <2>1. CASE q = d
      BY <2>1
    <2>2. CASE q # d
      <3>1. q # p /\ proc[q] \in DaemonStates /\ abi'[q] = abi[q]
        BY <1>4, <2>2
      <3>2. abi[q] \in Abis /\ daemonPid[abi[q]] = q
        BY <3>1 DEF DaemonInv, OneDaemonPerAbi
      <3> QED BY <3>1, <3>2, NoPidAssumption
    <2> QED BY <2>1, <2>2
  <1>5. RecordedIsDaemon'
    <2>1. ASSUME NEW c \in Abis, daemonPid'[c] # NoPid
          PROVE  proc'[daemonPid'[c]] \in DaemonStates
      <3>1. CASE c = a
        BY <3>1, GroupsApart
      <3>2. CASE c # a
        <4>1. daemonPid'[c] = daemonPid[c] /\ proc'[daemonPid[c]] = proc[daemonPid[c]]
          BY <1>1, <2>1, <3>2
        <4> QED BY <2>1, <4>1 DEF DaemonInv, RecordedIsDaemon
      <3> QED BY <3>1, <3>2
    <2> QED BY <2>1 DEF RecordedIsDaemon
  <1>6. ProgramKnown'
    BY DEF DaemonInv, ProgramKnown
  <1> QED BY <1>2, <1>3, <1>4, <1>5, <1>6 DEF DaemonInv, OneDaemonPerAbi

(* The waitpid loop makes sure of a zygote's daemon. *)
LEMMA DaemonFork ==
    ASSUME TypeOK, DaemonInv, NEW p \in Pids, NEW s, NEW k, NEW b, NEW a \in Abis,
           NEW d \in Pids \cup {NoPid}, EnsureDaemon(a, d, TRUE, proc),
           proc' = WithDaemon([proc EXCEPT ![p] = s], d),
           kind' = [kind EXCEPT ![p] = k],
           abi' = WithDaemonAbi([abi EXCEPT ![p] = b], d, a),
           pc # "exited", pc' # "exited",
           proc[p] = "exec", s \notin DaemonStates,
           k \notin {"none", "other"} => b \in Abis,
           s = "none" => k = "none"
    PROVE  DaemonInv'
  <1>1. CASE d = NoPid
    <2>1. UNCHANGED <<supported, daemonPid, daemonRunning>>
      BY <1>1 DEF EnsureDaemon, daemonVars
    <2>2. proc' = [proc EXCEPT ![p] = s] /\ abi' = [abi EXCEPT ![p] = b]
      BY <1>1 DEF WithDaemon, WithDaemonAbi
    <2>3. "exec" \notin DaemonStates /\ "exec" # "none"
      BY DEF DaemonStates
    <2>4. /\ proc'[p] = s /\ abi'[p] = b /\ kind'[p] = k
          /\ \A q \in Pids \ {p} :
                proc'[q] = proc[q] /\ abi'[q] = abi[q] /\ kind'[q] = kind[q]
      BY <2>2 DEF TypeOK
    <2> QED BY <2>1, <2>3, <2>4, DaemonMove
  <1>2. CASE d # NoPid
    <2>1. daemonPid[a] = NoPid /\ proc[d] = "none" /\ d \in Pids /\ d # p
      BY <1>2 DEF EnsureDaemon
    <2>2. \A c \in Abis :
            /\ supported'[c] = IF c = a THEN TRUE ELSE supported[c]
            /\ daemonPid'[c] = IF c = a THEN d ELSE daemonPid[c]
            /\ daemonRunning'[c] = IF c = a THEN TRUE ELSE daemonRunning[c]
      BY <1>2 DEF EnsureDaemon, TypeOK
    <2>3. /\ proc'[d] = "daemon" /\ abi'[d] = a /\ kind'[d] = kind[d]
          /\ proc'[p] = s /\ abi'[p] = b /\ kind'[p] = k
          /\ \A q \in Pids \ {p, d} :
                proc'[q] = proc[q] /\ abi'[q] = abi[q] /\ kind'[q] = kind[q]
      BY <1>2, <2>1 DEF WithDaemon, WithDaemonAbi, TypeOK
    <2>4. /\ proc'[p] \notin DaemonStates
          /\ kind'[p] \notin {"none", "other"} => abi'[p] \in Abis
          /\ proc'[p] = "none" => kind'[p] = "none"
      BY <2>3
    <2> QED BY <2>1, <2>2, <2>3, <2>4, DaemonEntered
  <1> QED BY <1>1, <1>2

(* check_daemon_exit forgets a dead daemon and may fork its successor. *)
LEMMA DaemonRespawn ==
    ASSUME TypeOK, DaemonInv, NEW p \in Pids, CheckDaemonExit(p)
    PROVE  DaemonInv'
  <1>1. PICK a \in Abis, within \in BOOLEAN, d \in Pids \cup {NoPid} :
           IsDaemonExit(p, a) /\ RespawnDaemon(p, a, within, d)
    BY DEF CheckDaemonExit
  <1>2. pc = "reap" /\ pc' = pc /\ kind' = kind
    BY DEF CheckDaemonExit, Reaping
  <1>3. daemonPid[a] = p /\ supported[a] /\ proc[p] = "dzombie" /\ (d # NoPid => proc[d] = "none")
    BY <1>1 DEF IsDaemonExit, RespawnDaemon
  <1>4. \A c \in Abis :
          /\ supported'[c] = supported[c]
          /\ daemonPid'[c] = IF c = a THEN d ELSE daemonPid[c]
          /\ c # a => daemonRunning'[c] = daemonRunning[c]
    BY <1>1 DEF RespawnDaemon, TypeOK
  <1>5. daemonRunning'[a] <=> d # NoPid
    BY <1>1 DEF RespawnDaemon, TypeOK
  <1>6. \A q \in Pids :
          /\ proc'[q] = IF q = d THEN "daemon" ELSE IF q = p THEN "none" ELSE proc[q]
          /\ abi'[q] = IF q = d THEN a ELSE IF q = p THEN AnyAbi ELSE abi[q]
    <2>1. CASE d = NoPid
      BY <1>1, <2>1, NoPidAssumption DEF RespawnDaemon, WithDaemon, WithDaemonAbi, TypeOK
    <2>2. CASE d # NoPid
      BY <1>1, <2>2 DEF RespawnDaemon, WithDaemon, WithDaemonAbi, TypeOK
    <2> QED BY <2>1, <2>2
  <1>7. \A c \in Abis \ {a} : daemonPid[c] # NoPid =>
                               daemonPid[c] \in Pids /\ daemonPid[c] \notin {p, d}
    BY <1>2, <1>3, GroupsApart DEF DaemonInv, OneDaemonPerAbi, RecordedIsDaemon, TypeOK
  <1>8. p # d /\ (d # NoPid => d \in Pids)
    BY <1>3, NoPidAssumption
  <1>9. OneDaemonPerAbi'
    <2>1. \A c \in Abis : daemonRunning'[c] <=> daemonPid'[c] # NoPid
      BY <1>4, <1>5 DEF DaemonInv, OneDaemonPerAbi
    <2>2. \A c \in Abis : daemonPid'[c] # NoPid => supported'[c] /\ abi'[daemonPid'[c]] = c
      BY <1>3, <1>4, <1>6, <1>7, <1>8 DEF DaemonInv, OneDaemonPerAbi
    <2>3. \A q \in Pids : proc'[q] \in DaemonStates =>
                            abi'[q] \in Abis /\ daemonPid'[abi'[q]] = q
      BY <1>2, <1>3, <1>4, <1>6, GroupsApart DEF DaemonInv, OneDaemonPerAbi
    <2> QED BY <2>1, <2>2, <2>3 DEF OneDaemonPerAbi
  <1>10. RecordedIsDaemon'
    BY <1>2, <1>4, <1>6, <1>7, <1>8, GroupsApart DEF DaemonInv, RecordedIsDaemon
  <1>11. ProgramKnown'
    <2>1. \A q \in Pids : q \in {p, d} => kind'[q] = "none"
      BY <1>2, <1>3, NoPidAssumption DEF DaemonInv, ProgramKnown, DaemonStates
    <2>2. \A q \in Pids \ {p, d} : proc'[q] = proc[q] /\ abi'[q] = abi[q] /\ kind'[q] = kind[q]
      BY <1>2, <1>6
    <2> QED BY <1>2, <2>1, <2>2 DEF DaemonInv, ProgramKnown
  <1> QED BY <1>9, <1>10, <1>11 DEF DaemonInv

LEMMA DaemonReap ==
    ASSUME TypeOK, TrackedAreTracees, DaemonInv, NEW p \in Pids, ReapReport(p)
    PROVE  DaemonInv'
  <1> DEFINE Others == \A q \in Pids \ {p} :
                          proc'[q] = proc[q] /\ abi'[q] = abi[q] /\ kind'[q] = kind[q]
  <1> USE DEF daemonVars
  <1>1. CASE UntrackedExit(p)
    <2>1. proc[p] = "zombie"
      <3>1. SUFFICES ASSUME proc[p] = "dzombie" PROVE FALSE
        BY <1>1 DEF UntrackedExit
      <3>2. pc # "exited" /\ "dzombie" \in DaemonStates
        BY <1>1 DEF UntrackedExit, ReapChild, Reaping, DaemonStates
      <3>3. abi[p] \in Abis /\ daemonPid[abi[p]] = p /\ supported[abi[p]]
        BY <3>1, <3>2, NoPidAssumption DEF DaemonInv, OneDaemonPerAbi
      <3> QED BY <1>1, <3>1, <3>3 DEF UntrackedExit, ReapChild, IsDaemonExit
    <2>2. /\ Others /\ proc'[p] = "none" /\ kind'[p] = "none"
          /\ UNCHANGED <<pc, supported, daemonPid, daemonRunning>> /\ pc = "reap"
      BY <1>1 DEF UntrackedExit, ReapChild, Reaping, ChildHandled, Forget, TypeOK
    <2> QED BY <2>1, <2>2, DaemonMove DEF DaemonStates
  <1>2. CASE NewTracee(p) \/ SuppressStop(p) \/ ProgramUnreadable(p)
    <2>1. /\ Others /\ proc[p] \in TraceStops /\ proc'[p] \in {"run", "frozen"}
          /\ UNCHANGED <<pc, supported, daemonPid, daemonRunning>> /\ pc = "reap"
      BY <1>2 DEF NewTracee, SuppressStop, ProgramUnreadable, ReapExec, ReapChild, Reaping,
                  ChildHandled, Forget, TypeOK, IsStoppingSignalStop, TraceStops
    <2>2. kind'[p] = "none" \/ (kind'[p] = kind[p] /\ abi'[p] = abi[p])
      BY <1>2 DEF NewTracee, SuppressStop, ProgramUnreadable, Forget, TypeOK
    <2>3. kind'[p] \notin {"none", "other"} => abi'[p] \in Abis
      BY <2>2 DEF DaemonInv, ProgramKnown
    <2> QED BY <2>1, <2>3, DaemonMove DEF DaemonStates, TraceStops
  <1>3. CASE DropTracee(p) \/ NotHandedOff(p) \/ ZygoteCrashed(p) \/ NoDaemon(p)
    <2>1. proc[p] \in AttachedStates /\ pc = "reap"
      BY <1>3, GroupsApart DEF DropTracee, NotHandedOff, ZygoteCrashed, NoDaemon, CountStart,
                               ReapExec, ReapChild, Reaping, TrackedAreTracees
    <2>2. UNCHANGED <<supported, daemonPid, daemonRunning>> /\ pc' = pc
      BY <1>3 DEF DropTracee, NotHandedOff, ZygoteCrashed, NoDaemon, ChildHandled, EnsureDaemon
    <2>3. Others /\ kind'[p] = "none" /\ proc'[p] \in {"none", "released"}
      BY <1>3 DEF DropTracee, NotHandedOff, ZygoteCrashed, NoDaemon, Release, Forget, TypeOK
    <2>4. proc[p] \notin DaemonStates /\ proc'[p] \notin DaemonStates
      BY <2>1, <2>3, GroupsApart
    <2> QED BY <2>1, <2>2, <2>3, <2>4, DaemonMove
  <1>4. CASE HandoffTango(p) \/ HandoffPark(p)
    <2>1. proc[p] = "exec" /\ pc = "reap" /\ pc' # "exited"
      BY <1>4 DEF HandoffTango, HandoffPark, CountStart, ReapExec, ReapChild, Reaping
    <2>2. kind[p] \in {"zygote", "tango", "app_process"}
      BY <1>4 DEF HandoffTango, HandoffPark, CountStart, PassesGate
    <2>3. abi[p] \in Abis
      BY <2>2 DEF DaemonInv, ProgramKnown
    <2>4. CASE HandoffTango(p)
      <3>1. PICK d \in Pids \cup {NoPid}, s \in {"deferred", "none"} :
              /\ EnsureDaemon(abi[p], d, TRUE, proc)
              /\ proc' = WithDaemon([proc EXCEPT ![p] = s], d)
              /\ kind' = IF s = "none" THEN [kind EXCEPT ![p] = "none"] ELSE kind
              /\ abi' = WithDaemonAbi(IF s = "none" THEN [abi EXCEPT ![p] = AnyAbi] ELSE abi,
                                      d, abi[p])
        BY <2>4 DEF HandoffTango
      <3> DEFINE k == IF s = "none" THEN "none" ELSE kind[p]
                 b == IF s = "none" THEN AnyAbi ELSE abi[p]
      <3>2. /\ kind' = [kind EXCEPT ![p] = k]
            /\ (IF s = "none" THEN [abi EXCEPT ![p] = AnyAbi] ELSE abi) = [abi EXCEPT ![p] = b]
        BY <3>1 DEF TypeOK
      <3>3. abi' = WithDaemonAbi([abi EXCEPT ![p] = b], d, abi[p])
        BY <3>1, <3>2
      <3>4. /\ s \notin DaemonStates /\ (k \notin {"none", "other"} => b \in Abis)
            /\ s = "none" => k = "none"
        BY <2>3 DEF DaemonStates
      <3> HIDE DEF k, b
      <3> QED BY <2>1, <2>3, <3>1, <3>2, <3>3, <3>4, DaemonFork
    <2>5. CASE HandoffPark(p)
      <3>1. PICK d \in Pids \cup {NoPid} :
              /\ EnsureDaemon(abi[p], d, TRUE, proc)
              /\ proc' = WithDaemon([proc EXCEPT ![p] = "run"], d)
              /\ abi' = WithDaemonAbi(abi, d, abi[p])
        BY <2>5 DEF HandoffPark
      <3>2. kind' = [kind EXCEPT ![p] = kind[p]] /\ abi = [abi EXCEPT ![p] = abi[p]]
        BY <2>5 DEF HandoffPark, TypeOK
      <3>3. abi' = WithDaemonAbi([abi EXCEPT ![p] = abi[p]], d, abi[p])
        BY <3>1, <3>2
      <3>4. "run" \notin DaemonStates /\ "run" # "none"
        BY DEF DaemonStates
      <3> QED BY <2>1, <2>3, <3>1, <3>2, <3>3, <3>4, DaemonFork
    <2> QED BY <1>4, <2>4, <2>5
  <1> QED BY <1>1, <1>2, <1>3, <1>4, DaemonRespawn DEF ReapReport

LEMMA DaemonStep ==
    TypeOK /\ TrackedAreTracees /\ CustodyInv /\ DaemonInv /\ [Next]_vars => DaemonInv'
  <1> SUFFICES ASSUME TypeOK, TrackedAreTracees, CustodyInv, DaemonInv, [Next]_vars
               PROVE  DaemonInv'
    OBVIOUS
  <1> USE DEF monitorVars, daemonVars, procVars
  <1>1. CASE UNCHANGED vars
    BY <1>1, DaemonFrame DEF vars
  <1>2. CASE \/ EpollSocket \/ EpollSignal \/ NothingToReap \/ ReapInit \/ Watchdog
             \/ InitSignalled \/ InitTraps \/ SendDatagram
    <2>1. /\ UNCHANGED <<proc, kind, abi, supported, daemonPid, daemonRunning>>
          /\ pc' = pc \/ (pc # "exited" /\ pc' # "exited")
      BY <1>2 DEF EpollSocket, EpollSignal, NothingToReap, ReapInit, InitHandled, Watchdog,
                  InitSignalled, InitTraps, SendDatagram, Reaping
    <2> QED BY <2>1, DaemonFrame
  <1>3. CASE ReceiveDatagram
    <2>1. UNCHANGED <<proc, kind, abi, supported, daemonPid, daemonRunning, pc>>
      BY <1>3 DEF ReceiveDatagram, HandleStart, HandleStop, HandleExit, HandleOther, Receive
    <2> QED BY <2>1, DaemonFrame
  <1>4. CASE ReceiveNone
    <2>1. /\ UNCHANGED <<kind, abi, supported, daemonPid, daemonRunning>> /\ pc # "exited"
          /\ \/ pc' = "idle" /\ proc' = proc
             \/ pc' = "exited" /\ proc' = [p \in Pids |-> Orphaned(proc[p])]
      BY <1>4 DEF ReceiveNone, LeaveCallback
    <2>2. CASE pc' = "idle" /\ proc' = proc
      BY <2>1, <2>2, DaemonFrame
    <2>3. CASE pc' = "exited" /\ proc' = [p \in Pids |-> Orphaned(proc[p])]
      <3>1. \A p \in Pids : proc[p] \in DaemonStates => proc'[p] \in {"daemon", "none"}
        BY <2>3 DEF Orphaned, DaemonStates, AttachedStates, TraceStops
      <3>2. OneDaemonPerAbi'
        BY <2>1, <2>3 DEF DaemonInv, OneDaemonPerAbi
      <3>3. RecordedIsDaemon'
        BY <2>1, <2>3, <3>1 DEF DaemonInv, RecordedIsDaemon, DaemonStates, TypeOK
      <3>4. ProgramKnown'
        BY <2>1, <2>3 DEF DaemonInv, ProgramKnown
      <3> QED BY <3>2, <3>3, <3>4 DEF DaemonInv
    <2> QED BY <2>1, <2>2, <2>3
  <1>5. ASSUME NEW p \in Pids, ParkStep(p)
        PROVE  DaemonInv'
    <2>1. /\ UNCHANGED <<supported, daemonPid, daemonRunning>>
          /\ pc = "park" /\ pc' # "exited" /\ p \in tracked
      BY <1>5 DEF ParkStep, Parked, ParkForeignStop, ParkExited, ParkTimeout, EndPark, Parking,
                  TrackedAreTracees
    <2>2. /\ \A q \in Pids \ {p} :
                proc'[q] = proc[q] /\ abi'[q] = abi[q] /\ kind'[q] = kind[q]
          /\ kind'[p] = "none" \/ (kind'[p] = kind[p] /\ abi'[p] = abi[p] /\ proc'[p] # "none")
          /\ proc'[p] \in {proc[p], "held", "none", "run", "released"}
      BY <1>5, <2>1 DEF ParkStep, Parked, ParkForeignStop, ParkExited, ParkTimeout, Forget,
                        TypeOK, TrackedAreTracees, AttachedStates, TraceStops
    <2>3. proc[p] \notin DaemonStates /\ proc'[p] \notin DaemonStates
      BY <2>1, <2>2, GroupsApart DEF TrackedAreTracees, DaemonStates
    <2>4. kind'[p] \notin {"none", "other"} => abi'[p] \in Abis
      BY <2>2 DEF DaemonInv, ProgramKnown
    <2> QED BY <2>1, <2>2, <2>3, <2>4, DaemonMove
  <1>6. ASSUME NEW p \in Pids, DaemonDies(p)
        PROVE  DaemonInv'
    <2>1. /\ UNCHANGED <<kind, abi, supported, daemonPid, daemonRunning, pc>>
          /\ proc[p] = "daemon" /\ proc' = [proc EXCEPT ![p] = "dzombie"]
      BY <1>6 DEF DaemonDies, ChildMoves
    <2>2. \A q \in Pids : proc'[q] \in DaemonStates <=> proc[q] \in DaemonStates
      BY <2>1 DEF DaemonStates, TypeOK
    <2>3. \A q \in Pids : proc'[q] = "none" <=> proc[q] = "none"
      BY <2>1 DEF TypeOK
    <2>4. OneDaemonPerAbi'
      BY <2>1, <2>2 DEF DaemonInv, OneDaemonPerAbi
    <2>5. RecordedIsDaemon'
      BY <2>1, <2>2, <2>3 DEF DaemonInv, RecordedIsDaemon, TypeOK
    <2>6. ProgramKnown'
      BY <2>1, <2>2, <2>3 DEF DaemonInv, ProgramKnown
    <2> QED BY <2>4, <2>5, <2>6 DEF DaemonInv
  <1>7. ASSUME NEW p \in Pids,
               \/ InitForks(p) \/ ChildStops(p) \/ ChildExecs(p) \/ ChildDies(p)
               \/ UntracedDies(p) \/ TracerInjects(p)
        PROVE  DaemonInv'
    <2>1. UNCHANGED <<supported, daemonPid, daemonRunning, pc>>
      BY <1>7 DEF InitForks, ChildStops, ChildExecs, ChildDies, UntracedDies, TracerInjects,
                  ChildMoves
    <2>2. /\ \A q \in Pids \ {p} :
                proc'[q] = proc[q] /\ abi'[q] = abi[q] /\ kind'[q] = kind[q]
          /\ \/ proc'[p] \in {"injected"} \cup AttachedStates /\ kind'[p] = kind[p] /\ abi'[p] = abi[p]
             \/ proc'[p] = "none" /\ kind'[p] = "none"
             \/ proc'[p] = "exec" /\ (kind'[p] # "other" => abi'[p] \in Abis)
      BY <1>7, GroupsApart DEF InitForks, ChildStops, ChildExecs, ChildDies, UntracedDies,
                               TracerInjects, Forget, TypeOK, ProgramKinds
    <2>3. proc[p] \notin DaemonStates /\ (pc = "exited" => proc[p] # "none")
      BY <1>7, GroupsApart DEF InitForks, ChildStops, ChildExecs, ChildDies, UntracedDies,
                               TracerInjects, CustodyInv, ExitsFromDrain
    <2>4. proc'[p] \notin DaemonStates /\ (proc'[p] = "none" => kind'[p] = "none")
      BY <2>2, GroupsApart
    <2>5. kind'[p] \notin {"none", "other"} => abi'[p] \in Abis
      BY <2>2 DEF DaemonInv, ProgramKnown
    <2> QED BY <2>1, <2>2, <2>3, <2>4, <2>5, DaemonMove
  <1> QED BY <1>1, <1>2, <1>3, <1>4, <1>5, <1>6, <1>7, DaemonReap
          DEF Next, MonitorStep, EnvironmentStep

(* At most one daemon process per ABI exists, and it is the recorded one,   *)
(* through every crash, respawn and failed fork.                            *)
THEOREM DaemonsCorrect == Spec => []OneDaemonPerAbi
  <1>1. Init => CustodyInv /\ TrackedAreTracees /\ DaemonInv
    BY NoPidAssumption, GroupsApart
       DEF Init, CustodyInv, InitCustody, StopIsUnderway, ExitsFromDrain, TrackedAreTracees,
           DaemonInv, OneDaemonPerAbi, RecordedIsDaemon, ProgramKnown
  <1>2. Spec => [](CustodyInv /\ TrackedAreTracees /\ DaemonInv)
    BY <1>1, CustodyStep, TrackStep, DaemonStep, TypeCorrect, PTL DEF Spec
  <1>3. DaemonInv => OneDaemonPerAbi
    BY DEF DaemonInv
  <1> QED BY <1>2, <1>3, PTL

-----------------------------------------------------------------------------
(* The hand-off of a zygote is decided when its exec is reaped and carried  *)
(* out when it has parked; what was true at the decision still is then.     *)
Gated(p) ==
    /\ tracing = "Tracing"
    /\ kind[p] \in {"zygote", "tango"} \/ (ProcMayFail /\ kind[p] = "app_process")
    /\ abi[p] \in Abis

ParkGate ==
    pc = "park" => /\ Gated(parkPid)
                   /\ daemonRunning[abi[parkPid]]
                   /\ counter[abi[parkPid]] < MaxRetryCount

LEMMA CountedIsGated ==
    ASSUME TypeOK, DaemonInv, NEW p \in Pids, NEW count \in CountRange, CountStart(p, count),
           ~LimitReached(count)
    PROVE  Gated(p) /\ counter'[abi[p]] < MaxRetryCount
  <1>1. kind[p] \in {"zygote", "tango"} \/ (ProcMayFail /\ kind[p] = "app_process")
    BY SwitchAssumption DEF CountStart, PassesGate
  <1>2. tracing = "Tracing"
    BY DEF CountStart
  <1>3. abi[p] \in Abis
    BY <1>1 DEF DaemonInv, ProgramKnown
  <1>4. counter'[abi[p]] = count /\ count < MaxRetryCount
    BY <1>3, RetryAssumption DEF CountStart, LimitReached, CountRange, Never, TypeOK
  <1> QED BY <1>1, <1>2, <1>3, <1>4 DEF Gated

LEMMA EnsuredIsRunning ==
    ASSUME TypeOK, NEW a \in Abis, NEW d \in Pids \cup {NoPid}, EnsureDaemon(a, d, TRUE, proc)
    PROVE  daemonRunning'[a]
  <1>1. CASE daemonPid[a] # NoPid
    BY <1>1 DEF EnsureDaemon, daemonVars
  <1>2. CASE daemonPid[a] = NoPid
    BY <1>2, NoPidAssumption DEF EnsureDaemon, TypeOK
  <1> QED BY <1>1, <1>2

LEMMA ParkGateStep ==
    TypeOK /\ TrackedAreTracees /\ DaemonInv /\ ParkGate /\ [Next]_vars => ParkGate'
  <1> SUFFICES ASSUME TypeOK, TrackedAreTracees, DaemonInv, ParkGate, [Next]_vars,
                      pc' = "park"
               PROVE  ParkGate'
    BY DEF ParkGate
  <1> USE DEF monitorVars, daemonVars, limitVars, procVars
  <1>1. ASSUME pc = "park",
               UNCHANGED <<tracing, parkPid, daemonRunning, counter>>,
               kind'[parkPid] = kind[parkPid], abi'[parkPid] = abi[parkPid]
        PROVE  ParkGate'
    BY <1>1 DEF ParkGate, Gated
  <1>2. CASE UNCHANGED vars
    BY <1>1, <1>2 DEF vars
  <1>3. CASE MonitorStep
    <2>1. PICK p \in Pids : HandoffPark(p) \/ ParkForeignStop(p)
      BY <1>3 DEF MonitorStep, EpollSocket, ReceiveNone, LeaveCallback, ReceiveDatagram, Receive,
                  HandleStart, HandleStop, HandleExit, HandleOther, EpollSignal, NothingToReap, ReapInit,
                  InitHandled, Reaping, ReapReport, CheckDaemonExit, NewTracee, UntrackedExit,
                  SuppressStop, DropTracee, ProgramUnreadable, NotHandedOff, ZygoteCrashed,
                  NoDaemon, HandoffTango, CountStart, ReapExec, ReapChild, ChildHandled,
                  ParkStep, Parked, ParkExited, ParkTimeout, EndPark, Watchdog
    <2>2. CASE ParkForeignStop(p)
      BY <1>1, <2>2 DEF ParkForeignStop, Parking
    <2>3. CASE HandoffPark(p)
      <3>1. PICK count \in CountRange : CountStart(p, count) /\ ~LimitReached(count)
        BY <2>3 DEF HandoffPark
      <3>2. PICK d \in Pids \cup {NoPid} :
              /\ EnsureDaemon(abi[p], d, TRUE, proc)
              /\ abi' = WithDaemonAbi(abi, d, abi[p])
        BY <2>3 DEF HandoffPark
      <3>3. Gated(p) /\ counter'[abi[p]] < MaxRetryCount
        BY <3>1, CountedIsGated
      <3>4. daemonRunning'[abi[p]]
        BY <3>2, <3>3, EnsuredIsRunning DEF Gated
      <3>5. d # p
        BY <3>1, <3>2, NoPidAssumption DEF CountStart, ReapExec, EnsureDaemon
      <3>6. abi'[p] = abi[p]
        BY <3>2, <3>5 DEF WithDaemonAbi, TypeOK
      <3>7. parkPid' = p /\ kind' = kind /\ tracing' = tracing
        BY <2>3 DEF HandoffPark
      <3> QED BY <3>3, <3>4, <3>6, <3>7 DEF ParkGate, Gated
    <2> QED BY <2>1, <2>2, <2>3
  <1>4. CASE EnvironmentStep
    <2>1. UNCHANGED <<pc, tracing, parkPid, daemonRunning, counter>>
      BY <1>4 DEF EnvironmentStep, InitSignalled, InitTraps, SendDatagram, InitForks, ChildStops,
                  ChildExecs, ChildDies, UntracedDies, TracerInjects, DaemonDies, ChildMoves
    <2>2. parkPid \in Pids /\ proc[parkPid] \in AttachedStates
      BY <2>1 DEF TrackedAreTracees, TypeOK
    <2>3. kind'[parkPid] = kind[parkPid] /\ abi'[parkPid] = abi[parkPid]
      BY <1>4, <2>1, <2>2, GroupsApart
         DEF EnvironmentStep, InitSignalled, InitTraps, SendDatagram, InitForks, ChildStops,
             ChildExecs, ChildDies, UntracedDies, TracerInjects, DaemonDies, Forget, Parking,
             TypeOK
    <2> QED BY <1>1, <2>1, <2>3
  <1> QED BY <1>2, <1>3, <1>4 DEF Next

(* Every step that hands a process to a tracer finds the gate satisfied.    *)
LEMMA HandoffStep ==
    ASSUME TypeOK, TrackedAreTracees, DaemonInv, ParkGate, [Next]_vars,
           NEW p \in Pids, HandsOver(p)
    PROVE  /\ Gated(p)
           /\ daemonRunning'[abi[p]]
           /\ counter'[abi[p]] < MaxRetryCount
  <1> USE DEF monitorVars, daemonVars, limitVars, procVars
  <1>1. PICK q \in Pids : Parked(q) \/ HandoffTango(q)
    <2>1. ~UNCHANGED proc
      BY DEF HandsOver
    <2>2. CASE EnvironmentStep
      BY <2>2, GroupsApart
         DEF HandsOver, EnvironmentStep, InitSignalled, InitTraps, SendDatagram, InitForks,
             ChildStops, ChildExecs, ChildDies, UntracedDies, TracerInjects, DaemonDies, TypeOK
    <2>3. CASE ReceiveNone
      <3>1. proc'[p] \in {proc[p], "released", "none"}
        BY <2>3 DEF ReceiveNone, LeaveCallback, Orphaned, TypeOK
      <3> QED BY <3>1, GroupsApart DEF HandsOver
    <2>4. ASSUME NEW q \in Pids, CheckDaemonExit(q) \/ HandoffPark(q)
          PROVE  FALSE
      <3>1. PICK s \in {"none", "run"}, d \in Pids \cup {NoPid} :
               proc' = WithDaemon([proc EXCEPT ![q] = s], d)
        <4>1. CASE CheckDaemonExit(q)
          BY <4>1 DEF CheckDaemonExit, RespawnDaemon
        <4>2. CASE HandoffPark(q)
          BY <4>2 DEF HandoffPark
        <4> QED BY <2>4, <4>1, <4>2
      <3>3. proc'[p] \in {proc[p], "none", "run", "daemon"}
        BY <3>1 DEF WithDaemon, TypeOK
      <3>2. {"none", "run", "daemon"} \cap HandedStates = {}
        BY DEF HandedStates
      <3> QED BY <3>2, <3>3 DEF HandsOver
    <2>5. ASSUME NEW q \in Pids,
                 \/ NewTracee(q) \/ UntrackedExit(q) \/ SuppressStop(q) \/ DropTracee(q)
                 \/ ProgramUnreadable(q) \/ NotHandedOff(q) \/ ZygoteCrashed(q) \/ NoDaemon(q)
                 \/ ParkForeignStop(q) \/ ParkExited(q) \/ ParkTimeout(q)
          PROVE  FALSE
      <3>1. proc'[p] \in {proc[p], "none", "run", "released", "frozen"}
        BY <2>5 DEF NewTracee, UntrackedExit, SuppressStop, DropTracee, ProgramUnreadable,
                    NotHandedOff, ZygoteCrashed, NoDaemon, ParkForeignStop, ParkExited,
                    ParkTimeout, TypeOK
      <3>2. {"none", "run", "released", "frozen"} \cap HandedStates = {}
        BY DEF HandedStates
      <3> QED BY <3>1, <3>2 DEF HandsOver
    <2>6. CASE \/ EpollSocket \/ ReceiveDatagram \/ EpollSignal \/ NothingToReap \/ ReapInit
               \/ Watchdog
      BY <2>1, <2>6 DEF EpollSocket, ReceiveDatagram, Receive, HandleStart, HandleStop, HandleExit,
                        HandleOther,
                        EpollSignal, NothingToReap, ReapInit, InitHandled, Watchdog
    <2> QED BY <2>1, <2>2, <2>3, <2>4, <2>5, <2>6
            DEF vars, Next, MonitorStep, ReapReport, ParkStep
  <1>2. CASE Parked(q)
    <2>1. p = q
      BY <1>2 DEF Parked, HandsOver, TypeOK
    <2>2. pc = "park" /\ parkPid = p /\ UNCHANGED <<daemonRunning, counter>>
      BY <1>2, <2>1 DEF Parked, Parking, EndPark
    <2> QED BY <2>2 DEF ParkGate
  <1>3. CASE HandoffTango(q)
    <2>1. PICK count \in CountRange : CountStart(q, count) /\ ~LimitReached(count)
      BY <1>3 DEF HandoffTango
    <2>2. PICK d \in Pids \cup {NoPid}, s \in {"deferred", "none"} :
            /\ EnsureDaemon(abi[q], d, TRUE, proc)
            /\ proc' = WithDaemon([proc EXCEPT ![q] = s], d)
      BY <1>3 DEF HandoffTango
    <2>3. p = q
      BY <2>2 DEF HandsOver, WithDaemon, HandedStates, TypeOK
    <2>4. Gated(q) /\ counter'[abi[q]] < MaxRetryCount
      BY <2>1, CountedIsGated
    <2>5. daemonRunning'[abi[q]]
      BY <2>2, <2>4, EnsuredIsRunning DEF Gated
    <2> QED BY <2>3, <2>4, <2>5
  <1> QED BY <1>1, <1>2, <1>3

(* However long a zygote takes to park, and whatever happens meanwhile, it  *)
(* is handed to a tracer only while tracing, past the /proc gate, with a    *)
(* daemon recorded for its ABI and below the restart limit.                 *)
THEOREM HandoffsGated == Spec => HandoffIsGated
  <1>1. Init => CustodyInv /\ TrackedAreTracees /\ DaemonInv /\ ParkGate
    BY NoPidAssumption, GroupsApart
       DEF Init, CustodyInv, InitCustody, StopIsUnderway, ExitsFromDrain, TrackedAreTracees,
           DaemonInv, OneDaemonPerAbi, RecordedIsDaemon, ProgramKnown, ParkGate
  <1>2. Spec => [](TypeOK /\ TrackedAreTracees /\ DaemonInv /\ ParkGate)
    BY <1>1, CustodyStep, TrackStep, DaemonStep, ParkGateStep, TypeCorrect, PTL DEF Spec
  <1> DEFINE Gate == \A p \in Pids : HandsOver(p) =>
                        /\ tracing = "Tracing"
                        /\ kind[p] \in {"zygote", "tango"}
                              \/ (ProcMayFail /\ kind[p] = "app_process")
                        /\ daemonRunning'[abi[p]]
                        /\ counter'[abi[p]] < MaxRetryCount
  <1>3. TypeOK /\ TrackedAreTracees /\ DaemonInv /\ ParkGate /\ [Next]_vars => [Gate]_vars
    BY HandoffStep DEF Gated
  <1> QED BY <1>2, <1>3, PTL DEF Spec, HandoffIsGated
-----------------------------------------------------------------------------
(* The events.  NoLostWakeup needs that the socket holds only what is sent. *)
WakeInv == NoLostWakeup /\ queue \in Seq(Commands)

(* A report that has just come up is announced, or the waitpid loop runs.   *)
LEMMA AnnouncedWakes ==
    ASSUME sigPending' \/ pc' \in {"reap", "park"}
    PROVE  NoLostReport'
  BY DEF NoLostReport

(* Fewer reports, outside the waitpid loop, need no new signal.             *)
LEMMA QuietWakes ==
    ASSUME NoLostReport, pc \notin {"reap", "park"}, sigPending' = sigPending,
           InitReportable' => InitReportable,
           \A p \in Pids : Reportable(p)' => Reportable(p)
    PROVE  NoLostReport'
  BY DEF NoLostReport, ReportPending

LEMMA ReportStep == TypeOK /\ CustodyInv /\ NoLostReport /\ [Next]_vars => NoLostReport'
  <1> SUFFICES ASSUME TypeOK, CustodyInv, NoLostReport, [Next]_vars PROVE NoLostReport'
    OBVIOUS
  <1> USE DEF procVars, initVars, monitorVars
  <1>1. CASE UNCHANGED vars
    BY <1>1 DEF vars, NoLostReport, ReportPending, InitReportable, Reportable
  <1>2. CASE EpollSignal \/ ReapInit \/ InitSignalled \/ InitTraps
    BY <1>2, AnnouncedWakes DEF EpollSignal, ReapInit, InitHandled, Reaping, InitSignalled,
                                InitTraps
  <1>3. CASE NothingToReap
    <2>1. CASE sigPending
      BY <1>3, <2>1, AnnouncedWakes DEF NothingToReap
    <2>2. ~ReportPending'
      BY <1>3 DEF NothingToReap, ReportPending, InitReportable, Reportable
    <2> QED BY <2>1, <2>2 DEF NoLostReport
  <1>4. CASE EpollSocket \/ Watchdog \/ SendDatagram
    <2>1. sigPending' = sigPending /\ proc' = proc /\ initSeized' = initSeized
          /\ initStop' \in {initStop, "run"}
      BY <1>4 DEF EpollSocket, Watchdog, ResumeInit, SendDatagram
    <2>2. CASE pc \in {"reap", "park"}
      BY <1>4, <2>2, AnnouncedWakes DEF EpollSocket, Watchdog, SendDatagram
    <2>3. CASE pc \notin {"reap", "park"}
      BY <2>1, <2>3, QuietWakes DEF InitReportable, Reportable
    <2> QED BY <2>2, <2>3
  <1>5. CASE ReceiveNone
    <2>1. pc = "drain" /\ sigPending' = sigPending
      BY <1>5 DEF ReceiveNone
    <2>2. CASE tracing = "Exiting"
      <3>1. \A p \in Pids : ~Reportable(p)'
        BY <1>5, <2>2, GroupsApart DEF ReceiveNone, LeaveCallback, Orphaned, Reportable
      <3>2. ~InitReportable'
        BY <1>5, <2>2 DEF ReceiveNone, LeaveCallback, InitReportable
      <3> QED BY <2>1, <3>1, <3>2, QuietWakes
    <2>3. CASE tracing # "Exiting"
      <3>1. proc' = proc /\ initSeized' = initSeized /\ initStop' = initStop
        BY <1>5, <2>3 DEF ReceiveNone, LeaveCallback
      <3> QED BY <2>1, <3>1, QuietWakes DEF InitReportable, Reportable
    <2> QED BY <2>2, <2>3
  <1>6. CASE ReceiveDatagram
    <2>1. pc = "drain" /\ sigPending' = sigPending /\ proc' = proc /\ initStop' = initStop
      BY <1>6 DEF ReceiveDatagram, HandleStart, HandleStop, HandleExit, HandleOther, Receive,
                  SeizeInit, InterruptInit
    <2>2. initSeized' = initSeized \/ (~initSeized /\ initStop = "run")
      BY <1>6 DEF ReceiveDatagram, HandleStart, HandleStop, HandleExit, HandleOther, SeizeInit,
                  InterruptInit, CustodyInv, InitCustody, TypeOK
    <2> QED BY <2>1, <2>2, QuietWakes DEF InitReportable, Reportable
  <1>7. ASSUME NEW p \in Pids, ReapReport(p) \/ ParkStep(p)
        PROVE  NoLostReport'
    <2>1. pc' \in {"reap", "park"}
      BY <1>7 DEF ReapReport, CheckDaemonExit, NewTracee, UntrackedExit, SuppressStop,
                  DropTracee, ProgramUnreadable, NotHandedOff, ZygoteCrashed, NoDaemon,
                  HandoffTango, HandoffPark, CountStart, ChildHandled, ReapExec, ReapChild,
                  Reaping, ParkStep, Parked, ParkForeignStop, ParkExited, ParkTimeout, EndPark,
                  Parking
    <2> QED BY <2>1, AnnouncedWakes
  <1>8. ASSUME NEW p \in Pids,
               InitForks(p) \/ ChildStops(p) \/ ChildExecs(p) \/ ChildDies(p) \/ DaemonDies(p)
        PROVE  NoLostReport'
    BY <1>8, AnnouncedWakes DEF InitForks, ChildStops, ChildExecs, ChildDies, DaemonDies
  <1>9. ASSUME NEW p \in Pids, UntracedDies(p) \/ TracerInjects(p)
        PROVE  NoLostReport'
    <2>1. PICK s \in {"none", "injected"} : proc' = [proc EXCEPT ![p] = s]
      BY <1>9 DEF UntracedDies, TracerInjects
    <2>2. pc' = pc /\ sigPending' = sigPending /\ initSeized' = initSeized
          /\ initStop' = initStop
      BY <1>9 DEF UntracedDies, TracerInjects, ChildMoves
    <2>3. \A q \in Pids : Reportable(q)' => Reportable(q)
      BY <2>1, GroupsApart DEF Reportable, TypeOK
    <2>4. CASE pc \in {"reap", "park"}
      BY <2>2, <2>4, AnnouncedWakes
    <2>5. CASE pc \notin {"reap", "park"}
      BY <2>2, <2>3, <2>5, QuietWakes DEF InitReportable
    <2> QED BY <2>4, <2>5
  <1> QED BY <1>1, <1>2, <1>3, <1>4, <1>5, <1>6, <1>7, <1>8, <1>9
          DEF Next, MonitorStep, EnvironmentStep

LEMMA DatagramStep ==
    ASSUME "oversized" \notin Commands
    PROVE  TypeOK /\ WakeInv /\ [Next]_vars => NoLostDatagram' /\ queue' \in Seq(Commands)
  <1> SUFFICES ASSUME TypeOK, NoLostDatagram, queue \in Seq(Commands), [Next]_vars
               PROVE  NoLostDatagram' /\ queue' \in Seq(Commands)
    BY DEF WakeInv, NoLostWakeup
  <1> USE DEF sockVars, monitorVars, NoLostDatagram
  <1>1. CASE UNCHANGED vars
    BY <1>1 DEF vars
  <1>2. CASE EpollSocket
    BY <1>2 DEF EpollSocket
  <1>3. CASE ReceiveNone
    <2>1. queue = <<>> /\ queue' = queue
      BY <1>3 DEF ReceiveNone
    <2> QED BY <2>1
  <1>4. CASE ReceiveDatagram
    <2>1. pc' = "drain" /\ queue # <<>> /\ queue' = Tail(queue)
      BY <1>4 DEF ReceiveDatagram, HandleStart, HandleStop, HandleExit, HandleOther, Receive
    <2> QED BY <2>1
  <1>5. CASE SendDatagram
    BY <1>5, CommandsAssumption DEF SendDatagram
  <1>6. CASE EpollSignal \/ NothingToReap
    BY <1>6 DEF EpollSignal, NothingToReap, Reaping
  <1>7. CASE ReapInit \/ Watchdog \/ InitSignalled \/ InitTraps
    BY <1>7 DEF ReapInit, InitHandled, Watchdog, InitSignalled, InitTraps
  <1>8. ASSUME NEW p \in Pids, ReapReport(p) \/ ParkStep(p)
        PROVE  NoLostDatagram' /\ queue' \in Seq(Commands)
    <2>1. queue' = queue /\ sockEdge' = sockEdge /\ pc \in {"reap", "park"}
      BY <1>8 DEF ReapReport, CheckDaemonExit, NewTracee, UntrackedExit, SuppressStop,
                  DropTracee, ProgramUnreadable, NotHandedOff, ZygoteCrashed, NoDaemon,
                  HandoffTango, HandoffPark, CountStart, ChildHandled, ReapExec, ReapChild,
                  Reaping, ParkStep, Parked, ParkForeignStop, ParkExited, ParkTimeout, EndPark,
                  Parking
    <2> QED BY <2>1
  <1>9. ASSUME NEW p \in Pids,
               \/ InitForks(p) \/ ChildStops(p) \/ ChildExecs(p) \/ ChildDies(p)
               \/ UntracedDies(p) \/ TracerInjects(p) \/ DaemonDies(p)
        PROVE  NoLostDatagram' /\ queue' \in Seq(Commands)
    BY <1>9 DEF InitForks, ChildStops, ChildExecs, ChildDies, UntracedDies, TracerInjects,
                DaemonDies, ChildMoves
  <1> QED BY <1>1, <1>2, <1>3, <1>4, <1>5, <1>6, <1>7, <1>8, <1>9
          DEF Next, MonitorStep, EnvironmentStep

(* With sockets that are edge triggered and signals that coalesce, nothing  *)
(* waits unannounced while the monitor sleeps, unless a datagram can be too *)
(* long for its buffer.                                                     *)
THEOREM NothingUnannounced ==
    ASSUME "oversized" \notin Commands
    PROVE  Spec => []NoLostWakeup
  <1>1. Init => CustodyInv /\ WakeInv
    BY GroupsApart DEF Init, CustodyInv, InitCustody, StopIsUnderway, ExitsFromDrain, WakeInv,
                       NoLostWakeup, NoLostReport, NoLostDatagram, ReportPending,
                       InitReportable, Reportable
  <1>2. TypeOK /\ CustodyInv /\ WakeInv /\ [Next]_vars => WakeInv'
    BY ReportStep, DatagramStep DEF WakeInv, NoLostWakeup
  <1>3. Spec => []WakeInv
    BY <1>1, <1>2, CustodyStep, TypeCorrect, PTL DEF Spec
  <1>4. WakeInv => NoLostWakeup
    BY DEF WakeInv
  <1> QED BY <1>3, <1>4, PTL

(* While PTRACE_SEIZE works, waitpid is never called with nobody to wait    *)
(* for in a state that makes the loop repeat it.                            *)
THEOREM WaitsForSomebody ==
    ASSUME ~SeizeMayFail
    PROVE  Spec => []NeverWaitsForNobody
  <1>1. Init => CustodyInv
    BY DEF Init, CustodyInv, InitCustody, StopIsUnderway, ExitsFromDrain
  <1>2. Spec => [](TypeOK /\ CustodyInv)
    BY <1>1, CustodyStep, TypeCorrect, PTL DEF Spec
  <1>3. TypeOK /\ CustodyInv => NeverWaitsForNobody
    BY DEF TypeOK, TracingState, CustodyInv, InitCustody, ExitsFromDrain, NeverWaitsForNobody,
           Reaping, HasChildren
  <1> QED BY <1>2, <1>3, PTL

(* No command that follows an Exit, and no report, revives the monitor.     *)
THEOREM ExitStays == Spec => ExitIsFinal
  <1> DEFINE Stays == tracing = "Exiting" => tracing' = "Exiting"
  <1>1. [Next]_vars => [Stays]_vars
    <2> SUFFICES ASSUME Next, tracing = "Exiting" PROVE tracing' = "Exiting"
      BY DEF vars, monitorVars
    <2> USE DEF monitorVars
    <2>1. CASE \/ EpollSocket \/ ReceiveNone \/ ReceiveDatagram \/ EpollSignal
               \/ NothingToReap \/ ReapInit \/ Watchdog
      BY <2>1 DEF EpollSocket, ReceiveNone, ReceiveDatagram, HandleStart, HandleStop,
                  HandleExit, HandleOther, EpollSignal, NothingToReap, ReapInit, Watchdog
    <2>2. ASSUME NEW p \in Pids, ReapReport(p) \/ ParkStep(p)
          PROVE  tracing' = "Exiting"
      BY <2>2 DEF ReapReport, CheckDaemonExit, NewTracee, UntrackedExit, SuppressStop,
                  DropTracee, ProgramUnreadable, NotHandedOff, ZygoteCrashed, NoDaemon,
                  HandoffTango, HandoffPark, CountStart, ChildHandled,
                  ParkStep, Parked, ParkForeignStop, ParkExited, ParkTimeout, EndPark
    <2>3. CASE EnvironmentStep
      BY <2>3 DEF EnvironmentStep, InitSignalled, InitTraps, SendDatagram, InitForks,
                  ChildStops, ChildExecs, ChildDies, UntracedDies, TracerInjects, DaemonDies,
                  ChildMoves
    <2> QED BY <2>1, <2>2, <2>3 DEF Next, MonitorStep
  <1> QED BY <1>1, PTL DEF Spec, ExitIsFinal

-----------------------------------------------------------------------------
(***************************************************************************)
(* The monitor implements TraceeCustody, for any number of processes:      *)
(* every step of module Monitor moves at most one process along an edge of *)
(* TraceeCustody, or ends the monitor.                                     *)
(***************************************************************************)

(* A process that stops at its exec has a program, and so has one that is  *)
(* traced and not tracked, unless its first stop is not reaped yet.        *)
Follows ==
    /\ \A p \in Pids : proc[p] = "exec" => kind[p] # "none"
    /\ \A p \in Pids \ tracked :
          proc[p] \in AttachedStates \ {"evstop", "zombie"} => kind[p] # "none"

RefInv == TypeOK /\ CustodyInv /\ TrackedAreTracees /\ DaemonInv /\ ParkGate /\ Follows

On == tracing = "Tracing"

-----------------------------------------------------------------------------
(* The edges of TraceeCustody one process may move along, the state of the *)
(* injection before and after.                                             *)
Edge(c, d, on, then) ==
    \/ c = d /\ then = on
    \/ c = "absent" /\ d = "followed" /\ then = on
    \/ c = "followed" /\ d = "signalled" /\ then = on
    \/ c = "followed" /\ d = "deciding" /\ then = on
    \/ c # "absent" /\ d = "absent" /\ then = on
    \/ c = "followed" /\ d = "free" /\ ~on /\ then = on
    \/ c = "signalled" /\ d = "free" /\ then = on
    \/ c = "deciding" /\ d = "handed" /\ on /\ then = on
    \/ c = "deciding" /\ d = "free" /\ (then = on \/ then = FALSE)
    \/ c = "deciding" /\ d = "forgotten" /\ then = on
    \/ c = "forgotten" /\ d = "followed" /\ then = on

LEMMA CustodyType == \A p \in Pids : CustodyOf(p) \in Abstract!Custody
  BY DEF CustodyOf, Abstract!Custody

(* What CustodyOf says, value by value.                                    *)
Reads(p) ==
    /\ proc[p] \in {"none", "zombie"} \cup DaemonStates => CustodyOf(p) = "absent"
    /\ proc[p] = "released" => CustodyOf(p) = "free"
    /\ proc[p] \in HandedStates => CustodyOf(p) = "handed"
    /\ proc[p] \in AttachedStates \ {"zombie"} /\ kind[p] # "none" =>
          CustodyOf(p) = IF p \in tracked THEN "deciding" ELSE "forgotten"
    /\ proc[p] \in AttachedStates \ {"zombie"} /\ kind[p] = "none" =>
          CustodyOf(p) = IF proc[p] = "sigstop" THEN "signalled" ELSE "followed"

LEMMA CustodyReads == \A p \in Pids : Reads(p) /\ Reads(p)'
  <1>1. \A p \in Pids : Reads(p)
    BY GroupsApart DEF Reads, CustodyOf
  <1>2. \A p \in Pids : Reads(p)'
    BY GroupsApart DEF Reads, CustodyOf
  <1> QED BY <1>1, <1>2

(* A step moves p and forks at most a daemon; p moves along an edge.       *)
Alone(p) ==
    \A q \in Pids \ {p} :
        /\ proc'[q] = proc[q] \/ (proc[q] = "none" /\ proc'[q] = "daemon")
        /\ kind'[q] = kind[q]
        /\ q \in tracked' <=> q \in tracked

Moves(p) ==
    /\ Alone(p)
    /\ proc'[p] = "exec" => kind'[p] # "none"
    /\ p \notin tracked' /\ proc'[p] \in AttachedStates \ {"evstop", "zombie"} => kind'[p] # "none"
    /\ Edge(CustodyOf(p), CustodyOf(p)', On, On')

LEMMA StepAlongEdge ==
    ASSUME NEW p \in Pids, \A q \in Pids \ {p} : CustodyOf(q)' = CustodyOf(q),
           Edge(CustodyOf(p), CustodyOf(p)', On, On')
    PROVE  [Abstract!Next]_(Abstract!vars)
  <1> DEFINE custody == [q \in Pids |-> CustodyOf(q)]
             c == CustodyOf(p)
             d == CustodyOf(p)'
  <1>1. custody' = [custody EXCEPT ![p] = d] /\ custody[p] = c
    OBVIOUS
  <1>2. c \in Abstract!Custody
    BY CustodyType
  <1>3. CASE c = d
    BY <1>1, <1>3 DEF Edge, On, Abstract!vars
  <1>4. CASE c # d
    <2>1. custody'[p] # custody[p]
      BY <1>1, <1>4
    <2>2. \/ Abstract!Forks(p) \/ Abstract!Stops(p) \/ Abstract!Execs(p) \/ Abstract!Dies(p)
          \/ Abstract!LetGo(p) \/ Abstract!HandOver(p) \/ Abstract!Decline(p)
          \/ Abstract!GiveUp(p) \/ Abstract!Recall(p)
      BY <1>1, <1>2, <1>4
         DEF Edge, On, Abstract!Passes, Abstract!Forks, Abstract!Stops, Abstract!Execs,
             Abstract!Dies, Abstract!LetGo, Abstract!HandOver, Abstract!Decline,
             Abstract!GiveUp, Abstract!Recall
    <2> QED BY <2>1, <2>2 DEF Abstract!Next
  <1> QED BY <1>3, <1>4

LEMMA StepElsewhere ==
    ASSUME UNCHANGED <<proc, kind, tracked>>
    PROVE  [Abstract!Next]_(Abstract!vars)
  <1> DEFINE custody == [q \in Pids |-> CustodyOf(q)]
  <1>1. custody' = custody
    BY DEF CustodyOf
  <1>2. CASE On' = On
    BY <1>1, <1>2 DEF On, Abstract!vars
  <1>3. CASE On' # On
    BY <1>1, <1>3 DEF On, Abstract!Switch, Abstract!Next
  <1> QED BY <1>2, <1>3

LEMMA MovesFollows == ASSUME Follows, NEW p \in Pids, Moves(p) PROVE Follows'
  <1>1. "daemon" \notin AttachedStates /\ "daemon" # "exec"
    BY GroupsApart
  <1> QED BY <1>1 DEF Follows, Moves, Alone

LEMMA MovesAbstract ==
    ASSUME NEW p \in Pids, Moves(p)
    PROVE  [Abstract!Next]_(Abstract!vars)
  <1>1. ASSUME NEW q \in Pids \ {p} PROVE CustodyOf(q)' = CustodyOf(q)
    <2>1. CASE proc'[q] = proc[q]
      <3>1. kind'[q] = kind[q] /\ (q \in tracked' <=> q \in tracked)
        BY <1>1 DEF Moves, Alone
      <3> QED BY <2>1, <3>1 DEF CustodyOf
    <2>2. CASE proc[q] = "none" /\ proc'[q] = "daemon"
      BY <2>2, CustodyReads, GroupsApart DEF Reads
    <2> QED BY <1>1, <2>1, <2>2 DEF Moves, Alone
  <1> QED BY <1>1, StepAlongEdge DEF Moves

-----------------------------------------------------------------------------
(* A process may stay where it is, or be gone, at any time.                *)
LEMMA StaysOrGoes ==
    ASSUME NEW p \in Pids, tracing' = tracing,
           CustodyOf(p)' = CustodyOf(p) \/ CustodyOf(p)' = "absent"
    PROVE  Edge(CustodyOf(p), CustodyOf(p)', On, On')
  BY DEF Edge, On

(* A step that changes the process p alone.                                *)
LEMMA AloneIf ==
    ASSUME TypeOK, NEW p \in Pids, NEW s, NEW k,
           proc' = [proc EXCEPT ![p] = s], kind' = [kind EXCEPT ![p] = k],
           \A q \in Pids \ {p} : q \in tracked' <=> q \in tracked
    PROVE  Alone(p) /\ proc'[p] = s /\ kind'[p] = k
  BY DEF TypeOK, Alone

(* A step that changes the process p and may fork the daemon d.            *)
LEMMA AloneWithDaemon ==
    ASSUME TypeOK, NEW p \in Pids, NEW s, NEW k, NEW d \in Pids \cup {NoPid},
           d # NoPid => proc[d] = "none", proc[p] # "none",
           proc' = WithDaemon([proc EXCEPT ![p] = s], d), kind' = [kind EXCEPT ![p] = k],
           \A q \in Pids \ {p} : q \in tracked' <=> q \in tracked
    PROVE  Alone(p) /\ proc'[p] = s /\ kind'[p] = k
  BY DEF TypeOK, Alone, WithDaemon

LEMMA SameKind == ASSUME TypeOK, NEW p \in Pids, kind' = kind
                  PROVE  kind' = [kind EXCEPT ![p] = kind[p]]
  BY DEF TypeOK

-----------------------------------------------------------------------------
(* The reports of waitpid.                                                 *)
LEMMA DaemonExitMoves == ASSUME RefInv, NEW p \in Pids, CheckDaemonExit(p) PROVE Moves(p)
  <1> USE DEF RefInv
  <1>1. PICK a \in Abis, within \in BOOLEAN, d \in Pids \cup {NoPid} :
           IsDaemonExit(p, a) /\ RespawnDaemon(p, a, within, d)
    BY DEF CheckDaemonExit
  <1>2. /\ proc[p] = "dzombie" /\ (d # NoPid => proc[d] = "none")
        /\ proc' = WithDaemon([proc EXCEPT ![p] = "none"], d)
    BY <1>1 DEF IsDaemonExit, RespawnDaemon
  <1>3. kind' = kind /\ tracked' = tracked /\ tracing' = tracing
    BY DEF CheckDaemonExit
  <1>4. Alone(p) /\ proc'[p] = "none"
    BY <1>2, <1>3, SameKind, AloneWithDaemon
  <1>5. CustodyOf(p)' = "absent"
    BY <1>4, CustodyReads DEF Reads
  <1> QED BY <1>3, <1>4, <1>5, StaysOrGoes, GroupsApart DEF Moves

(* An exec is reaped from a tracked process with a program.                *)
LEMMA ExecDecides ==
    ASSUME RefInv, NEW p \in Pids, ReapExec(p)
    PROVE  /\ CustodyOf(p) = "deciding" /\ kind[p] # "none"
           /\ p \in tracked /\ proc[p] = "exec"
  <1>1. proc[p] = "exec" /\ p \in tracked /\ kind[p] # "none"
    BY DEF ReapExec, RefInv, Follows
  <1> QED BY <1>1, CustodyReads, GroupsApart DEF Reads

LEMMA HandoffMoves ==
    ASSUME RefInv, NEW p \in Pids, HandoffTango(p) \/ HandoffPark(p)
    PROVE  Moves(p)
  <1> USE DEF RefInv
  <1>1. ReapExec(p) /\ tracing = "Tracing" /\ tracing' = tracing
    BY DEF HandoffTango, HandoffPark, CountStart
  <1>2. /\ CustodyOf(p) = "deciding" /\ kind[p] # "none" /\ p \in tracked
        /\ proc[p] = "exec"
    BY <1>1, ExecDecides
  <1>3. CASE HandoffTango(p)
    <2>1. PICK d \in Pids \cup {NoPid}, s \in {"deferred", "none"} :
            /\ EnsureDaemon(abi[p], d, TRUE, proc)
            /\ proc' = WithDaemon([proc EXCEPT ![p] = s], d)
            /\ kind' = IF s = "none" THEN [kind EXCEPT ![p] = "none"] ELSE kind
      BY <1>3 DEF HandoffTango
    <2>2. \E k : kind' = [kind EXCEPT ![p] = k]
      BY <2>1, SameKind
    <2>3. tracked' = tracked \ {p} /\ (d # NoPid => proc[d] = "none")
      BY <1>3, <2>1 DEF HandoffTango, EnsureDaemon
    <2>4. Alone(p) /\ proc'[p] = s
      <3>1. PICK k : kind' = [kind EXCEPT ![p] = k]
        BY <2>2
      <3>2. TypeOK /\ proc[p] # "none" /\ (d # NoPid => proc[d] = "none")
            /\ \A q \in Pids \ {p} : q \in tracked' <=> q \in tracked
        BY <1>2, <2>3
      <3>3. proc' = WithDaemon([proc EXCEPT ![p] = s], d)
        BY <2>1
      <3> HIDE DEF RefInv
      <3> QED BY <3>1, <3>2, <3>3, AloneWithDaemon
    <2>5. CustodyOf(p)' \in {"handed", "absent"}
      BY <2>4, CustodyReads DEF Reads, HandedStates
    <2> QED BY <1>1, <1>2, <2>4, <2>5, GroupsApart DEF Moves, Edge, On
  <1>4. CASE HandoffPark(p)
    <2>1. PICK d \in Pids \cup {NoPid} :
            /\ EnsureDaemon(abi[p], d, TRUE, proc)
            /\ proc' = WithDaemon([proc EXCEPT ![p] = "run"], d)
      BY <1>4 DEF HandoffPark
    <2>2. kind' = kind /\ tracked' = tracked /\ (d # NoPid => proc[d] = "none")
      BY <1>4, <2>1 DEF HandoffPark, EnsureDaemon
    <2>3. Alone(p) /\ proc'[p] = "run" /\ kind'[p] = kind[p]
      BY <1>2, <2>1, <2>2, SameKind, AloneWithDaemon
    <2>4. CustodyOf(p)' = "deciding"
      BY <1>2, <2>2, <2>3, CustodyReads, GroupsApart DEF Reads
    <2> QED BY <1>1, <1>2, <2>2, <2>3, <2>4, StaysOrGoes DEF Moves
  <1> QED BY <1>3, <1>4

LEMMA ReapMoves == ASSUME RefInv, NEW p \in Pids, ReapReport(p) PROVE Moves(p)
  <1> USE DEF RefInv
  <1>1. CASE NewTracee(p)
    <2>1. /\ p \notin tracked /\ proc[p] \in TraceStops /\ tracing' = tracing
          /\ proc' = [proc EXCEPT ![p] = "run"] /\ kind' = [kind EXCEPT ![p] = "none"]
          /\ tracked' = tracked \cup {p}
      BY <1>1 DEF NewTracee, ChildHandled, Forget
    <2>2. Alone(p) /\ proc'[p] = "run" /\ kind'[p] = "none"
      BY <2>1, AloneIf
    <2>3. CustodyOf(p)' = "followed"
      BY <2>2, CustodyReads, GroupsApart DEF Reads
    <2>4. CustodyOf(p) \in {"followed", "forgotten"}
      BY <2>1, CustodyReads, GroupsApart DEF Reads, Follows
    <2> QED BY <2>1, <2>2, <2>3, <2>4 DEF Moves, Edge, On
  <1>2. CASE UntrackedExit(p)
    <2>1. /\ tracing' = tracing /\ tracked' = tracked
          /\ proc' = [proc EXCEPT ![p] = "none"] /\ kind' = [kind EXCEPT ![p] = "none"]
      BY <1>2 DEF UntrackedExit, ChildHandled, Forget
    <2>2. Alone(p) /\ proc'[p] = "none"
      BY <2>1, AloneIf
    <2>3. CustodyOf(p)' = "absent"
      BY <2>2, CustodyReads DEF Reads
    <2> QED BY <2>1, <2>2, <2>3, StaysOrGoes, GroupsApart DEF Moves
  <1>3. CASE SuppressStop(p)
    <2>1. /\ tracing' = tracing /\ tracked' = tracked /\ p \in tracked /\ kind' = kind
          /\ proc' = [proc EXCEPT ![p] = "run"] /\ proc[p] \in {"evstop", "jobstop"}
      BY <1>3 DEF SuppressStop, ChildHandled, IsStoppingSignalStop
    <2>2. Alone(p) /\ proc'[p] = "run" /\ kind'[p] = kind[p]
      BY <2>1, SameKind, AloneIf
    <2>3. CustodyOf(p)' = CustodyOf(p)
      BY <2>1, <2>2, CustodyReads, GroupsApart DEF Reads
    <2> QED BY <2>1, <2>2, <2>3, StaysOrGoes DEF Moves
  <1>4. CASE DropTracee(p)
    <2> DEFINE s == IF proc[p] = "zombie" THEN "none" ELSE "released"
    <2>1. /\ tracing' = tracing /\ tracked' = tracked \ {p} /\ p \in tracked
          /\ proc[p] \in TraceStops \cup {"zombie"} /\ proc[p] # "exec"
          /\ proc[p] \in {"evstop", "jobstop"} => tracing # "Tracing"
          /\ proc' = [proc EXCEPT ![p] = s] /\ kind' = [kind EXCEPT ![p] = "none"]
      BY <1>4, GroupsApart DEF DropTracee, ReapChild, Reportable, ChildHandled, Forget,
                               IsStoppingSignalStop, TrackedAreTracees, TypeOK
    <2>2. Alone(p) /\ proc'[p] = s
      BY <2>1, AloneIf
    <2>3. CASE proc[p] = "zombie"
      <3>1. CustodyOf(p)' = "absent"
        BY <2>2, <2>3, CustodyReads DEF Reads
      <3> QED BY <2>1, <2>2, <2>3, <3>1, StaysOrGoes, GroupsApart DEF Moves
    <2>4. CASE proc[p] # "zombie"
      <3>1. CustodyOf(p)' = "free"
        BY <2>2, <2>4, CustodyReads DEF Reads
      <3>2. CustodyOf(p) \in {"deciding", "signalled", "followed"}
        BY <2>1, <2>4, CustodyReads, GroupsApart DEF Reads
      <3>3. CustodyOf(p) = "followed" => tracing # "Tracing"
        BY <2>1, <2>4, CustodyReads, GroupsApart DEF Reads
      <3>4. Edge(CustodyOf(p), CustodyOf(p)', On, On')
        BY <2>1, <3>1, <3>2, <3>3 DEF Edge, On
      <3> QED BY <2>2, <2>4, <3>4, GroupsApart DEF Moves
    <2> QED BY <2>3, <2>4
  <1>5. CASE ProgramUnreadable(p)
    <2>1. /\ tracing' = tracing /\ tracked' = tracked \ {p} /\ kind' = kind
          /\ proc' = [proc EXCEPT ![p] = "frozen"]
      BY <1>5 DEF ProgramUnreadable, ChildHandled
    <2>2. CustodyOf(p) = "deciding" /\ kind[p] # "none"
      BY <1>5, ExecDecides DEF ProgramUnreadable
    <2>3. Alone(p) /\ proc'[p] = "frozen" /\ kind'[p] = kind[p]
      BY <2>1, SameKind, AloneIf
    <2>4. CustodyOf(p)' = "forgotten"
      BY <2>1, <2>2, <2>3, CustodyReads, GroupsApart DEF Reads
    <2> QED BY <2>1, <2>2, <2>3, <2>4 DEF Moves, Edge, On
  <1>6. CASE NotHandedOff(p) \/ ZygoteCrashed(p) \/ NoDaemon(p)
    <2>1. /\ proc' = [proc EXCEPT ![p] = "released"] /\ kind' = [kind EXCEPT ![p] = "none"]
          /\ tracked' = tracked \ {p} /\ tracing' \in {tracing, "Stopping"}
      BY <1>6 DEF NotHandedOff, ZygoteCrashed, NoDaemon, StopInjecting, Release, Forget,
                  ChildHandled
    <2>2. CustodyOf(p) = "deciding"
      BY <1>6, ExecDecides DEF NotHandedOff, ZygoteCrashed, NoDaemon, CountStart
    <2>3. Alone(p) /\ proc'[p] = "released"
      BY <2>1, AloneIf
    <2>4. CustodyOf(p)' = "free"
      BY <2>3, CustodyReads DEF Reads
    <2>5. Edge(CustodyOf(p), CustodyOf(p)', On, On')
      BY <2>1, <2>2, <2>4 DEF Edge, On
    <2> QED BY <2>3, <2>5, GroupsApart DEF Moves
  <1> QED BY <1>1, <1>2, <1>3, <1>4, <1>5, <1>6, DaemonExitMoves, HandoffMoves DEF ReapReport

-----------------------------------------------------------------------------
(* The zygote being parked is still to be decided while it lives.          *)
LEMMA ParkedDecides ==
    ASSUME RefInv, NEW p \in Pids, Parking(p), proc[p] # "zombie"
    PROVE  CustodyOf(p) = "deciding" /\ tracing = "Tracing" /\ kind[p] # "none"
  <1>1. tracing = "Tracing" /\ kind[p] # "none"
    BY DEF Parking, RefInv, ParkGate, Gated
  <1>2. p \in tracked /\ proc[p] \in AttachedStates
    BY DEF Parking, RefInv, TrackedAreTracees
  <1> QED BY <1>1, <1>2, CustodyReads DEF Reads

LEMMA ParkMoves == ASSUME RefInv, NEW p \in Pids, ParkStep(p) PROVE Moves(p)
  <1> USE DEF RefInv
  <1>1. Parking(p) /\ tracing' = tracing
    BY DEF ParkStep, Parked, ParkForeignStop, ParkExited, ParkTimeout, EndPark
  <1>2. p \in tracked /\ proc[p] \in AttachedStates \ {"frozen"}
    BY <1>1 DEF Parking, TrackedAreTracees
  <1>3. CASE Parked(p)
    <2>1. PICK s \in {"held", "none"} :
             proc' = [proc EXCEPT ![p] = s] /\ \E k : kind' = [kind EXCEPT ![p] = k]
      BY <1>3, SameKind DEF Parked, Forget
    <2>2. tracked' = tracked \ {p} /\ proc[p] # "zombie"
      BY <1>3 DEF Parked, EndPark, IsParked
    <2>3. Alone(p) /\ proc'[p] = s
      BY <2>1, <2>2, AloneIf
    <2>4. CustodyOf(p)' \in {"handed", "absent"}
      BY <2>3, CustodyReads DEF Reads, HandedStates
    <2>5. CustodyOf(p) = "deciding" /\ tracing = "Tracing"
      BY <1>1, <2>2, ParkedDecides
    <2>6. Edge(CustodyOf(p), CustodyOf(p)', On, On')
      BY <1>1, <2>4, <2>5 DEF Edge, On
    <2> QED BY <2>3, <2>6, GroupsApart DEF Moves
  <1>4. CASE ParkForeignStop(p)
    <2>1. /\ proc' = [proc EXCEPT ![p] = "run"] /\ kind' = kind /\ tracked' = tracked
          /\ proc[p] # "zombie"
      BY <1>4, GroupsApart DEF ParkForeignStop
    <2>2. CustodyOf(p) = "deciding" /\ kind[p] # "none"
      BY <1>1, <2>1, ParkedDecides
    <2>3. Alone(p) /\ proc'[p] = "run" /\ kind'[p] = kind[p]
      BY <2>1, SameKind, AloneIf
    <2>4. CustodyOf(p)' = "deciding"
      BY <1>2, <2>1, <2>2, <2>3, CustodyReads, GroupsApart DEF Reads
    <2> QED BY <1>1, <2>2, <2>3, <2>4, StaysOrGoes DEF Moves
  <1>5. CASE ParkExited(p)
    <2>1. /\ proc' = [proc EXCEPT ![p] = "none"] /\ kind' = [kind EXCEPT ![p] = "none"]
          /\ tracked' = tracked \ {p}
      BY <1>5 DEF ParkExited, Forget, EndPark
    <2>2. Alone(p) /\ proc'[p] = "none"
      BY <2>1, AloneIf
    <2>3. CustodyOf(p)' = "absent"
      BY <2>2, CustodyReads DEF Reads
    <2> QED BY <1>1, <2>2, <2>3, StaysOrGoes, GroupsApart DEF Moves
  <1>6. CASE ParkTimeout(p)
    <2>1. tracked' = tracked \ {p}
      BY <1>6 DEF ParkTimeout, EndPark
    <2>2. CASE proc[p] \in TraceStops
      <3>1. proc' = [proc EXCEPT ![p] = "released"] /\ kind' = [kind EXCEPT ![p] = "none"]
        BY <1>6, <2>2 DEF ParkTimeout, Forget
      <3>2. Alone(p) /\ proc'[p] = "released"
        BY <2>1, <3>1, AloneIf
      <3>3. CustodyOf(p)' = "free"
        BY <3>2, CustodyReads DEF Reads
      <3>4. CustodyOf(p) = "deciding"
        BY <1>1, <2>2, ParkedDecides, GroupsApart
      <3>5. Edge(CustodyOf(p), CustodyOf(p)', On, On')
        BY <1>1, <3>3, <3>4 DEF Edge, On
      <3> QED BY <3>2, <3>5, GroupsApart DEF Moves
    <2>3. CASE proc[p] \notin TraceStops
      <3>1. proc' = proc /\ kind' = kind
        BY <1>6, <2>3 DEF ParkTimeout, procVars
      <3>2. Alone(p)
        BY <2>1, <3>1 DEF Alone
      <3>3. CASE proc[p] = "zombie"
        <4>1. CustodyOf(p)' = "absent"
          BY <3>1, <3>3, CustodyReads DEF Reads
        <4> QED BY <1>1, <3>1, <3>2, <3>3, <4>1, StaysOrGoes DEF Moves
      <3>4. CASE proc[p] # "zombie"
        <4>1. CustodyOf(p) = "deciding" /\ kind[p] # "none"
          BY <1>1, <3>4, ParkedDecides
        <4>2. CustodyOf(p)' = "forgotten"
          BY <1>2, <2>1, <3>1, <3>4, <4>1, CustodyReads DEF Reads
        <4>3. Edge(CustodyOf(p), CustodyOf(p)', On, On')
          BY <1>1, <4>1, <4>2 DEF Edge, On
        <4> QED BY <3>1, <3>2, <4>1, <4>3 DEF Moves
      <3> QED BY <3>3, <3>4
    <2> QED BY <2>2, <2>3
  <1> QED BY <1>3, <1>4, <1>5, <1>6 DEF ParkStep

-----------------------------------------------------------------------------
(* What the kernel and the processes do.                                   *)
LEMMA EnvironmentMoves ==
    ASSUME RefInv, NEW p \in Pids,
           \/ InitForks(p) \/ ChildStops(p) \/ ChildExecs(p) \/ ChildDies(p)
           \/ UntracedDies(p) \/ TracerInjects(p) \/ DaemonDies(p)
    PROVE  Moves(p)
  <1> USE DEF RefInv
  <1>1. tracing' = tracing /\ tracked' = tracked
    BY DEF InitForks, ChildStops, ChildExecs, ChildDies, UntracedDies, TracerInjects,
           DaemonDies, ChildMoves, monitorVars
  <1>2. CASE InitForks(p)
    <2>1. proc[p] = "none" /\ proc' = [proc EXCEPT ![p] = "evstop"] /\ kind' = kind
      BY <1>2 DEF InitForks
    <2>2. kind[p] = "none"
      BY <1>2, <2>1 DEF InitForks, CustodyInv, ExitsFromDrain, DaemonInv, ProgramKnown
    <2>3. Alone(p) /\ proc'[p] = "evstop" /\ kind'[p] = "none"
      BY <1>1, <2>1, <2>2, SameKind, AloneIf
    <2>4. CustodyOf(p) = "absent" /\ CustodyOf(p)' = "followed"
      BY <2>1, <2>3, CustodyReads, GroupsApart DEF Reads
    <2> QED BY <1>1, <2>3, <2>4 DEF Moves, Edge, On
  <1>3. CASE ChildStops(p)
    <2>1. PICK s \in {"jobstop", "sigstop", "evstop"} :
             proc' = [proc EXCEPT ![p] = s]
      BY <1>3 DEF ChildStops
    <2>2. kind' = kind /\ proc[p] = "run"
      BY <1>3 DEF ChildStops
    <2>3. Alone(p) /\ proc'[p] = s /\ kind'[p] = kind[p]
      BY <1>1, <2>1, <2>2, SameKind, AloneIf
    <2>4. p \notin tracked => kind[p] # "none"
      BY <2>2, GroupsApart DEF Follows
    <2>5. CASE kind[p] = "none"
      <3>1. CustodyOf(p) = "followed" /\ CustodyOf(p)' \in {"followed", "signalled"}
        BY <2>2, <2>3, <2>5, CustodyReads, GroupsApart DEF Reads
      <3> QED BY <1>1, <2>3, <2>4, <2>5, <3>1 DEF Moves, Edge, On
    <2>6. CASE kind[p] # "none"
      <3>1. CustodyOf(p)' = CustodyOf(p)
        BY <1>1, <2>2, <2>3, <2>6, CustodyReads, GroupsApart DEF Reads
      <3> QED BY <1>1, <2>3, <2>6, <3>1, StaysOrGoes DEF Moves
    <2> QED BY <2>5, <2>6
  <1>4. CASE ChildExecs(p)
    <2>1. PICK k \in ProgramKinds \ {"none"} : kind' = [kind EXCEPT ![p] = k]
      BY <1>4 DEF ChildExecs
    <2>2. proc[p] = "run" /\ proc' = [proc EXCEPT ![p] = "exec"]
      BY <1>4 DEF ChildExecs
    <2>3. Alone(p) /\ proc'[p] = "exec" /\ kind'[p] = k
      BY <1>1, <2>1, <2>2, AloneIf
    <2>4. p \notin tracked => kind[p] # "none"
      BY <2>2, GroupsApart DEF Follows
    <2>5. CustodyOf(p)' = IF p \in tracked THEN "deciding" ELSE "forgotten"
      BY <1>1, <2>3, CustodyReads, GroupsApart DEF Reads
    <2>6. CustodyOf(p) = IF kind[p] = "none" THEN "followed"
                         ELSE IF p \in tracked THEN "deciding" ELSE "forgotten"
      BY <2>2, CustodyReads, GroupsApart DEF Reads
    <2> QED BY <1>1, <2>3, <2>4, <2>5, <2>6 DEF Moves, Edge, On
  <1>5. CASE ChildDies(p) \/ UntracedDies(p) \/ DaemonDies(p)
    <2>1. PICK s \in {"zombie", "none", "dzombie"} :
             proc' = [proc EXCEPT ![p] = s] /\ \E k : kind' = [kind EXCEPT ![p] = k]
      BY <1>5, SameKind DEF ChildDies, UntracedDies, DaemonDies, Forget
    <2>2. Alone(p) /\ proc'[p] = s
      BY <1>1, <2>1, AloneIf
    <2>3. CustodyOf(p)' = "absent"
      BY <2>2, CustodyReads DEF Reads, DaemonStates
    <2>4. proc'[p] # "exec" /\ proc'[p] \notin AttachedStates \ {"zombie"}
      BY <2>2, GroupsApart
    <2> QED BY <1>1, <2>2, <2>3, <2>4, StaysOrGoes DEF Moves
  <1>6. CASE TracerInjects(p)
    <2>1. /\ proc[p] \in HandedStates /\ proc' = [proc EXCEPT ![p] = "injected"]
          /\ kind' = kind
      BY <1>6, GroupsApart DEF TracerInjects
    <2>2. Alone(p) /\ proc'[p] = "injected"
      BY <1>1, <2>1, SameKind, AloneIf
    <2>3. CustodyOf(p) = "handed" /\ CustodyOf(p)' = "handed"
      BY <2>1, <2>2, CustodyReads, GroupsApart DEF Reads
    <2>4. proc'[p] # "exec" /\ proc'[p] \notin AttachedStates
      BY <2>2, GroupsApart
    <2> QED BY <1>1, <2>2, <2>3, <2>4, StaysOrGoes DEF Moves
  <1> QED BY <1>2, <1>3, <1>4, <1>5, <1>6

-----------------------------------------------------------------------------
(* The monitor's end frees what it watches.                                *)
LEMMA LeaveFrees ==
    ASSUME RefInv, ReceiveNone, tracing = "Exiting"
    PROVE  Follows' /\ [Abstract!Next]_(Abstract!vars)
  <1> USE DEF RefInv
  <1> DEFINE custody == [q \in Pids |-> CustodyOf(q)]
  <1>1. /\ proc' = [q \in Pids |-> Orphaned(proc[q])] /\ kind' = kind /\ tracked' = {}
        /\ tracing' = "Exiting"
    BY DEF ReceiveNone, LeaveCallback
  <1>2. ASSUME NEW q \in Pids
        PROVE  /\ proc'[q] = Orphaned(proc[q]) /\ proc'[q] \notin AttachedStates
               /\ CustodyOf(q)' = IF CustodyOf(q) \in Abstract!Watched THEN "free" ELSE CustodyOf(q)
    <2>1. proc'[q] = Orphaned(proc[q])
      BY <1>1
    <2>2. CASE proc[q] \in AttachedStates \ {"zombie"}
      <3>1. proc'[q] = "released"
        BY <2>1, <2>2 DEF Orphaned
      <3>2. CustodyOf(q)' = "free" /\ CustodyOf(q) \in Abstract!Watched
        BY <2>2, <3>1, CustodyReads DEF Reads, Abstract!Watched
      <3> QED BY <2>1, <3>1, <3>2, GroupsApart
    <2>3. CASE proc[q] \notin AttachedStates \ {"zombie"}
      <3>1. proc'[q] = IF proc[q] \in {"zombie", "dzombie"} THEN "none" ELSE proc[q]
        BY <2>1, <2>3 DEF Orphaned
      <3>2. /\ proc[q] \in {"none", "zombie"} \cup DaemonStates
                \/ proc[q] \in HandedStates \/ proc[q] = "released"
        BY <2>3 DEF TypeOK, ProcState
      <3>3. CustodyOf(q) \in {"absent", "handed", "free"} /\ CustodyOf(q)' = CustodyOf(q)
        BY <3>1, <3>2, CustodyReads, GroupsApart DEF Reads
      <3>4. CustodyOf(q) \notin Abstract!Watched
        BY <3>3 DEF Abstract!Watched
      <3> QED BY <2>1, <2>3, <3>1, <3>3, <3>4, GroupsApart
    <2> QED BY <2>2, <2>3
  <1>3. Follows'
    BY <1>2, GroupsApart DEF Follows
  <1>4. custody' = [q \in Pids |-> IF custody[q] \in Abstract!Watched THEN "free" ELSE custody[q]]
    BY <1>2
  <1>5. Abstract!Leave
    BY <1>1, <1>4 DEF Abstract!Leave
  <1> QED BY <1>3, <1>5 DEF Abstract!Next

LEMMA RefinementStep ==
    ASSUME RefInv, [Next]_vars
    PROVE  Follows' /\ [Abstract!Next]_(Abstract!vars)
  <1>1. ASSUME NEW p \in Pids, Moves(p)
        PROVE  Follows' /\ [Abstract!Next]_(Abstract!vars)
    BY <1>1, MovesFollows, MovesAbstract DEF RefInv
  <1>2. ASSUME UNCHANGED <<proc, kind, tracked>>
        PROVE  Follows' /\ [Abstract!Next]_(Abstract!vars)
    BY <1>2, StepElsewhere DEF RefInv, Follows
  <1>3. CASE UNCHANGED vars
    BY <1>2, <1>3 DEF vars, monitorVars, procVars
  <1>4. CASE EpollSocket \/ EpollSignal \/ NothingToReap \/ ReapInit \/ Watchdog
    BY <1>2, <1>4 DEF EpollSocket, EpollSignal, NothingToReap, ReapInit, InitHandled, Watchdog,
                      monitorVars, procVars
  <1>5. CASE ReceiveDatagram
    BY <1>2, <1>5 DEF ReceiveDatagram, HandleStart, HandleStop, HandleExit, HandleOther, Receive,
                      procVars
  <1>6. CASE ReceiveNone
    <2>1. tracing # "Exiting" => UNCHANGED <<proc, kind, tracked>>
      BY <1>6 DEF ReceiveNone, LeaveCallback, procVars
    <2> QED BY <1>2, <1>6, <2>1, LeaveFrees
  <1>7. CASE \E p \in Pids : ReapReport(p) \/ ParkStep(p)
    BY <1>1, <1>7, ReapMoves, ParkMoves
  <1>8. CASE InitSignalled \/ InitTraps \/ SendDatagram
    BY <1>2, <1>8 DEF InitSignalled, InitTraps, SendDatagram, monitorVars, procVars
  <1>9. CASE \E p \in Pids :
               \/ InitForks(p) \/ ChildStops(p) \/ ChildExecs(p) \/ ChildDies(p)
               \/ UntracedDies(p) \/ TracerInjects(p) \/ DaemonDies(p)
    BY <1>1, <1>9, EnvironmentMoves
  <1> QED BY <1>3, <1>4, <1>5, <1>6, <1>7, <1>8, <1>9 DEF Next, MonitorStep, EnvironmentStep

(* The monitor starts with what TraceeCustody allows.                      *)
LEMMA RefinementInit == Init => Follows /\ Abstract!Init
  <1> SUFFICES ASSUME Init PROVE Follows /\ Abstract!Init
    OBVIOUS
  <1>1. \A p \in Pids : proc[p] \in {"none", "evstop"} /\ kind[p] = "none"
    BY DEF Init
  <1>2. \A p \in Pids : CustodyOf(p) \in {"absent", "followed"}
    BY <1>1, CustodyReads, GroupsApart DEF Reads
  <1>3. tracing = "Tracing"
    BY DEF Init
  <1> QED BY <1>1, <1>2, <1>3, GroupsApart DEF Follows, Abstract!Init

(* Whatever the order of reports, commands and timeouts, the processes init *)
(* forks are followed, decided once, and handed over or let go.             *)
THEOREM MonitorImplements == Spec => ImplementsCustody
  <1>1. Init => CustodyInv /\ TrackedAreTracees /\ DaemonInv /\ ParkGate
    BY NoPidAssumption
       DEF Init, CustodyInv, InitCustody, StopIsUnderway, ExitsFromDrain, TrackedAreTracees,
           DaemonInv, OneDaemonPerAbi, RecordedIsDaemon, ProgramKnown, DaemonStates, ParkGate
  <1>2. RefInv /\ [Next]_vars => RefInv'
    BY StepType, CustodyStep, TrackStep, DaemonStep, ParkGateStep, RefinementStep DEF RefInv
  <1>3. Init => RefInv
    BY <1>1, InitType, RefinementInit DEF RefInv
  <1>4. RefInv /\ [Next]_vars => [Abstract!Next]_(Abstract!vars)
    BY RefinementStep
  <1>5. Init => Abstract!Init
    BY RefinementInit
  <1> QED BY <1>2, <1>3, <1>4, <1>5, PTL DEF Spec, ImplementsCustody, Abstract!Spec
=============================================================================
