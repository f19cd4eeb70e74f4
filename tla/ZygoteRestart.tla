---------------------------- MODULE ZygoteRestart ----------------------------
(***************************************************************************)
(* The successive zygotes of one ABI on a time axis: the restart limiter   *)
(* of crates/ptracer/src/monitor.rs (ZygoteStartCounter), the --restart    *)
(* argument consider_handoff gives the tracer, and what the tracer's       *)
(* ZygoteRestart request does to the state the daemon keeps about the      *)
(* zygote before: its module companions and its mount-namespace snapshot.  *)
(*                                                                         *)
(* A generation is the number of a zygote start, 1 for the first.          *)
(***************************************************************************)
EXTENDS Integers, Sequences

CONSTANTS
    Window,         \* the 30 s of ZygoteStartCounter, in clock ticks
    MaxRetryCount,  \* ZygoteStartCounter::MAX_RETRY_COUNT
    TangoModes,     \* whether a zygote may be a tango one (--tango), a plain one
    MaxTime,        \* bound: clock ticks of a behaviour
    MaxStarts       \* bound: zygote starts of a behaviour

ASSUME WindowAssumption == Window \in Nat \ {0}
ASSUME RetryAssumption == MaxRetryCount \in Nat \ {0}
ASSUME ModeAssumption == TangoModes \subseteq BOOLEAN
ASSUME BoundAssumption == MaxTime \in Nat /\ MaxStarts \in Nat

VARIABLES
    now,        \* the monotonic clock
    last,       \* ZygoteStartCounter.last, or None
    count,      \* ZygoteStartCounter.count
    starts,     \* history: when each zygote started, and the count it got
    tracers,    \* the tracers that have not ended: see Tracer
    lost,       \* history: the ZygoteRestart of the latest zygote's tracer
                \* was never sent, or did not arrive
    serving,    \* generation of the zygote that was injected last, 0 if none
    companion,  \* generation that a module's companion was spawned for, 0: none
    nsCache     \* generation the cached mount namespace was taken from, 0: none

vars == <<now, last, count, starts, tracers, lost, serving, companion, nsCache>>

None == -1

(* The tracer of a zygote: it may have yet to send the request that        *)
(* --restart asks of it, and yet to inject.                                *)
Tracer == [gen : Nat, tango : BOOLEAN, owes : BOOLEAN, injects : BOOLEAN]

gen == Len(starts)

(* should_stop_inject: the count this start gets.  Mutant: the window is   *)
(* measured to its far end.                                                *)
NextCountTooWide == IF last # None /\ now - last <= Window THEN count + 1 ELSE 0

NextCount == IF last # None /\ now - last < Window THEN count + 1 ELSE 0

(* Mutant: one start too many. *)
AllowedLate(c) == c <= MaxRetryCount

Allowed(c) == c < MaxRetryCount

(* do_restart: is the tracer given --restart?                              *)
DoRestart(c) == c > 1

Init ==
    /\ now = 0
    /\ last = None
    /\ count = 0
    /\ starts = <<>>
    /\ tracers = {} /\ lost = FALSE
    /\ serving = 0
    /\ companion = 0
    /\ nsCache = 0

Tick ==
    /\ now < MaxTime
    /\ now' = now + 1
    /\ UNCHANGED <<last, count, starts, tracers, lost, serving, companion, nsCache>>

(* Of a tango zygote the request is put off until the injection is done,   *)
(* lest its injection point be missed.  Mutant: put off for every zygote.  *)
PutOffAlways(t) == TRUE

PutOff(t) == t.tango

(* What a tracer does next is send its request.                            *)
Sends(t) == t.owes /\ (PutOff(t) => ~t.injects)

Late == {t \in tracers : Sends(t)}

(* A zygote execs while the monitor traces init: the limiter counts it,    *)
(* and below the limit a tracer is launched for it, unless it is not       *)
(* parked in time or the monitor cannot fork.  The zygote before it,       *)
(* injected or not, is dead: its tracer can inject no more, but may still  *)
(* be about to send its request.                                           *)
ZygoteExecs ==
    /\ gen < MaxStarts
    /\ last' = now
    /\ count' = NextCount
    /\ starts' = Append(starts, [at |-> now, count |-> NextCount])
    /\ \/ /\ Allowed(NextCount)
          /\ \E tango \in TangoModes :
                tracers' = Late \cup {[gen |-> gen + 1, tango |-> tango,
                                      owes |-> DoRestart(NextCount), injects |-> TRUE]}
       \/ tracers' = Late
    /\ serving' = 0 /\ lost' = FALSE
    /\ UNCHANGED <<now, companion, nsCache>>

Left(t) == tracers' = tracers \ {t}
Becomes(t, u) == tracers' = (tracers \ {t}) \cup {u}

(* rezygiskd_zygote_restart: the daemon closes the companions and drops    *)
(* the namespace snapshot.  A request that cannot connect or be written is *)
(* lost, and the tracer goes on.                                           *)
TracerTells(t) ==
    /\ Sends(t)
    /\ \/ companion' = 0 /\ nsCache' = 0 /\ UNCHANGED lost
       \/ lost' = (lost \/ t.gen = gen) /\ UNCHANGED <<companion, nsCache>>
    /\ IF t.injects THEN Becomes(t, [t EXCEPT !.owes = FALSE]) ELSE Left(t)
    /\ UNCHANGED <<now, last, count, starts, serving>>

(* trace_zygote succeeds, which it can only with a zygote that lives.      *)
TracerInjects(t) ==
    /\ t.injects /\ (t.owes => PutOff(t)) /\ t.gen = gen
    /\ serving' = gen
    /\ IF t.owes THEN Becomes(t, [t EXCEPT !.injects = FALSE]) ELSE Left(t)
    /\ UNCHANGED <<now, last, count, starts, lost, companion, nsCache>>

(* trace_zygote fails, and the zygote is killed; or the tracer is killed.  *)
(* What it owes is never sent.                                             *)
TracerFails(t) ==
    /\ Left(t)
    /\ lost' = (lost \/ (t.owes /\ t.gen = gen))
    /\ UNCHANGED <<now, last, count, starts, serving, companion, nsCache>>

(* RequestCompanionSocket from an injected process: the companion is       *)
(* spawned if there is none, reused otherwise.                             *)
RequestCompanion ==
    /\ serving # 0
    /\ companion' = IF companion = 0 THEN serving ELSE companion
    /\ UNCHANGED <<now, last, count, starts, tracers, lost, serving, nsCache>>

(* UpdateMountNamespace: the snapshot is taken if there is none.           *)
UpdateMountNamespace ==
    /\ serving # 0
    /\ nsCache' = IF nsCache = 0 THEN serving ELSE nsCache
    /\ UNCHANGED <<now, last, count, starts, tracers, lost, serving, companion>>

(* InvalidateCleanNs (zygisk-ptrace invalidate-ns).                        *)
InvalidateCleanNs ==
    /\ nsCache' = 0
    /\ UNCHANGED <<now, last, count, starts, tracers, lost, serving, companion>>

Next ==
    \/ Tick \/ ZygoteExecs
    \/ \E t \in tracers : TracerTells(t) \/ TracerInjects(t) \/ TracerFails(t)
    \/ RequestCompanion \/ UpdateMountNamespace \/ InvalidateCleanNs

Spec == Init /\ [][Next]_vars

-----------------------------------------------------------------------------
TypeOK ==
    /\ now \in Nat
    /\ last \in Nat \cup {None}
    /\ count \in Nat
    /\ starts \in Seq([at : Nat, count : Nat])
    /\ tracers \subseteq Tracer /\ lost \in BOOLEAN
    /\ serving \in Nat /\ companion \in Nat /\ nsCache \in Nat

(* should_stop_inject lets at most MaxRetryCount zygotes be injected in    *)
(* any interval shorter than the window, refused starts in between or not. *)
BoundedRate ==
    \A i, j \in 1 .. gen :
        /\ j - i >= MaxRetryCount
        /\ Allowed(starts[i].count) /\ Allowed(starts[j].count)
        => starts[j].at - starts[i].at >= Window

(* A refusal always ends a run of MaxRetryCount + 1 starts, each less than *)
(* a window after the one before; a start after a quiet window is allowed. *)
RefusalEndsRun ==
    \A j \in 1 .. gen :
        ~Allowed(starts[j].count)
        <=> /\ j > MaxRetryCount
            /\ \A i \in j - MaxRetryCount .. j - 1 : starts[i + 1].at - starts[i].at < Window

Fresh == companion \in {0, serving} /\ nsCache \in {0, serving}

(* The daemon has been told of the zygote that is served: of a plain one   *)
(* from its first request on, of a tango one when its tracer is done,      *)
(* unless the request was lost.                                            *)
Told == ~lost /\ \A t \in tracers : t.gen = serving => ~t.tango

(* From the third start of a burst on, and once it has been told, the      *)
(* daemon serves an injected process nothing that belongs to an earlier    *)
(* zygote, however late the tracers of earlier ones are.                   *)
BurstSeesFreshDaemon ==
    serving # 0 /\ DoRestart(starts[serving].count) /\ Told => Fresh
=============================================================================
