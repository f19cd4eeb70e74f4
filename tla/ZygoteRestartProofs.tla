------------------------- MODULE ZygoteRestartProofs -------------------------
(* The restart limiter bounds the rate of injections, and a burst is served *)
(* by a daemon that has forgotten the zygotes before, for every window,     *)
(* limit and length of the behaviour.                                       *)
EXTENDS ZygoteRestart, TLAPS

LEMMA InitType == Init => TypeOK
  <1>1. Init => lost \in BOOLEAN
    BY Zenon DEF Init
  <1> QED BY <1>1 DEF Init, TypeOK, None

LEMMA NextCountType ==
    ASSUME TypeOK
    PROVE  NextCount \in Nat
  BY DEF TypeOK, NextCount

LEMMA ElementsOf ==
    ASSUME NEW S, NEW s \in Seq(S)
    PROVE  Len(s) \in Nat /\ \A i \in 1 .. Len(s) : s[i] \in S
  OBVIOUS

(* The recorded starts carry natural numbers. *)
LEMMA StartsType ==
    ASSUME TypeOK
    PROVE  /\ gen \in Nat
           /\ \A i \in 1 .. gen : starts[i].at \in Nat /\ starts[i].count \in Nat
  <1>1. starts \in Seq([at : Nat, count : Nat])
    BY DEF TypeOK
  <1>2. gen \in Nat /\ \A i \in 1 .. gen : starts[i] \in [at : Nat, count : Nat]
    BY <1>1, ElementsOf DEF gen
  <1> QED BY <1>2

LEMMA StepType == TypeOK /\ [Next]_vars => TypeOK'
  <1> SUFFICES ASSUME TypeOK, [Next]_vars PROVE TypeOK'
    OBVIOUS
  <1>1. CASE UNCHANGED vars
    BY <1>1 DEF TypeOK, vars
  <1>2. CASE Tick
    BY <1>2 DEF TypeOK, Tick
  <1>3. CASE ZygoteExecs
    <2>1. [at |-> now, count |-> NextCount] \in [at : Nat, count : Nat]
      BY NextCountType DEF TypeOK
    <2>2. starts' \in Seq([at : Nat, count : Nat])
      BY <1>3, <2>1 DEF TypeOK, ZygoteExecs
    <2>3. tracers' \subseteq Tracer
      <3>1. Late \subseteq Tracer /\ gen + 1 \in Nat
        BY StartsType DEF TypeOK, Late
      <3>2. ASSUME NEW tango \in TangoModes
            PROVE  [gen |-> gen + 1, tango |-> tango,
                    owes |-> DoRestart(NextCount), injects |-> TRUE] \in Tracer
        BY <3>1, ModeAssumption, NextCountType DEF Tracer, DoRestart
      <3> QED BY <1>3, <3>1, <3>2 DEF ZygoteExecs
    <2>4. UNCHANGED <<now, companion, nsCache>> /\ serving' = 0 /\ lost' = FALSE
          /\ last' = now /\ count' = NextCount
      BY <1>3 DEF ZygoteExecs
    <2> QED BY <2>2, <2>3, <2>4, NextCountType DEF TypeOK
  <1>4. ASSUME NEW t \in tracers, TracerTells(t) \/ TracerInjects(t) \/ TracerFails(t)
        PROVE  TypeOK'
    <2>1. t \in Tracer /\ gen \in Nat
      BY StartsType DEF TypeOK
    <2>2. [t EXCEPT !.owes = FALSE] \in Tracer /\ [t EXCEPT !.injects = FALSE] \in Tracer
      BY <2>1 DEF Tracer
    <2>3. tracers' \subseteq Tracer
      BY <1>4, <2>1, <2>2 DEF TypeOK, TracerTells, TracerInjects, TracerFails, Left, Becomes
    <2>4. UNCHANGED <<now, last, count, starts>>
      BY <1>4 DEF TracerTells, TracerInjects, TracerFails
    <2>5. lost' \in BOOLEAN
      <3>1. \/ lost' = lost
            \/ lost' = (lost \/ t.gen = gen)
            \/ lost' = (lost \/ (t.owes /\ t.gen = gen))
        BY <1>4 DEF TracerTells, TracerInjects, TracerFails
      <3>2. lost \in BOOLEAN
        BY DEF TypeOK
      <3> QED BY Zenon, <3>1, <3>2
    <2>6. serving' \in Nat /\ companion' \in Nat /\ nsCache' \in Nat
      BY <1>4, <2>1 DEF TypeOK, TracerTells, TracerInjects, TracerFails
    <2> QED BY <2>3, <2>4, <2>5, <2>6 DEF TypeOK
  <1>5. CASE RequestCompanion \/ UpdateMountNamespace \/ InvalidateCleanNs
    BY <1>5 DEF TypeOK, RequestCompanion, UpdateMountNamespace, InvalidateCleanNs
  <1> QED BY <1>1, <1>2, <1>3, <1>4, <1>5 DEF Next

(* Type correctness of the limiter, the tracers and the daemon's caches. *)
THEOREM TypeCorrect == Spec => []TypeOK
  BY InitType, StepType, PTL DEF Spec

-----------------------------------------------------------------------------
(* The limiter's memory is the last start; times never decrease; and within *)
(* a window the count grows by one with every start.                        *)
Remembers ==
    IF gen = 0 THEN last = None
    ELSE last = starts[gen].at /\ count = starts[gen].count

Sorted ==
    /\ \A i \in 1 .. gen : starts[i].at <= now
    /\ \A i, j \in 1 .. gen : i <= j => starts[i].at <= starts[j].at

CountsWithinWindow ==
    \A i, j \in 1 .. gen :
        i <= j /\ starts[j].at - starts[i].at < Window
        => starts[j].count >= starts[i].count + (j - i)

(* The count of a start is the number of starts that led up to it, each     *)
(* less than a window after the one before.                                 *)
CountsRun ==
    \A j \in 1 .. gen :
        /\ starts[j].count < j
        /\ \A i \in j - starts[j].count .. j - 1 : starts[i + 1].at - starts[i].at < Window
        /\ j - starts[j].count > 1 =>
             starts[j - starts[j].count].at - starts[j - starts[j].count - 1].at >= Window

LimiterInv == Remembers /\ Sorted /\ CountsWithinWindow /\ CountsRun

LEMMA LimiterStep == TypeOK /\ LimiterInv /\ [Next]_vars => LimiterInv'
  <1> SUFFICES ASSUME TypeOK, LimiterInv, [Next]_vars PROVE LimiterInv'
    OBVIOUS
  <1>1. CASE UNCHANGED <<now, last, count, starts>>
    BY <1>1 DEF LimiterInv, Remembers, Sorted, CountsWithinWindow, CountsRun, gen
  <1>2. CASE Tick
    <2>1. UNCHANGED <<last, count, starts>> /\ now' = now + 1
      BY <1>2 DEF Tick
    <2>2. \A i \in 1 .. gen : starts[i].at <= now'
      BY <2>1, StartsType DEF TypeOK, LimiterInv, Sorted
    <2> QED BY <2>1, <2>2 DEF LimiterInv, Remembers, Sorted, CountsWithinWindow, CountsRun, gen
  <1>3. CASE ZygoteExecs
    <2> DEFINE n == gen
    <2>1. n \in Nat /\ NextCount \in Nat /\ now \in Nat /\ Window \in Nat
      BY NextCountType, StartsType, WindowAssumption DEF TypeOK
    <2>2. \A i \in 1 .. n : starts[i].at \in Nat /\ starts[i].count \in Nat
      BY StartsType
    <2>3. /\ Len(starts') = n + 1
          /\ \A i \in 1 .. n : starts'[i] = starts[i]
          /\ starts'[n + 1].at = now /\ starts'[n + 1].count = NextCount
      BY <1>3 DEF ZygoteExecs, TypeOK, gen
    <2>4. now' = now /\ last' = now /\ count' = NextCount
      BY <1>3 DEF ZygoteExecs
    <2>5. IF n = 0 THEN last = None ELSE last = starts[n].at /\ count = starts[n].count
      BY DEF LimiterInv, Remembers
    <2> HIDE DEF n
    <2>6. Remembers'
      BY <2>1, <2>3, <2>4 DEF Remembers, gen
    <2>7. Sorted'
      BY SMTT(30), <2>1, <2>2, <2>3, <2>4 DEF LimiterInv, Sorted, gen, n
    <2>8. CountsWithinWindow'
      <3> SUFFICES ASSUME NEW i \in 1 .. n + 1, NEW j \in 1 .. n + 1,
                          i <= j, starts'[j].at - starts'[i].at < Window
                   PROVE  starts'[j].count >= starts'[i].count + (j - i)
        BY <2>1, <2>3 DEF CountsWithinWindow, gen
      <3>1. CASE j <= n
        <4>1. i \in 1 .. n /\ j \in 1 .. n
          BY <2>1, <3>1
        <4>2. starts'[i] = starts[i] /\ starts'[j] = starts[j]
          BY <2>3, <4>1
        <4> QED BY <4>1, <4>2 DEF LimiterInv, CountsWithinWindow, n
      <3>2. CASE j = n + 1 /\ i = n + 1
        BY <2>1, <2>3, <3>2
      <3>3. CASE j = n + 1 /\ i <= n
        <4>1. n # 0 /\ last = starts[n].at /\ count = starts[n].count /\ last # None
          BY <2>1, <2>2, <2>5, <3>3 DEF None
        <4>2. starts[i].at <= starts[n].at /\ starts[n].at <= now
          BY <2>1, <3>3, <4>1 DEF LimiterInv, Sorted, gen, n
        <4>3. now - last < Window
          BY <2>1, <2>2, <2>3, <3>3, <4>1, <4>2
        <4>4. NextCount = count + 1
          BY <4>1, <4>3 DEF NextCount
        <4>5. starts[n].at - starts[i].at < Window
          BY <2>1, <2>2, <2>3, <3>3, <4>1, <4>2
        <4>6. starts[n].count >= starts[i].count + (n - i)
          BY <2>1, <3>3, <4>1, <4>5 DEF LimiterInv, CountsWithinWindow, n
        <4>7. starts'[j].count = starts[n].count + 1 /\ starts'[i].count = starts[i].count
          BY <2>1, <2>3, <3>3, <4>1, <4>4
        <4>8. starts[n].count \in Nat /\ starts[i].count \in Nat
          BY <2>1, <2>2, <3>3, <4>1
        <4> QED BY <2>1, <3>3, <4>6, <4>7, <4>8
      <3> QED BY <2>1, <3>1, <3>2, <3>3
    <2>9. CountsRun'
      <3> SUFFICES ASSUME NEW j \in 1 .. n + 1
                   PROVE  LET c == starts'[j].count IN
                          /\ c < j
                          /\ \A i \in j - c .. j - 1 : starts'[i + 1].at - starts'[i].at < Window
                          /\ j - c > 1 => starts'[j - c].at - starts'[j - c - 1].at >= Window
        BY <2>1, <2>3 DEF CountsRun, gen
      <3>1. CASE j <= n
        <4>1. /\ starts[j].count < j
              /\ \A i \in j - starts[j].count .. j - 1 : starts[i + 1].at - starts[i].at < Window
              /\ j - starts[j].count > 1 =>
                   starts[j - starts[j].count].at - starts[j - starts[j].count - 1].at >= Window
          BY <2>1, <3>1 DEF LimiterInv, CountsRun, n
        <4>2. starts[j].count \in Nat /\ starts'[j] = starts[j]
          BY <2>1, <2>2, <2>3, <3>1
        <4>3. \A i \in j - starts[j].count .. j - 1 : i \in 1 .. n /\ i + 1 \in 1 .. n
          BY <2>1, <3>1, <4>1, <4>2
        <4>4. \A i \in j - starts[j].count .. j - 1 :
                 starts'[i + 1].at - starts'[i].at < Window
          BY <2>3, <4>1, <4>3
        <4>5. j - starts[j].count > 1 =>
                /\ j - starts[j].count \in 1 .. n
                /\ j - starts[j].count - 1 \in 1 .. n
          BY <2>1, <3>1, <4>1, <4>2
        <4> QED BY <2>3, <4>1, <4>2, <4>4, <4>5
      <3>2. CASE j = n + 1 /\ NextCount = 0
        <4>1. n # 0 => now - starts[n].at >= Window
          BY <2>1, <2>2, <2>5, <3>2 DEF NextCount, None, TypeOK
        <4> QED BY <2>1, <2>2, <2>3, <3>2, <4>1
      <3>3. CASE j = n + 1 /\ NextCount # 0
        <4>1. n # 0 /\ NextCount = starts[n].count + 1 /\ now - starts[n].at < Window
          BY <2>1, <2>5, <3>3 DEF NextCount
        <4>2. /\ starts[n].count < n
              /\ \A i \in n - starts[n].count .. n - 1 : starts[i + 1].at - starts[i].at < Window
              /\ n - starts[n].count > 1 =>
                   starts[n - starts[n].count].at - starts[n - starts[n].count - 1].at >= Window
          BY <2>1, <4>1 DEF LimiterInv, CountsRun, n
        <4>3. j - NextCount = n - starts[n].count
          BY <2>1, <2>2, <3>3, <4>1
        <4>4. starts[n].count \in Nat /\ starts'[j].count = NextCount
          BY <2>1, <2>2, <2>3, <3>3, <4>1
        <4>5. NextCount < j
          BY <2>1, <3>3, <4>1, <4>2, <4>4
        <4>6. ASSUME NEW i \in j - NextCount .. j - 1
              PROVE  starts'[i + 1].at - starts'[i].at < Window
          <5>1. CASE i = n
            <6>1. starts'[i + 1].at = now /\ starts'[i] = starts[n]
              BY <2>1, <2>3, <4>1, <5>1
            <6> QED BY <4>1, <6>1
          <5>2. CASE i # n
            <6>1. i \in n - starts[n].count .. n - 1 /\ i \in 1 .. n /\ i + 1 \in 1 .. n
              BY <2>1, <3>3, <4>1, <4>2, <4>3, <4>4, <5>2
            <6> QED BY <2>3, <4>2, <6>1
          <5> QED BY <5>1, <5>2
        <4>7. j - NextCount > 1 =>
                /\ j - NextCount \in 1 .. n
                /\ j - NextCount - 1 \in 1 .. n
          BY <2>1, <3>3, <4>1, <4>2, <4>4
        <4> QED BY <2>3, <4>2, <4>3, <4>4, <4>5, <4>6, <4>7
      <3> QED BY <2>1, <3>1, <3>2, <3>3
    <2> QED BY <2>6, <2>7, <2>8, <2>9 DEF LimiterInv
  <1> QED BY <1>1, <1>2, <1>3 DEF Next, vars, TracerTells, TracerInjects, TracerFails,
                                  RequestCompanion, UpdateMountNamespace, InvalidateCleanNs

LEMMA LimiterCorrect == Spec => [](TypeOK /\ LimiterInv)
  <1>1. Init => LimiterInv
    BY DEF Init, LimiterInv, Remembers, Sorted, CountsWithinWindow, CountsRun, gen
  <1> QED BY <1>1, LimiterStep, TypeCorrect, PTL DEF Spec

(* should_stop_inject lets at most MaxRetryCount zygotes be injected in any *)
(* interval shorter than the window.                                        *)
THEOREM RateIsBounded == Spec => []BoundedRate
  <1>1. TypeOK /\ LimiterInv => BoundedRate
    <2> SUFFICES ASSUME TypeOK, LimiterInv, NEW i \in 1 .. gen, NEW j \in 1 .. gen,
                        j - i >= MaxRetryCount,
                        Allowed(starts[i].count), Allowed(starts[j].count),
                        starts[j].at - starts[i].at < Window
                 PROVE  FALSE
      BY StartsType, WindowAssumption DEF BoundedRate
    <2>1. starts[i].count \in Nat /\ starts[j].count \in Nat /\ gen \in Nat
      BY StartsType
    <2>2. starts[j].count >= starts[i].count + (j - i)
      BY RetryAssumption DEF LimiterInv, CountsWithinWindow
    <2> QED BY <2>1, <2>2, RetryAssumption DEF Allowed
  <1> QED BY <1>1, LimiterCorrect, PTL

(* The limiter refuses a start exactly when it ends a run of MaxRetryCount  *)
(* + 1 starts, each less than a window after the one before.                *)
THEOREM RefusalsExplained == Spec => []RefusalEndsRun
  <1>1. TypeOK /\ LimiterInv => RefusalEndsRun
    <2> SUFFICES ASSUME TypeOK, LimiterInv, NEW j \in 1 .. gen
                 PROVE  ~Allowed(starts[j].count)
                        <=> /\ j > MaxRetryCount
                            /\ \A i \in j - MaxRetryCount .. j - 1 :
                                  starts[i + 1].at - starts[i].at < Window
      BY DEF RefusalEndsRun
    <2> DEFINE c == starts[j].count
    <2>1. c \in Nat /\ gen \in Nat /\ \A i \in 1 .. gen : starts[i].at \in Nat
      BY StartsType
    <2>2. /\ c < j
          /\ \A i \in j - c .. j - 1 : starts[i + 1].at - starts[i].at < Window
          /\ j - c > 1 => starts[j - c].at - starts[j - c - 1].at >= Window
      BY DEF LimiterInv, CountsRun
    <2> HIDE DEF c
    <2>3. CASE c >= MaxRetryCount
      BY <2>1, <2>2, <2>3, RetryAssumption DEF Allowed, c
    <2>4. CASE c < MaxRetryCount
      <3>1. ASSUME j > MaxRetryCount
            PROVE  \E i \in j - MaxRetryCount .. j - 1 : starts[i + 1].at - starts[i].at >= Window
        <4>1. j - c > 1 /\ j - c - 1 \in j - MaxRetryCount .. j - 1
          BY <2>1, <2>4, <3>1, RetryAssumption
        <4>2. j - c - 1 + 1 = j - c
          BY <2>1
        <4> QED BY <2>2, <4>1, <4>2
      <3>2. \A i \in 1 .. gen - 1 : starts[i + 1].at \in Nat /\ starts[i].at \in Nat
        BY <2>1
      <3> QED BY <2>1, <2>4, <3>1, <3>2, RetryAssumption, WindowAssumption DEF Allowed, c
    <2> QED BY <2>1, <2>3, <2>4, RetryAssumption
  <1> QED BY <1>1, LimiterCorrect, PTL

-----------------------------------------------------------------------------
(* A process that is served is of the latest zygote, and that zygote's      *)
(* tracer has then injected; a tracer that is still there has something to  *)
(* do; and one that has yet to inject, in a burst, has sent its request     *)
(* first (a tango one still owes it), so that the caches are empty unless   *)
(* the request was lost.                                                    *)
OfLatest ==
    /\ serving # 0 => serving = gen
    /\ \A t \in tracers : t.gen \in 1 .. gen
    /\ \A t, u \in tracers : t.gen = gen /\ u.gen = gen => t = u
    /\ \A t \in tracers :
          t.gen = gen =>
             /\ t.injects => serving = 0
             /\ t.injects \/ t.owes
             /\ t.injects /\ ~t.owes /\ DoRestart(starts[gen].count)
                  => ~t.tango /\ (lost \/ (companion = 0 /\ nsCache = 0))

(* ... and then what it is served is its own, once the daemon was told.     *)
BurstInv == OfLatest /\ BurstSeesFreshDaemon

LEMMA ExecStep ==
    ASSUME TypeOK, BurstInv, ZygoteExecs
    PROVE  BurstInv'
  <1>1. Len(starts') = gen + 1 /\ starts'[gen + 1].count = NextCount /\ gen \in Nat
    BY DEF ZygoteExecs, TypeOK, gen
  <1>2. gen' = gen + 1
    BY <1>1 DEF gen
  <1>3. serving' = 0
    BY DEF ZygoteExecs
  <1>4. \A t \in tracers' :
           \/ t \in tracers
           \/ \E tango \in TangoModes :
                 t = [gen |-> gen + 1, tango |-> tango,
                      owes |-> DoRestart(NextCount), injects |-> TRUE]
    BY DEF ZygoteExecs, Late
  <1>5. \A t \in tracers : t.gen \in 1 .. gen
    BY DEF BurstInv, OfLatest
  <1>6. \A t \in tracers' : t.gen \in 1 .. gen + 1
    BY <1>1, <1>4, <1>5
  <1>7. \A t \in tracers' : t.gen = gen + 1 =>
           t.injects /\ (t.owes <=> DoRestart(NextCount))
    BY <1>1, <1>4, <1>5
  <1>8. \A t, u \in tracers' : t.gen = gen + 1 /\ u.gen = gen + 1 => t = u
    <2>1. CASE tracers' = Late
      BY <1>1, <1>5, <2>1 DEF Late
    <2>2. CASE \E tango \in TangoModes :
                  tracers' = Late \cup {[gen |-> gen + 1, tango |-> tango,
                                         owes |-> DoRestart(NextCount), injects |-> TRUE]}
      <3>1. PICK new : new.gen = gen + 1 /\ tracers' = Late \cup {new}
        BY <2>2
      <3> QED BY <1>1, <1>5, <3>1 DEF Late
    <2> QED BY <2>1, <2>2 DEF ZygoteExecs
  <1>9. OfLatest'
    BY <1>1, <1>2, <1>3, <1>6, <1>7, <1>8 DEF OfLatest
  <1> QED BY <1>3, <1>9 DEF BurstInv, BurstSeesFreshDaemon

(* A tracer that goes, or becomes another of its zygote, leaves the others. *)
LEMMA OneTracer ==
    ASSUME OfLatest, NEW t \in tracers, NEW v, v.gen = t.gen,
           tracers' \subseteq (tracers \ {t}) \cup {v}
    PROVE  /\ \A u \in tracers' : u.gen \in 1 .. gen
           /\ \A u, w \in tracers' : u.gen = gen /\ w.gen = gen => u = w
           /\ t.gen = gen => \A u \in tracers' : u.gen = gen => u = v
           /\ t.gen # gen => \A u \in tracers' : u.gen = gen => u \in tracers
  BY DEF OfLatest

LEMMA TellStep ==
    ASSUME TypeOK, BurstInv, NEW t \in tracers, TracerTells(t)
    PROVE  BurstInv'
  <1> DEFINE v == [t EXCEPT !.owes = FALSE]
  <1>1. t \in Tracer /\ gen \in Nat /\ serving \in Nat
    BY StartsType DEF TypeOK
  <1>2. /\ v.gen = t.gen /\ v.tango = t.tango /\ v.injects = t.injects /\ ~v.owes
    BY <1>1 DEF Tracer
  <1>3. /\ UNCHANGED <<starts, serving>> /\ gen' = gen
        /\ t.owes /\ (t.tango => ~t.injects)
        /\ \/ companion' = 0 /\ nsCache' = 0 /\ lost' = lost
           \/ lost' = (lost \/ t.gen = gen) /\ UNCHANGED <<companion, nsCache>>
        /\ IF t.injects THEN tracers' = (tracers \ {t}) \cup {v} ELSE tracers' = tracers \ {t}
    BY DEF TracerTells, Sends, PutOff, Left, Becomes, gen
  <1> HIDE DEF v
  <1>4. /\ \A u \in tracers' : u.gen \in 1 .. gen
        /\ \A u, w \in tracers' : u.gen = gen /\ w.gen = gen => u = w
        /\ t.gen = gen => \A u \in tracers' : u.gen = gen => u = v
        /\ t.gen # gen => \A u \in tracers' : u.gen = gen => u \in tracers
    <2>1. tracers' \subseteq (tracers \ {t}) \cup {v}
      BY <1>3
    <2> QED BY <1>2, <2>1, OneTracer DEF BurstInv
  <1>5. CASE t.gen = gen
    <2>1. t.injects => serving = 0
      BY <1>5 DEF BurstInv, OfLatest
    <2>2. v \in tracers' => t.injects
      <3>1. v # t
        BY <1>2, <1>3
      <3>2. v \in tracers => v = t
        BY <1>2, <1>5 DEF BurstInv, OfLatest
      <3> QED BY <1>3, <3>1, <3>2
    <2>3. lost' \/ (companion' = 0 /\ nsCache' = 0)
      BY <1>3, <1>5
    <2>4. OfLatest'
      BY <1>2, <1>3, <1>4, <1>5, <2>1, <2>2, <2>3 DEF BurstInv, OfLatest
    <2>5. BurstSeesFreshDaemon'
      BY <1>3, <2>3 DEF BurstSeesFreshDaemon, Told, Fresh
    <2> QED BY <2>4, <2>5 DEF BurstInv
  <1>6. CASE t.gen # gen
    <2>1. lost' = lost \/ lost' = (lost \/ FALSE)
      BY <1>3, <1>6
    <2>2. /\ companion' = 0 \/ companion' = companion
          /\ nsCache' = 0 \/ nsCache' = nsCache
          /\ lost' = lost
      BY <1>3, <2>1 DEF TypeOK
    <2>3. OfLatest'
      BY <1>3, <1>4, <1>6, <2>2 DEF BurstInv, OfLatest
    <2>4. serving # 0 /\ Told' => Told
      <3>1. ASSUME NEW u \in tracers, u.gen = gen PROVE u \in tracers'
        BY <1>3, <1>6, <3>1
      <3> QED BY <1>3, <2>2, <3>1 DEF Told, BurstInv, OfLatest
    <2>5. BurstSeesFreshDaemon'
      BY <1>3, <2>2, <2>4 DEF BurstInv, BurstSeesFreshDaemon, Fresh
    <2> QED BY <2>3, <2>5 DEF BurstInv
  <1> QED BY <1>5, <1>6

LEMMA InjectStep ==
    ASSUME TypeOK, BurstInv, NEW t \in tracers, TracerInjects(t)
    PROVE  BurstInv'
  <1> DEFINE v == [t EXCEPT !.injects = FALSE]
  <1>1. t \in Tracer /\ gen \in Nat
    BY StartsType DEF TypeOK
  <1>2. v.gen = t.gen /\ v.tango = t.tango /\ v.owes = t.owes /\ ~v.injects
    BY <1>1 DEF Tracer
  <1>3. /\ UNCHANGED <<starts, lost, companion, nsCache>> /\ gen' = gen /\ serving' = gen
        /\ t.injects /\ (t.owes => t.tango) /\ t.gen = gen
        /\ IF t.owes THEN tracers' = (tracers \ {t}) \cup {v} ELSE tracers' = tracers \ {t}
    BY DEF TracerInjects, PutOff, Left, Becomes, gen
  <1> HIDE DEF v
  <1>4. /\ \A u \in tracers' : u.gen \in 1 .. gen
        /\ \A u, w \in tracers' : u.gen = gen /\ w.gen = gen => u = w
        /\ \A u \in tracers' : u.gen = gen => u = v
    <2>1. tracers' \subseteq (tracers \ {t}) \cup {v}
      BY <1>3
    <2> QED BY <1>2, <1>3, <2>1, OneTracer DEF BurstInv
  <1>5. v \in tracers' => t.owes
    <2>1. v # t
      BY <1>2, <1>3
    <2>2. v \in tracers => v = t
      BY <1>2, <1>3 DEF BurstInv, OfLatest
    <2> QED BY <1>3, <2>1, <2>2
  <1>6. OfLatest'
    BY <1>2, <1>3, <1>4, <1>5 DEF OfLatest
  <1>7. BurstSeesFreshDaemon'
    <2>1. CASE t.owes
      <3>1. v \in tracers' /\ v.gen = serving' /\ v.tango
        BY <1>2, <1>3, <2>1
      <3> QED BY <3>1 DEF BurstSeesFreshDaemon, Told
    <2>2. CASE ~t.owes
      <3>1. DoRestart(starts[gen].count) => lost \/ (companion = 0 /\ nsCache = 0)
        BY <1>3, <2>2 DEF BurstInv, OfLatest
      <3> QED BY <1>3, <3>1 DEF BurstSeesFreshDaemon, Told, Fresh
    <2> QED BY <2>1, <2>2
  <1> QED BY <1>6, <1>7 DEF BurstInv

LEMMA FailStep ==
    ASSUME TypeOK, BurstInv, NEW t \in tracers, TracerFails(t)
    PROVE  BurstInv'
  <1>1. /\ UNCHANGED <<starts, serving, companion, nsCache>> /\ gen' = gen
        /\ tracers' = tracers \ {t} /\ lost' = (lost \/ (t.owes /\ t.gen = gen))
    BY DEF TracerFails, Left, gen
  <1>2. OfLatest'
    BY <1>1 DEF BurstInv, OfLatest
  <1>3. BurstSeesFreshDaemon'
    <2> SUFFICES ASSUME serving # 0, DoRestart(starts[serving].count), Told'
                 PROVE  Fresh'
      BY <1>1 DEF BurstSeesFreshDaemon
    <2>1. serving = gen
      BY DEF BurstInv, OfLatest
    <2>2. t.gen = gen => t.owes /\ ~t.injects
      BY <2>1 DEF BurstInv, OfLatest
    <2>3. t.gen # gen
      BY <1>1, <2>2 DEF Told
    <2>4. Told
      BY <1>1, <2>1, <2>3 DEF Told, TypeOK
    <2> QED BY <1>1, <2>4 DEF BurstInv, BurstSeesFreshDaemon, Fresh
  <1> QED BY <1>2, <1>3 DEF BurstInv

LEMMA BurstStep == TypeOK /\ BurstInv /\ [Next]_vars => BurstInv'
  <1> SUFFICES ASSUME TypeOK, BurstInv, [Next]_vars PROVE BurstInv'
    OBVIOUS
  <1>1. CASE UNCHANGED vars \/ Tick
    BY <1>1 DEF vars, Tick, BurstInv, OfLatest, BurstSeesFreshDaemon, Told, Fresh, gen
  <1>2. CASE ZygoteExecs
    BY <1>2, ExecStep
  <1>3. CASE \E t \in tracers : TracerTells(t) \/ TracerInjects(t) \/ TracerFails(t)
    BY <1>3, TellStep, InjectStep, FailStep
  <1>4. CASE RequestCompanion \/ UpdateMountNamespace \/ InvalidateCleanNs
    <2>1. /\ UNCHANGED <<starts, tracers, lost, serving>> /\ gen' = gen
          /\ companion' \in {companion, serving, 0} /\ nsCache' \in {nsCache, serving, 0}
          /\ serving = 0 => companion' = companion /\ nsCache' \in {nsCache, 0}
      BY <1>4 DEF RequestCompanion, UpdateMountNamespace, InvalidateCleanNs, gen
    <2>2. OfLatest'
      BY <2>1 DEF BurstInv, OfLatest
    <2>3. BurstSeesFreshDaemon'
      BY <2>1 DEF BurstInv, BurstSeesFreshDaemon, Told, Fresh
    <2> QED BY <2>2, <2>3 DEF BurstInv
  <1> QED BY <1>1, <1>2, <1>3, <1>4 DEF Next

(* From the third start of a burst on the daemon, once told, serves an      *)
(* injected process nothing of an earlier zygote: of a plain zygote the     *)
(* --restart of its own tracer has come before the first request, of a      *)
(* tango one after its injection, and what is cached since is its own;      *)
(* whatever late tracers of zygotes before send changes nothing of that.    *)
THEOREM BurstIsServedAfresh == Spec => []BurstSeesFreshDaemon
  <1>1. Init => BurstInv
    BY DEF Init, BurstInv, OfLatest, BurstSeesFreshDaemon
  <1>2. BurstInv => BurstSeesFreshDaemon
    BY DEF BurstInv
  <1> QED BY <1>1, <1>2, BurstStep, TypeCorrect, PTL DEF Spec
=============================================================================
