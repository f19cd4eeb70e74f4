--------------------------- MODULE SpecializeProofs ---------------------------
(***************************************************************************)
(* Proofs about module Specialize, for any number of processes.            *)
(*                                                                         *)
(* What is invariant about a process is a predicate Good of its record and *)
(* of where its other thread is, so that a step of the module has only to  *)
(* be shown to write good records (BecomesKeeps, ForksKeep).  The zygote   *)
(* the library was injected into is good in one more way, GoodZygote, until *)
(* a fork of fork_pre fails in it.                                         *)
(***************************************************************************)
EXTENDS Specialize, TLAPS

(* Guards alive: the wrapper's and the other thread's.                     *)
Guards(r, o) == (IF r.pc \in InWrapper THEN 1 ELSE 0) + (IF o = "in" THEN 1 ELSE 0)
Counted(r, o) == ~r.failed => r.count = Guards(r, o)

(* The other thread lives while the main thread is not in a wrapper.       *)
ThreadApart(r, o) ==
    o # "out" => \/ r.pc \in {"daemons", "started", "unmapping"}
                 \/ r.pc = "idle" /\ r.role = "zygote"

(* A process that may enter a wrapper has the originals to restore.        *)
HasOriginals(r) ==
    /\ (r.role = "zygote" \/ r.pc = "idle") /\ r.jni => r.list
    /\ r.pc \in InWrapper => r.jni /\ r.list

(* A process that may still call modules has their entries.                *)
HasModules(r) ==
    ~r.failed =>
        /\ r.pc # "crashed"
        /\ r.pc \in InWrapper \/ (r.role = "zygote" /\ r.jni) \/ (r.role = "usap" /\ r.pc = "idle")
               => r.table # "stripped"

(* The pid fork_pre got waits in the context for the platform's fork.      *)
Cached(r) ==
    /\ r.pc \in {"fork", "modules", "orig"} => r.ctx
    /\ r.pc = "fork" => r.call = "fork"
    /\ r.pc \in {"modules", "orig"} /\ r.call = "fork" /\ ~r.failed => r.pid >= 0

(* Children of the call so far.                                            *)
Bears(r) ==
    /\ r.pc = "fork" => r.born = 0
    /\ r.pc \in {"modules", "orig"} /\ r.call = "fork" => r.born = IF r.pid = 1 THEN 1 ELSE 0
    /\ r.pc = "return" /\ r.call = "fork" => r.born = IF r.ret > 0 THEN 1 ELSE 0

(* What a wrapper set is taken back by the time it returns.                *)
Tidy(r) ==
    /\ r.pc \in AtRest \cup {"cleanup", "unmapping"} => ~r.ctx /\ ~r.sigchld
    /\ r.pc \in InWrapper /\ r.call # "fork" => ~r.sigchld

(* Nothing but what cleanup passed over leads into a library that goes.    *)
Unhooked(r) ==
    /\ r.pc = "unmapping" \/ ~r.mapped => r.plt = {} /\ (r.jni => r.missed)
    /\ r.should /\ r.jni => r.missed
    /\ r.missed => ~r.list

Good(r, o) ==
    /\ r \in Process
    /\ Counted(r, o) /\ ThreadApart(r, o) /\ HasOriginals(r) /\ HasModules(r)
    /\ Cached(r) /\ Bears(r) /\ Tidy(r) /\ Unhooked(r)

(* The zygote's calls are forks, each of which made a child.               *)
GoodZygote(r) ==
    /\ r.role = "zygote" /\ r.pc # "unborn"
    /\ ~r.failed =>
          /\ r.jni /\ r.list /\ r.plt = PltHooks /\ r.mapped /\ ~r.enable /\ ~r.ran
          /\ r.table # "stripped"
          /\ r.pc \notin {"modules", "unmapping"}
          /\ r.pc \in InWrapper => r.call = "fork"
          /\ r.pc \in {"orig", "cleanup"} => r.pid = 1
          /\ r.pc = "return" => r.ret = 1

Inv ==
    /\ DOMAIN proc = Procs
    /\ other \in [Procs -> {"out", "branching", "in"}]
    /\ \A p \in Procs : Good(proc[p], other[p])
    /\ GoodZygote(proc[Zygote])

-----------------------------------------------------------------------------
LEMMA BecomesKeeps ==
    ASSUME Inv, NEW p \in Procs, NEW r, Becomes(p, r), Good(r, other[p]),
           p = Zygote => GoodZygote(r)
    PROVE  Inv'
  <1>1. DOMAIN proc' = Procs /\ other' = other
    BY DEF Becomes, Inv
  <1>2. proc'[p] = r /\ \A q \in Procs \ {p} : proc'[q] = proc[q]
    BY DEF Becomes, Inv
  <1> QED BY <1>1, <1>2, ProcsAssumption DEF Inv

LEMMA ForksKeep ==
    ASSUME Inv, NEW p \in Procs, NEW r, NEW s, Forks(p, r, s), ~At(p, "unborn"),
           Good(r, other[p]), Good(s, "out"), p = Zygote => GoodZygote(r)
    PROVE  Inv'
  <1>1. PICK c \in Procs : /\ At(c, "unborn")
                           /\ proc' = [proc EXCEPT ![p] = r, ![c] = s]
                           /\ other' = other
    BY DEF Forks
  <1>2. c # p /\ c # Zygote
    BY <1>1, ProcsAssumption DEF Inv, GoodZygote, At
  <1>3. other[c] = "out"
    BY <1>1 DEF Inv, Good, ThreadApart, At
  <1>4. DOMAIN proc' = Procs
    BY <1>1 DEF Inv
  <1>5. proc'[p] = r /\ proc'[c] = s /\ \A q \in Procs \ {p, c} : proc'[q] = proc[q]
    BY <1>1, <1>2 DEF Inv
  <1> QED BY <1>1, <1>2, <1>3, <1>4, <1>5, ProcsAssumption DEF Inv

LEMMA InitIsGood == Init => Inv
  <1> SUFFICES ASSUME Init PROVE Inv
    OBVIOUS
  <1>1. PICK e \in BOOLEAN : proc = [p \in Procs |-> IF p = Zygote THEN Injected(e) ELSE Unborn]
    BY FlagsAssumption DEF Init
  <1>2. Good(Unborn, "out")
    BY RetriesAssumption
       DEF Good, Counted, Guards, ThreadApart, HasOriginals, HasModules, Cached, Bears, Tidy,
           Unhooked, Unborn, Process, InWrapper, AtRest
  <1>3. Injected(e) \in Process
    <2>1. Unborn \in Process
      BY <1>2 DEF Good
    <2> QED BY <2>1 DEF Injected, Process, AtRest
  <1>4. Good(Injected(e), "out") /\ GoodZygote(Injected(e))
    BY <1>3 DEF Good, Counted, Guards, ThreadApart, HasOriginals, HasModules, Cached, Bears, Tidy,
                Unhooked, Unborn, Injected, InWrapper, AtRest, GoodZygote
  <1> QED BY <1>1, <1>2, <1>4, ProcsAssumption DEF Init, Inv

-----------------------------------------------------------------------------
(* One lemma per action of the main thread.                                *)
LEMMA CallForkKeeps == ASSUME Inv, NEW p \in Procs, CallFork(p) PROVE Inv'
  <1> DEFINE r == proc[p]
             n == Enter(r, "fork", "fork")
  <1>1. /\ Becomes(p, n) /\ r.pc = "idle" /\ r.role = "zygote" /\ r.jni /\ other[p] = "out"
        /\ Good(r, other[p]) /\ (p = Zygote => GoodZygote(r))
    BY DEF CallFork, At, Inv
  <1>2. Good(n, other[p])
    <2>1. n \in Process /\ n.count = r.count + 1
      <3>1. r \in Process /\ r.count + 1 \in Int
        BY <1>1 DEF Good, Process
      <3> QED BY <3>1 DEF Enter, Process, InWrapper
    <2> QED
      BY <1>1, <2>1 DEF Enter, Good, Counted, Guards, ThreadApart, HasOriginals, HasModules,
                        Cached, Bears, Tidy, Unhooked, InWrapper, AtRest
  <1>3. GoodZygote(r) => GoodZygote(n)
    BY <1>1 DEF Enter, GoodZygote, Good, Process
  <1> QED BY <1>1, <1>2, <1>3, BecomesKeeps

LEMMA CallSpecializeKeeps == ASSUME Inv, NEW p \in Procs, CallSpecialize(p) PROVE Inv'
  <1> DEFINE r == proc[p]
             n == Enter(r, "specialize", "modules")
  <1>1. /\ Becomes(p, n) /\ r.pc = "idle" /\ r.role = "usap" /\ r.jni
        /\ Good(r, other[p]) /\ (p = Zygote => GoodZygote(r))
    BY DEF CallSpecialize, At, Inv
  <1>2. Good(n, other[p])
    <2>1. n \in Process /\ n.count = r.count + 1
      <3>1. r \in Process /\ r.count + 1 \in Int
        BY <1>1 DEF Good, Process
      <3> QED BY <3>1 DEF Enter, Process, InWrapper
    <2> QED
      BY <1>1, <2>1 DEF Enter, Good, Counted, Guards, ThreadApart, HasOriginals, HasModules,
                        Cached, Bears, Tidy, Unhooked, InWrapper, AtRest
  <1>3. p # Zygote
    BY <1>1 DEF GoodZygote
  <1> QED BY <1>1, <1>2, <1>3, BecomesKeeps

LEMMA RunModulesPreKeeps == ASSUME Inv, NEW p \in Procs, RunModulesPre(p) PROVE Inv'
  <1> DEFINE r == proc[p]
             n == [r EXCEPT !.ran = @ \/ r.table = "loaded",
                            !.pc = IF r.table = "stripped" THEN "crashed" ELSE "orig"]
  <1>1. /\ Becomes(p, n) /\ r.pc = "modules"
        /\ Good(r, other[p]) /\ (p = Zygote => GoodZygote(r))
    BY DEF RunModulesPre, At, Inv
  <1>2. Good(n, other[p])
    BY ZenonT(60), <1>1 DEF Good, Counted, Guards, ThreadApart, HasOriginals, HasModules, Cached, Bears,
                Tidy, Unhooked, InWrapper, AtRest, Process
  <1>3. GoodZygote(r) => GoodZygote(n)
    BY <1>1 DEF GoodZygote, Good, Process
  <1> QED BY <1>1, <1>2, <1>3, BecomesKeeps

LEMMA OrigSpecializesKeeps == ASSUME Inv, NEW p \in Procs, OrigSpecializes(p) PROVE Inv'
  <1> DEFINE r == proc[p]
             n == [r EXCEPT !.pc = "return"]
  <1>1. /\ Becomes(p, n) /\ r.pc = "orig" /\ r.call = "specialize"
        /\ Good(r, other[p]) /\ (p = Zygote => GoodZygote(r))
    BY DEF OrigSpecializes, At, Inv
  <1>2. Good(n, other[p])
    BY <1>1 DEF Good, Counted, Guards, ThreadApart, HasOriginals, HasModules, Cached, Bears,
                Tidy, Unhooked, InWrapper, AtRest, Process
  <1>3. GoodZygote(r) => GoodZygote(n)
    BY <1>1 DEF GoodZygote, Good, Process, InWrapper
  <1> QED BY <1>1, <1>2, <1>3, BecomesKeeps

LEMMA PostKeeps == ASSUME Inv, NEW p \in Procs, Post(p) PROVE Inv'
  <1> DEFINE r == proc[p]
             l == [r EXCEPT !.pc = "cleanup", !.ctx = FALSE]
             n == IF l.call = "fork" THEN [l EXCEPT !.pid = l.ret, !.sigchld = FALSE] ELSE l
  <1>1. /\ Becomes(p, n) /\ r.pc = "return"
        /\ Good(r, other[p]) /\ (p = Zygote => GoodZygote(r))
    BY DEF Post, At, Inv
  <1>2. Good(n, other[p])
    BY ZenonT(60), <1>1 DEF Good, Counted, Guards, ThreadApart, HasOriginals, HasModules, Cached, Bears,
                Tidy, Unhooked, InWrapper, AtRest, Process
  <1>3. GoodZygote(r) => GoodZygote(n)
    BY <1>1 DEF GoodZygote, Good, Process, InWrapper
  <1> QED BY <1>1, <1>2, <1>3, BecomesKeeps

LEMMA StackSizeIdleKeeps == ASSUME Inv, NEW p \in Procs, StackSizeIdle(p) PROVE Inv'
  <1> DEFINE r == proc[p]
             n == [r EXCEPT !.pc = "started"]
  <1>1. /\ Becomes(p, n) /\ r.pc = "daemons"
        /\ Good(r, other[p]) /\ (p = Zygote => GoodZygote(r))
    BY DEF StackSizeIdle, At, Inv
  <1>2. Good(n, other[p])
    BY <1>1 DEF Good, Counted, Guards, ThreadApart, HasOriginals, HasModules, Cached, Bears,
                Tidy, Unhooked, InWrapper, AtRest, Process
  <1>3. GoodZygote(r) => GoodZygote(n)
    BY <1>1 DEF GoodZygote, Good, Process, InWrapper
  <1> QED BY <1>1, <1>2, <1>3, BecomesKeeps

LEMMA ReadAgainKeeps == ASSUME Inv, NEW p \in Procs, ReadAgain(p) PROVE Inv'
  <1> DEFINE r == proc[p]
             n(table, isEmpty) ==
                 [r EXCEPT !.retries = @ + 1, !.empty = isEmpty, !.pc = "started",
                           !.table = IF table = "loaded" THEN "loaded" ELSE @]
  <1>1. PICK table \in {"none", "loaded"}, isEmpty \in BOOLEAN : Becomes(p, n(table, isEmpty))
    BY DEF ReadAgain
  <1>2. /\ r.pc \in {"daemons", "started"} /\ r.retries < MaxRetries
        /\ Good(r, other[p]) /\ (p = Zygote => GoodZygote(r))
    BY DEF ReadAgain, Starts, MayRetry, Inv
  <1>3. n(table, isEmpty).retries \in 0 .. MaxRetries
    BY <1>2, RetriesAssumption DEF Good, Process
  <1>4. Good(n(table, isEmpty), other[p])
    <2>1. n(table, isEmpty) \in Process
      BY ZenonT(60), <1>2, <1>3 DEF Good, Process, AtRest
    <2> QED
      BY <1>2, <2>1 DEF Good, Counted, Guards, ThreadApart, HasOriginals, HasModules, Cached,
                        Bears, Tidy, Unhooked, InWrapper, AtRest
  <1>5. GoodZygote(r) => GoodZygote(n(table, isEmpty))
    BY <1>2 DEF GoodZygote, Good, Process, InWrapper
  <1> QED BY <1>1, <1>2, <1>4, <1>5, BecomesKeeps

LEMMA UnmapKeeps == ASSUME Inv, NEW p \in Procs, Unmap(p) PROVE Inv'
  <1> DEFINE r == proc[p]
             n == [r EXCEPT !.mapped = FALSE, !.pc = "started"]
  <1>1. /\ Becomes(p, n) /\ r.pc = "unmapping"
        /\ Good(r, other[p]) /\ (p = Zygote => GoodZygote(r))
    BY DEF Unmap, At, Inv
  <1>2. Good(n, other[p])
    BY <1>1 DEF Good, Counted, Guards, ThreadApart, HasOriginals, HasModules, Cached, Bears,
                Tidy, Unhooked, InWrapper, AtRest, Process
  <1>3. GoodZygote(r) => GoodZygote(n)
    BY <1>1 DEF GoodZygote, Good, Process, InWrapper
  <1> QED BY <1>1, <1>2, <1>3, BecomesKeeps

LEMMA ContinueKeeps == ASSUME Inv, NEW p \in Procs, Continue(p) PROVE Inv'
  <1> DEFINE r == proc[p]
             n == [r EXCEPT !.pc = "idle"]
  <1>1. /\ Becomes(p, n) /\ r.pc = "started" /\ r.role = "zygote"
        /\ Good(r, other[p]) /\ (p = Zygote => GoodZygote(r))
    BY DEF Continue, At, Inv
  <1>2. Good(n, other[p])
    BY <1>1 DEF Good, Counted, Guards, ThreadApart, HasOriginals, HasModules, Cached, Bears,
                Tidy, Unhooked, InWrapper, AtRest, Process
  <1>3. GoodZygote(r) => GoodZygote(n)
    BY <1>1 DEF GoodZygote, Good, Process, InWrapper
  <1> QED BY <1>1, <1>2, <1>3, BecomesKeeps

LEMMA ForkPreKeeps == ASSUME Inv, NEW p \in Procs, ForkPre(p) PROVE Inv'
  <1> DEFINE r == proc[p]
             blocked == [r EXCEPT !.sigchld = TRUE]
             parent == [r EXCEPT !.sigchld = TRUE, !.pid = 1, !.born = @ + 1, !.pc = "orig"]
             child(role) == [r EXCEPT !.sigchld = TRUE, !.pid = 0, !.role = role, !.born = 0,
                                      !.pc = "modules"]
             failing == [r EXCEPT !.sigchld = TRUE, !.pid = -1, !.failed = TRUE, !.pc = "modules"]
  <1>1. /\ r.pc = "fork" /\ r \in Process /\ Good(r, other[p]) /\ (p = Zygote => GoodZygote(r))
        /\ ~At(p, "unborn")
    BY DEF ForkPre, At, Inv, Good
  <1>2. other[p] = "out"
    BY <1>1 DEF Good, ThreadApart
  <1>3. r.born + 1 \in Nat
    BY <1>1 DEF Process
  <1>4. ASSUME NEW role \in Roles,
               Forks(p, AfterForkPre([blocked EXCEPT !.pid = 1, !.born = @ + 1]),
                        AfterForkPre(ChildOf(blocked, role)))
        PROVE  Inv'
    <2>1. role \in {"zygote", "app"}
      BY DEF Roles
    <2>2. AfterForkPre([blocked EXCEPT !.pid = 1, !.born = @ + 1]) = parent
      BY <1>1 DEF AfterForkPre, IsZygoteChild, Process
    <2>3. AfterForkPre(ChildOf(blocked, role)) = child(role)
      BY <1>1 DEF AfterForkPre, IsZygoteChild, ChildOf, Process
    <2>4. parent \in Process
      BY <1>1, <1>3 DEF Process, InWrapper
    <2>5. child(role) \in Process
      BY <1>1, <2>1 DEF Process, InWrapper
    <2>6. Good(parent, other[p])
      BY <1>1, <1>2, <2>4
         DEF Good, Counted, Guards, ThreadApart, HasOriginals, HasModules, Cached, Bears,
             Tidy, Unhooked, InWrapper, AtRest
    <2>7. Good(child(role), "out")
      BY <1>1, <1>2, <2>1, <2>5
         DEF Good, Counted, Guards, ThreadApart, HasOriginals, HasModules, Cached, Bears,
             Tidy, Unhooked, InWrapper, AtRest
    <2>8. GoodZygote(r) => GoodZygote(parent)
      BY <1>1 DEF GoodZygote, Process, InWrapper
    <2> QED BY <1>1, <1>4, <2>2, <2>3, <2>6, <2>7, <2>8, ForksKeep
  <1>5. ASSUME Becomes(p, AfterForkPre([blocked EXCEPT !.pid = -1, !.failed = TRUE])) PROVE Inv'
    <2>1. AfterForkPre([blocked EXCEPT !.pid = -1, !.failed = TRUE]) = failing
      BY <1>1 DEF AfterForkPre, IsZygoteChild, Process
    <2>2. failing \in Process
      BY <1>1 DEF Process, InWrapper
    <2>3. Good(failing, other[p])
      BY <1>1, <1>2, <2>2
         DEF Good, Counted, Guards, ThreadApart, HasOriginals, HasModules, Cached, Bears,
             Tidy, Unhooked, InWrapper, AtRest
    <2>4. GoodZygote(r) => GoodZygote(failing)
      BY <1>1 DEF GoodZygote, Process, InWrapper
    <2> QED BY <1>1, <1>5, <2>1, <2>3, <2>4, BecomesKeeps
  <1> QED BY <1>4, <1>5 DEF ForkPre

LEMMA OrigForksKeeps == ASSUME Inv, NEW p \in Procs, OrigForks(p) PROVE Inv'
  <1> DEFINE r == proc[p]
             back == [r EXCEPT !.pc = "return"]
             cached == [back EXCEPT !.ret = back.pid]
             parent == [back EXCEPT !.ret = 1, !.born = @ + 1]
             child(role) == [ChildOf(back, role) EXCEPT !.pid = back.pid, !.ret = 0,
                                                        !.count = CountInChild]
             failing == [back EXCEPT !.ret = -1]
  <1>1. /\ r.pc = "orig" /\ r.call = "fork" /\ r \in Process /\ Good(r, other[p])
        /\ (p = Zygote => GoodZygote(r)) /\ ~At(p, "unborn")
    BY DEF OrigForks, At, Inv, Good
  <1>2. other[p] = "out" /\ r.ctx
    BY <1>1 DEF Good, ThreadApart, Cached
  <1>3. ASSUME ForkIsCached(back), Becomes(p, cached) PROVE Inv'
    <2>0. cached \in Process
      BY <1>1 DEF Process, InWrapper
    <2>1. r.pid \in {0, 1} /\ cached.ret = r.pid
      BY <1>1, <1>3 DEF Process, ForkIsCached
    <2>2. Good(cached, other[p])
      BY <1>1, <1>2, <2>0, <2>1
         DEF Good, Counted, Guards, ThreadApart, HasOriginals, HasModules, Cached, Bears,
             Tidy, Unhooked, InWrapper, AtRest
    <2>3. GoodZygote(r) => GoodZygote(cached)
      BY <1>1 DEF GoodZygote, Process, InWrapper
    <2> QED BY <1>1, <1>3, <2>2, <2>3, BecomesKeeps
  <1>4. ASSUME ~ForkIsCached(back) PROVE r.pid = -1 /\ r.failed /\ r.born = 0
    BY <1>1, <1>2, <1>4 DEF ForkIsCached, Good, Cached, Bears, Process
  <1>5. ASSUME ~ForkIsCached(back), NEW role \in Roles, Forks(p, parent, child(role)) PROVE Inv'
    <2>0. r.born + 1 \in Nat /\ role \in {"zygote", "app"} /\ CountInChild \in Int
      BY <1>1 DEF Process, Roles, CountInChild
    <2>1. parent \in Process /\ child(role) \in Process
      BY <1>1, <2>0 DEF Process, ChildOf, InWrapper
    <2>2. Good(parent, other[p])
      BY <1>1, <1>2, <1>4, <1>5, <2>1
         DEF Good, Counted, Guards, ThreadApart, HasOriginals, HasModules, Cached, Bears,
             Tidy, Unhooked, InWrapper, AtRest
    <2>3. Good(child(role), "out")
      BY <1>1, <1>2, <1>4, <1>5, <2>1
         DEF Good, Counted, Guards, ThreadApart, HasOriginals, HasModules, Cached, Bears,
             Tidy, Unhooked, InWrapper, AtRest, ChildOf, Roles
    <2>4. GoodZygote(r) => GoodZygote(parent)
      BY <1>1, <1>4, <1>5 DEF GoodZygote, Process, InWrapper
    <2> QED BY <1>1, <1>5, <2>2, <2>3, <2>4, ForksKeep
  <1>6. ASSUME ~ForkIsCached(back), Becomes(p, failing) PROVE Inv'
    <2>0. failing \in Process
      BY <1>1 DEF Process, InWrapper
    <2>1. Good(failing, other[p])
      BY <1>1, <1>2, <1>4, <1>6, <2>0
         DEF Good, Counted, Guards, ThreadApart, HasOriginals, HasModules, Cached, Bears,
             Tidy, Unhooked, InWrapper, AtRest
    <2>2. GoodZygote(r) => GoodZygote(failing)
      BY <1>1, <1>4, <1>6 DEF GoodZygote, Process, InWrapper
    <2> QED BY <1>1, <1>6, <2>1, <2>2, BecomesKeeps
  <1> QED BY <1>3, <1>5, <1>6 DEF OrigForks

LEMMA ForkUsapKeeps == ASSUME Inv, NEW p \in Procs, ForkUsap(p) PROVE Inv'
  <1> DEFINE r == proc[p]
             child == [ChildOf(r, "usap") EXCEPT !.pid = r.pid, !.count = CountInChild]
  <1>1. /\ p = Zygote /\ r.pc = "idle" /\ "fork" \in r.plt /\ Forks(p, r, child)
        /\ r \in Process /\ Good(r, other[p]) /\ GoodZygote(r) /\ ~At(p, "unborn")
    BY DEF ForkUsap, At, Inv, Good
  <1>2. CountInChild = 0
    BY DEF CountInChild
  <1>3. child \in Process
    <2>1. [r EXCEPT !.role = "usap", !.born = 0] \in Process
      BY <1>1 DEF Process
    <2>2. ASSUME NEW q \in Process PROVE [q EXCEPT !.count = 0] \in Process
      BY DEF Process
    <2>3. child = [[r EXCEPT !.role = "usap", !.born = 0] EXCEPT !.count = 0]
      BY <1>1, <1>2 DEF ChildOf, Process
    <2> HIDE DEF child
    <2> QED BY <2>1, <2>2, <2>3
  <1>4. Good(child, "out")
    BY <1>1, <1>2, <1>3
       DEF Good, Counted, Guards, ThreadApart, HasOriginals, HasModules, Cached, Bears,
           Tidy, Unhooked, InWrapper, AtRest, ChildOf, GoodZygote
  <1> QED BY <1>1, <1>4, ForksKeep

(* The zygote's methods can be restored: otherwise a child zygote forgets  *)
(* the originals and goes on to fork.                                      *)
LEMMA CleanupKeeps ==
    ASSUME "zygote" \notin JniMayFail \cup JniMayMiss, Inv, NEW p \in Procs, Cleanup(p)
    PROVE  Inv'
  <1> DEFINE r == proc[p]
             left == Left(r)
             armed(o) ==
                 [left EXCEPT !.should = o # "failed" \/ ~left.list,
                              !.jni = @ /\ ~(o = "restored" /\ left.list),
                              !.missed = @ \/ (o = "missed" /\ left.list),
                              !.list = FALSE,
                              !.table = Stripped(@),
                              !.enable = TRUE]
             n(o, miss) ==
                 [r EXCEPT !.ctx = FALSE, !.count = @ - 1, !.pc = "daemons", !.call = "none",
                           !.born = 0, !.pid = -1, !.ret = -1, !.should = o # "failed",
                           !.jni = o # "restored", !.missed = miss,
                           !.list = FALSE, !.table = Stripped(@), !.enable = TRUE]
  <1>1. /\ r.pc = "cleanup" /\ r \in Process /\ Good(r, other[p]) /\ (p = Zygote => GoodZygote(r))
        /\ r.jni /\ r.list
    BY DEF Cleanup, At, Inv, Good, HasOriginals, InWrapper
  <1>2. other[p] = "out" /\ r.count - 1 \in Int
    BY <1>1 DEF Good, ThreadApart, Process
  <1>3. left \in Process
    BY <1>1, <1>2 DEF Left, Process, AtRest
  <1>4. ASSUME ~IsZygoteChild(r), Becomes(p, left) PROVE Inv'
    <2>1. Good(left, other[p])
      BY <1>1, <1>2, <1>3
         DEF Left, Good, Counted, Guards, ThreadApart, HasOriginals, HasModules, Cached, Bears,
             Tidy, Unhooked, InWrapper, AtRest
    <2>2. GoodZygote(r) => GoodZygote(left)
      BY <1>1 DEF Left, GoodZygote, Process, InWrapper
    <2> QED BY <1>1, <1>4, <2>1, <2>2, BecomesKeeps
  <1>5. ASSUME IsZygoteChild(r), NEW o \in Restorations(r.role), Becomes(p, armed(o))
        PROVE  Inv'
    <2> DEFINE miss == r.missed \/ o = "missed"
    <2>1. o \in {"restored", "failed", "missed"} /\ (r.role = "zygote" => o = "restored")
      BY DEF Restorations
    <2>2. armed(o) = n(o, miss)
      <3>1. left.list = TRUE /\ left.jni = TRUE /\ left.missed = r.missed
        BY <1>1 DEF Left, Process
      <3>2. /\ (o # "failed" \/ ~left.list) = (o # "failed")
            /\ (left.jni /\ ~(o = "restored" /\ left.list)) = (o # "restored")
            /\ (left.missed \/ (o = "missed" /\ left.list)) = miss
        BY Zenon, <3>1
      <3>3. armed(o) = [left EXCEPT !.should = o # "failed", !.jni = o # "restored",
                                    !.missed = miss, !.list = FALSE, !.table = Stripped(@),
                                    !.enable = TRUE]
        BY Zenon, <3>2
      <3> HIDE DEF miss, armed
      <3> QED BY <1>1, <3>3 DEF Left, Process
    <2>3. Stripped(r.table) \in {"none", "stripped"}
      BY <1>1 DEF Stripped, Process
    <2>4. n(o, miss) \in Process
      <3> DEFINE stripped(q, t) == [q EXCEPT !.should = o # "failed", !.jni = o # "restored",
                                            !.missed = miss, !.list = FALSE,
                                            !.table = t, !.enable = TRUE]
      <3>1. r.missed \in BOOLEAN
        BY <1>1 DEF Process
      <3>2. miss \in BOOLEAN
        BY Zenon, <3>1
      <3> HIDE DEF miss
      <3>3. ASSUME NEW q \in Process, NEW t \in {"none", "stripped"}
            PROVE  stripped(q, t) \in Process
        BY ZenonT(60), <3>2 DEF Process
      <3>4. n(o, miss) = stripped(left, Stripped(r.table))
        BY <1>1 DEF Left, Process
      <3> HIDE DEF left, n, stripped
      <3> QED BY <1>3, <2>3, <3>3, <3>4
    <2>5. Good(n(o, miss), other[p])
      <3> DEFINE m == n(o, miss)
      <3>0. m.missed = miss
        BY <1>1 DEF Process
      <3>1. /\ m.pc = "daemons" /\ ~m.ctx /\ m.count = r.count - 1 /\ ~m.list
            /\ m.role = r.role /\ m.sigchld = r.sigchld /\ m.mapped = r.mapped /\ m.plt = r.plt
            /\ m.failed = r.failed /\ (m.jni <=> o # "restored") /\ (m.should <=> o # "failed")
        BY <1>1 DEF Process
      <3>2. m \in Process
        BY <2>4
      <3>3. o = "missed" => m.missed
        BY <3>0
      <3> HIDE DEF m, miss
      <3>4. /\ Counted(m, other[p]) /\ ThreadApart(m, other[p]) /\ HasOriginals(m)
            /\ HasModules(m) /\ Cached(m) /\ Bears(m)
        BY <1>1, <1>2, <2>1, <3>1, <3>2
           DEF Good, Counted, Guards, ThreadApart, HasOriginals, HasModules, Cached, Bears,
               InWrapper
      <3>5. Tidy(m)
        BY <1>1, <3>1 DEF Good, Tidy, InWrapper, AtRest
      <3>6. m.mapped
        BY <1>1, <3>1 DEF Good, Unhooked
      <3>7. Unhooked(m)
        BY <1>1, <2>1, <3>1, <3>3, <3>6 DEF Good, Unhooked
      <3>8. Good(m, other[p])
        BY <3>2, <3>4, <3>5, <3>7 DEF Good
      <3> QED BY <3>8 DEF m
    <2>6. GoodZygote(r) => GoodZygote(n(o, miss))
      BY <1>1, <1>5 DEF GoodZygote, Process, InWrapper, IsZygoteChild
    <2> HIDE DEF n
    <2> QED BY <1>1, <1>5, <2>2, <2>5, <2>6, BecomesKeeps
  <1> QED BY <1>4, <1>5 DEF Cleanup

LEMMA TearDownKeeps == ASSUME Inv, NEW p \in Procs, TearDown(p) PROVE Inv'
  <1> DEFINE r == proc[p]
             freed(rest) == [r EXCEPT !.plt = rest, !.table = "none", !.pc = "started"]
             disarmed(rest) == [freed(rest) EXCEPT !.enable = FALSE]
             kept(rest) == [disarmed(rest) EXCEPT !.should = FALSE]
             leaving(rest) == [freed(rest) EXCEPT !.pc = "unmapping"]
  <1>1. /\ r.pc \in {"daemons", "started"} /\ r.enable /\ r.should
        /\ r \in Process /\ Good(r, other[p]) /\ (p = Zygote => GoodZygote(r))
    BY DEF TearDown, Starts, HookArmed, Inv, Good
  <1>2. GoodZygote(r) => r.failed
    BY <1>1 DEF GoodZygote
  <1>3. PICK rest \in Remaining(r) :
            \/ KeepMapped(rest) /\ Becomes(p, kept(rest))
            \/ ~KeepMapped(rest) /\ (Becomes(p, leaving(rest)) \/ Becomes(p, disarmed(rest)))
    BY DEF TearDown
  <1>4. rest \in SUBSET PltHooks /\ (r.plt = {} => rest = {})
    BY <1>1 DEF Remaining, Process
  <1>5. kept(rest) \in Process /\ leaving(rest) \in Process /\ disarmed(rest) \in Process
    BY ZenonT(60), <1>1, <1>4 DEF Process, AtRest
  <1>6. Good(kept(rest), other[p]) /\ Good(disarmed(rest), other[p])
    BY <1>1, <1>4, <1>5
       DEF Good, Counted, Guards, ThreadApart, HasOriginals, HasModules, Cached, Bears,
           Tidy, Unhooked, InWrapper, AtRest
  <1>7. ~KeepMapped(rest) => Good(leaving(rest), other[p])
    BY <1>1, <1>4, <1>5
       DEF Good, Counted, Guards, ThreadApart, HasOriginals, HasModules, Cached, Bears,
           Tidy, Unhooked, InWrapper, AtRest, KeepMapped
  <1>8. GoodZygote(r) => /\ GoodZygote(kept(rest)) /\ GoodZygote(leaving(rest))
                         /\ GoodZygote(disarmed(rest))
    BY <1>1, <1>2 DEF GoodZygote, Process
  <1> QED BY <1>1, <1>3, <1>6, <1>7, <1>8, BecomesKeeps

(* The other thread.                                                       *)
LEMMA ThreadKeeps ==
    ASSUME Inv, NEW p \in Procs, ThreadCalls(p) \/ ThreadEnters(p) \/ ThreadLeaves(p)
    PROVE  Inv'
  <1> DEFINE r == proc[p]
  <1>1. /\ r.pc \in {"daemons", "started", "unmapping"} /\ r \in Process /\ Good(r, other[p])
        /\ r.count \in Int /\ (p = Zygote => GoodZygote(r))
        /\ other \in [Procs -> {"out", "branching", "in"}] /\ DOMAIN proc = Procs
    BY DEF ThreadCalls, ThreadEnters, ThreadLeaves, HasThreads, Inv, Good, Process
  <1>2. CASE ThreadCalls(p)
    <2>1. Good(r, "branching")
      BY <1>1, <1>2 DEF Good, Counted, Guards, ThreadApart, ThreadCalls, Moves
    <2> QED BY <1>2, <2>1 DEF ThreadCalls, Moves, Inv
  <1>3. ASSUME NEW o \in {"out", "branching", "in"}, NEW k \in Int,
               other' = [other EXCEPT ![p] = o], proc' = [proc EXCEPT ![p].count = k],
               k - r.count = (IF o = "in" THEN 1 ELSE 0) - (IF other[p] = "in" THEN 1 ELSE 0)
        PROVE  Inv'
    <2> DEFINE n == [r EXCEPT !.count = k]
    <2>1. n \in Process
      BY <1>1 DEF Process
    <2>2. Good(n, o)
      BY <1>1, <1>3, <2>1
         DEF Good, Counted, Guards, ThreadApart, HasOriginals, HasModules, Cached, Bears,
             Tidy, Unhooked, InWrapper, AtRest
    <2>3. GoodZygote(r) => GoodZygote(n)
      BY <1>1 DEF GoodZygote, Process, InWrapper
    <2>4. /\ DOMAIN proc' = Procs /\ proc'[p] = n /\ other'[p] = o
          /\ \A q \in Procs \ {p} : proc'[q] = proc[q] /\ other'[q] = other[q]
          /\ other' \in [Procs -> {"out", "branching", "in"}]
      BY <1>1, <1>3
    <2> QED BY <1>1, <2>2, <2>3, <2>4, ProcsAssumption DEF Inv
  <1>4. CASE ThreadEnters(p)
    <2>1. /\ proc' = [proc EXCEPT ![p].count = r.count + 1] /\ r.count + 1 \in Int
          /\ other' = [other EXCEPT ![p] = "in"] /\ other[p] = "branching"
      BY <1>1, <1>4 DEF ThreadEnters, Moves
    <2>2. (r.count + 1) - r.count = 1 - 0
      BY <1>1
    <2> QED BY <1>3, <2>1, <2>2
  <1>5. CASE ThreadLeaves(p)
    <2>1. /\ proc' = [proc EXCEPT ![p].count = r.count - 1] /\ r.count - 1 \in Int
          /\ other' = [other EXCEPT ![p] = "out"] /\ other[p] = "in"
      BY <1>1, <1>5 DEF ThreadLeaves, Moves
    <2>2. (r.count - 1) - r.count = 0 - 1
      BY <1>1
    <2> QED BY <1>3, <2>1, <2>2
  <1> QED BY <1>2, <1>4, <1>5

LEMMA StepKeeps ==
    ASSUME "zygote" \notin JniMayFail \cup JniMayMiss, Inv, [Next]_vars
    PROVE  Inv'
  <1>1. CASE UNCHANGED vars
    BY <1>1 DEF vars, Inv
  <1>2. ASSUME NEW p \in Procs, MainThread(p) PROVE Inv'
    BY <1>2, CallForkKeeps, CallSpecializeKeeps, ForkPreKeeps, RunModulesPreKeeps, OrigForksKeeps,
       OrigSpecializesKeeps, ForkUsapKeeps, PostKeeps, CleanupKeeps, StackSizeIdleKeeps,
       ReadAgainKeeps, TearDownKeeps, UnmapKeeps, ContinueKeeps
       DEF MainThread
  <1> QED BY <1>1, <1>2, ThreadKeeps DEF Next

LEMMA AlwaysInv == ASSUME "zygote" \notin JniMayFail \cup JniMayMiss PROVE Spec => []Inv
  <1>1. Inv /\ [Next]_vars => Inv'
    BY StepKeeps
  <1> QED BY <1>1, InitIsGood, PTL DEF Spec

-----------------------------------------------------------------------------
(* The theorems are about any number of processes, of which each may have  *)
(* another thread, with forks and PLT restorations that fail or not.  They *)
(* assume that a zygote's JNI methods can be restored (cleanup of          *)
(* lifecycle.rs forgets the originals whether they were or not).           *)

(* Every variable keeps its type.                                          *)
THEOREM TypeCorrect ==
    ASSUME "zygote" \notin JniMayFail \cup JniMayMiss
    PROVE  Spec => []TypeOK
  <1>1. Inv => TypeOK
    BY DEF Inv, Good, TypeOK
  <1> QED BY <1>1, AlwaysInv, PTL

(* IN_LOADER counts the guards alive, across forks out of a wrapper and out *)
(* of the fork hook, as long as no fork of fork_pre failed.                *)
THEOREM GuardsCorrect ==
    ASSUME "zygote" \notin JniMayFail \cup JniMayMiss
    PROVE  Spec => []GuardsCounted
  <1>1. Inv => GuardsCounted
    BY DEF Inv, Good, Counted, Guards, GuardsCounted, TypeOK
  <1> QED BY <1>1, AlwaysInv, PTL

(* The zygote keeps its hooks and runs no module, as long as no fork of    *)
(* fork_pre failed in it (cleanup returns early in whoever has a child).   *)
THEOREM ZygoteStays ==
    ASSUME "zygote" \notin JniMayFail \cup JniMayMiss
    PROVE  Spec => []ZygoteKept
  <1>1. Inv => ZygoteKept
    BY DEF Inv, GoodZygote, ZygoteKept, ZygoteUntouched
  <1> QED BY <1>1, AlwaysInv, PTL

(* A process at rest has no context of a wrapper and takes SIGCHLD, in     *)
(* whichever process and after whatever failure it left its wrapper.       *)
THEOREM NothingStays ==
    ASSUME "zygote" \notin JniMayFail \cup JniMayMiss
    PROVE  Spec => []NothingLeftBehind
  <1>1. Inv => NothingLeftBehind
    BY DEF Inv, Good, Tidy, NothingLeftBehind
  <1> QED BY <1>1, AlwaysInv, PTL

(* A call of a forking method bears one child if its caller is told of one, *)
(* and none otherwise: the hook of fork hands out the pid fork_pre got, or  *)
(* forks when that had failed.                                             *)
THEOREM OneChild ==
    ASSUME "zygote" \notin JniMayFail \cup JniMayMiss
    PROVE  Spec => []OneChildPerCall
  <1>1. Inv => OneChildPerCall
    BY DEF Inv, Good, Bears, OneChildPerCall, At
  <1> QED BY <1>1, AlwaysInv, PTL

(* No PLT slot leads into an unmapped library, nor does a JNI method unless *)
(* cleanup could not look up its class, which it then passes over; and     *)
(* run_modules_pre finds the entry of every module it calls.               *)
THEOREM NoStrayCalls ==
    ASSUME "zygote" \notin JniMayFail \cup JniMayMiss
    PROVE  Spec => []NoCallIntoNothing
  <1>1. Inv => NoCallIntoNothing
    BY DEF Inv, Good, Unhooked, HasModules, NoCallIntoNothing, UnmapLeavesNoHook, ModulesAreLive, At
  <1> QED BY <1>1, AlwaysInv, PTL

(* Of the steps of a process only TearDown begins to unmap the library.    *)
LEMMA OnlyTearDown ==
    ASSUME Inv, NEW p \in Procs, NEW q \in Procs, ~TearDown(q), ~At(p, "unmapping"),
           MainThread(q) \/ ThreadCalls(q) \/ ThreadEnters(q) \/ ThreadLeaves(q)
    PROVE  proc'[p].pc # "unmapping"
  <1> DEFINE r == proc[q]
  <1>1. r \in Process /\ DOMAIN proc = Procs /\ proc[p].pc # "unmapping"
    BY DEF Inv, Good, At
  <1>2. ASSUME NEW n, Becomes(q, n), n.pc # "unmapping" PROVE proc'[p].pc # "unmapping"
    BY <1>1, <1>2 DEF Becomes
  <1>3. ASSUME NEW n, NEW s, Forks(q, n, s), n.pc # "unmapping", s.pc # "unmapping"
        PROVE  proc'[p].pc # "unmapping"
    BY <1>1, <1>3 DEF Forks
  <1>4. CASE CallFork(q) \/ CallSpecialize(q)
    BY <1>1, <1>2, <1>4 DEF CallFork, CallSpecialize, Enter, Process
  <1>5. CASE RunModulesPre(q) \/ OrigSpecializes(q)
    BY <1>1, <1>2, <1>5 DEF RunModulesPre, OrigSpecializes, Process
  <1>6. CASE Post(q)
    BY <1>1, <1>2, <1>6 DEF Post, Process
  <1>7. CASE Cleanup(q)
    <2> DEFINE armed(o) == [Left(r) EXCEPT !.should = o # "failed" \/ ~Left(r).list,
                                           !.jni = @ /\ ~(o = "restored" /\ Left(r).list),
                                           !.missed = @ \/ (o = "missed" /\ Left(r).list),
                                           !.list = FALSE,
                                           !.table = Stripped(@),
                                           !.enable = TRUE]
    <2>1. Becomes(q, Left(r)) \/ \E o : Becomes(q, armed(o))
      BY <1>7 DEF Cleanup
    <2>2. Left(r).pc = "daemons" /\ \A o : armed(o).pc = "daemons"
      BY <1>1 DEF Left, Process
    <2> HIDE DEF armed
    <2> QED BY <1>2, <2>1, <2>2
  <1>8. CASE StackSizeIdle(q) \/ ReadAgain(q) \/ Unmap(q) \/ Continue(q)
    BY <1>1, <1>2, <1>8 DEF StackSizeIdle, ReadAgain, Unmap, Continue, Process
  <1>9. CASE ForkPre(q)
    <2>1. ASSUME NEW n, "pc" \in DOMAIN n PROVE AfterForkPre(n).pc # "unmapping"
      BY <2>1 DEF AfterForkPre
    <2> DEFINE blocked == [r EXCEPT !.sigchld = TRUE]
               parent == [blocked EXCEPT !.pid = 1, !.born = @ + 1]
               failing == [blocked EXCEPT !.pid = -1, !.failed = TRUE]
    <2>2. \/ \E role \in Roles :
                Forks(q, AfterForkPre(parent), AfterForkPre(ChildOf(blocked, role)))
          \/ Becomes(q, AfterForkPre(failing))
      BY <1>9 DEF ForkPre
    <2>3. /\ "pc" \in DOMAIN parent /\ "pc" \in DOMAIN failing
          /\ \A role : "pc" \in DOMAIN ChildOf(blocked, role)
      BY <1>1 DEF Process, ChildOf
    <2> HIDE DEF parent, failing, blocked
    <2> QED BY <1>2, <1>3, <2>1, <2>2, <2>3
  <1>10. CASE OrigForks(q)
    <2> DEFINE back == [r EXCEPT !.pc = "return"]
               cached == [back EXCEPT !.ret = back.pid]
               parent == [back EXCEPT !.ret = 1, !.born = @ + 1]
               child(role) == [ChildOf(back, role) EXCEPT !.pid = back.pid, !.ret = 0,
                                                          !.count = CountInChild]
               failing == [back EXCEPT !.ret = -1]
    <2>1. \/ Becomes(q, cached) \/ Becomes(q, failing)
          \/ \E role \in Roles : Forks(q, parent, child(role))
      BY <1>10 DEF OrigForks
    <2>2. /\ cached.pc = "return" /\ parent.pc = "return" /\ failing.pc = "return"
          /\ \A role : child(role).pc = "return"
      BY <1>1 DEF Process, ChildOf
    <2> HIDE DEF cached, parent, child, failing
    <2> QED BY <1>2, <1>3, <2>1, <2>2
  <1>11. CASE ForkUsap(q)
    <2> DEFINE child == [ChildOf(r, "usap") EXCEPT !.pid = r.pid, !.count = CountInChild]
    <2>1. Forks(q, r, child) /\ r.pc = "idle"
      BY <1>11 DEF ForkUsap, At
    <2>2. child.pc = r.pc
      BY <1>1 DEF Process, ChildOf
    <2> HIDE DEF child
    <2> QED BY <1>3, <2>1, <2>2
  <1>12. CASE ThreadCalls(q) \/ ThreadEnters(q) \/ ThreadLeaves(q)
    BY <1>1, <1>12 DEF ThreadCalls, ThreadEnters, ThreadLeaves, Process, Inv, Good
  <1> QED BY <1>4, <1>5, <1>6, <1>7, <1>8, <1>9, <1>10, <1>11, <1>12 DEF MainThread

(* The decision to unmap is taken with nobody else counted in.             *)
THEOREM QuietUnmap ==
    ASSUME "zygote" \notin JniMayFail \cup JniMayMiss
    PROVE  Spec => QuietAtDecision
  <1> DEFINE Decides(p) == ~At(p, "unmapping") /\ (proc[p].pc)' = "unmapping"
             Safe(p) == other[p] # "in" \/ proc[p].failed
  <1>1. ASSUME Inv, [Next]_vars, NEW p \in Procs, Decides(p) PROVE Safe(p)
    <2>1. PICK q \in Procs : MainThread(q) \/ ThreadCalls(q) \/ ThreadEnters(q) \/ ThreadLeaves(q)
      BY <1>1 DEF Next, vars, At
    <2>2. TearDown(q)
      BY <1>1, <2>1, OnlyTearDown
    <2>3. q = p
      BY <1>1, <2>2 DEF TearDown, Becomes, Inv, At
    <2> DEFINE freed(rest) == [proc[p] EXCEPT !.plt = rest, !.table = "none", !.pc = "started"]
    <2>4. PICK rest \in Remaining(proc[p]) :
              \/ Becomes(p, [[freed(rest) EXCEPT !.enable = FALSE] EXCEPT !.should = FALSE])
              \/ Quiet(freed(rest))
              \/ Becomes(p, [freed(rest) EXCEPT !.enable = FALSE])
      BY <2>2, <2>3 DEF TearDown
    <2>5. proc[p] \in Process /\ DOMAIN proc = Procs
      BY <1>1 DEF Inv, Good
    <2>6. Quiet(freed(rest))
      <3>1. /\ [[freed(rest) EXCEPT !.enable = FALSE] EXCEPT !.should = FALSE].pc = "started"
            /\ [freed(rest) EXCEPT !.enable = FALSE].pc = "started"
        BY <2>5 DEF Process
      <3>2. ASSUME NEW n, Becomes(p, n) PROVE n.pc = "unmapping"
        BY <1>1, <2>5, <3>2 DEF Becomes
      <3> HIDE DEF freed
      <3> QED BY <2>4, <3>1, <3>2
    <2>7. proc[p].count = 0
      BY <2>5, <2>6 DEF Quiet, Process
    <2> QED BY <1>1, <2>7 DEF Inv, Good, Counted, Guards
  <1>2. Inv /\ [Next]_vars => [\A p \in Procs : Decides(p) => Safe(p)]_vars
    BY <1>1
  <1> QED BY <1>2, AlwaysInv, PTL DEF Spec, QuietAtDecision
===============================================================================
