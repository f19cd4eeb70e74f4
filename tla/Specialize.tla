------------------------------ MODULE Specialize ------------------------------
(***************************************************************************)
(* libzygisk.so in a zygote and in the processes it forks                  *)
(* (crates/loader): the wrappers of nativeForkAndSpecialize,               *)
(* nativeForkSystemServer and nativeSpecializeAppProcess (jni_tables.rs),  *)
(* the fork they do before the platform does (fork_prepost.rs), the        *)
(* teardown after the original method returned (lifecycle.rs), and the     *)
(* library unmapping itself from a hook (fork_hooks.rs).                   *)
(*                                                                         *)
(* The library's globals and the frame of the wrapper on the main thread's *)
(* stack are one record per process: fork copies it.  A process may have   *)
(* one more thread, which passes through a hook of the library.  Threads   *)
(* do not survive a fork, and the zygote stops its own before it forks.    *)
(***************************************************************************)
EXTENDS Integers, FiniteSets

CONSTANTS
    Procs,              \* processes
    Zygote,             \* the one the library is injected into
    ForkMayFail,        \* fork() may fail
    JniMayFail,         \* roles in which RegisterNatives may fail to restore
    JniMayMiss,         \* roles in which FindClass may fail, or the JNIEnv be null
    PltMayFail,         \* a PLT slot may fail to be restored
    ChildZygotes,       \* a child may be a zygote itself
    ReadsEmpty,         \* the first ReadModules may report an empty table
    SelfUnmapEnabled,   \* aarch64 and arm
    MaxRetries          \* MODULE_TABLE_MAX_RETRIES

ASSUME ProcsAssumption == Zygote \in Procs
ASSUME RetriesAssumption == MaxRetries \in Nat
ASSUME JniAssumption == JniMayFail \cup JniMayMiss \subseteq {"zygote", "usap", "app"}
ASSUME FlagsAssumption ==
    {ForkMayFail, PltMayFail, ChildZygotes, ReadsEmpty, SelfUnmapEnabled} \subseteq BOOLEAN

VARIABLES
    proc,   \* each process: see Process
    other   \* its other thread: out of the library, at the first instruction
            \* of a hook, or counted in
vars == <<proc, other>>

PltHooks == {"fork", "strdup", "ReopenOrDetach", "pthread_attr_setstacksize"}

(***************************************************************************)
(* pc: where the main thread is.                                           *)
(*   unborn, idle     not started; a zygote or unspecialized process waits *)
(*   fork             in the wrapper, before fork_pre's fork               *)
(*   modules          before app_specialize_pre or run_modules_pre         *)
(*   orig, return     in the original method; it returns                   *)
(*   cleanup          before lifecycle::cleanup                            *)
(*   daemons, started the VM starts its daemon threads; it has             *)
(*   unmapping        the hook branched into munmap                        *)
(*   crashed          it called a null pointer                             *)
(* Process ids are -1 (none), 0 (the child itself), 1 (a child's).         *)
(***************************************************************************)
InWrapper == {"fork", "modules", "orig", "return", "cleanup"}
AtRest == {"idle", "daemons", "started"}

Process == [
    pc      : {"unborn", "unmapping", "crashed"} \cup InWrapper \cup AtRest,
    role    : {"none", "zygote", "usap", "app"},
    call    : {"none", "fork", "specialize"},
    ctx     : BOOLEAN,          \* G_CTX is set
    pid     : {-1, 0, 1},       \* ctx.pid
    ret     : {-1, 0, 1},       \* what the original method returns
    sigchld : BOOLEAN,          \* SIGCHLD is blocked
    jni     : BOOLEAN,          \* the JNI methods are the wrappers
    list    : BOOLEAN,          \* JNI_HOOK_LIST holds the originals
    plt     : SUBSET PltHooks,  \* PLT slots that lead into the library
    table   : {"none", "loaded", "stripped"},
    ran     : BOOLEAN,          \* modules ran in it
    should  : BOOLEAN,          \* SHOULD_UNMAP_ZYGISK
    enable  : BOOLEAN,          \* ENABLE_UNLOADER
    mapped  : BOOLEAN,
    count   : Int,              \* IN_LOADER (-1 is the largest usize)
    empty   : BOOLEAN,          \* MODULE_TABLE_EMPTY
    retries : 0 .. MaxRetries,  \* MODULE_TABLE_RETRIES
    born    : Nat,              \* children of the call it is in
    failed  : BOOLEAN,          \* history: a fork of fork_pre failed, in it or an ancestor
    missed  : BOOLEAN]          \* history: cleanup passed over its JNI methods

Unborn == [
    pc |-> "unborn", role |-> "none", call |-> "none", ctx |-> FALSE, pid |-> -1, ret |-> -1,
    sigchld |-> FALSE, jni |-> FALSE, list |-> FALSE, plt |-> {}, table |-> "none", ran |-> FALSE,
    should |-> FALSE, enable |-> FALSE, mapped |-> FALSE, count |-> 0, empty |-> FALSE,
    retries |-> 0, born |-> 0, failed |-> FALSE, missed |-> FALSE]

(* hook_functions, hook_unloader and do_hook_zygote have run.              *)
Injected(isEmpty) ==
    [Unborn EXCEPT !.pc = "idle", !.role = "zygote", !.jni = TRUE, !.list = TRUE,
                   !.plt = PltHooks, !.mapped = TRUE, !.empty = isEmpty,
                   !.table = IF isEmpty THEN "none" ELSE "loaded"]

Init ==
    /\ \E isEmpty \in {FALSE} \cup {ReadsEmpty} :
           proc = [p \in Procs |-> IF p = Zygote THEN Injected(isEmpty) ELSE Unborn]
    /\ other = [p \in Procs |-> "out"]

At(p, pc) == proc[p].pc = pc
Becomes(p, r) == proc' = [proc EXCEPT ![p] = r] /\ UNCHANGED other

(* fork(): the child is a copy with one thread.                            *)
Forks(p, parentRecord, childRecord) ==
    \E c \in Procs :
        /\ At(c, "unborn")
        /\ proc' = [proc EXCEPT ![p] = parentRecord, ![c] = childRecord]
        /\ UNCHANGED other

(* context.rs is_zygote_child.  Mutant: the sign is wrong. *)
IsZygoteChildOrParent(r) == r.pid >= 0
IsZygoteChild(r) == r.pid <= 0

-----------------------------------------------------------------------------
(* The wrappers up to the original method.  LoaderGuard::new, then         *)
(* lifecycle::init.                                                        *)
Enter(r, call, pc) ==
    [r EXCEPT !.count = @ + 1, !.ctx = TRUE, !.pid = -1, !.call = call, !.pc = pc, !.born = 0]

CallFork(p) ==
    /\ At(p, "idle") /\ proc[p].role = "zygote" /\ proc[p].jni
    /\ other[p] = "out"
    /\ \E c \in Procs : At(c, "unborn")
    /\ Becomes(p, Enter(proc[p], "fork", "fork"))

CallSpecialize(p) ==
    /\ At(p, "idle") /\ proc[p].role = "usap" /\ proc[p].jni
    /\ Becomes(p, Enter(proc[p], "specialize", "modules"))

(* fork_pre.  A child goes on to its modules; so does whoever else          *)
(* is_zygote_child takes for one.                                          *)
AfterForkPre(r) == [r EXCEPT !.pc = IF IsZygoteChild(r) THEN "modules" ELSE "orig"]

Roles == {"app"} \cup (IF ChildZygotes THEN {"zygote"} ELSE {})
ChildOf(r, role) == [r EXCEPT !.pid = 0, !.role = role, !.born = 0]

ForkPre(p) ==
    /\ At(p, "fork")
    /\ LET blocked == [proc[p] EXCEPT !.sigchld = TRUE]
       IN  \/ \E role \in Roles :
                  Forks(p, AfterForkPre([blocked EXCEPT !.pid = 1, !.born = @ + 1]),
                           AfterForkPre(ChildOf(blocked, role)))
           \/ ForkMayFail /\ Becomes(p, AfterForkPre([blocked EXCEPT !.pid = -1, !.failed = TRUE]))

(* run_modules_pre.  The entry of a module that cleanup overwrote is null  *)
(* and called all the same.                                                *)
RunModulesPre(p) ==
    /\ At(p, "modules")
    /\ LET r == proc[p]
       IN  Becomes(p, [r EXCEPT !.ran = @ \/ r.table = "loaded",
                                !.pc = IF r.table = "stripped" THEN "crashed" ELSE "orig"])

(* The hook of fork: the pid cached in a live context, or a real fork,     *)
(* after which the child's count is one: this hook's guard, dropped as it  *)
(* returns.  Mutants: the cache is not looked at; the guard is forgotten.  *)
ForkedUncached(r) == FALSE /\ r.ctx
ForkIsCached(r) == r.ctx /\ r.pid >= 0

CountInChildNone == 0 - 1
CountInChild == 1 - 1

OrigForks(p) ==
    /\ At(p, "orig") /\ proc[p].call = "fork"
    /\ LET r == [proc[p] EXCEPT !.pc = "return"]
       IN  \/ ForkIsCached(r) /\ Becomes(p, [r EXCEPT !.ret = r.pid])
           \/ /\ ~ForkIsCached(r)
              /\ \/ \E role \in Roles :
                        Forks(p, [r EXCEPT !.ret = 1, !.born = @ + 1],
                                 [ChildOf(r, role) EXCEPT !.pid = r.pid, !.ret = 0, !.count = CountInChild])
                 \/ ForkMayFail /\ Becomes(p, [r EXCEPT !.ret = -1])

OrigSpecializes(p) ==
    /\ At(p, "orig") /\ proc[p].call = "specialize"
    /\ Becomes(p, [proc[p] EXCEPT !.pc = "return"])

(* An unspecialized process: the platform forks without a wrapper.         *)
ForkUsap(p) ==
    /\ p = Zygote /\ At(p, "idle") /\ "fork" \in proc[p].plt
    /\ other[p] = "out"
    /\ Forks(p, proc[p], [ChildOf(proc[p], "usap") EXCEPT !.pid = proc[p].pid, !.count = CountInChild])

(* rz_native*_post: ctx.pid is the original's result, a child's modules    *)
(* get their post callbacks, fork_post.  Mutant: only the child unblocks.  *)
PostUnblocksChild(p) ==
    /\ At(p, "return")
    /\ LET r == [proc[p] EXCEPT !.pc = "cleanup"]
       IN  Becomes(p, IF r.call = "fork"
                      THEN [r EXCEPT !.pid = r.ret, !.sigchld = r.ret > 0, !.ctx = FALSE]
                      ELSE [r EXCEPT !.ctx = FALSE])

Post(p) ==
    /\ At(p, "return")
    /\ LET r == [proc[p] EXCEPT !.pc = "cleanup", !.ctx = FALSE]
       IN  Becomes(p, IF r.call = "fork" THEN [r EXCEPT !.pid = r.ret, !.sigchld = FALSE] ELSE r)

Stripped(table) == IF table = "loaded" THEN "stripped" ELSE table

Left(r) ==
    [r EXCEPT !.ctx = FALSE, !.count = @ - 1, !.pc = "daemons", !.call = "none",
              !.born = 0, !.pid = -1, !.ret = -1]

(* Mutant: the table is overwritten before asking whose cleanup it is. *)
CleanupStripsFirst(p) ==
    /\ At(p, "cleanup")
    /\ Becomes(p, [Left(proc[p]) EXCEPT !.table = Stripped(@)])

(* The class on JNI_HOOK_LIST is found and its methods are restored;       *)
(* RegisterNatives fails; or the class is not found, or there is no JNIEnv *)
(* to look for it with, and it is passed over.                             *)
Restorations(role) ==
    {"restored"} \cup {o \in {"failed"} : role \in JniMayFail}
                 \cup {o \in {"missed"} : role \in JniMayMiss}

(* lifecycle::cleanup, and the drop of the wrapper's guard.  The list is   *)
(* cleared and the unloader armed whatever became of the methods, the      *)
(* module table is overwritten; only a failure of RegisterNatives          *)
(* withdraws SHOULD_UNMAP_ZYGISK.                                          *)
Cleanup(p) ==
    /\ At(p, "cleanup")
    /\ LET left == Left(proc[p])
           armed(o) ==
               [left EXCEPT !.should = o # "failed" \/ ~left.list,
                            !.jni = @ /\ ~(o = "restored" /\ left.list),
                            !.missed = @ \/ (o = "missed" /\ left.list),
                            !.list = FALSE,
                            !.table = Stripped(@),
                            !.enable = TRUE]
       IN  \/ ~IsZygoteChild(proc[p]) /\ Becomes(p, left)
           \/ /\ IsZygoteChild(proc[p])
              /\ \E o \in Restorations(proc[p].role) : Becomes(p, armed(o))

-----------------------------------------------------------------------------
(* pthread_attr_setstacksize on the main thread, as the VM starts its      *)
(* threads.                                                                *)
Starts(p) == proc[p].pc \in {"daemons", "started"}

HookArmed(r) == r.enable /\ "pthread_attr_setstacksize" \in r.plt

(* The module-table self-heal.                                             *)
MayRetry(r) == r.empty /\ ~r.should /\ r.retries < MaxRetries

(* The hook has nothing to do, or is not installed any more.               *)
StackSizeIdle(p) ==
    /\ At(p, "daemons")
    /\ HookArmed(proc[p]) => ~proc[p].should /\ ~MayRetry(proc[p])
    /\ Becomes(p, [proc[p] EXCEPT !.pc = "started"])

ReadAgain(p) ==
    /\ Starts(p) /\ HookArmed(proc[p]) /\ MayRetry(proc[p])
    /\ \E table \in {"none", "loaded"}, isEmpty \in BOOLEAN :
           /\ table = "loaded" => ~isEmpty
           /\ Becomes(p, [proc[p] EXCEPT !.retries = @ + 1, !.empty = isEmpty, !.pc = "started",
                                         !.table = IF table = "loaded" THEN "loaded" ELSE @])

(* unhook_functions, then the module table and the PLT bookkeeping are     *)
(* freed.  A slot that was not restored keeps the library mapped.          *)
Remaining(r) == IF PltMayFail THEN SUBSET r.plt ELSE {{}}

(* Mutant: what unhook_functions returned is ignored. *)
KeepMappedNever(rest) == rest = PltHooks \cup {"none"}
KeepMapped(rest) == rest # {}

(* The quiescence gate: the hook's own guard is the only one.              *)
Quiet(r) == r.count + 1 = 1

TearDown(p) ==
    /\ Starts(p) /\ HookArmed(proc[p]) /\ proc[p].should
    /\ \E rest \in Remaining(proc[p]) :
           LET freed == [proc[p] EXCEPT !.plt = rest, !.table = "none", !.pc = "started"]
               disarmed == [freed EXCEPT !.enable = FALSE]
           IN  \/ KeepMapped(rest) /\ Becomes(p, [disarmed EXCEPT !.should = FALSE])
               \/ /\ ~KeepMapped(rest)
                  /\ \/ SelfUnmapEnabled /\ Quiet(freed) /\ Becomes(p, [freed EXCEPT !.pc = "unmapping"])
                     \/ ~(SelfUnmapEnabled /\ Quiet(freed)) /\ Becomes(p, disarmed)

(* The wrapper's tail branch into munmap.                                  *)
Unmap(p) ==
    /\ At(p, "unmapping")
    /\ Becomes(p, [proc[p] EXCEPT !.mapped = FALSE, !.pc = "started"])

(* The platform goes on: a zygote takes its next request.                  *)
Continue(p) ==
    /\ At(p, "started") /\ proc[p].role = "zygote"
    /\ ~(HookArmed(proc[p]) /\ proc[p].should)
    /\ Becomes(p, [proc[p] EXCEPT !.pc = "idle"])

(* Another thread takes a PLT slot that leads into the library, is counted *)
(* in, and leaves.                                                         *)
HasThreads(p) == proc[p].pc \in {"daemons", "started", "unmapping"}
Moves(p, from, to) == other[p] = from /\ other' = [other EXCEPT ![p] = to]

ThreadCalls(p) ==
    /\ HasThreads(p) /\ proc[p].plt # {}
    /\ Moves(p, "out", "branching") /\ UNCHANGED proc
ThreadEnters(p) ==
    /\ HasThreads(p) /\ proc[p].mapped
    /\ Moves(p, "branching", "in")
    /\ proc' = [proc EXCEPT ![p].count = @ + 1]
ThreadLeaves(p) ==
    /\ HasThreads(p) /\ proc[p].mapped
    /\ Moves(p, "in", "out")
    /\ proc' = [proc EXCEPT ![p].count = @ - 1]

-----------------------------------------------------------------------------
MainThread(p) ==
    \/ CallFork(p) \/ CallSpecialize(p) \/ ForkPre(p) \/ RunModulesPre(p)
    \/ OrigForks(p) \/ OrigSpecializes(p) \/ ForkUsap(p) \/ Post(p) \/ Cleanup(p)
    \/ StackSizeIdle(p) \/ ReadAgain(p) \/ TearDown(p) \/ Unmap(p) \/ Continue(p)

Next == \E p \in Procs : MainThread(p) \/ ThreadCalls(p) \/ ThreadEnters(p) \/ ThreadLeaves(p)

Spec == Init /\ [][Next]_vars

-----------------------------------------------------------------------------
TypeOK ==
    /\ DOMAIN proc = Procs
    /\ \A p \in Procs : proc[p] \in Process
    /\ other \in [Procs -> {"out", "branching", "in"}]

(* "In the zygote itself [...] it returns right after clearing g_ctx,      *)
(* leaving the hooks installed for the next fork pass" (lifecycle.rs:      *)
(* 13-16), and fork_pre forks "before loading any 3rd party code"          *)
(* (fork_prepost.rs:55-59): no module runs in the zygote and nothing of    *)
(* the library is taken down there.                                        *)
ZygoteUntouched ==
    LET z == proc[Zygote]
    IN  z.jni /\ z.list /\ z.plt = PltHooks /\ z.mapped /\ ~z.enable /\ ~z.ran

(* That holds for as long as no fork of fork_pre fails in the zygote.       *)
ZygoteKept == ~proc[Zygote].failed => ZygoteUntouched

(* A process at rest, outside every wrapper, has no context that points    *)
(* into a frame that is gone, and takes SIGCHLD: parents and children,     *)
(* whoever forked and whatever failed.                                     *)
NothingLeftBehind ==
    \A p \in Procs : proc[p].pc \in AtRest => ~proc[p].ctx /\ ~proc[p].sigchld

(* One call of a forking method forks once: the pid fork_pre got is the    *)
(* one the platform's own fork() returns.                                  *)
OneChildPerCall ==
    \A p \in Procs : At(p, "return") /\ proc[p].call = "fork" =>
        proc[p].born = IF proc[p].ret > 0 THEN 1 ELSE 0

(* IN_LOADER is the number of guards alive in the process, across forks    *)
(* out of a wrapper and out of the fork hook; a fork of fork_pre that fails *)
(* leaves the platform's fork hook to reset a count the wrapper's guard is  *)
(* part of.                                                                *)
GuardsCounted ==
    TypeOK /\ \A p \in Procs : ~proc[p].failed =>
        proc[p].count = (IF proc[p].pc \in InWrapper THEN 1 ELSE 0) + (IF other[p] = "in" THEN 1 ELSE 0)

(* The gate in pthread_attr_setstacksize: "every other thread must be      *)
(* outside loader code (this hook holds the only legitimate in-flight      *)
(* entry, so the count must be exactly 1" (fork_hooks.rs:399-404): the     *)
(* decision to unmap is never taken while another thread is counted in,    *)
(* as long as the count is right.                                          *)
QuietAtDecision ==
    [][\A p \in Procs : ~At(p, "unmapping") /\ (proc[p].pc)' = "unmapping" =>
           other[p] # "in" \/ proc[p].failed]_vars

(* A PLT slot or JNI method that leads into the library keeps it mapped    *)
(* ("Any PLT slot that failed to restore still points into libzygisk.so.   *)
(* Munmapping now arms a deferred SIGSEGV", fork_hooks.rs:361-363; cleanup *)
(* withdraws SHOULD_UNMAP_ZYGISK when RegisterNatives fails), but for a    *)
(* JNI method whose class cleanup could not look up: it is passed over and *)
(* the library is unmapped all the same (lifecycle.rs:101-108).            *)
UnmapLeavesNoHook ==
    \A p \in Procs : proc[p].pc # "unborn" /\ ~proc[p].mapped =>
        proc[p].plt = {} /\ (proc[p].jni => proc[p].missed)

(* module_on_load is called on "a live table slot with a valid             *)
(* `zygisk_module_entry`" (module_calls.rs:49), again unless a fork failed. *)
ModulesAreLive == \A p \in Procs : At(p, "crashed") => proc[p].failed

(* No call through a hook or a module's entry leaves mapped, live code,     *)
(* but through a JNI method that cleanup passed over.                      *)
NoCallIntoNothing == UnmapLeavesNoHook /\ ModulesAreLive
==============================================================================
