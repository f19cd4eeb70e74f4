# A verification development for ReZygisk-RS

TLA+ models of the program in `crates/`, TLC configurations that model-check
them, and TLAPS proofs about them. Every definition is translated from the Rust
source; the file `PROJECT.json` names, for each definition, the lines it stands
for, and for each hazard of the code the properties that watch it.

    tlc -workers 2 -config MonitorSafety.cfg MCMonitor      # one run
    tlapm MonitorProofs.tla                                 # one proof module

Contents: [1 The system](#1-the-system) ·
[2 The modules and the plan](#2-the-modules-and-the-plan) ·
[3 Monitor](#3-monitor) ·
[4 ZygoteRestart](#4-zygoterestart) ·
[5 Daemon](#5-daemon) ·
[6 Specialize](#6-specialize) ·
[7 TraceZygote](#7-tracezygote) ·
[8 PltHooks](#8-plthooks) ·
[9 CsoLinker and CsoTls](#9-csolinker-and-csotls) ·
[10 CsoImage and ElfTables](#10-csoimage-and-elftables) ·
[11 Where code and documentation disagree](#11-where-code-and-documentation-disagree) ·
[12 What is proved](#12-what-is-proved) ·
[13 What is not modelled](#13-what-is-not-modelled)

## 1. The system

ReZygisk-RS puts a library into Android's zygote, the process every
application is forked from, and lets modules run code in each application as it
is specialized. Four kinds of process take part.

```
            control datagrams                 SIGCHLD, ptrace events
 zygisk-ptrace ctl ─────────► MONITOR ◄──────────────────────────── init, its children
                              │   │  \                                   │ fork, exec
             forks, respawns  │   │   \ one tracer per zygote            ▼
                              ▼   │    └──────► TRACER ──remote calls──► ZYGOTE
             set-info ┌── DAEMON64 DAEMON32      │ ZygoteRestart,         │ libzygisk.so
             datagram └──►   ▲  ▲ └─ forks ─► COMPANION (one per module)  │ fork_pre, fork
                             │  │                 ▲                       ▼
                             │  └─────────────────┼──── ReadModules ── zygote
                             └── requests ────────┴──── socket ─────── APP (specialized)
```

| Component | State it keeps | Operations | How it talks to others |
|---|---|---|---|
| **Monitor** `ptracer/src/monitor.rs` | tracing state, tracked pids, one daemon record and one restart counter per ABI, epoll set | start, stop, exit, set-info datagrams; a reported child; hand-off of a zygote; watchdog | datagram socket, signalfd, `waitpid`, ptrace on init and its children, `fork` of daemons and tracers |
| **Tracer** `ptracer/src/{trace,utils,remote_csoloader}.rs` | one zygote: its saved registers, its poisoned `AT_ENTRY`, memory mapped into it | stop at the entry point, load the library, run `entry`, restore, detach | ptrace; `ZygoteRestart` and `ZygoteInjected` to the daemon |
| **Daemon** `rezygiskd/src` | module list with companions, `first_process`, cached mount namespaces | one request per connection, in one thread | stream socket from zygotes, applications, tracer, `ctl`; datagrams to the monitor |
| **Companion** `rezygiskd/src/companion.rs` | one module's code in a process of its own | serve a client's socket | socket pair with the daemon |
| **Loader: modules** `loader/src/load_modules.rs` | the table of loaded modules (`ZYGISK_MODULES`), copied by each fork | read, load, remove the ones that fail | `ReadModules`, `RemoveModule` |
| **Loader: lifecycle** `loader/src/{fork_prepost,native_specialize,lifecycle,fork_hooks,hook_register}.rs` | `G_CTX`, the in-loader count, hooked PLT slots and JNI methods, the unmap flags | wrappers of the three native methods, fork cache, teardown, self-unmap | the hooks are called by the platform's own code, on any thread |
| **fd sanitization** `loader/src/fd_sanitize.rs` | the snapshot of open descriptors | mark, scan and close | the platform's `fdsToIgnore` array |
| **Module API** `loader/src/{module_api,module_calls,plt_commit*}.rs` | registered and excluded hooks, exempted descriptors | register, exclude, commit | called by module code |
| **PLTI** `plti/src/lib.rs` | known libraries, hooks and their backups | hook, unhook, refresh the maps | writes GOT slots |
| **csoloader** `csoloader/src` | loaded images, dependency order, TLS modules | load, relocate, construct, destroy | `mmap`, the system linker's globals |
| **ipc**, **elf**, **common** | none to speak of | framed reads and writes, ELF decoding, logging | |
| **root implementations** `rezygiskd/src/root_impl*` | what manager was found at start | flags of a uid | kernel interfaces, files |

**What is hard here.** The monitor is one thread serving two descriptors, but
its world is concurrent: init forks, children exec, take signals and die, pids
are reused, daemons die, and a datagram may arrive between any two steps. Its
descriptors are edge triggered and its signals coalesce, so whatever a pass
leaves behind may never be announced again. `Stop` is carried out by an
interrupt whose trap arrives later, and `Start` may come in between. Parking a
zygote is a wait of up to ten seconds inside the handler, which ends in one of
four ways while the zygote goes on being signalled. The daemon serves processes
that may be killed between any two bytes, is itself replaced when it dies, and
numbers its modules by position in a list that others shorten. The loader forks
*before* the platform does and caches the pid; every later step must know in
which process it is; and in the end it removes every trace of itself from a
process in which other threads are already running its hooks. The list of these
hazards, each at its line, is under `hazards` in `PROJECT.json`.

**What makes each part correct.**
*Monitor*: init is never left stopped; the monitor holds init exactly while it
says it traces; no report and no datagram is forgotten; a zygote is handed over
once, while tracing, with a daemon of its ABI, within the restart limit; a slot
of the tracked list always names a tracee; one daemon per ABI.
*Daemon*: a request ends; a process talks to the companion of the module it
means; a removal removes the module that failed; nobody's death blocks another.
*Loader*: one child per call; the zygote keeps its hooks and runs no module;
nothing is left in a process at rest; when the library is unmapped nothing
leads into it; nobody is counted inside when the decision is taken.
*Tracer*: a zygote goes on untouched or completely injected, whatever failed,
and is not left stopped. *Linker*: a constructor runs after its
dependencies'; a failed load leaves nothing; memory is what the file's headers
and relocations say; the TLS table, the images and the threads agree. *PLTI*: a
call reaches the platform's function, but for slots of the region under
replacement; a slot that was changed can be found again; nothing leads into a library that is gone.

## 2. The modules and the plan

| Module | Subject | Checked / proved |
|---|---|---|
| `Monitor` | event loop, custody of init, hand-offs, daemons | TLC; theorems in `MonitorProofs` |
| `TraceeCustody` | abstract: what the monitor promises about each process init forks | implemented by `Monitor` (TLC; proved in `MonitorProofs`) |
| `ZygoteRestart` | the restart limiter on a time axis, and what the daemon keeps of an older zygote | TLC; theorems in `ZygoteRestartProofs` |
| `Daemon` | requests, module indices, companions, namespace cache, deaths | TLC; theorems in `DaemonProofs` |
| `TraceZygote` | the tracer: seize, poisoned entry, injected syscalls, release or kill on every path | TLC; theorems in `TraceZygoteProofs` |
| `Specialize` | wrappers, forks, teardown, self-unmapping | TLC; theorems in `SpecializeProofs` |
| `PltHooks` | hooks of the loader and of modules, commits, backups, unhooking | TLC; theorems in `PltHooksProofs` |
| `CsoLinker`, `CsoTls` | load order, failure unwinding, constructors, TLS slots and threads | TLC; theorems in `CsoLinkerProofs` |
| `CsoImage`, `ElfTables` | one library in memory: segments, relocations, protections; packed tables and symbol lookup as pure algorithms | TLC; a theorem in `CsoImageProofs` |

How they compose. `Monitor` implements `TraceeCustody`. `ZygoteRestart` composes
the monitor's limiter with the daemon's memory. `TraceZygote` starts where
`Monitor`'s `HandoffPark` and `HandoffTango` end. `CsoLinker` extends `CsoTls`:
the linker's steps are interleaved with the accesses of other threads.
`CsoImage` extends `ElfTables`: what the linker writes into memory is compared
with what the ELF reader lists. `PltHooks` rests on that last comparison, for
it takes the relocations of a library as given, and `PltiFindsSlots` says how far
those plti lists are the slots the linker fills.

Left to do: in `PltHooks`, a second thread inside the loader's `property_get`,
whose calls of plti would alternate with those of a specialization; in `CsoImage`,
several RELRO segments. The modules that proofs are about declare no `RECURSIVE`
operator, keep their parameters as constants with named assumptions and have one
action per operation.

## 3. Monitor

`crates/ptracer/src/monitor.rs`. Modules `Monitor`, `TraceeCustody`,
`MCMonitor`, `MonitorProofs`.

**State.** `pc` says where the monitor's one thread is: in `epoll_wait`, in the
drain of the control socket, in the loop over `waitpid`, in the wait for a
zygote to park, or gone. `tracing`, `tracked`, the status records (`daemonPid`,
`daemonRunning`) and the counters are the fields of `Monitor`. The environment
is init (its ptrace-stop, whether it is seized, whether an interrupt is
pending), each pid (`proc`: unborn, running, in which stop, dead and unreaped,
handed over), and the kernel's two edges (`sockEdge`, `sigPending`).

**Actions.** One per datagram, one per branch of `handle_sigchld_child` and
`consider_handoff`, one per end of the park loop, one for the watchdog; and the
environment's: init forks, is signalled or trapped, children exec, take
signals, die, are reaped by others. The three shapes of a hand-off (64-bit,
32-bit, and a 32-bit zygote under a translator) are separate actions.

**Abstractions.** The restart counter counts up to its limit and stays there;
whether the window has passed is a choice at each start (`ZygoteRestart` has the
clock). A pid is a model value and can be reused once it is reaped; `Children`
bounds the pids that init's children get, the others are for daemons. What the
handlers write into `module.prop` and `state.json`, the reason of a stop
included, is left out.

**What it implements.** `TraceeCustody` follows each process of init from its
fork to its exec, where it is decided once whether a tracer gets it: until then
it is let go only for a signal of its own or when the monitor does not inject.
`CustodyOf` maps the state of a process, its program and its place in `tracked`
to that; `on` is `tracing = "Tracing"`. The abstract specification says openly
what the code does on the side: a process whose program cannot be read is
forgotten, and the next report follows it anew.

| Run | What it asks | Bounds |
|---|---|---|
| `MonitorSafety` | custody of init and of the children (`InitCustody`, `ImplementsCustody`), tracked pids, daemons, whom `waitpid` waits for, `Exit`, hand-offs | two pids, so that one can be parked while another is born, signalled, reused or a daemon; the ABI that has all three kinds of hand-off; all commands, one in the queue; `/proc` reads may fail, init may be trapped before the signals are blocked; a restart limit of one |
| `MonitorLive` | no event goes unannounced (`NoLostWakeup`); init and every tracee leave their stops; a stop of the tracing completes | one child and one daemon, so that a zygote really is handed over; two queued datagrams, one being drained and one behind it; stops |

Two pids are enough for the properties over `tracked`: each relates a pid to
itself or to the pid being parked. They are too few for a zygote and two daemons
of one ABI; `OneDaemonPerAbi` is also proved, for any number of pids and ABIs.
`PTRACE_SEIZE` fails in neither run; the theorems, except `WaitsForSomebody`,
hold with its failures, too.

**Fairness** (`FairSpec`). `epoll_wait` reports each of two ready descriptors
without passing one over for ever, the kernel's list of children puts no child
behind infinitely many others, a requested trap is taken even if signals arrive,
the ten-second deadline is real time, and the datagram socket is empty again and
again (`Pauses`): the drain loop has no limit, so a sender that never pauses
keeps the monitor from its children for ever. Nothing is assumed of init, its
children, the daemons or the users of the control socket otherwise. The models
may stop (deadlock is not checked): the monitor may exit and init may do nothing
for ever.

## 4. ZygoteRestart

The limiter (`ZygoteStartCounter`), `--restart`, and the daemon's companions and
namespace cache, over a clock. History variables record each start and whether
the request of the latest tracer was lost.

A tracer is a record: whose it is, whether it still has to inject and whether it
still owes the daemon a `ZygoteRestart`. Of a plain zygote it sends that request
first (`main.rs:69-71`); of a tango one it puts it off until `trace_zygote` has
returned (`PutOff`, `main.rs:72-73`, `97-99`), and never sends it when the trace
fails (`TracerFails`). A request that cannot connect or be written
(`daemon_client.rs:119-130`) is lost and nobody notices. Tracers of earlier
zygotes may still be about to send theirs.

| Run | What it asks | Bounds |
|---|---|---|
| `ZygoteRestart` | no more starts than the limit are injected within a window (`BoundedRate`); a refusal is explained by a run of starts, each close to the last (`RefusalEndsRun`); from the third start of a burst the daemon, once it has been told, serves nothing of an older zygote (`BurstSeesFreshDaemon`) | six starts, plain and tango, within eight ticks of a three-tick window with a limit of three, so that a burst, a quiet window and a burst again fit |

What the code does *not* promise shows in how the properties are worded. A start
is refused although no window holds as many starts as the limit: each is compared
with the one before, and older ones never leave the count. The first two zygotes
of a window are injected without `--restart`, so that the second may be served by
the companions of the first (section 11). And "told" (`Told`) leaves out a
tango zygote until its tracer has sent the request and any zygote whose request
was lost: such a zygote is served what the one before it left, which no property
promises otherwise. Only requests of the zygote injected last are modelled; a
process of an earlier zygote that is still alive could be served, and have a
companion spawned for it, too.

## 5. Daemon

`crates/rezygiskd/src/{daemon,utils,companion}.rs` with the clients' side,
`crates/loader/src/{daemon_client,load_modules}.rs`. Modules `Daemon`,
`MCDaemon`, `DaemonProofs`.

The daemon accepts, reads the action byte, reads the arguments, serves, and
accepts again. Each is an action, and so is each thing a client does: connect,
write the byte, write the arguments, be killed. Zygotes are started one after
another; an application is forked from a zygote with a copy of its table. A
request records the module its client means, which the daemon does not see and
the properties compare with what its index finds.

A zygote waits one second for each part of its list (`SO_RCVTIMEO`,
`daemon_client.rs:174-186`). `ReadTimesOut` lets that second pass at any moment
while its request waits or is served: the zygote frees what it has read and goes
on without modules, and the daemon, which does not know, serves the request and
writes to a socket nobody reads. The deadline is not among the fairness
conditions, so `ZygoteLoads` does not rest on it. The request of a zygote that
gave up, was killed and has been followed by another may still be in the daemon's
backlog when that one connects.

**Abstractions.** `spawn_companion` is one step, for the daemon does nothing
else meanwhile; the descriptor of a dead companion, which `check_unix_socket`
finds out, is no companion. The tracer's `ZygoteRestart` and the `invalidate-ns`
command wait for no answer and are not killed in the model: the first connects,
writes and closes in one step, the second appears when the daemon takes it up,
between two requests of others (nobody waits for it, so the moment it connected
can be moved there). The cache is full or empty; whose namespace it holds is not
modelled. `GetInfo` and `ZygoteInjected` change nothing in the daemon.

| Run | What it asks | Bounds |
|---|---|---|
| `Daemon` | an index always reaches the module it was read for (`CompanionIsOwn`, as long as the daemon that gave the list is the one that answers), a removal removes the one that failed (`RemovesOwn`), every request ends, a zygote ends up loaded, bare or dead | two modules, both may fail, one without an entry; two zygotes, the second after the first was killed, so that an application of the first can ask for an index past the list the second has shortened; one application; one death of the daemon, one kill; two attempts to connect instead of three, so that a retry can succeed or be the last |
| `DaemonRespawn` | see section 11 | |

Two modules are the fewest for which an index can be wrong: the first fails and
the second is asked for by the position it has then.

**Fairness.** The daemon and the clients run until they block; a client that has
connected goes on to write or dies; a companion acknowledges or ends. The
second is an assumption on clients and not a deadline in the daemon: without it
one silent client blocks all others, which is listed as a hazard. Nothing
obliges the monitor to start another daemon.

## 6. Specialize

`crates/loader/src/{jni_tables,native_specialize,fork_prepost,lifecycle,fork_hooks,hook_register,load_modules,context}.rs`.
Modules `Specialize`, `MCSpecialize`, `SpecializeProofs`.

One record per process holds the library's globals and the wrapper's frame; a
fork copies it. The main thread passes through the wrappers; a second thread may
pass through a hook once the VM has started its threads. `fork` forks nothing
when the context holds a pid.

| Run | What it asks | Bounds |
|---|---|---|
| `SpecializeLife` | the whole life of a zygote, its children and unspecialized processes: that the zygote keeps what it was injected with (`ZygoteKept`), who is counted, what leads into the library when it goes (`NoCallIntoNothing`), what is left behind, how many children a call has | three processes: a zygote, a child that may be a zygote itself, and a grandchild or a sibling; any `fork` may fail, PLT slots and an application's JNI methods may not be restored or, the latter, be passed over, the first table may be read empty |
| `SpecializeInZygote` | see section 11 | |

A failed fork of `fork_pre` has consequences that last, in the process and in
what it forks (`failed`): the zygote takes itself for a child (section 11), and
when the platform's own fork then succeeds, the child's count is reset by the
fork hook to its guard alone although the wrapper's guard is alive: the count
ends one too low, and the gate can open with a thread inside. `ZygoteKept`,
`GuardsCounted`, `QuietAtDecision` and the part of `NoCallIntoNothing` about
modules are stated for processes without such a failure; what may be left behind
and how many children there are is stated for all.

The JNI methods of a child end in one of three ways (`Restorations`). They are
restored; `RegisterNatives` fails, and `SHOULD_UNMAP_ZYGISK` is withdrawn; or they
are passed over: the class is not found (`lifecycle.rs:106-108`) or there is no
`JNIEnv` and the loop is skipped (`101-102`), while the list of originals is
cleared (`146`) and the flag stays set (`98`). Such a process unmaps the library
with methods leading into it. `missed` records it, `NoCallIntoNothing` excuses
these methods and no others, and section 11 has what happens without the excuse.

The retry of an empty table (`fork_hooks.rs:341-358`) is in the model and is
never taken by a zygote: it stands behind the switch that arms the unmapping,
which only children set, although `context.rs:33-38` and `load_modules.rs:82-86`
speak of the zygote's next fork.

The guard of a hook is atomic with its count in the model except for the
instruction between the jump into the hook and the count (`branching`), which is
the window the code's comment admits. `-1` stands for the largest `usize`. A
child zygote's daemon threads start before it forks again. Safety only: nothing
in the library waits.

## 7. TraceZygote

`crates/ptracer/src/{trace,utils,remote_csoloader,main}.rs`. Modules `TraceZygote`,
`TraceZygoteProofs`.

**State.** The tracer (`pc`, the loader's cursor `seg` and its belief `fd` that
the image is staged in a memfd, the injected syscall it awaits), and the zygote
as the kernel sees it: parked, free, running under trace, in which ptrace stop,
or dead; what it executes (`ip`); the value of `AT_ENTRY`; the GOT slot of
`__libc_init`; what the loader left in it (`image`: the reservation, the scratch
page, the memfd, and each segment mapped, filled, protected); and how far the
library's entry came.

**Actions.** One per branch of `trace_zygote`, `inject_on_main` and
`inject_tango`. Every ptrace request works only on a trapped tracee. The loader
is a walk over steps that either inject a syscall (`Calls`) or are the tracer's
own (`LocalSteps`); `After` says where each answer leads. An injected syscall is
two stops, and in between come signals, event stops (retried up to a limit) and
death; one that outlasts its deadline is given up and may still take effect
later, when the loader is elsewhere. `wait_for_trace` swallows SIGCHLD and
disarms seccomp traps, the syscall waits do not. The tracer itself may be killed
at any point, and so may the zygote.

**Abstractions.** Registers are the place they make the tracee execute.
Relocation, symbol search and ELF decoding are steps that succeed or fail. An
injected syscall can be late only in the kernel, not on its way to the gadget.
On tracers that are not arm32 `inject_tango` is a stub that fails, as the first
local step may. Kernels older than 3.8 (`ExitKill = FALSE`) are considered for
plain zygotes only.

| Run | What it asks | Bounds |
|---|---|---|
| `TraceZygote` | a zygote that runs untraced is untouched or completely injected, and the latter if the tracer reports success (`ReleasedWhole`); entry runs only in a final image (`OnlyWholeImageRuns`); nothing is mapped before the linker is done (`AfterLinker`); no scratch page or descriptor stays (`TidyRelease`); a plain trace ends (`TraceEnds`) | plain and tango; two segments, one of them executable; three stray signals, event stops or crashes; two failing operations, so that a fallback can fail too; a retry limit of two instead of four, so that three event stops pass it |

`ReleasedWhole` holds for two reasons the code nowhere states together: a plain
zygote's failures leave it attached until `main` kills it, with
`PTRACE_O_EXITKILL` for the case that the tracer dies first (a kernel without it
leaves the zygote in its group stop, poisoned or half mapped: with `ExitKill =
FALSE` the property holds, but such a zygote waits for a SIGCONT nobody owes
it); and each of the two paths that detach after a failure does so where the
zygote is untouched or complete. The tango path has neither: it detaches first, so a tango zygote may
run half injected until the kill, and for good if the tracer dies in between.

When the trampoline has trapped, the tracer gives the GOT slot back, writes the
stub that jumps to the original function, and steps on: each of these writes only
logs its failure and the injection still counts as done (`trace.rs:228-245`). So
a tango zygote can be reported as injected with its slot still leading to the
trampoline, or with registers that lead astray. `Unhook` has these outcomes,
`botched` records that one of them came about, and `ReleasedWhole` excepts it: the
library is then complete and has run, but the zygote's own call is not restored.
In the same way `Hook` may fail after the slot was written, and then leaves it
hooked. Zeroing the trampoline changes no variable: a slot that still leads there
is `"hooked"` whatever the trampoline holds.

**Fairness.** The tracer is scheduled and its deadlines pass. The tango waits
have no deadline, and a zygote that passes the injection point first lets its
tracer wait for ever (it runs on meanwhile), so `TraceEnds` speaks of plain
zygotes. It also excepts a killed tracer: before the seize that leaves the
zygote parked, and nobody looks after it.

Two outcomes that are safe but not what one expects: without the SIGCONT the
tracer reports success and lets `PTRACE_O_EXITKILL` kill the zygote (a comment
says so), and a SIGCHLD in the very last wait turns `PTRACE_SYSCALL` into
`PTRACE_CONT`, so that the awaited stop does not come and a zygote that was
correctly injected is killed at the deadline.

## 8. PltHooks

`crates/plti/src/lib.rs` and, of the loader,
`{hook_register,fork_hooks,plt_commit,plt_commit_v4}.rs`. Modules `PltHooks`,
`MCPltHooks`, `PltHooksProofs`.

**State.** What each slot of an import table holds (`got`); the records, the
known libraries and the saved regions of plti (`hooks`, `infos`, `stash`); the
backup cell of each hook; the queues of the v3 and the v4 interface; whether the
loader is still mapped. A slot lies in a RELRO region, which plti replaces by a
copy, in anonymous memory, or in data that can be written as it is. Of the work
in progress: `job` says who makes calls of plti, `todo` which ones, and `step`,
`places` and `back` how far the first of them has come.

**Actions.** The loader puts its hooks in (`HookFunctions`), follows the loading
of `libart` from its `property_get` hook, and takes everything out before it
unmaps itself; modules register, exclude and commit. Each of these only makes the
list of its calls. A call of plti then goes slot by slot: it writes the backup
cell (`KeepOriginal`), then the slot with its record (`HookSlot`), or fails
there (`HookFails`) and gives back what stands in the records under that name,
the latest first (`UndoSlot`); a removal gives back slot after slot
(`RestoreSlot`) and stops at the first failure (`RestoreFails`). The lock of plti
keeps calls apart from each other but not from the threads that call through
the slots, so the invariants hold between any two of these steps. Memory
protection may fail at every write, before the region was replaced, after it, or
after the slot was written.

The first write into a RELRO region replaces it (`ReplaceVma`, `stash_vma`) in
three steps: `MoveVma` moves it away, `ZeroVma` maps zeros in its place, `CopyVma`
copies the contents back; if no zeros can be mapped `MoveBack` moves it back, and
if that fails too the region is gone. Between the steps its slots are a hole
(`Hole`): a thread that calls through one of them crashes. The code does not
prevent that and counts on being early (`fork_hooks.rs:624-629`).
`CallsComeThrough` therefore says nothing of a call through a slot in a hole, and
says instead that there is no hole but in the region replaced for the write at
work, or a lost one. `plti_deinit` gives a region back by one `mremap` onto the
old address, so its regions change at once; that several of them return one after
the other is one step of the model, for each is complete before and after.

One list of calls is worked through before the next begins: hooks are put in
from the zygote's main thread before it forks, and modules commit from the
callbacks of a specialization. A second thread inside the loader's
`property_get` would interleave whole calls of two such lists; that is not
modelled. `unsure` collects the slots about which the properties say nothing:
written by a call that failed afterwards, in a region whose saved pages were
lost, or hooked by the loader over its own hook (when `property_get` runs a
second time because its removal failed).

| Run | What it asks | Bounds |
|---|---|---|
| `PltHooks` | a call through any slot outside the hole of a replacement reaches the platform's function (`CallsComeThrough`); a slot that differs is in the records (`HooksAreRecorded`); after the unmapping nothing in the tables leads into the loader (`UnmapIsSafe`) | three libraries with six slots, one symbol called and taken by address, one slot in two tables, one found by prefix; two hooks for v3 and three for v4 over the loader's own; two registrations, so that hooks stand over one another; two faults, so that a rollback or an unmapping can fail after a hook has |

What the properties leave out is what the code leaves open (`unsure`, and slots
that are neither RELRO nor the loader's): a module's hook with one backup cell
for several slots can go on into the unmapped loader from a slot in plain data,
for only replaced regions are put back as a whole; `unhook_functions` answers
true for a hook recorded twice of which one slot was not restored; the rollback
of a failed hook restores the slots of earlier calls for the same name, and
keeps their records; a v3 commit works on the libraries plti knows already and
adds none, unlike a v4 registration; and what modules hooked in replaced regions
is undone with the loader's teardown.

## 9. CsoLinker and CsoTls

`crates/csoloader/src/{runtime,linker_core,linker_sym,linker_reloc,tls,backtrace}.rs`,
driven by `load_modules.rs`. Modules `CsoTls`, `CsoLinker`, `MCCsoLinker`,
`CsoLinkerProofs`.

**State.** The linker at work (`pc`, the work list, its dependencies, the
relocation in hand), the walk over the constructors (`visit` is
`constructor_state`, `stack` the calls of `call_manual_constructors` that have not
returned), what is mapped, which image objects exist, who is bound to whom, the
log of constructors, the unwinder's records, the registry of linkers; of the
TLS: the table of slots, the generation, each image's slot, each thread's blocks
and where they came from.

**Actions.** One per phase of `csoloader_load` and `linker_link` and one per way
it fails: a dependency is missing, already loaded, one too many, mapped or not;
slots run out; one relocation, of each class, is applied, skipped or refused; the
walk enters a library, looks at the next name it needs, calls its constructors or
meets a cycle and returns from all calls at once; the second loop calls what the
walks left out; then the release of each module, unloaded or abandoned, and `csoloader_deinit`.
Between any two of them a second thread uses thread-local variables or ends.

| Run | What it asks | Bounds |
|---|---|---|
| `CsoLinker` | constructors run once and in order (`ConstructedInOrder`); what failed or was unloaded is gone (`GoneLeavesNothing`); nothing that may run leads to unmapped memory (`NothingDangles`); table, images and threads agree (`TlsInStep`) | two modules, one after the other; six worlds of library files: a diamond with more libraries than `MAX_DEPS` and one that fits, also with program headers that cannot be copied, a cycle, every TLS access model, references that cannot be served; three TLS slots, so that one is used again; a registry of five libraries where six are linked, so that it overflows; one active linker; two threads |
| `CsoTlsReuse` | see section 11 | |

A cycle of dependencies has no order; `ConstructedInOrder` then asks nothing of
the libraries in it and above it. What else the properties exclude is what the
code does not clean up: a dependency that was mapped and could not be parsed
stays mapped, and frames registered while the backtrace registry was full, or
when there was no memory for a copy of the program headers
(`backtrace.rs:153-158`), are never taken back. For which images there is none is
part of a world (`uncopied`). `NothingDangles` says nothing of the addresses in
`ACTIVE_LINKERS`: `register_linker` takes the address of a local that is moved
into the table of modules later.

What the library files contain is a constant, `Worlds`, about which
`WorldAssumption` says only that a needed name is a library's, that a library has
finitely many relocations and that what is on the search paths is a library:
the theorems hold for every set of files.

## 10. CsoImage and ElfTables

`crates/csoloader/src/{linker_load,linker_reloc,linker_core}.rs` for the memory,
`crates/elf/src/{image,reloc}.rs` and `plti` for the tables. Modules `ElfTables`,
`CsoImage`, `MCCsoImage`, `CsoImageProofs`.

Memory is counted in units, two to a page; a unit holds a unit of the file,
zero, or what a relocation made of either. The info of a relocation is a symbol
and a type: absolute, global data, jump slot, or the distance to the symbol. The library is mapped segment by
segment, made writable, relocated table by table (RELR, RELA or REL, packed,
PLT), its protections are restored and RELRO is sealed. `ElfTables` has the two
pure algorithms: the decoder of packed relocations, which works on a whole
table and rejects a bad one, and the GNU hash lookup. The linker has a decoder
of its own, which applies each relocation as it is read: `WalkGroup` and
`WalkReloc`.

| Run | What it asks | Bounds |
|---|---|---|
| `CsoImage` | memory is what headers and listed relocations say (`LoadedAsListed`), so the two decoders agree; protections are what the segments ask for, page by page (`SealedAsAsked`); plti finds only slots the linker filled with the symbol's address and, in libraries as link editors make them, all of them (`PltiFindsSlots`) | five layouts of segments that share pages or end in the middle of one; every packed table of one group of up to three relocations with every flag, and of two groups of up to two, RELA and REL, whole and cut short; three symbols with colliding hashes in three layouts of the hash table; one failing system call |

What plti lists for an exact name (`SlotsFound`) is narrower than what the linker
relocates. Of the PLT's table it takes only jump slots, and only the first for the
name; of the others only absolute and global data (`plti` `lib.rs:400-409`); nothing
at or before the ELF header (`411-414`); and of `DT_RELA` and `DT_REL` only the one
that comes last (`RelTable`, `image.rs:842-864`). The linker also fills jump slots
outside the PLT, words that hold a distance (`linker_reloc.rs:493-498`), and the
words of the other table, so "plti finds every slot" is false of the code.
`PltiFindsSlots` says two things instead: whatever plti finds is a slot that holds
the address of that symbol, in every library of the run; and it finds all of them
if the library is as link editors make it (`ByLinkEditor`: one of the two tables,
jump slots in the PLT alone and one for a symbol, no distances, no relocation of
the header). The run has libraries outside that condition: a jump slot outside the
PLT, other types inside it, both tables with one that is not kept, and a
relocation of the header. The lookup takes a symbol as it finds it, defined or not; two symbols of
one name and the search by prefix are left to `PltHooks`, where they are data.

`LoadedAsListed` excuses a crash when a call failed: a segment that could not be
made writable is warned about and then relocated. It speaks of tables the
strict decoder accepts; on others the linker takes missing values for zero, and
goes on for ever on a table of empty groups. Not among the layouts: a read-only
segment that is longer in memory than in the file (the loader would clear the
rest of its page without the right to write there). `LayoutAssumption` says what
link editors see to and `protect_gnu_relro`, which seals whole pages, relies on:
the pages of RELRO hold no code and no other data that is written. It also says
that every segment may be read; a segment without any right would keep what it
was given for the relocations.

## 11. Where code and documentation disagree

Each of these is a run TLC finds violated; `PROJECT.json` quotes the sentence.

| Run | Property | What the code does |
|---|---|---|
| `DaemonRespawn` | `IndicesAgree` | a daemon that replaced a dead one has the whole list again; the zygote's indices mean other modules |
| `SpecializeInZygote` | `ZygoteUntouched` | when the early `fork` fails, the wrapper takes the zygote for the child: modules run in it |
| `CsoTlsReuse` | `SyncedHoldsCurrent` | a thread keeps the block of an unregistered module when its slot has been given to another before the thread looks; the new module is served the old block |

The passing runs keep away from some more by their constants, or a property by its
wording; changing one shows the disagreement.

| Change | Property that fails | What the code does |
|---|---|---|
| `MonitorLive`: add `"oversized"` to `Commands` | `NoLostWakeup` | an oversized datagram ends the drain as an empty socket would, and what is queued behind it waits for the next datagram (monitor.rs:1276-1278 expects epoll to report it again, but the socket is edge triggered) |
| `MonitorLive`: `StartupRace = TRUE` | `InitNotFrozen` | the watchdog looks after init only while tracing (monitor.rs:696-699 says without that condition that a handler can stall boot by one tick at most): a fork stop of init whose signal came before SIGCHLD was blocked, then a Stop before the first idle tick, and nobody resumes init |
| `MonitorLive`: `ProcMayFail = TRUE` | `TraceesNotFrozen` | a tracee whose program cannot be read after `exec` is dropped from the list and left in its stop |
| `SpecializeLife`: `JniMayFail` or `JniMayMiss` `= {"zygote"}` | `NoCallIntoNothing` | a child zygote whose JNI methods could not be restored, or were passed over, has lost its list of originals and the entries of its modules, and goes on forking |
| `SpecializeLife`: `UnmapLeavesNoHook` without the excuse `proc[p].missed` | `NoCallIntoNothing` | a class that `cleanup` cannot look up is passed over and the library is unmapped all the same (lifecycle.rs:98-108, 146), with that class's methods leading into it |
| `ZygoteRestart`: `BurstSeesFreshDaemon` with `starts[serving].count > 0` for `DoRestart(...)` | `BurstSeesFreshDaemon` | monitor.rs:1119 says "Only restart companions if it's not the first time", but the count of a window starts at 0 and `--restart` asks for more than 1: the second zygote of a window is served by the companions of the first |
| `PltHooks`: `p1` in an `"anon"` region of `MCRegion` | `UnmapIsSafe` | the removal of the `property_get` hook can fail, `hook_unloader` ignores that, and `unhook_functions` leaves this hook out because it "was already unregistered by `hook_unloader`" (hook_register.rs:197-199): it answers true and the library is unmapped with that slot leading into it. In a region plti has replaced, `plti_deinit` gives the slot back all the same |

## 12. What is proved

For every value of the constants, under the named assumptions of the modules (no
pid is `NoPid`; init's children get pids; the limits are positive naturals; the
injected zygote is one of the processes; a module is listed once; the sizes of
the linker's tables are naturals; a library's file needs libraries and has
finitely many relocations; RELRO has pages of its own; a slot has one symbol; a
hook is a function for one symbol with a cell of its own, no two hooks of the
loader share a slot, and what it takes out is what it puts in but for
`property_get`).

`MonitorProofs` works up a chain of invariants, each needing the one before.

1. `TypeCorrect`: one step per action.
2. `CustodyCorrect`: `InitCustody`, whose last part says that the interrupt of a
   stop is on its way. It is not inductive alone: `ExitsFromDrain` says in which
   places of its loop the monitor can be exiting, and `CustodyInv` is the
   conjunction. The last part needs the others, since only a seized init has an
   interrupt pending.
3. `TrackingCorrect`: `TrackedAreTracees`, inductive given the type.
4. `DaemonsCorrect`: `OneDaemonPerAbi`, from `DaemonInv`, which relates the
   status record of an ABI to the processes that are daemons of that ABI. It
   needs `TrackedAreTracees`: a tracked pid is no daemon.
5. `HandoffsGated`: the action property `HandoffIsGated`. The gate is passed
   when parking begins and the hand-off comes up to ten seconds later, so
   `ParkGate` carries what was checked through the wait.
6. `NothingUnannounced`: `NoLostWakeup`, with `WakeInv`, which adds that the socket
   holds only `Commands`, and `CustodyInv`, by which a seize
   finds init running and brings no report of its own. It assumes `"oversized" \notin Commands`;
   section 11 shows what happens otherwise.
7. `WaitsForSomebody`: `NeverWaitsForNobody`, from `CustodyInv`, assuming
   `~SeizeMayFail`. With a failing `PTRACE_SEIZE` the monitor traces nobody.
8. `ExitStays`: the action property `ExitIsFinal`.

Its second part is `MonitorImplements`, which is `ImplementsCustody`. The
refinement mapping reads what TraceeCustody calls a process's custody off its
state, its program and whether it is tracked (`CustodyOf`). Each action changes
the custody of at most one process, along one of the edges of TraceeCustody
(`Moves`, `Edge`), except the monitor's end, which is `Leave`. The invariant it
needs beyond those above is `Follows`: a process that is traced and not tracked
has a program, unless its first stop has not been reaped. Without it, a process
given up on after its exec could not be told from one that was just forked.

`ZygoteRestartProofs`: `TypeCorrect`, then `LimiterInv`, which says the count
of each recorded start is the length of the run that ends with it, gives
`RateIsBounded` and `RefusalsExplained`. The bounds `MaxTime` and `MaxStarts`
of the model play no part in either. `BurstIsServedAfresh` is
`BurstSeesFreshDaemon`, for any mixture of plain and tango zygotes, of late, failing
and lost requests, from `OfLatest`: a process that is served is of the latest
zygote, a tracer that is left still owes something, and one that has sent its
request before it injects leaves empty caches until it does, unless the request was
lost. A late request of an older tracer only empties the caches once more.

`TraceZygoteProofs`: five theorems beside the types, from one invariant. Its parts follow the
tracer's program. `Control`, `InCall` and `Reached` say where the tracer can be,
given what the zygote is doing and which registers are saved; `Before`,
`EntryRan` and `Held` that a zygote executes nothing of its own from the first
change to it until it is complete, though the tracer itself steps it through
injected calls; `Placed`, `Copied` and `Tidy` what the
loader has put into it by each step of its walk. `WholeImageRuns` is
`OnlyWholeImageRuns` and `ReleasesWhole` is `ReleasedWhole`: together, for any
number of segments, of signals and of failing requests, a plain zygote is let go
untouched or complete and restored. Of a tango zygote this holds unless its
injection failed, which detaches first, or one of the writes after the trampoline
did (`botched`): then its library is complete and has run, and nothing is promised
of the slot and of where the zygote goes on. `InjectsAfterLinker` and `ReleasesTidy` are `AfterLinker`
and `TidyRelease`. `CopiesFirst` is an action property no run checks: a segment
becomes executable only after its bytes are there.

`DaemonProofs`: `RemovalsAreOwn` is `RemovesOwn` and `CompanionsAreOwn` is
`CompanionIsOwn`, for any modules, any number of zygotes, applications and
kills. The hard part is an index that a client holds while the daemon's list
changes. `InStep` says that the client's table and the daemon's list are the same
list at any time the client may be served: while the zygote loads, the list is what
it has counted followed by the rest; afterwards the zygote and its children all have the table
the daemon was left with. What keeps the next zygote's request from reaching
the daemon before a removal of the zygote that was killed is `InOrder`: the backlog is served in the
order of its connections, so a removal that waits is `Behind` nothing newer, and
`Fresh` connections come after it. `OneRemoval`, `Named`, `Queue`, `Requests`,
`Lineage` and `Loading` relate a request to the process that made it; the request of
a zygote that gave up waiting, or of one that was killed, has no such process any
more, and can then only be for a list, or for the removal it was killed in.

`SpecializeProofs`: seven theorems from one invariant, `Inv`, for any number of
processes, for every combination of what may fail but one: the JNI methods of a
zygote can be found and restored (`"zygote" \notin JniMayFail \cup JniMayMiss`).
Section 11 shows a call into nothing when they cannot be restored. When they are
passed over, a child zygote goes on calling methods of a library it has unmapped,
which is the case the property excuses; nothing is claimed of such a process. `Inv` is a predicate `Good` of each process's record
and of where its other thread is, so that an action has only to be shown to write
good records (`BecomesKeeps`, and `ForksKeep` for the three actions that fork),
and one more, `GoodZygote`, of the injected zygote. The parts of `Good`:

- `Counted` is `GuardsCounted`; it needs `ThreadApart`, because the count is reset
  in a forked child, which is right only if no other thread was inside.
- `HasOriginals` and `HasModules`: who may enter a wrapper again still has what the
  wrapper restores and calls. `NoCallIntoNothing` comes from these and from
  `Unhooked`, which says that nothing leads into a library that is going but the
  JNI methods that `cleanup` passed over.
- `Cached` and `Bears`: the pid of the early fork waits in the context for the
  platform's, which then forks nothing. `OneChildPerCall` rests on the two.
- `Tidy`: what a wrapper sets is taken back when it returns, the blocked SIGCHLD
  included; `NothingLeftBehind` follows.

`ZygoteStays` is `ZygoteKept`, from `GoodZygote`. `QuietUnmap` is the action
property `QuietAtDecision`: `OnlyTearDown` shows that no other action decides, and
`Counted` that a count of zero means nobody else is inside.

`CsoLinkerProofs`: the four properties of `CsoLinker`, for any modules, any graph
of libraries, any number of threads and TLS slots, and tables of any size.
`InvariantHolds` proves `IInv`, a conjunction with one lemma `...Keeps` for each
part. The lemmas `...Frame` say first what the kinds of steps leave alone, since
most actions touch few of the parts. The parts:

- `Types`, `Named`: beyond the types, a module lists a library once and no more of
  them than `MAX_DEPS`, so that a position and an image name each other.
- `Stage`, `Emptied`: where the loader is with each module; one module is loading
  at a time, and a module that is not loaded has no dependencies listed.
- `Built`: a module is linked exactly when its own constructor has run, and then
  all its dependencies' have. This is what lets a release skip the destructors of a
  load that failed.
- `Alive`, `Memory`: the image objects, and the mappings that no failed parse has
  leaked, are those of the positions the release has not reached (`Held`, `Kept`).
  `Memory` also carries that a symbol is bound within the module or to a system
  library, which is why unloading one module leaves nothing dangling in another.
- `Unwinder`: the backtrace registry and the unwinder know only what has been or
  is about to be constructed. Its two clauses with `Cardinality` are needed for
  the full registry: a library is missing there only if more libraries were linked
  than it has slots, or its program headers could not be copied. `UnloadIsComplete` is `GoneLeavesNothing` and `MemoryIsThere`
  is `NothingDangles`; both rest on all of the above.
- `Owned`, `ThreadsInStep`: a slot and the image in it name each other, and images
  the registration has not come to have no slot, without which a second
  registration would lose the first; a thread is never ahead of the table, and
  what it may free it allocated. `TlsStaysInStep` is `TlsInStep`.
- `Walk`: what the marks of `constructor_state` mean. 2 is "called, after all it
  needs or above a cycle", 1 is "on the stack or above a cycle" (`NoOrder`): a walk
  that meets a cycle leaves marks of 1 behind, and a later walk that meets such a
  mark ends too. It is right to do so only because an endless set of libraries
  exists below every such mark: the calls on the stack with the set below the one
  that was met. `Stack` says that each call is for a library the one below it
  needs, and which of its names are done with. With `ConstructedInOrder` itself,
  which the walk extends one constructor at a time, this gives
  `ConstructorsInOrder`.

`PltHooksProofs`: the three properties of `PltHooks`, for any libraries and
relocation tables, any hooks of modules, any number of registrations and of failing
writes. `PltAssumption` and `HookAssumption` say of the constants what the code's
two lists of hooks and its statics say: each `OLD_...` cell belongs to one function
and is used for one symbol (the prefix matches one, as a comment of plti asks), and
`unhook_functions` names the hooks that `hook_functions` and `hook_unloader` put in,
without `property_get`. Of modules it is assumed that each hook function has one
cell and is used for one symbol; a module that breaks this reads a wrong original by
its own doing. `IInv` has three layers.

- Of the calls through slots: `ValuesFit` (a slot, a saved slot and a recorded
  original hold the platform's function or a hook for that symbol), `CellsAreFull`
  (whatever can be reached has its cell written), `CellsFit` and `NoLoops`. A cell
  is filled once, from a slot, and whatever was in that slot had its own cell full
  already: so the cells filled so far never lead into one filled later, and no set
  of them is closed. `CallsAlwaysComeThrough` rests on these and, for its last part,
  on `HolesFit` below, whatever fails.
- Of the work in progress: `CallsFit` and `StepFits` say which calls a job can still
  have and what the call at work has done; `SavedAsLinked` that a region is saved as
  a whole, before any slot in it was changed; `HolesFit` that the slots which lead
  nowhere are the region of the slot that is about to be written, while it is
  replaced, or were lost. The contents of a region stay what they were through its
  replacement, which is why the parts above need not know of it.
- Of the way back, as long as the process is not done with the loader (`InUse`):
  `LoaderRecorded` is most of `HooksAlwaysRecorded`. `OriginalsFit`, `CoreRecorded`
  and `Restored` are about the order in which hooks were put over one another: a
  record of the loader never gives back a hook of the loader, and where no module
  has a record it gives back what the platform linked; a module's record may give
  back a hook of the loader, but then the loader has a record of that slot, too.
  `TakenOut` and `Unmapped` carry this through `unhook_functions`: what it has
  answered for so far is in no slot.

`UnmapAlwaysSafe` has a hypothesis of its own, `PropertySlotsReplaced`: the slots of
`property_get` are in RELRO, as they are in a library linked with `-z relro -z now`.
Section 11 shows the unmapping that leaves one behind otherwise.

`CsoImageProofs`: `ProtectionsCorrect` is `SealedAsAsked`, for any segments and any
size of a page, under `LayoutAssumption`. `UnitOnPage` and `PageOfPiece` are what it
needs of page arithmetic: a page belongs to a segment exactly if it has a unit of
it. `ProtInv` says that until `restore_protections` a page of no segment is without
access, since that function leaves such pages alone; then every page has what its
segments ask for together, and `Sealed` that RELRO takes away what it should.

Model-checked only: everything under fairness (`InitNotFrozen`, `StopCompletes`,
`TraceesNotFrozen`, `RequestsEnd`, `ZygoteLoads`, `TraceEnds`), which is outside
the prover's reach; and `LoadedAsListed` and `PltiFindsSlots` of `CsoImage`, which
compare what recursive decoders and folds compute for whole tables: induction over
data, which the prover does not have.

## 13. What is not modelled

The list `components` in `PROJECT.json` has every part and the reason. Within
the parts that are modelled: status texts and files; the values of relocations
per architecture, symbol versions, ifuncs and library search paths; argument
copies of the JNI wrappers; the discovery of Zygote's methods; the bounds of
every read of the ELF reader. Left out as a whole: the installer's shell
scripts, the web interface, `truman_ref`, the root managers' interfaces, the
loops over short reads in `ipc`, logging and the device logs under `diag/`. They
keep no state a step of another actor could disturb. `fd_sanitize` is one pass
of one thread over the descriptors of a process; what makes it right or wrong is
what the platform does with the array it is handed, which is not in this
repository.
