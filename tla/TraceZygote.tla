----------------------------- MODULE TraceZygote -----------------------------
(***************************************************************************)
(* The tracer, `zygisk-ptrace trace <pid> [--tango]`: it seizes a zygote   *)
(* the monitor handed over, maps libzygisk.so into it with injected        *)
(* syscalls, runs the library's entry and lets the zygote go, or kills it. *)
(* Sources: crates/ptracer/src/{main,trace,utils,remote_csoloader}.rs.     *)
(*                                                                         *)
(* A plain zygote is parked at its exec.  The tracer poisons AT_ENTRY so   *)
(* that the linker, when done, jumps into a fault, and injects there.  A   *)
(* tango zygote (arm32 code under a translator) cannot be parked: it runs  *)
(* while the tracer steps it until the linker resolves __libc_init, whose  *)
(* GOT slot then leads to a trampoline that calls the entry.               *)
(***************************************************************************)
EXTENDS Naturals

CONSTANTS
    NSegs,       \* PT_LOAD segments of the library
    ExecSegs,    \* those that are executable
    TangoModes,  \* the values of --tango considered
    ExitKill,    \* kernel >= 3.8: the tracee dies with its tracer
    MaxStepRetries, \* event stops a wait for a syscall stop puts up with: 4
    MaxSignals,  \* bound: stray signals, SIGCONTs and crashes of the zygote
    MaxFaults    \* bound: syscalls, file and memory accesses that fail

ASSUME SegmentAssumption == NSegs \in Nat \ {0} /\ ExecSegs \subseteq 1 .. NSegs
ASSUME ModeAssumption ==
    /\ TangoModes \subseteq BOOLEAN /\ TangoModes # {}
    /\ ExitKill \in BOOLEAN
    /\ ~ExitKill => TangoModes = {FALSE}
ASSUME RetryAssumption == MaxStepRetries \in Nat
ASSUME BoundAssumption == MaxSignals \in Nat /\ MaxFaults \in Nat

VARIABLES
    tango,    \* the --tango argument
    pc,       \* where the tracer is
    result,   \* what trace_zygote returned
    watch,    \* TangoLinkerWatch: is libc_init_initial the unresolved value?
    seg,      \* the segment the loader is at
    fd,       \* memfd_fd: the loader has staged the image in a memfd
    phase,    \* of the injected syscall: which of its two stops is awaited
    asked,    \* the syscall injected last, and its segment
    tries,    \* step_retries
    saved,    \* saved_regs of the injected syscall
    backup,   \* the registers inject_tango saved first
    zygote,   \* the tracee: see ZygoteState
    stop,     \* the stop it reports when trapped
    how,      \* the request that resumed it last
    ip,       \* what it executes
    inSys,    \* it is inside an injected syscall
    kret,     \* what that syscall returned
    job,      \* a group stop (SIGSTOP) is in force
    due,      \* a ptrace event or SIGCONT it has yet to report
    atEntry,  \* the value of AT_ENTRY in its auxiliary vector
    got,      \* the GOT slot of __libc_init in app_process32
    linked,   \* its linker is done
    image,    \* what the loader left in its address space and fd table
    entered,  \* the injected library's entry
    missed,   \* a syscall of the loader was cut short, or a cleanup failed
    botched,  \* the writes that end the tango injection did not all succeed
    signals, faults

tracee == <<zygote, stop, how, ip, inSys, kret, job, due>>
memory == <<atEntry, got, linked, image, entered>>
loader == <<seg, fd, phase, asked, tries, saved, backup, missed, botched>>
budget == <<signals, faults>>
vars == <<tango, pc, result, watch, loader, tracee, memory, budget>>

(* parked: stopped, no tracer     free: running, no tracer                 *)
(* run, trap: seized, running or in a ptrace stop                          *)
ZygoteState == {"parked", "free", "run", "trap", "dead"}

(* group, event: PTRACE_EVENT_STOP with SIGSTOP or SIGTRAP.  sigtrap is    *)
(* the trampoline's own kill(getpid(), SIGTRAP), signal any other signal.  *)
Stop == {"none", "group", "event", "syscall", "seccomp",
         "segv", "sigcont", "sigchld", "sigtrap", "signal"}

(* return: the invalid address entry returns to.  main: past __libc_init.  *)
Ip == {"linker", "poison", "entry", "gadget", "injector", "return",
       "tramp", "stub", "main", "astray"}

(* The steps of the loader that inject a syscall into the tracee.          *)
Calls == {"reserve", "scratch", "memfd", "unscratch", "closeStage", "map",
          "protect", "lock", "close", "undo"}

(* ... and those that the tracer does by itself.                           *)
LocalSteps == {"prepare", "name", "stage", "copy", "reloc", "resolve"}

(* Waits bounded by a deadline, and the waits of the tango path that are   *)
(* not.  Both swallow SIGCHLD and disarm seccomp traps.                    *)
DeadlineWaits == {"seized", "entering", "called", "drain", "cont", "last"}
TangoWaits == {"drainFirst", "drainAgain", "await"}
StepWaits == {"step", "stubbed"}

Pc == Calls \cup LocalSteps \cup DeadlineWaits \cup TangoWaits \cup StepWaits \cup
      {"seize", "poison", "unpoison", "noLoad", "loaded", "rewind", "continue",
       "interrupt", "watch", "leave", "unhook", "exit", "kill", "exited"}

SegState == {"none", "raw", "rw", "final"}
Image == [reserve : BOOLEAN, scratch : BOOLEAN, memfd : BOOLEAN,
          relocated : BOOLEAN, segs : [1 .. NSegs -> SegState]]
NoImage == [reserve |-> FALSE, scratch |-> FALSE, memfd |-> FALSE,
            relocated |-> FALSE, segs |-> [s \in 1 .. NSegs |-> "none"]]

TypeOK ==
    /\ tango \in BOOLEAN /\ pc \in Pc
    /\ result \in {"none", "ok", "failed", "crashed"}
    /\ watch \in {"none", "watching", "late"}
    /\ seg \in 1 .. NSegs /\ fd \in BOOLEAN
    /\ phase \in {"idle", "entry", "exit"} /\ asked \in Calls \X (1 .. NSegs)
    /\ tries \in 0 .. MaxStepRetries /\ saved \in Ip /\ backup \in Ip
    /\ zygote \in ZygoteState /\ stop \in Stop /\ how \in {"cont", "syscall"}
    /\ ip \in Ip /\ inSys \in BOOLEAN /\ kret \in {"ok", "low", "fail"}
    /\ job \in BOOLEAN /\ due \in {"none", "interrupt", "notify", "deliver"}
    /\ atEntry \in {"entry", "poison"}
    /\ got \in {"absent", "initial", "resolved", "hooked"}
    /\ linked \in BOOLEAN /\ image \in Image
    /\ entered \in {"no", "running", "returned"}
    /\ missed \in BOOLEAN /\ botched \in BOOLEAN
    /\ signals \in 0 .. MaxSignals /\ faults \in 0 .. MaxFaults

(* The monitor parked the zygote with SIGSTOP, or let a tango one run on.  *)
Init ==
    /\ tango \in TangoModes
    /\ zygote = IF tango THEN "free" ELSE "parked"
    /\ job = ~tango
    /\ pc = "seize" /\ result = "none" /\ watch = "none"
    /\ seg = 1 /\ fd = FALSE /\ phase = "idle" /\ asked = <<"reserve", 1>>
    /\ tries = 0 /\ saved = "linker" /\ backup = "linker"
    /\ missed = FALSE /\ botched = FALSE
    /\ stop = "none" /\ how = "cont" /\ ip = "linker"
    /\ inSys = FALSE /\ kret = "ok" /\ due = "none"
    /\ atEntry = "entry" /\ got = "absent" /\ linked = FALSE
    /\ image = NoImage /\ entered = "no"
    /\ signals = 0 /\ faults = 0

-----------------------------------------------------------------------------
(* The tracee and the kernel.                                              *)

Trap(s) == zygote' = "trap" /\ stop' = s
Resume(request) ==
    zygote' = "run" /\ stop' = "none" /\ how' = request

Stray == signals < MaxSignals /\ signals' = signals + 1
Fault == faults < MaxFaults /\ faults' = faults + 1

Kernel == UNCHANGED <<tango, pc, result, watch, loader>>

(* A plain zygote's linker ends in a jump to the address of AT_ENTRY.      *)
LinkerDone ==
    /\ zygote \in {"run", "free"} /\ ip = "linker" /\ ~tango
    /\ linked' = TRUE /\ ip' = atEntry
    /\ IF atEntry = "poison" THEN Trap("segv") ELSE UNCHANGED <<zygote, stop>>
    /\ Kernel
    /\ UNCHANGED <<how, inSys, kret, job, due, atEntry, got, image, entered, budget>>

(* A tango zygote maps app_process32, its linker resolves __libc_init, and *)
(* the program calls it through the slot.                                  *)
TangoRuns ==
    /\ zygote \in {"run", "free"} /\ ip = "linker" /\ tango
    /\ \/ got = "absent" /\ got' = "initial" /\ UNCHANGED <<linked, ip, entered>>
       \/ got = "initial" /\ got' = "resolved" /\ linked' = TRUE /\ UNCHANGED <<ip, entered>>
       \/ got = "resolved" /\ ip' = "main" /\ UNCHANGED <<got, linked, entered>>
       \/ got = "hooked" /\ ip' = "injector" /\ entered' = "running" /\ UNCHANGED <<got, linked>>
    /\ Kernel
    /\ UNCHANGED <<zygote, stop, how, inSys, kret, job, due, atEntry, image, budget>>

(* entry ends: on its invalid return address, or in the trampoline's kill. *)
EntryReturns ==
    /\ zygote = "run" /\ ip = "injector"
    /\ entered' = "returned"
    /\ IF tango THEN ip' = "tramp" /\ Trap("sigtrap") ELSE ip' = "return" /\ Trap("segv")
    /\ Kernel
    /\ UNCHANGED <<how, inSys, kret, job, due, atEntry, got, linked, image, budget>>

Crashes ==
    /\ zygote = "run" /\ ip \in {"linker", "injector", "astray"} /\ Stray
    /\ ip' = "astray" /\ Trap("segv")
    /\ Kernel
    /\ UNCHANGED <<how, inSys, kret, job, due, memory, faults>>

(* A signal is delivered, someone else's SIGCONT is notified, or the       *)
(* library's seccomp probe traps.                                          *)
Interrupted ==
    /\ zygote = "run" /\ ~inSys /\ Stray
    /\ \/ Trap("sigchld") \/ Trap("signal") \/ Trap("event")
       \/ ip = "injector" /\ Trap("seccomp")
    /\ Kernel
    /\ UNCHANGED <<how, ip, inSys, kret, job, due, memory, faults>>

(* PTRACE_INTERRUPT, or a SIGCONT: first its notification, then itself.    *)
Reports ==
    /\ zygote = "run" /\ ~inSys
    /\ \/ due = "interrupt" /\ Trap("event") /\ due' = "none"
       \/ due = "notify" /\ Trap("event") /\ due' = "deliver"
       \/ due = "deliver" /\ Trap("sigcont") /\ due' = "none"
    /\ Kernel
    /\ UNCHANGED <<how, ip, inSys, kret, job, memory, budget>>

(* A syscall of its own, resumed with PTRACE_SYSCALL.                      *)
OwnSyscall ==
    /\ zygote = "run" /\ how = "syscall" /\ ip # "gadget"
    /\ Trap("syscall") /\ ip' = IF ip = "stub" THEN "main" ELSE ip
    /\ Kernel
    /\ UNCHANGED <<how, inSys, kret, job, due, memory, budget>>

GadgetEnters ==
    /\ zygote = "run" /\ ip = "gadget" /\ ~inSys
    /\ inSys' = TRUE /\ Trap("syscall")
    /\ Kernel
    /\ UNCHANGED <<how, ip, kret, job, due, memory, budget>>

(* What the injected syscall does to the tracee.                           *)
Effect(call, s) ==
    CASE call = "reserve" -> [image EXCEPT !.reserve = TRUE]
      [] call = "scratch" -> [image EXCEPT !.scratch = TRUE]
      [] call = "unscratch" -> [image EXCEPT !.scratch = FALSE]
      [] call = "memfd" -> [image EXCEPT !.memfd = TRUE]
      [] call \in {"closeStage", "close"} -> [image EXCEPT !.memfd = FALSE]
      [] call = "map" -> [image EXCEPT !.segs[s] = "raw"]
      [] call = "protect" -> [image EXCEPT !.segs[s] = "final"]
      [] call = "undo" -> [NoImage EXCEPT !.scratch = image.scratch, !.memfd = image.memfd]
      [] OTHER -> image

GadgetExits ==
    /\ zygote = "run" /\ ip = "gadget" /\ inSys
    /\ inSys' = FALSE /\ Trap("syscall")
    /\ \/ kret' = "ok" /\ image' = Effect(asked[1], asked[2]) /\ UNCHANGED faults
       \/ Fault /\ kret' = "fail" /\ UNCHANGED image
       \/ Fault /\ asked[1] = "reserve" /\ kret' = "low" /\ image' = Effect("reserve", 1)
    /\ Kernel
    /\ UNCHANGED <<how, ip, job, due, atEntry, got, linked, entered, signals>>

(* A SIGCONT from anywhere before the tracer came, or a SIGKILL.           *)
Unparked ==
    /\ zygote = "parked" /\ pc = "seize" /\ Stray
    /\ zygote' = "free" /\ job' = FALSE
    /\ Kernel
    /\ UNCHANGED <<stop, how, ip, inSys, kret, due, memory, faults>>

Dies ==
    /\ pc # "exited" /\ zygote # "dead"
    /\ zygote' = "dead"
    /\ Kernel
    /\ UNCHANGED <<stop, how, ip, inSys, kret, job, due, memory, budget>>

-----------------------------------------------------------------------------
(* The tracer.  A ptrace request fails unless the tracee is trapped.       *)

Goto(p) == pc' = p /\ UNCHANGED result
Fail == pc' = "kill" /\ result' = "failed"
Succeed == pc' = "exit" /\ result' = "ok"

Detach(sigcont) ==
    /\ zygote' = IF zygote # "trap" THEN zygote
                 ELSE IF job /\ ~sigcont THEN "parked" ELSE "free"
    /\ job' = (job /\ ~(sigcont /\ zygote = "trap"))
    /\ UNCHANGED <<stop, how, inSys, kret, due>>

(* set_regs to the registers saved before the injection.                   *)
Rewound(to) == ip' = IF zygote = "trap" THEN to ELSE ip

Swallowed == {"sigchld", "seccomp"}
Filters == DeadlineWaits \cup TangoWaits
Stops(p) == pc = p /\ zygote = "trap" /\ (p \in Filters => stop \notin Swallowed)

(* wait_for_trace, wait_for_trace_deadline: resume and wait on.            *)
Swallow ==
    /\ pc \in Filters /\ zygote = "trap" /\ stop \in Swallowed
    /\ Resume("cont")
    /\ UNCHANGED <<tango, pc, result, watch, loader, ip, inSys, kret, job, due,
                   memory, budget>>

(* The tracee is gone, or the deadline passed with no stop to report.      *)
WaitForever ==
    /\ pc \in DeadlineWaits /\ zygote = "dead"
    /\ Fail
    /\ UNCHANGED <<tango, watch, loader, tracee, memory, budget>>

WaitFails ==
    /\ pc \in DeadlineWaits /\ zygote \in {"dead", "run"}
    /\ Fail
    /\ UNCHANGED <<tango, watch, loader, tracee, memory, budget>>

Seize ==
    /\ pc = "seize"
    /\ \/ /\ zygote \in {"parked", "free"}
          /\ IF zygote = "parked" THEN Trap("group") ELSE zygote' = "run" /\ UNCHANGED stop
          /\ Goto(IF tango THEN "interrupt" ELSE "seized")
          /\ UNCHANGED faults
       \/ zygote = "dead" /\ Fail /\ UNCHANGED <<zygote, stop, faults>>
       \/ Fault /\ Fail /\ UNCHANGED <<zygote, stop>>
    /\ UNCHANGED <<tango, watch, loader, how, ip, inSys, kret, job, due, memory, signals>>

FirstStop ==
    /\ Stops("seized")
    /\ IF stop = "group" THEN Goto("poison") /\ UNCHANGED tracee
                         ELSE Detach(FALSE) /\ Fail /\ UNCHANGED ip
    /\ UNCHANGED <<tango, watch, loader, memory, budget>>

(* inject_on_main: find AT_ENTRY, overwrite it, let the linker run.        *)
Poison ==
    /\ pc = "poison"
    /\ \/ /\ zygote = "trap"
          /\ atEntry' = "poison" /\ Resume("cont")
          /\ Goto("entering") /\ UNCHANGED <<ip, inSys, kret, job, due, faults>>
       \/ zygote = "dead" /\ Fail /\ UNCHANGED <<tracee, atEntry, faults>>
       \/ Fault /\ Fail /\ UNCHANGED <<tracee, atEntry>>
    /\ UNCHANGED <<tango, watch, loader, got, linked, image, entered, signals>>

EnteringOnAnyFault ==
    /\ Stops("entering")
    /\ IF stop = "segv" THEN Goto("unpoison") ELSE Fail
    /\ UNCHANGED <<tango, watch, loader, tracee, memory, budget>>

Entering ==
    /\ Stops("entering")
    /\ IF stop = "segv" /\ ip = "poison" THEN Goto("unpoison") ELSE Fail
    /\ UNCHANGED <<tango, watch, loader, tracee, memory, budget>>

Unpoison ==
    /\ pc = "unpoison"
    /\ \/ zygote # "dead" /\ atEntry' = "entry" /\ Goto("prepare") /\ UNCHANGED faults
       \/ zygote = "dead" /\ Fail /\ UNCHANGED <<atEntry, faults>>
       \/ Fault /\ Fail /\ UNCHANGED atEntry
    /\ UNCHANGED <<tango, watch, loader, tracee, got, linked, image, entered, signals>>

-----------------------------------------------------------------------------
(* remote_csoloader_load_and_resolve_entry.  "prepare" reads the maps and  *)
(* the library and finds a syscall gadget, "name" writes the memfd's name, *)
(* "stage" fills the memfd through /proc, "copy" writes a segment's bytes  *)
(* or clears its BSS, "resolve" looks the entry up.                        *)

NextSeg(last) == IF seg < NSegs THEN pc ELSE last

Prepare == pc = "prepare" /\ Goto("reserve") /\ UNCHANGED <<seg, image>>
WriteName == pc = "name" /\ Goto("memfd") /\ UNCHANGED <<seg, image>>
StageImage == pc = "stage" /\ Goto("map") /\ UNCHANGED <<seg, image>>
CopySegment ==
    /\ pc = "copy" /\ Goto(IF seg < NSegs THEN "map" ELSE "reloc")
    /\ seg' = IF seg < NSegs THEN seg + 1 ELSE 1
    /\ image' = [image EXCEPT !.segs[seg] = "rw"]
Relocate ==
    /\ pc = "reloc" /\ Goto("protect")
    /\ image' = [image EXCEPT !.relocated = TRUE] /\ UNCHANGED seg
ResolveEntry == pc = "resolve" /\ Goto("loaded") /\ UNCHANGED <<seg, image>>

LocalDone ==
    \/ Prepare \/ WriteName \/ StageImage \/ CopySegment \/ Relocate \/ ResolveEntry

LocalFails ==
    /\ Goto(CASE pc = "prepare" -> "noLoad" [] pc = "name" -> "unscratch"
              [] pc = "stage" -> "closeStage" [] OTHER -> "undo")
    /\ UNCHANGED <<seg, image>>

LoaderStep ==
    /\ pc \in LocalSteps
    /\ \/ (zygote = "dead" => pc = "resolve") /\ LocalDone /\ UNCHANGED faults
       \/ zygote = "dead" /\ LocalFails /\ UNCHANGED faults
       \/ Fault /\ LocalFails
    /\ UNCHANGED <<tango, watch, fd, phase, asked, tries, saved, backup, missed, botched, tracee,
                   atEntry, got, linked, entered, signals>>

(* Where the loader goes when a syscall has answered.  munmap, mlock and   *)
(* close are best effort.                                                  *)
ProtectBestEffort(ret) == NextSeg("lock")
AfterProtect(ret) == IF ret = "ok" THEN NextSeg("lock") ELSE "undo"
CloseForgotten == NextSeg("resolve")
AfterLock == NextSeg(IF fd THEN "close" ELSE "resolve")

After(ret) ==
    CASE pc = "reserve" -> IF ret = "ok" THEN "scratch" ELSE IF ret = "low" THEN "undo" ELSE "noLoad"
      [] pc = "scratch" -> IF ret = "ok" THEN "name" ELSE "map"
      [] pc = "memfd" -> "unscratch"
      [] pc = "unscratch" -> IF fd THEN "stage" ELSE "map"
      [] pc = "closeStage" -> "map"
      [] pc = "map" -> IF ret = "ok" THEN "copy" ELSE "undo"
      [] pc = "protect" -> AfterProtect(ret)
      [] pc = "lock" -> AfterLock
      [] pc = "close" -> "resolve"
      [] pc = "undo" -> "noLoad"

CleanupCalls == {"unscratch", "closeStage", "close"}

Answered(ret, cut) ==
    /\ Goto(After(ret))
    /\ seg' = IF pc \notin {"protect", "lock"} THEN seg
              ELSE IF seg < NSegs THEN seg + 1 ELSE 1
    /\ fd' = IF pc = "memfd" THEN ret = "ok" ELSE fd /\ pc # "closeStage"
    /\ missed' = (missed \/ cut \/ (ret = "fail" /\ pc \in CleanupCalls))
    /\ phase' = "idle"

(* remote_syscall: save the registers, enter the gadget.                   *)
Call ==
    /\ pc \in Calls /\ phase = "idle"
    /\ (pc = "lock" => seg \in ExecSegs)
    /\ \/ /\ zygote = "trap"
          /\ saved' = ip /\ ip' = "gadget" /\ Resume("syscall")
          /\ asked' = <<pc, seg>> /\ phase' = "entry" /\ tries' = 0
          /\ UNCHANGED <<pc, result, seg, fd, missed>>
       \/ /\ zygote # "trap"
          /\ Answered("fail", TRUE)
          /\ UNCHANGED <<saved, ip, zygote, stop, how, asked, tries>>
    /\ UNCHANGED <<tango, watch, backup, botched, inSys, kret, job, due, memory, budget>>

(* A data segment is not locked.                                           *)
NoLock ==
    /\ pc = "lock" /\ phase = "idle" /\ seg \notin ExecSegs
    /\ Answered("ok", FALSE)
    /\ UNCHANGED <<tango, watch, asked, tries, saved, backup, botched, tracee, memory, budget>>

(* wait_for_ptrace_syscall_stop_deadline, and what remote_syscall makes of *)
(* it: the entry stop, then the exit stop; up to four event stops between; *)
(* any other stop cuts the call short.                                     *)
Retriable == stop \in {"group", "event"} /\ tries < MaxStepRetries

CallStops ==
    /\ pc \in Calls /\ phase # "idle" /\ zygote = "trap"
    /\ \/ /\ stop = "syscall" /\ phase = "entry"
          /\ phase' = "exit" /\ tries' = 0 /\ Resume("syscall")
          /\ UNCHANGED <<ip, pc, result, seg, fd, missed>>
       \/ /\ stop = "syscall" /\ phase = "exit"
          /\ ip' = saved /\ Answered(kret, FALSE)
          /\ UNCHANGED <<zygote, stop, how, tries>>
       \/ /\ Retriable
          /\ tries' = tries + 1 /\ Resume("syscall")
          /\ UNCHANGED <<ip, pc, result, seg, fd, missed, phase>>
       \/ /\ stop # "syscall" /\ ~Retriable
          /\ ip' = saved /\ Answered("fail", TRUE)
          /\ UNCHANGED <<zygote, stop, how, tries>>
    /\ UNCHANGED <<tango, watch, asked, saved, backup, botched, inSys, kret, job, due,
                   memory, budget>>

(* The tracee died, or its syscall outlasted the deadline; in the second   *)
(* case it may still complete, with nobody to take the result.             *)
CallLost ==
    /\ pc \in Calls /\ phase # "idle"
    /\ zygote = "dead" \/ (zygote = "run" /\ inSys)
    /\ Answered("fail", TRUE)
    /\ UNCHANGED <<tango, watch, asked, tries, saved, backup, botched, tracee, memory, budget>>

NoLoad ==
    /\ pc = "noLoad" /\ Fail
    /\ IF tango THEN Rewound(backup) /\ Detach(TRUE) ELSE UNCHANGED tracee
    /\ UNCHANGED <<tango, watch, loader, memory, budget>>

-----------------------------------------------------------------------------
(* The rest of inject_on_main and trace_zygote for a plain zygote.         *)

(* remote_call of the entry, which returns to an invalid address.          *)
CallEntry ==
    /\ pc = "loaded" /\ ~tango
    /\ IF zygote = "trap"
       THEN ip' = "injector" /\ entered' = "running" /\ Resume("cont") /\ Goto("called")
       ELSE Fail /\ UNCHANGED <<ip, entered, zygote, stop, how>>
    /\ UNCHANGED <<tango, watch, loader, inSys, kret, job, due,
                   atEntry, got, linked, image, budget>>

(* A stop anywhere but at that address is a fault of the injector: the     *)
(* registers are put back, and the injection has failed.                   *)
CalledOnAnyFault ==
    /\ Stops("called")
    /\ IF stop = "segv" THEN Goto("rewind") /\ UNCHANGED ip ELSE Fail /\ ip' = "entry"
    /\ UNCHANGED <<tango, watch, loader, zygote, stop, how, inSys, kret, job, due, memory, budget>>

Called ==
    /\ Stops("called")
    /\ IF ip = "return" THEN Goto("rewind") /\ UNCHANGED ip ELSE Fail /\ ip' = "entry"
    /\ UNCHANGED <<tango, watch, loader, zygote, stop, how, inSys, kret, job, due, memory, budget>>

Rewind ==
    /\ pc = "rewind" /\ Rewound("entry")
    /\ IF zygote = "trap" THEN Goto("continue") ELSE Fail
    /\ UNCHANGED <<tango, watch, loader, zygote, stop, how, inSys, kret, job, due, memory, budget>>

(* SIGCONT ends the group stop; the tracee reports that, then the signal.  *)
Continue ==
    /\ pc = "continue"
    /\ IF zygote = "trap"
       THEN job' = FALSE /\ due' = "notify" /\ Resume("cont") /\ Goto("drain")
       ELSE Fail /\ UNCHANGED <<job, due, zygote, stop, how>>
    /\ UNCHANGED <<tango, watch, loader, ip, inSys, kret, memory, budget>>

Drain ==
    /\ Stops("drain")
    /\ IF stop = "event"
       THEN Resume("cont") /\ Goto("cont") /\ UNCHANGED <<ip, inSys, kret, job, due>>
       ELSE Detach(FALSE) /\ Fail /\ UNCHANGED ip
    /\ UNCHANGED <<tango, watch, loader, memory, budget>>

(* Without the SIGCONT the tracer reports success and does not detach.     *)
Cont ==
    /\ Stops("cont")
    /\ IF stop = "sigcont"
       THEN Resume("syscall") /\ Goto("last")
       ELSE Succeed /\ UNCHANGED <<zygote, stop, how>>
    /\ UNCHANGED <<tango, watch, loader, ip, inSys, kret, job, due, memory, budget>>

Last ==
    /\ Stops("last") /\ Detach(TRUE) /\ UNCHANGED ip /\ Succeed
    /\ UNCHANGED <<tango, watch, loader, memory, budget>>

-----------------------------------------------------------------------------
(* The tango path.  Every failure detaches before main kills the zygote.   *)

TangoFails == Detach(TRUE) /\ UNCHANGED ip /\ Fail

(* The tracee died under a wait that has no deadline.                      *)
TangoLost ==
    /\ pc \in TangoWaits \cup StepWaits /\ zygote = "dead"
    /\ Fail
    /\ UNCHANGED <<tango, watch, loader, tracee, memory, budget>>

Interrupt ==
    /\ pc = "interrupt"
    /\ IF zygote = "dead" THEN Fail /\ UNCHANGED due
                          ELSE Goto("drainFirst") /\ due' = "interrupt"
    /\ UNCHANGED <<tango, watch, loader, zygote, stop, how, ip, inSys, kret, job,
                   memory, budget>>

(* wait_for_event_stop: pass every other stop on until the interrupt's.    *)
(* The second one is followed by inject_tango.                             *)
DrainTango ==
    /\ Stops("drainFirst") \/ Stops("drainAgain")
    /\ IF stop = "event"
       THEN /\ Goto(IF pc = "drainFirst" THEN "watch" ELSE "prepare")
            /\ backup' = ip /\ UNCHANGED <<zygote, stop, how>>
       ELSE Resume("cont") /\ UNCHANGED <<pc, result, backup>>
    /\ UNCHANGED <<tango, watch, seg, fd, phase, asked, tries, saved, missed, botched,
                   ip, inSys, kret, job, due, memory, budget>>

(* tango_wait_linker_ready: find the slot, take its value for unresolved,  *)
(* and step until it has another.                                          *)
Watch ==
    /\ pc = "watch"
    /\ \/ /\ zygote = "trap" /\ watch = "watching" /\ got = "resolved"
          /\ Goto("leave") /\ UNCHANGED <<watch, tracee, tries, faults>>
       \/ /\ zygote = "trap" /\ ~(watch = "watching" /\ got = "resolved")
          /\ watch' = IF watch # "none" \/ got = "absent" THEN watch
                      ELSE IF got = "initial" THEN "watching" ELSE "late"
          /\ Resume("syscall") /\ tries' = 0 /\ Goto("step")
          /\ UNCHANGED <<ip, inSys, kret, job, due, faults>>
       \/ zygote = "dead" /\ TangoFails /\ UNCHANGED <<watch, tries, faults>>
       \/ watch = "none" /\ Fault /\ TangoFails /\ UNCHANGED <<watch, tries>>
    /\ UNCHANGED <<tango, seg, fd, phase, asked, saved, backup, missed, botched, memory, signals>>

(* wait_for_ptrace_syscall_stop: as in remote_syscall, without a deadline. *)
StepStops ==
    /\ Stops("step") \/ Stops("stubbed")
    /\ \/ /\ stop = "syscall" /\ pc = "step" /\ Goto("watch")
          /\ UNCHANGED <<tracee, tries>>
       \/ /\ stop = "syscall" /\ pc = "stubbed" /\ Detach(TRUE) /\ Succeed
          /\ UNCHANGED <<ip, tries>>
       \/ /\ Retriable /\ tries' = tries + 1 /\ Resume("syscall")
          /\ UNCHANGED <<pc, result, ip, inSys, kret, job, due>>
       \/ /\ stop # "syscall" /\ ~Retriable /\ TangoFails
          /\ UNCHANGED tries
    /\ UNCHANGED <<tango, watch, seg, fd, phase, asked, saved, backup, missed, botched, memory, budget>>

(* Out of the syscall stop: continue, and interrupt again.                 *)
Leave ==
    /\ pc = "leave"
    /\ IF zygote = "dead"
       THEN Fail /\ UNCHANGED tracee
       ELSE /\ Resume("cont") /\ due' = "interrupt" /\ Goto("drainAgain")
            /\ UNCHANGED <<ip, inSys, kret, job>>
    /\ UNCHANGED <<tango, watch, loader, memory, budget>>

(* inject_tango: write the trampoline, hook the slot, let the tracee run.  *)
(* The registers may be refused when the slot is already hooked; nothing   *)
(* takes the hook back then.                                               *)
Hook ==
    /\ pc = "loaded" /\ tango
    /\ \/ /\ zygote = "trap" /\ Rewound(backup)
          /\ got' = "hooked" /\ Resume("cont") /\ Goto("await")
          /\ UNCHANGED <<inSys, kret, job, due, faults>>
       \/ zygote # "trap" /\ TangoFails /\ UNCHANGED <<got, faults>>
       \/ Fault /\ Rewound(backup) /\ Detach(TRUE) /\ Fail /\ UNCHANGED got
       \/ /\ zygote = "trap" /\ Fault
          /\ got' = "hooked" /\ ip' \in {ip, backup} /\ Detach(TRUE) /\ Fail
    /\ UNCHANGED <<tango, watch, loader, atEntry, linked, image, entered, signals>>

(* Wait, however long, for the trampoline's SIGTRAP.                       *)
Await ==
    /\ Stops("await")
    /\ IF stop = "sigtrap" THEN Goto("unhook") /\ UNCHANGED <<zygote, stop, how>>
                           ELSE Resume("cont") /\ UNCHANGED <<pc, result>>
    /\ UNCHANGED <<tango, watch, loader, ip, inSys, kret, job, due, memory, budget>>

(* Unhook the slot and leave through a stub that calls the real            *)
(* __libc_init.  A failing write of the slot is logged, one of the stub    *)
(* not even that, and the injection goes on.  Of a tracee that has died    *)
(* the tracer reports success.                                             *)
Unhook ==
    /\ pc = "unhook"
    /\ \/ /\ zygote = "trap"
          /\ \/ got' = "resolved" /\ ip' = "stub" /\ UNCHANGED <<botched, faults>>
             \/ /\ Fault /\ botched' = TRUE
                /\ got' \in {"resolved", got} /\ ip' \in {"stub", "astray"}
          /\ Resume("syscall") /\ tries' = 0 /\ Goto("stubbed")
       \/ zygote = "dead" /\ Succeed
          /\ UNCHANGED <<botched, zygote, stop, how, got, ip, tries, faults>>
    /\ UNCHANGED <<tango, watch, seg, fd, phase, asked, saved, backup, missed, inSys, kret,
                   job, due, atEntry, linked, image, entered, signals>>

-----------------------------------------------------------------------------
(* main: kill the zygote of a failed injection.  A tracer that exits or is *)
(* killed takes its tracee along, if the kernel knows PTRACE_O_EXITKILL.   *)

Orphaned ==
    /\ zygote' = IF zygote \notin {"run", "trap"} THEN zygote
                 ELSE IF ExitKill THEN "dead"
                 ELSE IF job THEN "parked" ELSE "free"
    /\ UNCHANGED <<stop, how, ip, inSys, kret, job, due>>

Kill ==
    /\ pc = "kill" /\ pc' = "exited" /\ zygote' = "dead"
    /\ UNCHANGED <<tango, result, watch, loader, stop, how, ip, inSys, kret, job, due,
                   memory, budget>>

Exit ==
    /\ pc = "exit" /\ pc' = "exited" /\ Orphaned
    /\ UNCHANGED <<tango, result, watch, loader, memory, budget>>

TracerDies ==
    /\ pc # "exited" /\ pc' = "exited" /\ result' = "crashed" /\ Orphaned
    /\ UNCHANGED <<tango, watch, loader, memory, budget>>

ZygoteStep ==
    \/ LinkerDone \/ TangoRuns \/ EntryReturns \/ Crashes \/ Interrupted \/ Reports
    \/ OwnSyscall \/ GadgetEnters \/ GadgetExits \/ Unparked \/ Dies

LoaderNext == LoaderStep \/ Call \/ NoLock \/ CallStops \/ CallLost \/ NoLoad

PlainNext ==
    \/ FirstStop \/ Poison \/ Entering \/ Unpoison
    \/ CallEntry \/ Called \/ Rewind \/ Continue \/ Drain \/ Cont \/ Last

TangoNext ==
    \/ Interrupt \/ DrainTango \/ TangoLost \/ Watch \/ StepStops
    \/ Leave \/ Hook \/ Await \/ Unhook

TracerStep ==
    \/ Seize \/ Swallow \/ WaitFails \/ LoaderNext \/ PlainNext \/ TangoNext
    \/ Kill \/ Exit

Next == ZygoteStep \/ TracerStep \/ TracerDies

Spec == Init /\ [][Next]_vars

(* The tracer is scheduled and its deadlines pass; an injected syscall     *)
(* reaches its gadget.                                                     *)
FairSpec == Spec /\ WF_vars(TracerStep) /\ WF_vars(GadgetEnters)

-----------------------------------------------------------------------------
(* Properties.                                                             *)

Whole ==
    /\ image.reserve /\ image.relocated
    /\ \A s \in 1 .. NSegs : image.segs[s] = "final"

Untouched ==
    /\ image = NoImage /\ entered = "no"
    /\ atEntry = "entry" /\ got # "hooked" /\ ip \in {"linker", "entry", "main", "astray"}

Injected ==
    /\ Whole /\ entered = "returned"
    /\ atEntry = "entry" /\ got # "hooked" /\ ip \in {"entry", "main"}

(* A zygote that runs without a tracer is one the tracer never changed or  *)
(* one it injected completely, with AT_ENTRY, the GOT slot and its         *)
(* registers restored; if the tracer reports success, the latter.  Only a  *)
(* tango zygote is let go half injected, since its failures detach first:  *)
(* until the tracer kills it, or for good if the tracer dies before.  And  *)
(* only a tango zygote is let go hooked or without its stub, its library   *)
(* complete, if the writes after the trampoline failed.                    *)
ReleasedWhole ==
    /\ TypeOK
    /\ zygote = "free" =>
         \/ Injected
         \/ Untouched /\ result # "ok"
         \/ tango /\ (pc = "kill" \/ result = "crashed")
         \/ tango /\ botched /\ Whole /\ entered = "returned"

(* The library's entry runs only in a completely mapped image: every       *)
(* segment copied, relocated and under its final protection, whatever      *)
(* failed on the way.                                                      *)
OnlyWholeImageRuns == entered # "no" => Whole

(* Nothing is mapped into the zygote before its own linker is done, though *)
(* what the tracer sees is only a SIGSEGV or a changed word.               *)
AfterLinker == image # NoImage => linked

(* A zygote released as injected keeps neither the scratch page nor the    *)
(* memfd of the staging, unless a syscall of the loader was cut short or a *)
(* cleanup call itself failed.                                             *)
TidyRelease ==
    zygote = "free" /\ result = "ok" /\ ~missed => ~image.scratch /\ ~image.memfd

(* The trace of a plain zygote ends: the tracer exits and its zygote runs  *)
(* or is dead, never left stopped -- unless the tracer is killed, which    *)
(* before the seize leaves it parked.                                      *)
TraceEnds ==
    ~tango => <>(pc = "exited" /\ (zygote \in {"free", "dead"} \/ result = "crashed"))
=============================================================================
