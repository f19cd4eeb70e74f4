-------------------------- MODULE TraceZygoteProofs --------------------------
(***************************************************************************)
(* Proofs about module TraceZygote: what the tracer does to a zygote, for  *)
(* any number of segments, of stray signals and of failures.               *)
(*                                                                         *)
(* The inductive invariant IInv has three groups of parts.  Control, InCall*)
(* and Reached say where the tracer is and what the zygote may be doing    *)
(* meanwhile, a syscall cut short that may still complete included.        *)
(* Before, EntryRan and Held say what the zygote has been through and what *)
(* may let it go.  Placed, Copied and Tidy say how far the loader is.      *)
(* Every part is kept by every action from its own group and the types     *)
(* alone, but for the steps that pass from one group to the next.          *)
(***************************************************************************)
EXTENDS TraceZygote, TLAPS

-----------------------------------------------------------------------------
(* Regions of the tracer's program.                                        *)

Staging == {"prepare", "reserve", "scratch", "name", "memfd", "unscratch",
            "stage", "closeStage"}
Loading == Calls \cup LocalSteps \cup {"noLoad", "loaded"}
Injecting == {"called", "rewind", "continue", "drain", "cont", "last", "await", "unhook",
              "stubbed"}
Over == {"exit", "kill", "exited"}
Readied == {"unpoison", "leave", "drainAgain"}
PlainOnly == {"seized", "poison", "entering", "unpoison",
              "called", "rewind", "continue", "drain", "cont", "last"}
TangoOnly == {"interrupt", "drainFirst", "watch", "step",
              "leave", "drainAgain", "await", "unhook", "stubbed"}

(* The syscalls whose failure the loader goes on from.                     *)
BestEffort == {"scratch", "memfd", "unscratch", "closeStage", "lock", "close"}

(* What a zygote executes before the library's entry has run in it.        *)
Own == {"linker", "poison", "entry", "gadget", "main", "astray"}

-----------------------------------------------------------------------------
(* The inductive invariant.                                                *)

(* The two paths; who holds the zygote; what the tracer reports.           *)
Control ==
    /\ (pc \in PlainOnly => ~tango) /\ (pc \in TangoOnly => tango)
    /\ tango => ~job
    /\ got = "hooked" => tango
    /\ zygote \in {"parked", "free"} => pc \in {"seize"} \cup Over
    /\ (zygote = "free" => ~job) /\ (zygote = "parked" => job)
    /\ result = "none" <=> pc \notin Over
    /\ (pc = "exit" => result = "ok") /\ (pc = "kill" => result = "failed")
    /\ pc = "exited" => zygote \notin {"run", "trap"}
    /\ pc = "exited" /\ result = "failed" => zygote = "dead"

(* The awaited syscall has been made and has succeeded.                    *)
Done == phase = "exit" /\ ~inSys /\ kret = "ok"

(* The stops of an injected syscall.  One that outlasted its deadline is   *)
(* still under way when the tracer is elsewhere; unless the load is being  *)
(* undone, it is one that the loader does not depend on.                   *)
InCall ==
    /\ phase # "idle" => ip = "gadget" /\ pc \in Calls \cup {"exited"}
    /\ phase # "idle" /\ pc # "exited" => asked = <<pc, seg>>
    /\ inSys => ip = "gadget"
    /\ ip = "gadget" => pc \in Loading \cup {"kill", "exited"}
    /\ ip = "gadget" /\ pc \in {"prepare", "reserve"} => phase # "idle"
    /\ zygote = "trap" => (inSys <=> phase = "entry" /\ stop = "syscall")
    /\ zygote = "trap" /\ phase = "exit" => stop = "syscall"
    /\ zygote = "run" => (phase = "entry" => ~inSys) /\ (phase = "exit" => inSys)
    /\ zygote = "run" /\ phase = "idle" /\ ip = "gadget" => inSys
    /\ inSys /\ phase = "idle" =>
          missed /\ (pc \in Loading \ {"undo", "noLoad"} => asked[1] \in BestEffort)
    /\ ~inSys /\ phase = "exit" /\ kret = "low" => pc \in {"reserve", "exited"}

(* The linker is done wherever the tracer, or what it sees, depends on it. *)
Reached ==
    /\ pc \in Loading \cup Injecting \cup Readied => linked
    /\ ip \in {"gadget", "poison"} => linked
    /\ got \in {"resolved", "hooked"} => linked
    /\ image # NoImage => linked

(* The zygote before the load, and before the library's entry.             *)
Before ==
    /\ pc \notin Loading \cup Injecting \cup Over => image = NoImage /\ ~fd
    /\ pc \in {"prepare", "reserve"} => ~image.scratch /\ ~image.memfd /\ ~fd
    /\ pc \notin Injecting \cup Over => entered = "no" /\ got # "hooked"
    /\ entered = "no" => ip \in Own
    /\ saved \in Own /\ backup \in Own \ {"gadget"}
    /\ atEntry = "poison" => pc \in {"entering", "unpoison", "kill", "exited"} /\ job
    /\ pc = "seize" => Untouched

(* The zygote from the library's entry on: whole, and by the time it is let *)
(* go back where the injection took it from.                               *)
EntryRan ==
    /\ entered # "no" \/ got = "hooked" => Whole
    /\ entered # "no" => ip \notin {"linker", "gadget"}
    /\ got = "hooked" /\ ip = "gadget" => zygote \in {"free", "dead"}
    /\ botched => tango /\ entered = "returned"
    /\ ip \in {"return", "tramp", "stub"} \/ stop = "sigtrap" => entered = "returned"
    /\ pc = "called" => entered # "no"
    /\ pc = "rewind" => entered = "returned"
    /\ pc = "continue" => entered = "returned" /\ ip = "entry"
    /\ pc \in {"drain", "cont", "last"} => Injected
    /\ pc \in {"unhook", "stubbed"} => entered = "returned"
    /\ pc = "stubbed" /\ ~botched =>
          /\ got # "hooked" /\ ip \in {"stub", "main"}
          /\ zygote = "trap" /\ stop = "syscall" => ip = "main"
    /\ pc = "unhook" => zygote \in {"trap", "dead"}
    /\ result = "ok" => Injected \/ botched \/ zygote = "dead"

(* A plain zygote is under its group stop for as long as a tracer that     *)
(* goes would leave it half injected.                                      *)
Held ==
    /\ ~tango /\ pc \in Loading \cup {"poison", "entering", "unpoison", "called",
                                      "rewind", "continue"} => job
    /\ pc = "seized" /\ zygote = "trap" /\ stop = "group" => job
    /\ ~tango /\ ~job => (Untouched /\ result # "ok") \/ Injected

(* What the loader has reserved, relocated and given its final protection. *)
Placed ==
    /\ pc \in Loading \ {"prepare", "reserve", "undo", "noLoad"} => image.reserve
    /\ pc = "reserve" /\ Done => image.reserve
    /\ pc = "reloc" => seg = 1
    /\ pc \in {"protect", "lock", "close", "resolve", "loaded"} => image.relocated
    /\ pc = "protect" => \A s \in 1 .. (seg - 1) : image.segs[s] = "final"
    /\ pc = "protect" /\ Done => image.segs[seg] = "final"
    /\ pc \in {"lock", "close", "resolve", "loaded"} =>
          \A s \in 1 .. NSegs : image.segs[s] = "final"

(* The segments it has filled and not yet protected.                       *)
Copied ==
    /\ pc \notin (Loading \ Staging) \cup Injecting \cup Over => seg = 1
    /\ pc \in {"map", "copy"} => \A s \in 1 .. (seg - 1) : image.segs[s] = "rw"
    /\ pc = "reloc" => \A s \in 1 .. NSegs : image.segs[s] = "rw"
    /\ pc = "protect" => \A s \in (seg + 1) .. NSegs : image.segs[s] = "rw"
    /\ pc = "protect" /\ (phase = "exit" => inSys) => image.segs[seg] = "rw"
    /\ inSys /\ asked[1] = "protect" => image.relocated /\ image.segs[asked[2]] = "rw"

(* The scratch page and the memfd, while no call has been cut short.       *)
Tidy ==
    ~missed =>
      /\ pc \in {"scratch", "name"} => ~image.memfd /\ ~fd
      /\ pc = "scratch" /\ image.scratch => Done
      /\ pc = "memfd" /\ image.memfd => Done
      /\ pc = "unscratch" /\ Done => ~image.scratch
      /\ pc \in {"unscratch", "stage", "closeStage", "map", "copy", "reloc", "protect", "lock"}
            => (image.memfd => fd)
      /\ pc \in {"closeStage", "close"} /\ Done => ~image.memfd
      /\ pc \in {"stage", "closeStage", "map", "copy", "reloc", "protect", "lock", "close"}
            => ~image.scratch
      /\ pc \in {"resolve", "loaded"} \cup Injecting \/ result = "ok"
            => ~image.scratch /\ ~image.memfd

IInv ==
    /\ TypeOK
    /\ Control /\ InCall /\ Reached
    /\ Before /\ EntryRan /\ Held
    /\ Placed /\ Copied /\ Tidy

USE SegmentAssumption, ModeAssumption, RetryAssumption, BoundAssumption
USE DEF Calls, LocalSteps, DeadlineWaits, TangoWaits, StepWaits, CleanupCalls, Swallowed,
        Staging, Loading, Injecting, Over, Readied, PlainOnly, TangoOnly, BestEffort, Own,
        NoImage, Whole, Untouched, Injected, Done
USE DEF tracee, memory, loader, budget, Trap, Resume, Stray, Fault, Kernel, Goto, Fail,
        Succeed, Detach, Rewound, Filters, Stops, Retriable, Orphaned, TangoFails

-----------------------------------------------------------------------------
(* The model's operators.                                                  *)

(* The effect of each injected syscall on the image.                       *)
LEMMA EffectIs ==
    ASSUME NEW s
    PROVE  /\ Effect("reserve", s) = [image EXCEPT !.reserve = TRUE]
           /\ Effect("scratch", s) = [image EXCEPT !.scratch = TRUE]
           /\ Effect("unscratch", s) = [image EXCEPT !.scratch = FALSE]
           /\ Effect("memfd", s) = [image EXCEPT !.memfd = TRUE]
           /\ \A c \in {"closeStage", "close"} : Effect(c, s) = [image EXCEPT !.memfd = FALSE]
           /\ Effect("map", s) = [image EXCEPT !.segs[s] = "raw"]
           /\ Effect("protect", s) = [image EXCEPT !.segs[s] = "final"]
           /\ Effect("lock", s) = image
           /\ Effect("undo", s) = [NoImage EXCEPT !.scratch = image.scratch, !.memfd = image.memfd]
BY ZenonT(60) DEF Effect

(* What an effect leaves of the image, for image' = Effect(c, s).           *)
EffectOf(c, s, e) ==
    /\ e \in Image
    /\ c # "undo" => e.relocated = image.relocated
    /\ c \notin {"reserve", "undo"} => e.reserve = image.reserve
    /\ c = "reserve" => e.reserve
    /\ c \notin {"map", "protect", "undo"} => e.segs = image.segs
    /\ c = "map" => e.segs = [image.segs EXCEPT ![s] = "raw"]
    /\ c = "undo" => \A k \in 1 .. NSegs : e.segs[k] = "none"
    /\ c = "protect" => e.segs = [image.segs EXCEPT ![s] = "final"]
    /\ c \notin {"scratch", "unscratch"} => e.scratch = image.scratch
    /\ c = "unscratch" => ~e.scratch
    /\ c \notin {"memfd", "closeStage", "close"} => e.memfd = image.memfd
    /\ c \in {"closeStage", "close"} => ~e.memfd

LEMMA EffectFields ==
    ASSUME TypeOK, NEW c \in Calls, NEW s \in 1 .. NSegs
    PROVE  EffectOf(c, s, Effect(c, s))
<1> DEFINE e == Effect(c, s)
<1>0. /\ image \in [reserve : BOOLEAN, scratch : BOOLEAN, memfd : BOOLEAN,
                    relocated : BOOLEAN, segs : [1 .. NSegs -> SegState]]
  BY DEF TypeOK, Image
<1> USE DEF Image, NoImage, SegState, EffectOf
<1>1. CASE c = "reserve"
  <2>1. e = [image EXCEPT !.reserve = TRUE] BY <1>1, EffectIs
  <2> QED BY <1>0, <1>1, <2>1
<1>2. CASE c = "scratch"
  <2>1. e = [image EXCEPT !.scratch = TRUE] BY <1>2, EffectIs
  <2> QED BY <1>0, <1>2, <2>1
<1>3. CASE c = "unscratch"
  <2>1. e = [image EXCEPT !.scratch = FALSE] BY <1>3, EffectIs
  <2> QED BY <1>0, <1>3, <2>1
<1>4. CASE c = "memfd"
  <2>1. e = [image EXCEPT !.memfd = TRUE] BY <1>4, EffectIs
  <2> QED BY <1>0, <1>4, <2>1
<1>5. CASE c \in {"closeStage", "close"}
  <2>1. e = [image EXCEPT !.memfd = FALSE] BY <1>5, EffectIs
  <2> QED BY <1>0, <1>5, <2>1
<1>6. CASE c = "map"
  <2>1. e = [image EXCEPT !.segs[s] = "raw"] BY <1>6, EffectIs
  <2> QED BY <1>0, <1>6, <2>1
<1>7. CASE c = "protect"
  <2>1. e = [image EXCEPT !.segs[s] = "final"] BY <1>7, EffectIs
  <2> QED BY <1>0, <1>7, <2>1
<1>8. CASE c = "lock"
  <2>1. e = image BY <1>8, EffectIs
  <2> QED BY <1>0, <1>8, <2>1
<1>9. CASE c = "undo"
  <2>1. e = [NoImage EXCEPT !.scratch = image.scratch, !.memfd = image.memfd]
    BY <1>9, EffectIs
  <2>2. e = [reserve |-> FALSE, scratch |-> image.scratch, memfd |-> image.memfd,
             relocated |-> FALSE, segs |-> [k \in 1 .. NSegs |-> "none"]]
    BY <2>1
  <2>3. /\ e.relocated = FALSE /\ e.reserve = FALSE /\ e.scratch = image.scratch
        /\ e.memfd = image.memfd /\ e \in Image
        /\ \A k \in 1 .. NSegs : e.segs[k] = "none"
    BY <1>0, <2>2
  <2> QED BY <1>9, <2>3
<1> QED BY <1>1, <1>2, <1>3, <1>4, <1>5, <1>6, <1>7, <1>8, <1>9

(* Where the loader goes from each syscall.                                *)
LEMMA AfterIs ==
    ASSUME NEW ret
    PROVE  /\ pc = "reserve" => After(ret) = IF ret = "ok" THEN "scratch"
                                        ELSE IF ret = "low" THEN "undo" ELSE "noLoad"
           /\ pc = "scratch" => After(ret) = IF ret = "ok" THEN "name" ELSE "map"
           /\ pc = "memfd" => After(ret) = "unscratch"
           /\ pc = "unscratch" => After(ret) = IF fd THEN "stage" ELSE "map"
           /\ pc = "closeStage" => After(ret) = "map"
           /\ pc = "map" => After(ret) = IF ret = "ok" THEN "copy" ELSE "undo"
           /\ pc = "protect" => After(ret) = AfterProtect(ret)
           /\ pc = "lock" => After(ret) = AfterLock
           /\ pc = "close" => After(ret) = "resolve"
           /\ pc = "undo" => After(ret) = "noLoad"
BY ZenonT(60) DEF After

(* Where it goes from a step of its own that fails.                        *)
LEMMA LocalFailsTo ==
    ASSUME LocalFails
    PROVE  /\ pc = "prepare" => pc' = "noLoad"
           /\ pc = "name" => pc' = "unscratch"
           /\ pc = "stage" => pc' = "closeStage"
           /\ pc \notin {"prepare", "name", "stage"} => pc' = "undo"
           /\ UNCHANGED <<seg, image, result>>
BY ZenonT(60) DEF LocalFails

-----------------------------------------------------------------------------
(* The steps of the zygote and the kernel.                                 *)

LEMMA LinkerDoneKeeps ==
    ASSUME IInv, LinkerDone
    PROVE  IInv'
<1> USE DEF IInv, LinkerDone
<1>1. TypeOK'
  BY DEF TypeOK, Pc, ZygoteState, Stop, Ip
<1>2. Control' /\ InCall' /\ Reached'
  BY DEF TypeOK, Control, InCall, Reached, Before, EntryRan
<1>3. Before' /\ EntryRan' /\ Held'
  BY DEF TypeOK, Before, EntryRan, Held
<1>4. Placed' /\ Copied' /\ Tidy'
  BY DEF TypeOK, Placed, Copied, Tidy
<1> QED BY <1>1, <1>2, <1>3, <1>4

LEMMA TangoRunsKeeps ==
    ASSUME IInv, TangoRuns
    PROVE  IInv'
<1> USE DEF IInv, TangoRuns
<1>1. TypeOK'
  <2>1. linked' \in BOOLEAN BY DEF TypeOK
  <2> QED BY <2>1 DEF TypeOK, Pc, ZygoteState, Stop, Ip
<1>2. Control' /\ InCall' /\ Reached'
  BY DEF TypeOK, Control, InCall, Reached
<1>3. Before' /\ EntryRan' /\ Held'
  BY DEF TypeOK, Before, EntryRan, Held
<1>4. Placed' /\ Copied' /\ Tidy'
  BY DEF TypeOK, Placed, Copied, Tidy
<1> QED BY <1>1, <1>2, <1>3, <1>4

LEMMA EntryReturnsKeeps ==
    ASSUME IInv, EntryReturns
    PROVE  IInv'
<1> USE DEF IInv, EntryReturns
<1>1. TypeOK'
  BY DEF TypeOK, Pc, ZygoteState, Stop, Ip
<1>2. Control' /\ InCall' /\ Reached'
  BY DEF TypeOK, Control, InCall, Reached
<1>3. Before' /\ EntryRan' /\ Held'
  BY DEF TypeOK, Before, EntryRan, Held
<1>4. Placed' /\ Copied' /\ Tidy'
  BY DEF TypeOK, Placed, Copied, Tidy
<1> QED BY <1>1, <1>2, <1>3, <1>4

LEMMA CrashesKeeps ==
    ASSUME IInv, Crashes
    PROVE  IInv'
<1> USE DEF IInv, Crashes
<1>1. TypeOK'
  BY DEF TypeOK, Pc, ZygoteState, Stop, Ip
<1>2. Control' /\ InCall' /\ Reached'
  BY DEF TypeOK, Control, InCall, Reached
<1>3. Before' /\ EntryRan' /\ Held'
  BY DEF TypeOK, Before, EntryRan, Held
<1>4. Placed' /\ Copied' /\ Tidy'
  BY DEF TypeOK, Placed, Copied, Tidy
<1> QED BY <1>1, <1>2, <1>3, <1>4

LEMMA InterruptedKeeps ==
    ASSUME IInv, Interrupted
    PROVE  IInv'
<1> USE DEF IInv, Interrupted
<1>1. TypeOK'
  BY DEF TypeOK, Pc, ZygoteState, Stop, Ip
<1>2. Control' /\ InCall' /\ Reached'
  BY DEF TypeOK, Control, InCall, Reached
<1>3. Before' /\ EntryRan' /\ Held'
  BY DEF TypeOK, Before, EntryRan, Held
<1>4. Placed' /\ Copied' /\ Tidy'
  BY DEF TypeOK, Placed, Copied, Tidy
<1> QED BY <1>1, <1>2, <1>3, <1>4

LEMMA ReportsKeeps ==
    ASSUME IInv, Reports
    PROVE  IInv'
<1> USE DEF IInv, Reports
<1>1. TypeOK'
  BY DEF TypeOK, Pc, ZygoteState, Stop, Ip
<1>2. Control' /\ InCall' /\ Reached'
  BY DEF TypeOK, Control, InCall, Reached
<1>3. Before' /\ EntryRan' /\ Held'
  BY DEF TypeOK, Before, EntryRan, Held
<1>4. Placed' /\ Copied' /\ Tidy'
  BY DEF TypeOK, Placed, Copied, Tidy
<1> QED BY <1>1, <1>2, <1>3, <1>4

LEMMA OwnSyscallKeeps ==
    ASSUME IInv, OwnSyscall
    PROVE  IInv'
<1> USE DEF IInv, OwnSyscall
<1>1. TypeOK'
  BY DEF TypeOK, Pc, ZygoteState, Stop, Ip
<1>2. Control' /\ InCall' /\ Reached'
  BY DEF TypeOK, Control, InCall, Reached
<1>3. Before' /\ EntryRan' /\ Held'
  BY DEF TypeOK, Before, EntryRan, Held
<1>4. Placed' /\ Copied' /\ Tidy'
  BY DEF TypeOK, Placed, Copied, Tidy
<1> QED BY <1>1, <1>2, <1>3, <1>4

LEMMA GadgetEntersKeeps ==
    ASSUME IInv, GadgetEnters
    PROVE  IInv'
<1> USE DEF IInv, GadgetEnters
<1>1. TypeOK'
  BY DEF TypeOK, Pc, ZygoteState, Stop, Ip
<1>2. Control' /\ InCall' /\ Reached'
  BY DEF TypeOK, Control, InCall, Reached
<1>3. Before' /\ EntryRan' /\ Held'
  BY DEF TypeOK, Before, EntryRan, Held
<1>4. Placed' /\ Copied' /\ Tidy'
  BY DEF TypeOK, Control, InCall, Placed, Copied, Tidy
<1> QED BY <1>1, <1>2, <1>3, <1>4

(* A syscall completes, the awaited one or one that was given up.          *)
LEMMA GadgetExitsKeeps ==
    ASSUME IInv, GadgetExits
    PROVE  IInv'
<1> DEFINE c == asked[1]  s == asked[2]
<1>0. /\ TypeOK /\ Control /\ InCall /\ Reached /\ Before /\ EntryRan
      /\ Held /\ Placed /\ Copied /\ Tidy
  BY DEF IInv
<1>1. /\ zygote = "run" /\ ip = "gadget" /\ inSys /\ phase # "entry" /\ linked
      /\ pc \in (Loading \ {"prepare"}) \cup {"kill"} /\ entered = "no" /\ got # "hooked"
      /\ result # "ok" /\ ~botched
  BY <1>0 DEF InCall, Control, Reached, EntryRan, GadgetExits
<1>2. c \in Calls /\ s \in 1 .. NSegs BY <1>0 DEF TypeOK
<1>3. UNCHANGED <<tango, pc, result, seg, fd, phase, asked, missed, botched, saved, backup,
                  ip, job, atEntry, got, linked, entered>>
  BY DEF GadgetExits
<1>4. zygote' = "trap" /\ stop' = "syscall" /\ inSys' = FALSE BY DEF GadgetExits
<1>5. \/ kret' = "ok" /\ image' = Effect(c, s)
      \/ kret' = "fail" /\ image' = image
      \/ c = "reserve" /\ kret' = "low" /\ image' = Effect(c, 1)
  BY DEF GadgetExits
<1>6. \/ image' = image /\ kret' = "fail"
      \/ EffectOf(c, s, image') /\ (c # "reserve" => kret' = "ok")
  <2>1. 1 \in 1 .. NSegs OBVIOUS
  <2>2. c = "reserve" => EffectOf(c, s, Effect(c, 1))
    BY <2>1, <1>0, <1>2, EffectFields DEF EffectOf
  <2>3. EffectOf(c, s, Effect(c, s)) BY <1>0, <1>2, EffectFields
  <2> QED BY <2>2, <2>3, <1>5
<1>7. TypeOK'
  <2>1. inSys' \in BOOLEAN /\ image' \in Image BY <1>4, <1>0, <1>6 DEF TypeOK, EffectOf
  <2> QED BY <1>0, <2>1 DEF TypeOK, GadgetExits, ZygoteState, Stop
<1>8. Control' BY <1>0, <1>3, <1>4, <1>1 DEF Control
<1>9. InCall' BY <1>0, <1>3, <1>4, <1>1, <1>5 DEF InCall, TypeOK
<1>10. Reached' BY <1>0, <1>3, <1>1 DEF Reached
<1>11. EntryRan' BY <1>0, <1>3, <1>1, <1>4 DEF EntryRan, Control, Injected
<1>12. Held' BY <1>0, <1>3, <1>1, <1>4 DEF Held, Control, Injected, Untouched
<1>13. phase = "exit" => c = pc /\ s = seg BY <1>0, <1>1 DEF InCall
<1>14. phase = "idle" => missed /\ (pc \in Loading \ {"undo", "noLoad"} => c \in BestEffort)
  BY <1>0, <1>1 DEF InCall
<1>15. Before'
  <2>1. pc = "reserve" => phase = "exit" /\ c = "reserve" BY <1>13, <1>0, <1>1 DEF InCall, TypeOK
  <2>2. pc = "reserve" => image'.scratch = image.scratch /\ image'.memfd = image.memfd
     BY <2>1, <1>6 DEF EffectOf
  <2> QED BY <1>0, <1>3, <1>1, <2>2 DEF Before
<1>16. Placed'
  <2>1. image.segs \in [1 .. NSegs -> SegState] /\ seg \in 1 .. NSegs BY <1>0 DEF TypeOK, Image
  <2>2. CASE pc \in {"undo", "noLoad", "kill"} BY <1>3, <2>2 DEF Placed
  <2>3. CASE phase = "exit" /\ c = pc /\ s = seg
    BY <1>0, <1>3, <1>4, <1>6, <2>1, <2>3 DEF Placed, Done, EffectOf
  <2>4. CASE c \in BestEffort /\ phase = "idle"
    BY <1>0, <1>3, <1>4, <1>6, <2>4 DEF Placed, Done, EffectOf
  <2> QED BY <2>2, <2>3, <2>4, <1>0, <1>1, <1>13, <1>14 DEF TypeOK
<1>17. Copied'
  <2>1. image.segs \in [1 .. NSegs -> SegState] /\ seg \in 1 .. NSegs BY <1>0 DEF TypeOK, Image
  <2>2. CASE pc \in {"undo", "noLoad", "kill"} BY <1>0, <1>3, <1>4, <2>2 DEF Copied
  <2>3. CASE phase = "exit" /\ c = pc /\ s = seg
    BY <1>0, <1>3, <1>4, <1>6, <2>1, <2>3 DEF Copied, Done, EffectOf
  <2>4. CASE c \in BestEffort /\ phase = "idle"
    BY <1>0, <1>3, <1>4, <1>6, <2>4 DEF Copied, Done, EffectOf
  <2> QED BY <2>2, <2>3, <2>4, <1>0, <1>1, <1>13, <1>14 DEF TypeOK
<1>18. Tidy'
  <2>1. CASE missed BY <1>3, <2>1 DEF Tidy
  <2>2. CASE ~missed
    <3>1. phase = "exit" /\ c = pc /\ s = seg BY <2>2, <1>0, <1>1, <1>13, <1>14 DEF TypeOK
    <3> QED BY <1>0, <1>1, <1>3, <1>4, <1>6, <2>2, <3>1 DEF Tidy, Done, EffectOf
  <2> QED BY <2>1, <2>2
<1> QED BY <1>7, <1>8, <1>9, <1>10, <1>11, <1>12, <1>15, <1>16, <1>17, <1>18 DEF IInv

LEMMA UnparkedKeeps ==
    ASSUME IInv, Unparked
    PROVE  IInv'
<1> USE DEF IInv, Unparked
<1>1. TypeOK'
  <2>1. job' \in BOOLEAN BY DEF TypeOK
  <2> QED BY <2>1 DEF TypeOK, Pc, ZygoteState, Stop, Ip
<1>2. Control' /\ InCall' /\ Reached'
  BY DEF TypeOK, Control, InCall, Reached
<1>3. Before' /\ EntryRan' /\ Held'
  BY DEF TypeOK, Before, EntryRan, Held
<1>4. Placed' /\ Copied' /\ Tidy'
  BY DEF TypeOK, Placed, Copied, Tidy
<1> QED BY <1>1, <1>2, <1>3, <1>4

LEMMA DiesKeeps ==
    ASSUME IInv, Dies
    PROVE  IInv'
<1> USE DEF IInv, Dies
<1>1. TypeOK'
  BY DEF TypeOK, Pc, ZygoteState, Stop, Ip
<1>2. Control' /\ InCall' /\ Reached'
  BY DEF TypeOK, Control, InCall, Reached
<1>3. Before' /\ EntryRan' /\ Held'
  BY DEF TypeOK, Before, EntryRan, Held
<1>4. Placed' /\ Copied' /\ Tidy'
  BY DEF TypeOK, Placed, Copied, Tidy
<1> QED BY <1>1, <1>2, <1>3, <1>4

-----------------------------------------------------------------------------
(* The loader.                                                             *)

(* What its steps that are no syscalls leave alone.                        *)
Frame ==
    UNCHANGED <<tango, watch, fd, phase, asked, tries, saved, backup, missed, botched, tracee,
                atEntry, got, linked, entered, signals>>

LEMMA PrepareKeeps ==
    ASSUME IInv, Frame, Prepare, faults' \in 0 .. MaxFaults
    PROVE  IInv'
<1> USE DEF IInv, Prepare, Frame
<1>1. TypeOK'
  BY DEF TypeOK, Pc, ZygoteState, Stop, Ip
<1>2. Control' /\ InCall' /\ Reached'
  BY DEF TypeOK, Control, InCall, Reached
<1>3. Before' /\ EntryRan' /\ Held'
  BY DEF TypeOK, Before, EntryRan, Held
<1>4. Placed' /\ Copied' /\ Tidy'
  BY DEF TypeOK, Control, InCall, Placed, Copied, Tidy
<1> QED BY <1>1, <1>2, <1>3, <1>4

LEMMA WriteNameKeeps ==
    ASSUME IInv, Frame, WriteName, faults' \in 0 .. MaxFaults
    PROVE  IInv'
<1> USE DEF IInv, WriteName, Frame
<1>1. TypeOK'
  BY DEF TypeOK, Pc, ZygoteState, Stop, Ip
<1>2. Control' /\ InCall' /\ Reached'
  BY DEF TypeOK, Control, InCall, Reached
<1>3. Before' /\ EntryRan' /\ Held'
  BY DEF TypeOK, Before, EntryRan, Held
<1>4. Placed' /\ Copied' /\ Tidy'
  BY DEF TypeOK, Placed, Copied, Tidy
<1> QED BY <1>1, <1>2, <1>3, <1>4

LEMMA StageImageKeeps ==
    ASSUME IInv, Frame, StageImage, faults' \in 0 .. MaxFaults
    PROVE  IInv'
<1> USE DEF IInv, StageImage, Frame
<1>1. TypeOK'
  BY DEF TypeOK, Pc, ZygoteState, Stop, Ip
<1>2. Control' /\ InCall' /\ Reached'
  BY DEF TypeOK, Control, InCall, Reached
<1>3. Before' /\ EntryRan' /\ Held'
  BY DEF TypeOK, Before, EntryRan, Held
<1>4. Placed' /\ Copied' /\ Tidy'
  BY DEF TypeOK, Placed, Copied, Tidy
<1> QED BY <1>1, <1>2, <1>3, <1>4

LEMMA CopySegmentKeeps ==
    ASSUME IInv, Frame, CopySegment, faults' \in 0 .. MaxFaults
    PROVE  IInv'
<1> USE DEF IInv, Frame, CopySegment
<1>1. TypeOK'
  <2>1. image' \in Image BY DEF TypeOK, Image, SegState
  <2> QED BY <2>1 DEF TypeOK, Pc, ZygoteState, Stop, Ip
<1>2. Control' /\ InCall' /\ Reached'
  BY DEF TypeOK, Control, InCall, Reached
<1>3. Before' /\ EntryRan' /\ Held'
  BY DEF TypeOK, Before, EntryRan, Held
<1>4. image.segs \in [1 .. NSegs -> SegState] /\ seg \in 1 .. NSegs BY DEF TypeOK, Image
<1>5. Placed' BY <1>4 DEF TypeOK, Image, Placed
<1>6. Copied' BY <1>4 DEF TypeOK, Image, Copied, InCall
<1>7. Tidy' BY DEF TypeOK, Image, Tidy
<1> QED BY <1>1, <1>2, <1>3, <1>5, <1>6, <1>7

LEMMA RelocateKeeps ==
    ASSUME IInv, Frame, Relocate, faults' \in 0 .. MaxFaults
    PROVE  IInv'
<1> USE DEF IInv, Frame, Relocate
<1>1. TypeOK'
  <2>1. image' \in Image BY DEF TypeOK, Image, SegState
  <2> QED BY <2>1 DEF TypeOK, Pc, ZygoteState, Stop, Ip
<1>2. Control' /\ InCall' /\ Reached'
  BY DEF TypeOK, Control, InCall, Reached
<1>3. Before' /\ EntryRan' /\ Held'
  BY DEF TypeOK, Before, EntryRan, Held
<1>4. /\ image'.reserve = image.reserve /\ image'.relocated = TRUE
      /\ image'.segs = image.segs /\ pc = "reloc" /\ pc' = "protect" /\ seg' = seg
      /\ phase' = "idle"
  BY DEF TypeOK, Image, InCall
<1>5. Placed' BY <1>4 DEF Placed
<1>6. Copied' BY <1>4 DEF TypeOK, Image, Copied, InCall
<1>7. Tidy' BY DEF TypeOK, Image, Tidy
<1> QED BY <1>1, <1>2, <1>3, <1>5, <1>6, <1>7

LEMMA ResolveEntryKeeps ==
    ASSUME IInv, Frame, ResolveEntry, faults' \in 0 .. MaxFaults
    PROVE  IInv'
<1> USE DEF IInv, ResolveEntry, Frame
<1>1. TypeOK'
  BY DEF TypeOK, Pc, ZygoteState, Stop, Ip
<1>2. Control' /\ InCall' /\ Reached'
  BY DEF TypeOK, Control, InCall, Reached
<1>3. Before' /\ EntryRan' /\ Held'
  BY DEF TypeOK, Before, EntryRan, Held
<1>4. Placed' /\ Copied' /\ Tidy'
  BY DEF TypeOK, Placed, Copied, Tidy
<1> QED BY <1>1, <1>2, <1>3, <1>4

LEMMA LocalFailsKeeps ==
    ASSUME IInv, Frame, LocalFails, pc \in LocalSteps, faults' \in 0 .. MaxFaults
    PROVE  IInv'
<1> USE LocalFailsTo DEF IInv, LocalFails, Frame
<1>1. TypeOK'
  BY DEF TypeOK, Pc, ZygoteState, Stop, Ip
<1>2. Control' /\ InCall' /\ Reached'
  BY DEF TypeOK, Control, InCall, Reached
<1>3. Before' /\ EntryRan' /\ Held'
  BY DEF TypeOK, Before, EntryRan, Held
<1>4. Placed' /\ Copied' /\ Tidy'
  BY DEF TypeOK, Control, InCall, Placed, Copied, Tidy
<1> QED BY <1>1, <1>2, <1>3, <1>4

LEMMA LoaderStepKeeps ==
    ASSUME IInv, LoaderStep
    PROVE  IInv'
<1>1. Frame /\ pc \in LocalSteps /\ (LocalDone \/ LocalFails) BY DEF LoaderStep, Frame
<1>2. faults' \in 0 .. MaxFaults BY DEF LoaderStep, IInv, TypeOK
<1> QED BY <1>1, <1>2, PrepareKeeps, WriteNameKeeps, StageImageKeeps, CopySegmentKeeps,
           RelocateKeeps, ResolveEntryKeeps, LocalFailsKeeps DEF LocalDone

LEMMA CallKeeps ==
    ASSUME IInv, Call
    PROVE  IInv'
<1> USE AfterIs DEF IInv, Call, Answered, NextSeg, AfterProtect, AfterLock
<1>1. TypeOK'
  BY DEF TypeOK, Control, InCall, Reached, Before, EntryRan, Pc, ZygoteState, Stop, Ip
<1>2. Control' /\ InCall' /\ Reached'
  BY DEF TypeOK, Control, InCall, Reached
<1>3. Before' /\ EntryRan' /\ Held'
  BY DEF TypeOK, Before, EntryRan, Held
<1>4. Placed'
  BY DEF TypeOK, InCall, Placed
<1>5. Copied'
  BY DEF TypeOK, InCall, Copied
<1>6. Tidy'
  <2>1. CASE zygote = "trap" BY <2>1 DEF TypeOK, InCall, Tidy, Control
  <2>2. CASE zygote # "trap"
    <3>1. missed' BY <2>2
    <3> QED BY <3>1 DEF Tidy
  <2> QED BY <2>1, <2>2
<1> QED BY <1>1, <1>2, <1>3, <1>4, <1>5, <1>6

LEMMA NoLockKeeps ==
    ASSUME IInv, NoLock
    PROVE  IInv'
<1> USE AfterIs DEF IInv, NoLock, Answered, NextSeg, AfterProtect, AfterLock
<1>1. TypeOK'
  BY DEF TypeOK, Pc, ZygoteState, Stop, Ip
<1>2. Control' /\ InCall' /\ Reached'
  BY DEF TypeOK, Control, InCall, Reached
<1>3. Before' /\ EntryRan' /\ Held'
  BY DEF TypeOK, Before, EntryRan, Held
<1>4. Placed' /\ Copied' /\ Tidy'
  BY DEF TypeOK, Placed, Copied, Tidy
<1> QED BY <1>1, <1>2, <1>3, <1>4

LEMMA CallStopsKeeps ==
    ASSUME IInv, CallStops
    PROVE  IInv'
<1> USE AfterIs DEF IInv, CallStops, Answered, NextSeg, AfterProtect, AfterLock
<1>1. TypeOK'
  BY DEF TypeOK, Control, InCall, Reached, Before, EntryRan, Held, Placed, Copied, Tidy, Pc,
         ZygoteState, Stop, Ip
<1>2. Control' /\ InCall' /\ Reached'
  BY DEF TypeOK, Control, InCall, Reached
<1>3. Before' /\ EntryRan' /\ Held'
  BY DEF TypeOK, Before, EntryRan, Held
<1>4. Placed'
  BY DEF TypeOK, InCall, Placed
<1>5. Copied'
  BY DEF TypeOK, InCall, Copied
<1>6. Tidy'
  <2>1. CASE stop = "syscall" /\ phase = "entry"
    BY <2>1 DEF TypeOK, InCall, Tidy, Control
  <2>2. CASE stop = "syscall" /\ phase = "exit" /\ kret = "ok"
    <3>1. /\ Done /\ UNCHANGED <<kret, inSys, image>> /\ phase' = "idle" /\ zygote = "trap"
          /\ missed' = missed /\ pc \in Calls /\ pc' = After("ok") /\ result' = "none"
          /\ fd' = IF pc = "memfd" THEN TRUE ELSE fd /\ pc # "closeStage"
          /\ fd \in BOOLEAN
      BY <2>2 DEF InCall, Control, TypeOK
    <3>2. CASE pc \in {"protect", "lock", "close", "undo", "map"} BY <3>1, <3>2 DEF Tidy
    <3>3. CASE pc \in {"reserve", "scratch"} BY <3>1, <3>3 DEF Tidy, Before
    <3>4. CASE pc \in {"memfd", "unscratch", "closeStage"} BY <3>1, <3>4 DEF Tidy
    <3> QED BY <3>1, <3>2, <3>3, <3>4
  <2>3. CASE stop = "syscall" /\ phase = "exit" /\ kret # "ok"
    <3>1. /\ ~Done /\ UNCHANGED image /\ phase' = "idle" /\ pc \in Calls
          /\ pc' = After(kret) /\ result' = "none" /\ (missed => missed')
          /\ kret = "fail" /\ pc \in CleanupCalls => missed'
          /\ fd' = (IF pc = "memfd" THEN FALSE ELSE fd /\ pc # "closeStage")
          /\ (kret = "fail" \/ pc = "reserve") /\ fd \in BOOLEAN
      BY <2>3 DEF InCall, Control, TypeOK
    <3>2. CASE pc \in {"reserve", "protect", "undo", "map"} BY <3>1, <3>2, <2>3 DEF Tidy
    <3>3. CASE pc \in {"scratch", "memfd", "lock"} BY <3>1, <3>3 DEF Tidy
    <3>4. CASE pc \in CleanupCalls BY <3>1, <3>4 DEF Tidy
    <3> QED BY <3>1, <3>2, <3>3, <3>4
  <2>4. CASE stop # "syscall" /\ Retriable
    BY <2>4 DEF TypeOK, InCall, Tidy, Control
  <2>5. CASE stop # "syscall" /\ ~Retriable
    <3>1. missed' BY <2>5
    <3> QED BY <3>1 DEF Tidy
  <2> QED BY <2>1, <2>2, <2>3, <2>4, <2>5 DEF TypeOK
<1> QED BY <1>1, <1>2, <1>3, <1>4, <1>5, <1>6

LEMMA CallLostKeeps ==
    ASSUME IInv, CallLost
    PROVE  IInv'
<1> USE AfterIs DEF IInv, CallLost, Answered, NextSeg, AfterProtect, AfterLock
<1>1. TypeOK'
  BY DEF TypeOK, Control, Pc, ZygoteState, Stop, Ip
<1>2. Control' /\ InCall' /\ Reached'
  BY DEF TypeOK, Control, InCall, Reached
<1>3. Before' /\ EntryRan' /\ Held'
  BY DEF TypeOK, Before, EntryRan, Held
<1>4. Placed'
  BY DEF TypeOK, InCall, Placed
<1>5. Copied'
  BY DEF TypeOK, InCall, Copied
<1>6. Tidy'
  BY DEF TypeOK, Control, InCall, Tidy
<1> QED BY <1>1, <1>2, <1>3, <1>4, <1>5, <1>6

LEMMA NoLoadKeeps ==
    ASSUME IInv, NoLoad
    PROVE  IInv'
<1> USE DEF IInv, NoLoad
<1>1. TypeOK'
  BY DEF TypeOK, Control, Pc, ZygoteState, Stop, Ip
<1>2. Control' /\ InCall' /\ Reached'
  BY DEF TypeOK, Control, InCall, Reached
<1>3. Before' /\ EntryRan' /\ Held'
  BY DEF TypeOK, Before, EntryRan, Held
<1>4. Placed' /\ Copied' /\ Tidy'
  BY DEF TypeOK, Placed, Copied, Tidy
<1> QED BY <1>1, <1>2, <1>3, <1>4

-----------------------------------------------------------------------------
(* The tracer on either path, at its start and at its end.                 *)

LEMMA SeizeKeeps ==
    ASSUME IInv, Seize
    PROVE  IInv'
<1> USE DEF IInv, Seize
<1>1. TypeOK'
  BY DEF TypeOK, Pc, ZygoteState, Stop, Ip
<1>2. Control' /\ InCall' /\ Reached'
  BY DEF TypeOK, Control, InCall, Reached
<1>3. Before' /\ EntryRan' /\ Held'
  BY DEF TypeOK, Control, Before, EntryRan, Held
<1>4. Placed' /\ Copied' /\ Tidy'
  BY DEF TypeOK, Placed, Copied, Tidy
<1> QED BY <1>1, <1>2, <1>3, <1>4

LEMMA SwallowKeeps ==
    ASSUME IInv, Swallow
    PROVE  IInv'
<1> USE DEF IInv, Swallow
<1>1. TypeOK'
  BY DEF TypeOK, Pc, ZygoteState, Stop, Ip
<1>2. Control' /\ InCall' /\ Reached'
  BY DEF TypeOK, Control, InCall, Reached
<1>3. Before' /\ EntryRan' /\ Held'
  BY DEF TypeOK, Before, EntryRan, Held
<1>4. Placed' /\ Copied' /\ Tidy'
  BY DEF TypeOK, Placed, Copied, Tidy
<1> QED BY <1>1, <1>2, <1>3, <1>4

LEMMA WaitFailsKeeps ==
    ASSUME IInv, WaitFails
    PROVE  IInv'
<1> USE DEF IInv, WaitFails
<1>1. TypeOK'
  BY DEF TypeOK, Pc, ZygoteState, Stop, Ip
<1>2. Control' /\ InCall' /\ Reached'
  BY DEF TypeOK, Control, InCall, Reached
<1>3. Before' /\ EntryRan' /\ Held'
  BY DEF TypeOK, Before, EntryRan, Held
<1>4. Placed' /\ Copied' /\ Tidy'
  BY DEF TypeOK, Placed, Copied, Tidy
<1> QED BY <1>1, <1>2, <1>3, <1>4

LEMMA KillKeeps ==
    ASSUME IInv, Kill
    PROVE  IInv'
<1> USE DEF IInv, Kill
<1>1. TypeOK'
  BY DEF TypeOK, Pc, ZygoteState, Stop, Ip
<1>2. Control' /\ InCall' /\ Reached'
  BY DEF TypeOK, Control, InCall, Reached
<1>3. Before' /\ EntryRan' /\ Held'
  BY DEF TypeOK, Before, EntryRan, Held
<1>4. Placed' /\ Copied' /\ Tidy'
  BY DEF TypeOK, Placed, Copied, Tidy
<1> QED BY <1>1, <1>2, <1>3, <1>4

LEMMA ExitKeeps ==
    ASSUME IInv, Exit
    PROVE  IInv'
<1> USE DEF IInv, Exit
<1>1. TypeOK'
  BY DEF TypeOK, Pc, ZygoteState, Stop, Ip
<1>2. Control' /\ InCall' /\ Reached'
  BY DEF TypeOK, Control, InCall, Reached
<1>3. Before' /\ EntryRan' /\ Held'
  BY DEF TypeOK, Before, EntryRan, Held
<1>4. Placed' /\ Copied' /\ Tidy'
  BY DEF TypeOK, Placed, Copied, Tidy
<1> QED BY <1>1, <1>2, <1>3, <1>4

LEMMA TracerDiesKeeps ==
    ASSUME IInv, TracerDies
    PROVE  IInv'
<1> USE DEF IInv, TracerDies
<1>1. TypeOK'
  BY DEF TypeOK, Pc, ZygoteState, Stop, Ip
<1>2. Control' /\ InCall' /\ Reached'
  BY DEF TypeOK, Control, InCall, Reached
<1>3. Before' /\ EntryRan' /\ Held'
  BY DEF TypeOK, Before, EntryRan, Held
<1>4. Placed' /\ Copied' /\ Tidy'
  BY DEF TypeOK, Placed, Copied, Tidy
<1> QED BY <1>1, <1>2, <1>3, <1>4

-----------------------------------------------------------------------------
(* The plain path.                                                         *)

LEMMA FirstStopKeeps ==
    ASSUME IInv, FirstStop
    PROVE  IInv'
<1> USE DEF IInv, FirstStop
<1>1. TypeOK'
  BY DEF TypeOK, Pc, ZygoteState, Stop, Ip
<1>2. Control' /\ InCall' /\ Reached'
  BY DEF TypeOK, Control, InCall, Reached
<1>3. Before' /\ EntryRan' /\ Held'
  BY DEF TypeOK, Before, EntryRan, Held
<1>4. Placed' /\ Copied' /\ Tidy'
  BY DEF TypeOK, Placed, Copied, Tidy
<1> QED BY <1>1, <1>2, <1>3, <1>4

LEMMA PoisonKeeps ==
    ASSUME IInv, Poison
    PROVE  IInv'
<1> USE DEF IInv
<1>1. UNCHANGED <<image, entered, got, ip, tango, botched>> /\ result' # "ok"
  BY DEF Poison, Control, TypeOK
<1>2. pc' \in {"entering", "kill"} /\ pc = "poison" /\ stop' \in {stop, "none"}
  BY DEF Poison
<1>3. entered = "no" /\ got # "hooked" BY <1>2 DEF Before
<1>4. TypeOK'
  BY DEF TypeOK, Poison, Pc, ZygoteState, Stop, Ip
<1>5. Control' /\ InCall' /\ Reached'
  BY DEF TypeOK, Control, InCall, Reached, Poison
<1>6. Before'
  <2>1. job /\ UNCHANGED <<job, saved, backup, fd>> BY <1>2 DEF Poison, Held, Control
  <2>2. atEntry' = "poison" => pc' = "entering" BY <1>2 DEF Poison, Before
  <2> QED BY <1>1, <1>2, <1>3, <2>1, <2>2 DEF Before
<1>7. EntryRan' BY <1>1, <1>2, <1>3 DEF EntryRan
<1>8. Held' BY <1>1, <1>2, <1>3 DEF TypeOK, Held, Control, Poison
<1>9. Placed' /\ Copied' /\ Tidy'
  BY DEF TypeOK, Placed, Copied, Tidy, Poison
<1> QED BY <1>4, <1>5, <1>6, <1>7, <1>8, <1>9

LEMMA EnteringKeeps ==
    ASSUME IInv, Entering
    PROVE  IInv'
<1> USE DEF IInv, Entering
<1>1. TypeOK'
  BY DEF TypeOK, Pc, ZygoteState, Stop, Ip
<1>2. Control' /\ InCall' /\ Reached'
  BY DEF TypeOK, Control, InCall, Reached
<1>3. Before' /\ EntryRan' /\ Held'
  BY DEF TypeOK, Before, EntryRan, Held
<1>4. Placed' /\ Copied' /\ Tidy'
  BY DEF TypeOK, Placed, Copied, Tidy
<1> QED BY <1>1, <1>2, <1>3, <1>4

LEMMA UnpoisonKeeps ==
    ASSUME IInv, Unpoison
    PROVE  IInv'
<1> USE DEF IInv, Unpoison
<1>1. TypeOK'
  BY DEF TypeOK, Pc, ZygoteState, Stop, Ip
<1>2. Control' /\ InCall' /\ Reached'
  BY DEF TypeOK, Control, InCall, Reached
<1>3. Before' /\ EntryRan' /\ Held'
  BY DEF TypeOK, Before, EntryRan, Held
<1>4. Placed' /\ Copied' /\ Tidy'
  BY DEF TypeOK, Placed, Copied, Tidy
<1> QED BY <1>1, <1>2, <1>3, <1>4

LEMMA CallEntryKeeps ==
    ASSUME IInv, CallEntry
    PROVE  IInv'
<1> USE DEF IInv, CallEntry
<1>1. TypeOK'
  BY DEF TypeOK, Pc, ZygoteState, Stop, Ip
<1>2. Control' /\ InCall' /\ Reached'
  BY DEF TypeOK, Control, InCall, Reached
<1>3. Before' /\ EntryRan' /\ Held'
  BY DEF TypeOK, Control, InCall, Reached, Before, EntryRan, Held, Placed, Copied, Tidy
<1>4. Placed' /\ Copied' /\ Tidy'
  BY DEF TypeOK, Placed, Copied, Tidy
<1> QED BY <1>1, <1>2, <1>3, <1>4

LEMMA CalledKeeps ==
    ASSUME IInv, Called
    PROVE  IInv'
<1> USE DEF IInv, Called
<1>1. TypeOK'
  BY DEF TypeOK, Pc, ZygoteState, Stop, Ip
<1>2. Control' /\ InCall' /\ Reached'
  BY DEF TypeOK, Control, InCall, Reached
<1>3. Before' /\ EntryRan' /\ Held'
  BY DEF TypeOK, Before, EntryRan, Held
<1>4. Placed' /\ Copied' /\ Tidy'
  BY DEF TypeOK, Placed, Copied, Tidy
<1> QED BY <1>1, <1>2, <1>3, <1>4

LEMMA RewindKeeps ==
    ASSUME IInv, Rewind
    PROVE  IInv'
<1> USE DEF IInv, Rewind
<1>1. TypeOK'
  BY DEF TypeOK, Pc, ZygoteState, Stop, Ip
<1>2. Control' /\ InCall' /\ Reached'
  BY DEF TypeOK, Control, InCall, Reached
<1>3. Before' /\ EntryRan' /\ Held'
  BY DEF TypeOK, Before, EntryRan, Held
<1>4. Placed' /\ Copied' /\ Tidy'
  BY DEF TypeOK, Placed, Copied, Tidy
<1> QED BY <1>1, <1>2, <1>3, <1>4

(* The group stop ends, which nothing but the injection then holds back.   *)
LEMMA ContinueKeeps ==
    ASSUME IInv, Continue
    PROVE  IInv'
<1> USE DEF IInv
<1>1. /\ UNCHANGED <<image, entered, got, ip, atEntry, tango, saved, backup, fd, missed,
                botched>>
      /\ pc = "continue" /\ pc' \in {"drain", "kill"}
      /\ result' # "ok" /\ stop' \in {stop, "none"}
  BY DEF Continue, Control, TypeOK
<1>2. job' \in BOOLEAN BY DEF TypeOK, Continue
<1>3. Injected
  <2>1. entered = "returned" /\ ip = "entry" BY <1>1 DEF EntryRan
  <2>2. Whole BY <2>1 DEF EntryRan
  <2>3. atEntry = "entry" /\ got # "hooked" BY <1>1 DEF Before, Control, TypeOK
  <2> QED BY <2>1, <2>2, <2>3
<1>4. Injected' BY <1>1, <1>3
<1>5. TypeOK'
  BY <1>2 DEF TypeOK, Continue, Pc, ZygoteState, Stop
<1>6. Control' /\ InCall' /\ Reached'
  BY DEF TypeOK, Control, InCall, Reached, Continue
<1>7. Before' BY <1>1, <1>3 DEF Before
<1>8. EntryRan' BY <1>1, <1>3, <1>4 DEF EntryRan
<1>9. Held' BY <1>1, <1>4 DEF Held
<1>10. Placed' /\ Copied' /\ Tidy'
  BY DEF TypeOK, Placed, Copied, Tidy, Continue
<1> QED BY <1>5, <1>6, <1>7, <1>8, <1>9, <1>10

LEMMA DrainKeeps ==
    ASSUME IInv, Drain
    PROVE  IInv'
<1> USE DEF IInv, Drain
<1>1. TypeOK'
  BY DEF TypeOK, Pc, ZygoteState, Stop, Ip
<1>2. Control' /\ InCall' /\ Reached'
  BY DEF TypeOK, Control, InCall, Reached
<1>3. Before' /\ EntryRan' /\ Held'
  BY DEF TypeOK, Before, EntryRan, Held
<1>4. Placed' /\ Copied' /\ Tidy'
  BY DEF TypeOK, Placed, Copied, Tidy
<1> QED BY <1>1, <1>2, <1>3, <1>4

LEMMA ContKeeps ==
    ASSUME IInv, Cont
    PROVE  IInv'
<1> USE DEF IInv, Cont
<1>1. TypeOK'
  BY DEF TypeOK, Pc, ZygoteState, Stop, Ip
<1>2. Control' /\ InCall' /\ Reached'
  BY DEF TypeOK, Control, InCall, Reached
<1>3. Before' /\ EntryRan' /\ Held'
  BY DEF TypeOK, Before, EntryRan, Held
<1>4. Placed' /\ Copied' /\ Tidy'
  BY DEF TypeOK, Placed, Copied, Tidy
<1> QED BY <1>1, <1>2, <1>3, <1>4

LEMMA LastKeeps ==
    ASSUME IInv, Last
    PROVE  IInv'
<1> USE DEF IInv, Last
<1>1. TypeOK'
  BY DEF TypeOK, Pc, ZygoteState, Stop, Ip
<1>2. Control' /\ InCall' /\ Reached'
  BY DEF TypeOK, Control, InCall, Reached
<1>3. Before' /\ EntryRan' /\ Held'
  BY DEF TypeOK, Before, EntryRan, Held
<1>4. Placed' /\ Copied' /\ Tidy'
  BY DEF TypeOK, Placed, Copied, Tidy
<1> QED BY <1>1, <1>2, <1>3, <1>4

-----------------------------------------------------------------------------
(* The tango path.                                                         *)

LEMMA InterruptKeeps ==
    ASSUME IInv, Interrupt
    PROVE  IInv'
<1> USE DEF IInv, Interrupt
<1>1. TypeOK'
  BY DEF TypeOK, Pc, ZygoteState, Stop, Ip
<1>2. Control' /\ InCall' /\ Reached'
  BY DEF TypeOK, Control, InCall, Reached
<1>3. Before' /\ EntryRan' /\ Held'
  BY DEF TypeOK, Before, EntryRan, Held
<1>4. Placed' /\ Copied' /\ Tidy'
  BY DEF TypeOK, Placed, Copied, Tidy
<1> QED BY <1>1, <1>2, <1>3, <1>4

LEMMA DrainTangoKeeps ==
    ASSUME IInv, DrainTango
    PROVE  IInv'
<1> USE DEF IInv, DrainTango
<1>1. TypeOK'
  BY DEF TypeOK, Pc, ZygoteState, Stop, Ip
<1>2. Control' /\ InCall' /\ Reached'
  BY DEF TypeOK, Control, InCall, Reached
<1>3. Before' /\ EntryRan' /\ Held'
  BY DEF TypeOK, Control, InCall, Before, EntryRan, Held
<1>4. Placed' /\ Copied' /\ Tidy'
  BY DEF TypeOK, Placed, Copied, Tidy
<1> QED BY <1>1, <1>2, <1>3, <1>4

LEMMA TangoLostKeeps ==
    ASSUME IInv, TangoLost
    PROVE  IInv'
<1> USE DEF IInv, TangoLost
<1>1. TypeOK'
  BY DEF TypeOK, Pc, ZygoteState, Stop, Ip
<1>2. Control' /\ InCall' /\ Reached'
  BY DEF TypeOK, Control, InCall, Reached
<1>3. Before' /\ EntryRan' /\ Held'
  BY DEF TypeOK, Before, EntryRan, Held
<1>4. Placed' /\ Copied' /\ Tidy'
  BY DEF TypeOK, Placed, Copied, Tidy
<1> QED BY <1>1, <1>2, <1>3, <1>4

LEMMA WatchKeeps ==
    ASSUME IInv, Watch
    PROVE  IInv'
<1> USE DEF IInv, Watch
<1>1. TypeOK'
  BY DEF TypeOK, Control, Pc, ZygoteState, Stop, Ip
<1>2. Control' /\ InCall' /\ Reached'
  BY DEF TypeOK, Control, InCall, Reached
<1>3. Before' /\ EntryRan' /\ Held'
  BY DEF TypeOK, Control, Before, EntryRan, Held
<1>4. Placed' /\ Copied' /\ Tidy'
  BY DEF TypeOK, Placed, Copied, Tidy
<1> QED BY <1>1, <1>2, <1>3, <1>4

LEMMA StepStopsKeeps ==
    ASSUME IInv, StepStops
    PROVE  IInv'
<1> USE DEF IInv, StepStops
<1>1. TypeOK'
  BY DEF TypeOK, Control, Pc, ZygoteState, Stop, Ip
<1>2. Control' /\ InCall' /\ Reached'
  BY DEF TypeOK, Control, InCall, Reached
<1>3. Before' /\ EntryRan' /\ Held'
  BY DEF TypeOK, Control, Before, EntryRan, Held
<1>4. Placed' /\ Copied' /\ Tidy'
  BY DEF TypeOK, Placed, Copied, Tidy
<1> QED BY <1>1, <1>2, <1>3, <1>4

LEMMA LeaveKeeps ==
    ASSUME IInv, Leave
    PROVE  IInv'
<1> USE DEF IInv, Leave
<1>1. TypeOK'
  BY DEF TypeOK, Pc, ZygoteState, Stop, Ip
<1>2. Control' /\ InCall' /\ Reached'
  BY DEF TypeOK, Control, InCall, Reached
<1>3. Before' /\ EntryRan' /\ Held'
  BY DEF TypeOK, Before, EntryRan, Held
<1>4. Placed' /\ Copied' /\ Tidy'
  BY DEF TypeOK, Placed, Copied, Tidy
<1> QED BY <1>1, <1>2, <1>3, <1>4

LEMMA HookKeeps ==
    ASSUME IInv, Hook
    PROVE  IInv'
<1> USE DEF IInv, Hook
<1>1. TypeOK'
  BY DEF TypeOK, Control, Pc, ZygoteState, Stop, Ip
<1>2. Control' /\ InCall' /\ Reached'
  BY DEF TypeOK, Control, InCall, Reached, Before, EntryRan
<1>3. Before' /\ EntryRan' /\ Held'
  BY DEF TypeOK, Control, InCall, Reached, Before, EntryRan, Held, Placed, Copied, Tidy
<1>4. Placed' /\ Copied' /\ Tidy'
  BY DEF TypeOK, Placed, Copied, Tidy
<1> QED BY <1>1, <1>2, <1>3, <1>4

LEMMA AwaitKeeps ==
    ASSUME IInv, Await
    PROVE  IInv'
<1> USE DEF IInv, Await
<1>1. TypeOK'
  BY DEF TypeOK, Pc, ZygoteState, Stop, Ip
<1>2. Control' /\ InCall' /\ Reached'
  BY DEF TypeOK, Control, InCall, Reached
<1>3. Before' /\ EntryRan' /\ Held'
  BY DEF TypeOK, Control, Before, EntryRan, Held
<1>4. Placed' /\ Copied' /\ Tidy'
  BY DEF TypeOK, Placed, Copied, Tidy
<1> QED BY <1>1, <1>2, <1>3, <1>4

(* Whatever the writes that end the injection come to, the library's entry *)
(* has returned, and so its image is whole.                                *)
LEMMA UnhookKeeps ==
    ASSUME IInv, Unhook
    PROVE  IInv'
<1> USE DEF IInv, Unhook
<1>1. TypeOK'
  <2>1. tries' \in 0 .. MaxStepRetries /\ faults' \in 0 .. MaxFaults
    BY DEF TypeOK
  <2>2. got' \in {"absent", "initial", "resolved", "hooked"} /\ ip' \in Ip
    BY DEF TypeOK, Ip
  <2>3. botched' \in BOOLEAN
    BY DEF TypeOK
  <2> QED BY <2>1, <2>2, <2>3 DEF TypeOK, Pc, ZygoteState, Stop
<1>2. Control' /\ InCall' /\ Reached'
  BY DEF TypeOK, Control, InCall, Reached, EntryRan
<1>3. Before' /\ EntryRan' /\ Held'
  BY DEF TypeOK, Control, Before, EntryRan, Held
<1>4. Placed' /\ Copied' /\ Tidy'
  BY DEF TypeOK, Placed, Copied, Tidy
<1> QED BY <1>1, <1>2, <1>3, <1>4

-----------------------------------------------------------------------------
(* The theorems.                                                           *)

LEMMA InitHolds == Init => IInv
<1> SUFFICES ASSUME Init PROVE IInv OBVIOUS
<1> USE DEF Init
<1>1. NoImage \in Image BY DEF Image, SegState
<1>2. TypeOK
  <2>1. tango \in BOOLEAN /\ job \in BOOLEAN OBVIOUS
  <2>2. seg \in 1 .. NSegs /\ asked \in Calls \X (1 .. NSegs) OBVIOUS
  <2>3. pc \in Pc /\ zygote \in ZygoteState /\ ip \in Ip /\ saved \in Ip /\ backup \in Ip
    BY DEF Pc, ZygoteState, Ip
  <2>4. tries \in 0 .. MaxStepRetries /\ signals \in 0 .. MaxSignals /\ faults \in 0 .. MaxFaults
    OBVIOUS
  <2>5. stop \in Stop BY DEF Stop
  <2>6. /\ result = "none" /\ watch = "none" /\ phase = "idle" /\ how = "cont" /\ kret = "ok"
        /\ due = "none" /\ atEntry = "entry" /\ got = "absent" /\ entered = "no"
        /\ fd = FALSE /\ inSys = FALSE /\ linked = FALSE /\ missed = FALSE /\ botched = FALSE
        /\ image \in Image
    BY <1>1
  <2> HIDE DEF Init
  <2> QED BY <2>1, <2>2, <2>3, <2>4, <2>5, <2>6 DEF TypeOK
<1>3. Control /\ InCall /\ Reached BY DEF Control, InCall, Reached
<1>4. Before /\ EntryRan /\ Held BY DEF Before, EntryRan, Held
<1>5. Placed /\ Copied /\ Tidy BY DEF Placed, Copied, Tidy
<1> QED BY <1>2, <1>3, <1>4, <1>5 DEF IInv

LEMMA StutterKeeps ==
    ASSUME IInv, UNCHANGED vars
    PROVE  IInv'
<1> USE DEF vars
<1>1. TypeOK' BY DEF IInv, TypeOK
<1>2. Control' /\ InCall' /\ Reached' BY DEF IInv, Control, InCall, Reached
<1>3. Before' /\ EntryRan' /\ Held' BY DEF IInv, Before, EntryRan, Held
<1>4. Placed' /\ Copied' /\ Tidy' BY DEF IInv, Placed, Copied, Tidy
<1> QED BY <1>1, <1>2, <1>3, <1>4 DEF IInv

LEMMA NextKeeps ==
    ASSUME IInv, [Next]_vars
    PROVE  IInv'
<1>1. CASE ZygoteStep
  BY <1>1, LinkerDoneKeeps, TangoRunsKeeps, EntryReturnsKeeps, CrashesKeeps,
     InterruptedKeeps, ReportsKeeps, OwnSyscallKeeps, GadgetEntersKeeps, GadgetExitsKeeps,
     UnparkedKeeps, DiesKeeps DEF ZygoteStep
<1>2. CASE LoaderNext
  BY <1>2, LoaderStepKeeps, CallKeeps, NoLockKeeps, CallStopsKeeps, CallLostKeeps,
     NoLoadKeeps DEF LoaderNext
<1>3. CASE PlainNext
  BY <1>3, FirstStopKeeps, PoisonKeeps, EnteringKeeps, UnpoisonKeeps, CallEntryKeeps,
     CalledKeeps, RewindKeeps, ContinueKeeps, DrainKeeps, ContKeeps, LastKeeps DEF PlainNext
<1>4. CASE TangoNext
  BY <1>4, InterruptKeeps, DrainTangoKeeps, TangoLostKeeps, WatchKeeps, StepStopsKeeps,
     LeaveKeeps, HookKeeps, AwaitKeeps, UnhookKeeps DEF TangoNext
<1>5. CASE Seize \/ Swallow \/ WaitFails \/ Kill \/ Exit \/ TracerDies
  BY <1>5, SeizeKeeps, SwallowKeeps, WaitFailsKeeps, KillKeeps, ExitKeeps, TracerDiesKeeps
<1>6. CASE UNCHANGED vars BY <1>6, StutterKeeps
<1> QED BY <1>1, <1>2, <1>3, <1>4, <1>5, <1>6 DEF Next, TracerStep

LEMMA InvariantHolds == Spec => []IInv
BY InitHolds, NextKeeps, PTL DEF Spec

(* The variables hold values of their types.                               *)
THEOREM TypeCorrect == Spec => []TypeOK
BY InvariantHolds, PTL DEF IInv

(* The entry of the injected library runs only in a completely mapped      *)
(* image, whatever failed on the way.  While the loader is at work it has  *)
(* not run; the loader comes to its end only with every segment in place,  *)
(* and no syscall it has given up can then change a segment any more.      *)
THEOREM WholeImageRuns == Spec => []OnlyWholeImageRuns
<1>1. IInv => OnlyWholeImageRuns BY DEF IInv, EntryRan, OnlyWholeImageRuns
<1> QED BY <1>1, InvariantHolds, PTL

(* Nothing is mapped into the zygote before its own linker is done.        *)
THEOREM InjectsAfterLinker == Spec => []AfterLinker
<1>1. IInv => AfterLinker BY DEF IInv, Reached, AfterLinker
<1> QED BY <1>1, InvariantHolds, PTL

(* A zygote that runs without a tracer is untouched or completely injected *)
(* and restored, but for a tango one whose injection has failed, or whose  *)
(* library is complete and the writes after its entry failed.  A plain     *)
(* zygote is under its group stop from before the first write to it until  *)
(* it is whole, so even a tracer that is killed leaves it parked or dead.  *)
THEOREM ReleasesWhole == Spec => []ReleasedWhole
<1>1. ASSUME IInv, zygote = "free", tango
      PROVE  \/ Injected
             \/ Untouched /\ result # "ok"
             \/ pc = "kill" \/ result = "crashed"
             \/ botched /\ Whole /\ entered = "returned"
  <2>1. CASE result = "ok"
    <3>1. Injected \/ botched BY <1>1, <2>1 DEF IInv, EntryRan
    <3>2. botched => entered = "returned" /\ Whole BY <1>1 DEF IInv, EntryRan
    <3> QED BY <3>1, <3>2
  <2>2. CASE result = "none"
    <3>1. pc = "seize" BY <1>1, <2>2 DEF IInv, Control
    <3> QED BY <1>1, <2>2, <3>1 DEF IInv, Before
  <2>3. CASE result = "failed" BY <1>1, <2>3 DEF IInv, Control
  <2> QED BY <1>1, <2>1, <2>2, <2>3 DEF IInv, TypeOK
<1>2. ASSUME IInv, zygote = "free", ~tango
      PROVE  Injected \/ (Untouched /\ result # "ok")
  BY <1>2 DEF IInv, Control, Held
<1>3. IInv => ReleasedWhole
  <2> HIDE DEF Injected, Untouched, Whole
  <2> SUFFICES ASSUME IInv, zygote = "free"
               PROVE  \/ Injected
                      \/ Untouched /\ result # "ok"
                      \/ tango /\ (pc = "kill" \/ result = "crashed")
                      \/ tango /\ botched /\ Whole /\ entered = "returned"
    BY DEF IInv, ReleasedWhole
  <2>1. CASE tango BY <1>1, <2>1
  <2>2. CASE ~tango BY <1>2, <2>2
  <2> QED BY <2>1, <2>2
<1> QED BY <1>3, InvariantHolds, PTL

(* A zygote released as injected keeps neither the scratch page nor the    *)
(* memfd, unless a call of the loader was cut short or a cleanup failed.   *)
THEOREM ReleasesTidy == Spec => []TidyRelease
<1>1. IInv => TidyRelease BY DEF IInv, Tidy, TidyRelease
<1> QED BY <1>1, InvariantHolds, PTL

(* A segment gets its final protection only after its contents have been   *)
(* written and the whole image has been relocated: no syscall given up and *)
(* completed late protects a segment the loader still has to write.        *)
CopiedFirst ==
    \A s \in 1 .. NSegs :
        image.segs[s] # "final" /\ image'.segs[s] = "final"
            => image.segs[s] = "rw" /\ image.relocated

THEOREM CopiesFirst == Spec => [][CopiedFirst]_vars
<1>1. ASSUME IInv, Next PROVE CopiedFirst
  <2>1. CASE UNCHANGED image BY <2>1 DEF CopiedFirst
  <2>2. CASE GadgetExits
    <3>1. asked[1] \in Calls /\ asked[2] \in 1 .. NSegs /\ inSys /\ 1 \in 1 .. NSegs
      BY <1>1, <2>2 DEF IInv, TypeOK, GadgetExits
    <3>2. \/ image' = image
          \/ EffectOf(asked[1], asked[2], image')
          \/ asked[1] = "reserve" /\ EffectOf("reserve", 1, image')
      BY <1>1, <2>2, <3>1, EffectFields DEF IInv, GadgetExits
    <3>3. \/ image' = image \/ image'.segs = image.segs
          \/ \E r \in {"raw", "final"} :
                /\ image'.segs = [image.segs EXCEPT ![asked[2]] = r]
                /\ r = "final" => asked[1] = "protect"
          \/ \A k \in 1 .. NSegs : image'.segs[k] = "none"
      BY <3>1, <3>2 DEF EffectOf
    <3>4. image.segs \in [1 .. NSegs -> SegState] BY <1>1 DEF IInv, TypeOK, Image
    <3>5. asked[1] = "protect" => image.relocated /\ image.segs[asked[2]] = "rw"
      BY <1>1, <3>1 DEF IInv, Copied
    <3> QED BY <3>1, <3>3, <3>4, <3>5 DEF CopiedFirst
  <2>3. CASE LoaderStep
    <3>1. image' = image \/ image' = [image EXCEPT !.segs[seg] = "rw"]
                         \/ image' = [image EXCEPT !.relocated = TRUE]
      BY <2>3, LocalFailsTo DEF LoaderStep, LocalDone, Prepare, WriteName, StageImage,
                                CopySegment, Relocate, ResolveEntry
    <3> QED BY <1>1, <3>1 DEF IInv, TypeOK, Image, SegState, CopiedFirst
  <2> QED BY <1>1, <2>1, <2>2, <2>3
      DEF Next, ZygoteStep, TracerStep, LoaderNext, PlainNext, TangoNext,
          LinkerDone, TangoRuns, EntryReturns, Crashes, Interrupted, Reports, OwnSyscall,
          GadgetEnters, Unparked, Dies, Call, NoLock, CallStops, CallLost, NoLoad,
          FirstStop, Poison, Entering, Unpoison, CallEntry, Called, Rewind, Continue,
          Drain, Cont, Last, Interrupt, DrainTango, TangoLost, Watch, StepStops, Leave,
          Hook, Await, Unhook, Seize, Swallow, WaitFails, Kill, Exit, TracerDies
<1> QED BY <1>1, InvariantHolds, PTL DEF Spec

=============================================================================
