-------------------------- MODULE PltHooksProofs --------------------------
(* What holds of the hooks in import tables whatever the libraries, their    *)
(* relocations, the hooks of the loader and of the modules, and the number   *)
(* of registrations and of failing protection calls.                         *)
EXTENDS PltHooks, SequenceTheorems, TLAPS

(* What a slot can hold: the function the platform linked there, a module's  *)
(* hook for that symbol, or a hook of the loader at one of its own slots.    *)
Fits(x, s) ==
    \/ x = SymOf[s]
    \/ x \in ModuleFns /\ SymOf[s] \in Serves[x]
    \/ \E h \in LoaderHooks : x = h.fn /\ s \in HookSlots(h)

IsRecordOf(r, h) == r.key = "file" /\ r.lib = h.lib /\ r.name = h.name

ValuesFit ==
    /\ \A s \in Slots : Fits(got[s], s) /\ (stash[s] # Empty => Fits(stash[s], s))
    /\ \A r \in hooks : Fits(r.original, r.slot)
    /\ \A r \in hooks : r.key = "file" =>
           \E h \in LoaderHooks : IsRecordOf(r, h) /\ r.slot \in HookSlots(h)

(* A hook that is anywhere to be found has its cell written, with something  *)
(* for the same symbol.                                                      *)
Full(x) == x \in Fns => backup[x] # Empty

CellsAreFull ==
    /\ \A s \in Slots : Full(got[s]) /\ Full(stash[s])
    /\ \A r \in hooks : Full(r.original)
    /\ \A f \in Fns : Full(backup[f])

CellsFit ==
    \A f \in Fns : backup[f] # Empty =>
        \A y \in Serves[f] : backup[f] = y \/ (backup[f] \in Fns /\ y \in Serves[backup[f]])

NoLoops ==
    \A S \in SUBSET {f \in Fns : backup[f] # Empty} : S # {} => \E f \in S : backup[f] \notin S

(* The calls of a job.                                                       *)
LoaderCall(c) ==
    \E h \in LoaderHooks : /\ c \in {FileCall("add", h), FileCall("remove", h)}
                           /\ c.op = "remove" /\ h # PropertyHook => job = "unhook"

ModuleCall(c) ==
    /\ c.key = "path" /\ c.op \in {"add", "skip"} /\ c.by = "exact" /\ c.fn \in ModuleFns
    /\ c.name \in Symbols => c.name \in Serves[c.fn]

CallsFit ==
    /\ \A i \in DOMAIN todo : LoaderCall(todo[i]) \/ ModuleCall(todo[i])
    /\ job = "unhook" => phase = "app" /\ \A i \in DOMAIN todo : todo[i].op = "remove"
    /\ job = "none" => todo = <<>>

StepFits ==
    /\ step # "call" => todo # <<>>
    /\ step \in {"slot", "write", "undo"} => Call.op = "add"
    /\ step \in {"slot", "write"} => Call.lib \in infos
    /\ step \in {"slot", "write"} => places \subseteq FindPltAddrs(Call.lib, Call.name, Call.by)
    /\ step \in {"call", "slot", "write"} => back = {}
    /\ step = "write" => backup[Call.fn] # Empty
    /\ step = "restore" => Call.op = "remove" /\ back \subseteq Mine

(* A read-only region is replaced as a whole, and what is saved of it is     *)
(* what the platform linked.                                                 *)
SavedAsLinked ==
    \A s \in Slots :
        /\ stash[s] # Empty => Region[s] = "relro" /\ (stash[s] = SymOf[s] \/ s \in unsure)
        /\ Region[s] = "relro" /\ stash[s] = Empty => got[s] = SymOf[s] \/ s \in unsure
        /\ \A t \in Slots : SameVma(s, t) /\ stash[s] = Empty => stash[t] = Empty

(* A region is replaced only for the slot that is to be written, and what a  *)
(* lost one holds is known to be.                                            *)
HolesFit ==
    /\ gone \subseteq unsure
    /\ swap = "no" => moving = {}
    /\ swap # "no" => \E t \in Slots : Target(t) /\ moving = Vma(t)

(* The slots that still obey, and those a module has a record of.            *)
Sure == Slots \ unsure
HasPath(s) == \E r \in hooks : r.slot = s /\ r.key = "path"
HasFile(h, s) == \E r \in hooks : r.slot = s /\ IsRecordOf(r, h)

(* Where no module has a record, a slot holds what the platform linked or a  *)
(* hook of the loader that has one.                                          *)
LoaderRecorded ==
    \A s \in Sure : ~HasPath(s) /\ got[s] # SymOf[s] =>
        got[s] \in LoaderFns /\ \E r \in hooks : r.slot = s

(* What the loader's records give back.                                      *)
OriginalsFit ==
    \A r \in hooks : r.key = "file" /\ r.slot \in Sure =>
        r.original \notin LoaderFns /\ (~HasPath(r.slot) => r.original = SymOf[r.slot])

Core == LoaderHooks \ {PropertyHook}
Waits(h) == \E i \in DOMAIN todo : todo[i] = FileCall("remove", h)

(* The core hooks that are not taken out yet have a record wherever they     *)
(* are, or come back by a module's record.                                   *)
CoreRecorded ==
    /\ \A h \in Core : (job = "unhook" => Waits(h)) =>
           \A s \in Sure : got[s] = h.fn => HasFile(h, s)
    /\ job # "unhook" => \A r \in hooks : r.key = "path" /\ r.slot \in Sure =>
           \A h \in Core : r.original = h.fn => HasFile(h, r.slot)

(* A removal at work, and those that are done with.                          *)
Restored ==
    step = "restore" => \A r \in Mine \ back : r.slot \in Sure =>
        got[r.slot] \notin LoaderFns /\ (~HasPath(r.slot) => got[r.slot] = SymOf[r.slot])

TakenOut ==
    job = "unhook" /\ ok => \A h \in Core : ~Waits(h) => \A s \in Sure : got[s] # h.fn

InUse == LoaderRecorded /\ OriginalsFit /\ CoreRecorded /\ Restored /\ TakenOut

Unmapped ==
    ~mapped => /\ phase = "over" /\ job = "none"
               /\ \A s \in Slots : stash[s] = Empty
               /\ \A s \in Sure : got[s] \in LoaderFns => got[s] = PropertyHook.fn

IInv ==
    /\ TypeOK /\ ValuesFit /\ CellsAreFull /\ CellsFit /\ NoLoops
    /\ CallsFit /\ StepFits /\ SavedAsLinked /\ HolesFit
    /\ phase # "over" => InUse
    /\ Unmapped

-----------------------------------------------------------------------------
(* The constants                                                             *)

(* The relocations a name is looked up in lead to slots of a symbol it       *)
(* matches.                                                                  *)
LEMMA PlaceIsSlot ==
    ASSUME NEW lib \in Libs, NEW name, NEW by, NEW p \in FindPltAddrs(lib, name, by)
    PROVE  /\ p \in DOMAIN Relocs[lib]
           /\ Relocs[lib][p].slot \in Slots
           /\ SymOf[Relocs[lib][p].slot] \in Names(name, by)
           /\ SymOf[Relocs[lib][p].slot] \in Symbols
<1>1. p \in DOMAIN Relocs[lib] /\ Relocs[lib][p].sym \in Names(name, by)
  BY DEF FindPltAddrs, CollectRelocs
<1>2. Relocs[lib][p].slot \in Slots /\ Relocs[lib][p].sym = SymOf[Relocs[lib][p].slot]
  BY <1>1, PltAssumption
<1> QED
  BY <1>1, <1>2 DEF Symbols

(* Loader functions are functions, so are those of modules.                  *)
LEMMA LoaderFnsAreFns == \A h \in LoaderHooks : h.fn \in LoaderFns /\ h.fn \in Fns
  BY DEF LoaderFns, Fns

LEMMA ModuleFnsAreFns == \A h \in V3Hooks \cup V4Hooks : h.fn \in ModuleFns /\ h.fn \in Fns
  BY DEF ModuleFns, Fns

(* A hook of the loader serves the symbols of its slots.                     *)
LEMMA HookSlotsServe ==
    ASSUME NEW h \in LoaderHooks, NEW s \in HookSlots(h)
    PROVE  s \in Slots /\ SymOf[s] \in Serves[h.fn]
<1>1. h.lib \in Libs /\ h.fn \in Fns
  BY HookAssumption, LoaderFnsAreFns
<1>2. PICK i \in FindPltAddrs(h.lib, h.name, h.by) : s = Relocs[h.lib][i].slot
  BY DEF HookSlots
<1>3. s \in Slots /\ SymOf[s] \in Names(h.name, h.by) /\ SymOf[s] \in Symbols
  BY <1>1, <1>2, PlaceIsSlot
<1> QED
  BY <1>1, <1>3 DEF Serves

(* A symbol is no function, and neither is the empty cell.                   *)
LEMMA SymbolsApart ==
    /\ \A s \in Slots : SymOf[s] \in Symbols /\ SymOf[s] \notin Fns
    /\ \A x \in Symbols \cup Fns : x # Empty
    /\ \A x \in LoaderFns : x \notin ModuleFns /\ x \in Fns
    /\ \A x \in ModuleFns : x \notin LoaderFns /\ x \in Fns
  BY HookAssumption DEF Symbols, Fns

(* What fits a slot goes on to its symbol.                                   *)
LEMMA FitsServes ==
    ASSUME NEW x, NEW s \in Slots, Fits(x, s)
    PROVE  /\ x \in Symbols \cup Fns /\ x # Empty
           /\ x = SymOf[s] \/ (x \in Fns /\ SymOf[s] \in Serves[x])
  BY HookSlotsServe, SymbolsApart, LoaderFnsAreFns DEF Fits

(* A function of the loader fits the slots of its hook, and no other.        *)
LEMMA FitsLoader ==
    ASSUME NEW h \in LoaderHooks, NEW s \in Slots, Fits(h.fn, s)
    PROVE  s \in HookSlots(h)
<1>1. h.fn \in LoaderFns /\ h.fn # SymOf[s] /\ h.fn \notin ModuleFns
  BY LoaderFnsAreFns, SymbolsApart
<1>2. PICK g \in LoaderHooks : h.fn = g.fn /\ s \in HookSlots(g)
  BY <1>1 DEF Fits
<1> QED
  BY <1>2, HookAssumption

(* A slot has one hook of the loader.                                        *)
LEMMA OneLoaderHook ==
    ASSUME NEW g \in LoaderHooks, NEW h \in LoaderHooks, NEW s \in HookSlots(g) \cap HookSlots(h)
    PROVE  g = h
  BY HookAssumption

-----------------------------------------------------------------------------
(* What the steps do                                                         *)

(* The first call of a job and those that follow it.                         *)
LEMMA CallsLeft ==
    ASSUME TypeOK, todo # <<>>
    PROVE  /\ Call = todo[1] /\ 1 \in DOMAIN todo /\ Call \in Calls
           /\ Tail(todo) \in Seq(Calls)
           /\ \A i \in DOMAIN Tail(todo) : i + 1 \in DOMAIN todo /\ Tail(todo)[i] = todo[i + 1]
           /\ \A i \in DOMAIN todo : i # 1 =>
                  \E j \in DOMAIN Tail(todo) : Tail(todo)[j] = todo[i]
<1>1. todo \in Seq(Calls)
  BY DEF TypeOK
<1>2. Tail(todo) \in Seq(Calls) /\ Len(Tail(todo)) = Len(todo) - 1 /\ Len(todo) \in Nat
      /\ Len(todo) # 0
  BY <1>1, HeadTailProperties, EmptySeq, LenProperties
<1>3. \A i \in 1 .. Len(Tail(todo)) : Tail(todo)[i] = todo[i + 1]
  BY <1>1, HeadTailProperties
<1>4. DOMAIN todo = 1 .. Len(todo) /\ DOMAIN Tail(todo) = 1 .. Len(Tail(todo))
  BY <1>1, <1>2, LenProperties
<1>5. Call = todo[1] /\ 1 \in DOMAIN todo /\ Call \in Calls
  BY <1>1, <1>2, <1>4 DEF Call
<1>6. ASSUME NEW i \in DOMAIN todo, i # 1
      PROVE  \E j \in DOMAIN Tail(todo) : Tail(todo)[j] = todo[i]
  <2>1. i - 1 \in 1 .. Len(Tail(todo)) /\ (i - 1) + 1 = i
    BY <1>2, <1>4, <1>6
  <2> QED
    BY <2>1, <1>3, <1>4
<1>7. \A i \in DOMAIN Tail(todo) : i + 1 \in DOMAIN todo
  BY <1>2, <1>4
<1> QED
  BY <1>2, <1>3, <1>4, <1>5, <1>6, <1>7

(* A write, and one that fails, of a slot.                                   *)
WritesSlot(s, v) ==
    /\ stash' \in {stash, StashVma(s)}
    /\ got' = got \/ (got' = [got EXCEPT ![s] = v] /\ stash' = StashVma(s))
    /\ unsure' \in {unsure, unsure \cup {s}, unsure \cup moving}
    /\ faults' \in 0 .. MaxFaults
    /\ swap' \in {"no", "moved", "zero"} /\ moving' \in {moving, {}, Vma(s)}
    /\ gone' \in {gone, gone \cup moving}

(* A write that succeeds, one that fails, and a step of the replacement that *)
(* comes before are such writes.                                             *)
LEMMA ApplyWrites ==
    ASSUME TypeOK, NEW s, NEW v, ApplyHook(s, v), unsure' \in {unsure, unsure \cup {s}},
           faults' = faults
    PROVE  WritesSlot(s, v)
<1>1. stash' = stash /\ stash = StashVma(s) /\ got' = [got EXCEPT ![s] = v]
      /\ UNCHANGED <<swap, moving, gone>>
  BY DEF ApplyHook, StashVma
<1> QED
  BY <1>1 DEF TypeOK, WritesSlot

LEMMA RefuseWrites ==
    ASSUME TypeOK, NEW s, NEW v, RefuseHook(s, v)
    PROVE  WritesSlot(s, v)
<1>1. faults \in 0 .. MaxFaults /\ MaxFaults \in Nat /\ swap \in {"no", "moved", "zero"}
  BY PltAssumption DEF TypeOK
<1>2. faults' \in 0 .. MaxFaults
  BY <1>1 DEF RefuseHook, memory
<1>3. CASE swap = "no" /\ UNCHANGED <<got, stash, unsure, swap, moving, gone>>
  BY <1>1, <1>2, <1>3 DEF WritesSlot
<1>4. CASE ApplyHook(s, v) /\ unsure' = unsure \cup {s}
  <2>1. stash' = stash /\ stash = StashVma(s) /\ got' = [got EXCEPT ![s] = v]
        /\ UNCHANGED <<swap, moving, gone>>
    BY <1>4 DEF ApplyHook, StashVma
  <2> QED
    BY <1>1, <1>2, <1>4, <2>1 DEF WritesSlot
<1>5. CASE MoveBack
  BY <1>1, <1>2, <1>5 DEF MoveBack, WritesSlot
<1>6. CASE swap = "no" /\ UNCHANGED memory
  BY <1>1, <1>2, <1>6 DEF memory, WritesSlot
<1> QED
  BY <1>3, <1>4, <1>5, <1>6 DEF RefuseHook

LEMMA ReplaceWrites ==
    ASSUME TypeOK, NEW s, NEW v, MoveVma(s) \/ ZeroVma \/ CopyVma(s)
    PROVE  WritesSlot(s, v)
  BY DEF TypeOK, MoveVma, ZeroVma, CopyVma, WritesSlot

(* Such a write keeps the types.                                             *)
LEMMA WriteTyped ==
    ASSUME TypeOK, NEW s \in Slots, NEW v \in Symbols \cup Fns, WritesSlot(s, v)
    PROVE  /\ got' \in [Slots -> Symbols \cup Fns]
           /\ stash' \in [Slots -> Symbols \cup Fns \cup {Empty}]
           /\ unsure' \subseteq Slots /\ faults' \in 0 .. MaxFaults
           /\ swap' \in {"no", "moved", "zero"} /\ moving' \subseteq Slots
           /\ gone' \subseteq Slots
<1>1. got \in [Slots -> Symbols \cup Fns] /\ stash \in [Slots -> Symbols \cup Fns \cup {Empty}]
      /\ unsure \subseteq Slots /\ moving \subseteq Slots /\ gone \subseteq Slots
  BY DEF TypeOK
<1>2. StashVma(s) \in [Slots -> Symbols \cup Fns \cup {Empty}] /\ Vma(s) \subseteq Slots
  BY <1>1 DEF StashVma, Vma
<1> QED
  BY <1>1, <1>2 DEF WritesSlot

(* The slots of a call that hooks, and what it puts there.                   *)
LEMMA HookedSlotFits ==
    ASSUME TypeOK, CallsFit, StepFits, step \in {"slot", "write"}, NEW p \in places
    PROVE  /\ SlotAt(p) \in Slots
           /\ Call \in Calls /\ Call.op = "add" /\ todo # <<>>
           /\ Fits(Call.fn, SlotAt(p)) /\ SymOf[SlotAt(p)] \in Serves[Call.fn]
           /\ Call.key = "file" => \E h \in LoaderHooks :
                /\ Call = FileCall("add", h) /\ Call.lib = h.lib /\ Call.name = h.name
                /\ Call.fn = h.fn /\ SlotAt(p) \in HookSlots(h)
           /\ Call.key # "file" => Call.key = "path" /\ Call.fn \in ModuleFns
<1>1. todo # <<>> /\ Call.op = "add" /\ Call.lib \in infos /\ infos \subseteq Libs
      /\ p \in FindPltAddrs(Call.lib, Call.name, Call.by)
  BY DEF StepFits, TypeOK
<1>2. Call = todo[1] /\ 1 \in DOMAIN todo /\ Call \in Calls
  BY <1>1, CallsLeft
<1>3. /\ SlotAt(p) \in Slots /\ SymOf[SlotAt(p)] \in Names(Call.name, Call.by)
      /\ SymOf[SlotAt(p)] \in Symbols
  BY <1>1, PlaceIsSlot DEF SlotAt
<1>4. LoaderCall(Call) \/ ModuleCall(Call)
  BY <1>2 DEF CallsFit
<1>5. CASE LoaderCall(Call)
  <2>1. PICK h \in LoaderHooks : Call \in {FileCall("add", h), FileCall("remove", h)}
    BY <1>5 DEF LoaderCall
  <2>2. Call = FileCall("add", h)
    BY <2>1, <1>1 DEF FileCall
  <2>3. Call.key = "file" /\ Call.lib = h.lib /\ Call.name = h.name /\ Call.by = h.by
        /\ Call.fn = h.fn
    BY <2>2 DEF FileCall
  <2>4. SlotAt(p) \in HookSlots(h)
    BY <2>3, <1>1 DEF HookSlots, SlotAt
  <2>5. SymOf[SlotAt(p)] \in Serves[Call.fn]
    BY <2>3, <2>4, HookSlotsServe
  <2> QED
    BY <1>1, <1>2, <1>3, <2>2, <2>3, <2>4, <2>5 DEF Fits
<1>6. CASE ModuleCall(Call)
  <2>1. Call.key = "path" /\ Call.by = "exact" /\ Call.fn \in ModuleFns
    BY <1>6 DEF ModuleCall
  <2>2. SymOf[SlotAt(p)] = Call.name
    BY <1>3, <2>1 DEF Names
  <2>3. SymOf[SlotAt(p)] \in Serves[Call.fn]
    BY <1>3, <1>6, <2>2 DEF ModuleCall
  <2> QED
    BY <1>1, <1>2, <1>3, <2>1, <2>3 DEF Fits
<1> QED
  BY <1>4, <1>5, <1>6

(* Every change of a slot outside Unmap writes what fits it and has its cell *)
(* full.                                                                     *)
LEMMA MemoryStep ==
    ASSUME IInv, Next
    PROVE  \/ UNCHANGED memory
           \/ Unmap
           \/ \E s \in Slots, v \in Symbols \cup Fns :
                 Fits(v, s) /\ Full(v) /\ WritesSlot(s, v)
<1> USE DEF IInv
<1>1. ASSUME NEW r \in hooks
      PROVE  r.slot \in Slots /\ r.original \in Symbols \cup Fns
             /\ Fits(r.original, r.slot) /\ Full(r.original)
  BY DEF TypeOK, Records, ValuesFit, CellsAreFull
<1>2. ASSUME step = "write", NEW p \in places
      PROVE  SlotAt(p) \in Slots /\ Call.fn \in Symbols \cup Fns
             /\ Fits(Call.fn, SlotAt(p)) /\ Full(Call.fn)
  BY <1>2, HookedSlotFits DEF StepFits, Full, Calls
<1>3. back \subseteq hooks
  BY DEF TypeOK
<1>4. CASE HookSlot
  <2>1. PICK p \in places :
            /\ ApplyHook(SlotAt(p), Call.fn)
            /\ unsure' = IF Call.fn = got[SlotAt(p)] /\ Call.fn \in LoaderFns
                         THEN unsure \cup {SlotAt(p)} ELSE unsure
    BY <1>4 DEF HookSlot
  <2>2. step = "write" /\ faults' = faults
    BY <1>4 DEF HookSlot
  <2>3. WritesSlot(SlotAt(p), Call.fn)
    BY <2>1, <2>2, ApplyWrites
  <2> QED
    BY <2>2, <2>3, <1>2
<1>5. CASE HookFails
  <2>1. PICK p \in places : RefuseHook(SlotAt(p), Call.fn)
    BY <1>5 DEF HookFails, NextPlace
  <2>2. step = "write"
    BY <1>5 DEF HookFails
  <2> QED
    BY <2>1, <2>2, <1>2, RefuseWrites
<1>6. CASE UndoSlot
  <2>1. PICK r \in back : \/ ApplyHook(r.slot, r.original) /\ UNCHANGED <<unsure, faults>>
                          \/ RefuseHook(r.slot, r.original)
    BY <1>6 DEF UndoSlot
  <2>2. WritesSlot(r.slot, r.original)
    BY <2>1, ApplyWrites, RefuseWrites
  <2> QED
    BY <2>2, <1>1, <1>3
<1>7. CASE RestoreSlot
  <2>1. PICK r \in back : ApplyHook(r.slot, r.original)
    BY <1>7 DEF RestoreSlot, First
  <2>2. WritesSlot(r.slot, r.original)
    BY <1>7, <2>1, ApplyWrites DEF RestoreSlot
  <2> QED
    BY <2>2, <1>1, <1>3
<1>8. CASE RestoreFails
  <2>1. PICK r \in back : RefuseHook(r.slot, r.original)
    BY <1>8 DEF RestoreFails, First
  <2> QED
    BY <2>1, <1>1, <1>3, RefuseWrites
<1>11. CASE ReplaceVma
  <2>1. PICK s \in Slots : Target(s) /\ (MoveVma(s) \/ ZeroVma \/ CopyVma(s))
    BY <1>11 DEF ReplaceVma
  <2>2. WritesSlot(s, SymOf[s])
    BY <2>1, ReplaceWrites
  <2>3. Fits(SymOf[s], s) /\ Full(SymOf[s]) /\ SymOf[s] \in Symbols
    BY SymbolsApart DEF Fits, Full
  <2> QED
    BY <2>2, <2>3
<1>9. CASE \/ SkipCall \/ AddHook \/ KeepOriginal \/ AddHookEnds \/ RemoveHook
           \/ RemoveHookEnds \/ HookFunctions \/ PropertyGet \/ Hooked \/ UnhookFunctions
  BY <1>9 DEF memory, SkipCall, AddHook, KeepOriginal, AddHookEnds, RemoveHook, RemoveHookEnds,
              HookFunctions, PropertyGet, Hooked, UnhookFunctions
<1>10. CASE \/ Specialize \/ Specialized \/ PltHookRegister \/ PltHookExclude
            \/ PltHookRegisterV4 \/ PltHookCommit \/ Committed \/ PltHookCommitV4 \/ CommittedV4
  BY <1>10 DEF memory, Specialize, Specialized, PltHookRegister, PltHookExclude, Asks,
               PltHookRegisterV4, PltHookCommit, Committed, PltHookCommitV4, CommittedV4
<1> QED
  BY <1>4, <1>5, <1>6, <1>7, <1>8, <1>9, <1>10, <1>11 DEF Next

-----------------------------------------------------------------------------
(* Types                                                                     *)

(* The calls that jobs start with.                                           *)
LEMMA FileCallTyped ==
    ASSUME NEW h \in LoaderHooks, NEW op \in {"add", "remove", "skip"}
    PROVE  FileCall(op, h) \in Calls
  BY HookAssumption, LoaderFnsAreFns DEF FileCall, Calls, Keys, HookNames

(* So is one that a module asks for.                                         *)
LEMMA PathCallTyped ==
    ASSUME NEW h \in V3Hooks \cup V4Hooks, NEW op \in {"add", "remove", "skip"}, NEW lib \in Libs
    PROVE  PathCall(op, lib, h) \in Calls
  BY ModuleFnsAreFns DEF PathCall, Calls, Keys, HookNames

(* What the loader hooks and unhooks are its hooks.                          *)
LEMMA HooksAreListed ==
    /\ \A i \in DOMAIN RuntimeHooks : RuntimeHooks[i] \in LoaderHooks
    /\ \A i \in DOMAIN CoreHooks : CoreHooks[i] \in Core
    /\ PropertyHook \in LoaderHooks /\ ArtHook \in LoaderHooks
    /\ Runtime \in Libs /\ Art \in Libs
<1>1. /\ \A i \in DOMAIN RuntimeHooks : RuntimeHooks[i] \in Range(RuntimeHooks)
      /\ \A i \in DOMAIN CoreHooks : CoreHooks[i] \in Range(CoreHooks)
  BY DEF Range
<1> QED
  BY <1>1, HookAssumption, PltAssumption DEF LoaderHooks, Core

(* The libraries of the maps, once for each entry of the queue.              *)
LEMMA MapEntry ==
    ASSUME NEW m \in Nat, NEW n \in Nat, NEW k \in 1 .. m * n, n # 0
    PROVE  /\ ((k - 1) \div n) + 1 \in 1 .. m
           /\ ((k - 1) % n) + 1 \in 1 .. n
<1> DEFINE q == (k - 1) \div n
           r == (k - 1) % n
<1>1. q \in Int /\ r \in 0 .. n - 1 /\ k - 1 = n * q + r
  BY SMTT(30)
<1> HIDE DEF q, r
<1>2. q >= 0
  <2> SUFFICES ASSUME q <= -1
               PROVE  FALSE
    BY <1>1
  <2>1. n * q <= n * (-1)
    BY <1>1
  <2> QED
    BY <1>1, <2>1
<1>3. q < m
  <2> SUFFICES ASSUME q >= m
               PROVE  FALSE
    BY <1>1
  <2>1. n * q >= n * m
    BY <1>1
  <2> QED
    BY <1>1, <2>1
<1>4. q + 1 \in 1 .. m /\ r + 1 \in 1 .. n
  BY <1>1, <1>2, <1>3
<1> QED
  BY <1>4 DEF q, r

(* The entries that a commit asks for.                                       *)
LEMMA CommitTyped ==
    ASSUME TypeOK, PltHookCommit
    PROVE  /\ todo' \in Seq(Calls)
           /\ \A k \in DOMAIN todo' : \E h \in V3Hooks, lib \in Libs, op \in {"add", "skip"} :
                  todo'[k] = PathCall(op, lib, h)
<1> DEFINE n == Len(queue3)
           m == Len(MapOrder)
<1>1. queue3 \in Seq(V3Hooks) /\ queue3 # <<>> /\ MapOrder \in Seq(Libs)
  BY PltAssumption DEF TypeOK, PltHookCommit
<1>2. n \in Nat /\ n # 0 /\ m \in Nat /\ DOMAIN queue3 = 1 .. n /\ DOMAIN MapOrder = 1 .. m
  BY <1>1, LenProperties, EmptySeq
<1>3. todo' = [k \in 1 .. m * n |-> CommitEntry(MapOrder[((k - 1) \div n) + 1],
                                                queue3[((k - 1) % n) + 1])]
  BY DEF PltHookCommit
<1> HIDE DEF n, m
<1>4. ASSUME NEW k \in 1 .. m * n
      PROVE  /\ todo'[k] \in Calls
             /\ \E h \in V3Hooks, lib \in Libs, op \in {"add", "skip"} :
                   todo'[k] = PathCall(op, lib, h)
  <2> DEFINE i == ((k - 1) \div n) + 1
             j == ((k - 1) % n) + 1
  <2>1. i \in 1 .. m /\ j \in 1 .. n
    BY <1>2, <1>4, MapEntry
  <2>2. todo'[k] = CommitEntry(MapOrder[i], queue3[j])
    BY <1>3, <1>4
  <2> HIDE DEF i, j
  <2>3. MapOrder[i] \in Libs /\ queue3[j] \in V3Hooks
    BY <1>1, <1>2, <2>1, ElementOfSeq
  <2>4. PICK op \in {"add", "skip"} : todo'[k] = PathCall(op, MapOrder[i], queue3[j])
    BY <2>2 DEF CommitEntry
  <2> QED
    BY <2>3, <2>4, PathCallTyped
<1>5. m * n \in Nat
  BY <1>2
<1>6. DOMAIN todo' = 1 .. m * n
  BY <1>3
<1>7. \A k \in 1 .. m * n : todo'[k] \in Calls
  BY <1>4
<1>8. todo' = [k \in 1 .. m * n |-> todo'[k]]
  BY <1>3
<1>9. todo' \in [1 .. m * n -> Calls]
  BY <1>7, <1>8
<1>10. todo' \in Seq(Calls)
  BY <1>5, <1>9, SeqDef
<1> QED
  BY <1>4, <1>6, <1>10

(* The queue of the v4 interface, call by call.                              *)
LEMMA CommitV4Typed ==
    ASSUME TypeOK, PltHookCommitV4
    PROVE  /\ todo' \in Seq(Calls)
           /\ \A k \in DOMAIN todo' : \E h \in V4Hooks, lib \in Libs :
                  todo'[k] = PathCall("add", lib, h)
<1>1. queue4 \in Seq(V4Hooks) /\ todo' = [i \in DOMAIN queue4 |->
                                              PathCall("add", queue4[i].lib, queue4[i])]
  BY DEF TypeOK, PltHookCommitV4
<1>2. \A i \in DOMAIN queue4 : queue4[i] \in V4Hooks /\ queue4[i].lib \in Libs
  BY <1>1, HookAssumption
<1>3. \A i \in DOMAIN queue4 : PathCall("add", queue4[i].lib, queue4[i]) \in Calls
  BY <1>2, PathCallTyped
<1>4. DOMAIN queue4 = 1 .. Len(queue4) /\ Len(queue4) \in Nat
  BY <1>1, LenProperties
<1>5. todo' \in [1 .. Len(queue4) -> Calls]
  BY <1>1, <1>3, <1>4
<1>6. todo' \in Seq(Calls)
  BY <1>4, <1>5, SeqDef
<1> QED
  BY <1>1, <1>2, <1>6

(* The loader's lists.                                                       *)
LEMMA LoaderJobsTyped ==
    ASSUME HookFunctions \/ PropertyGet \/ UnhookFunctions
    PROVE  /\ todo' \in Seq(Calls)
           /\ \A k \in DOMAIN todo' :
                 \/ \E h \in LoaderHooks : job' = "hook" /\ todo'[k] = FileCall("add", h)
                 \/ job' = "hook" /\ todo'[k] = FileCall("remove", PropertyHook)
                 \/ \E h \in Core : job' = "unhook" /\ todo'[k] = FileCall("remove", h)
<1>1. CASE HookFunctions
  <2>1. job' = "hook" /\ todo' = [i \in DOMAIN RuntimeHooks |-> FileCall("add", RuntimeHooks[i])]
    BY <1>1 DEF HookFunctions
  <2>2. \A i \in DOMAIN RuntimeHooks :
            RuntimeHooks[i] \in LoaderHooks /\ FileCall("add", RuntimeHooks[i]) \in Calls
    BY HooksAreListed, FileCallTyped
  <2>3. DOMAIN RuntimeHooks = 1 .. Len(RuntimeHooks) /\ Len(RuntimeHooks) \in Nat
    BY HookAssumption, LenProperties
  <2>4. todo' \in [1 .. Len(RuntimeHooks) -> Calls]
    BY <2>1, <2>2, <2>3
  <2>5. todo' \in Seq(Calls)
    BY <2>3, <2>4, SeqDef
  <2> QED
    BY <2>1, <2>2, <2>5
<1>2. CASE PropertyGet
  <2>1. job' = "hook"
        /\ todo' = <<FileCall("add", ArtHook), FileCall("remove", PropertyHook)>>
    BY <1>2 DEF PropertyGet
  <2>2. FileCall("add", ArtHook) \in Calls /\ FileCall("remove", PropertyHook) \in Calls
    BY HooksAreListed, FileCallTyped
  <2>3. todo' \in Seq(Calls) /\ DOMAIN todo' = 1 .. 2
    BY <2>1, <2>2
  <2> QED
    BY <2>1, <2>3, HooksAreListed
<1>3. CASE UnhookFunctions
  <2>1. job' = "unhook" /\ todo' = [i \in DOMAIN CoreHooks |-> FileCall("remove", CoreHooks[i])]
    BY <1>3 DEF UnhookFunctions
  <2>2. \A i \in DOMAIN CoreHooks :
            CoreHooks[i] \in Core /\ FileCall("remove", CoreHooks[i]) \in Calls
    BY HooksAreListed, FileCallTyped DEF Core
  <2>3. DOMAIN CoreHooks = 1 .. Len(CoreHooks) /\ Len(CoreHooks) \in Nat
    BY HookAssumption, LenProperties
  <2>4. todo' \in [1 .. Len(CoreHooks) -> Calls]
    BY <2>1, <2>2, <2>3
  <2>5. todo' \in Seq(Calls)
    BY <2>3, <2>4, SeqDef
  <2> QED
    BY <2>1, <2>2, <2>5
<1> QED
  BY <1>1, <1>2, <1>3

(* Every step keeps the types: the slots, the tables of plti, and the work   *)
(* in progress.                                                              *)
MemoryTyped ==
    /\ got \in [Slots -> Symbols \cup Fns]
    /\ stash \in [Slots -> Symbols \cup Fns \cup {Empty}]
    /\ unsure \subseteq Slots /\ faults \in 0 .. MaxFaults
    /\ swap \in {"no", "moved", "zero"} /\ moving \subseteq Slots /\ gone \subseteq Slots

LEMMA MemoryTypedStep ==
    ASSUME IInv, Next
    PROVE  MemoryTyped'
<1>1. TypeOK /\ got \in [Slots -> Symbols \cup Fns] /\ unsure \subseteq Slots
      /\ stash \in [Slots -> Symbols \cup Fns \cup {Empty}] /\ faults \in 0 .. MaxFaults
      /\ swap \in {"no", "moved", "zero"} /\ moving \subseteq Slots /\ gone \subseteq Slots
  BY DEF IInv, TypeOK
<1>2. CASE UNCHANGED memory
  BY <1>1, <1>2 DEF MemoryTyped, memory
<1>3. CASE Unmap
  <2>1. PICK lost \in SUBSET Libs :
            /\ lost # {} => faults < MaxFaults
            /\ faults' = IF lost = {} THEN faults ELSE faults + 1
            /\ PltiDeinit(lost)
    BY <1>3 DEF Unmap
  <2>2. got' \in [Slots -> Symbols \cup Fns] /\ unsure' \subseteq Slots
        /\ stash' \in [Slots -> Symbols \cup Fns \cup {Empty}]
        /\ swap' = swap /\ moving' = moving /\ gone' \subseteq Slots
    BY <1>1, <2>1 DEF PltiDeinit
  <2>3. faults' \in 0 .. MaxFaults
    BY <1>1, <2>1, PltAssumption
  <2> QED
    BY <1>1, <2>2, <2>3 DEF MemoryTyped
<1>4. CASE \E s \in Slots, v \in Symbols \cup Fns : Fits(v, s) /\ Full(v) /\ WritesSlot(s, v)
  BY <1>1, <1>4, WriteTyped DEF MemoryTyped
<1> QED
  BY <1>2, <1>3, <1>4, MemoryStep

PltiTyped ==
    /\ backup \in [Fns -> Symbols \cup Fns \cup {Empty}]
    /\ infos \subseteq Libs /\ hooks \subseteq Records /\ made \in Nat
    /\ back \subseteq hooks /\ places \subseteq UNION {DOMAIN Relocs[l] : l \in Libs}

LEMMA PltiTypedStep ==
    ASSUME IInv, Next
    PROVE  PltiTyped'
<1>1. /\ TypeOK /\ CallsFit /\ StepFits /\ ValuesFit
      /\ backup \in [Fns -> Symbols \cup Fns \cup {Empty}]
      /\ infos \subseteq Libs /\ hooks \subseteq Records /\ made \in Nat
      /\ back \subseteq hooks /\ places \subseteq UNION {DOMAIN Relocs[l] : l \in Libs}
      /\ got \in [Slots -> Symbols \cup Fns]
  BY DEF IInv, TypeOK
<1>2. CASE AddHook
  <2>1. todo # <<>> /\ UNCHANGED plti
    BY <1>2 DEF AddHook
  <2>2. places' \subseteq UNION {DOMAIN Relocs[l] : l \in Libs}
    <3>1. ASSUME Call.lib \in infos
          PROVE  FindPltAddrs(Call.lib, Call.name, Call.by)
                    \subseteq UNION {DOMAIN Relocs[l] : l \in Libs}
      BY <1>1, <3>1, PlaceIsSlot
    <3> QED
      BY <1>2, <3>1 DEF AddHook, CallEnds
  <2>3. back' \subseteq hooks
    BY <1>1, <1>2 DEF AddHook, CallEnds
  <2> QED
    BY <1>1, <2>1, <2>2, <2>3 DEF PltiTyped, plti
<1>3. CASE KeepOriginal
  <2>1. PICK p \in places : backup' = IF backup[Call.fn] = Empty
                                      THEN [backup EXCEPT ![Call.fn] = got[SlotAt(p)]]
                                      ELSE backup
    BY <1>3 DEF KeepOriginal
  <2>2. SlotAt(p) \in Slots
    BY <1>1, <1>3, HookedSlotFits DEF KeepOriginal
  <2>3. backup' \in [Fns -> Symbols \cup Fns \cup {Empty}]
    BY <1>1, <2>1, <2>2
  <2> QED
    BY <1>1, <1>3, <2>3 DEF KeepOriginal, PltiTyped
<1>4. CASE HookSlot
  <2>1. PICK p \in places : hooks' = hooks \cup {Record(SlotAt(p))} /\ places' = places \ {p}
    BY <1>4 DEF HookSlot
  <2>2. SlotAt(p) \in Slots /\ Call \in Calls
    BY <1>1, <1>4, HookedSlotFits DEF HookSlot
  <2>3. Record(SlotAt(p)) \in Records
    BY <1>1, <2>2 DEF Record, Records, Calls
  <2>4. made' \in Nat /\ back' = back /\ UNCHANGED <<infos, backup>>
    BY <1>1, <1>4 DEF HookSlot
  <2> QED
    BY <1>1, <2>1, <2>3, <2>4 DEF PltiTyped
<1>5. CASE HookFails \/ UndoSlot \/ AddHookEnds \/ RemoveHook \/ RestoreSlot \/ RestoreFails
           \/ SkipCall \/ ReplaceVma
  BY <1>1, <1>5 DEF HookFails, UndoSlot, AddHookEnds, RemoveHook, RestoreSlot, RestoreFails,
     SkipCall, ReplaceVma, work, CallEnds, plti, PltiTyped, Mine
<1>6. CASE RemoveHookEnds
  BY <1>1, <1>6 DEF RemoveHookEnds, CallEnds, PltiTyped
<1>7. CASE HookFunctions \/ PropertyGet \/ Hooked \/ UnhookFunctions
  BY <1>1, <1>7, HooksAreListed DEF HookFunctions, PropertyGet, Hooked, UnhookFunctions, work,
     plti, PltiTyped, AddLib
<1>8. CASE Unmap
  <2>1. infos' = {} /\ hooks' = {} /\ made' = 0
    BY <1>8 DEF Unmap, PltiDeinit
  <2>2. step = "call" /\ back = {} /\ UNCHANGED <<backup, work>>
    BY <1>1, <1>8 DEF Unmap, StepFits, TypeOK
  <2> QED
    BY <1>1, <2>1, <2>2 DEF PltiTyped, work
<1>9. CASE \/ Specialize \/ Specialized \/ PltHookRegister \/ PltHookExclude
           \/ PltHookCommit \/ Committed \/ PltHookCommitV4 \/ CommittedV4
  BY <1>1, <1>9 DEF plti, work, PltiTyped, Specialize, Specialized, PltHookRegister,
     PltHookExclude, Asks, PltHookCommit, Committed, PltHookCommitV4, CommittedV4
<1>10. CASE PltHookRegisterV4
  BY <1>1, <1>10, HookAssumption DEF work, PltiTyped, PltHookRegisterV4, Asks, AddLib
<1> QED
  BY <1>2, <1>3, <1>4, <1>5, <1>6, <1>7, <1>8, <1>9, <1>10 DEF Next

WorkTyped ==
    /\ job \in {"none", "hook", "commit3", "commit4", "unhook"} /\ todo \in Seq(Calls)
    /\ step \in {"call", "slot", "write", "undo", "restore"} /\ ok \in BOOLEAN

(* A step of a call goes on with it or ends it.                              *)
CallStep ==
    \/ SkipCall \/ AddHook \/ KeepOriginal \/ HookSlot \/ HookFails \/ UndoSlot \/ AddHookEnds
    \/ RemoveHook \/ RestoreSlot \/ RestoreFails \/ RemoveHookEnds \/ ReplaceVma

LEMMA CallGoesOn ==
    ASSUME TypeOK, StepFits, CallStep
    PROVE  /\ job' = job /\ phase' = phase /\ mapped' = mapped
           /\ todo # <<>>
           /\ \/ todo' = todo
              \/ todo' = Tail(todo) /\ step' = "call" /\ places' = {} /\ back' = {}
<1>1. todo # <<>>
  BY DEF StepFits, CallStep, SkipCall, AddHook, KeepOriginal, HookSlot, HookFails,
     UndoSlot, AddHookEnds, RemoveHook, RestoreSlot, RestoreFails, RemoveHookEnds,
     ReplaceVma, Target
<1>2. CASE SkipCall \/ AddHook \/ KeepOriginal \/ HookSlot \/ HookFails \/ UndoSlot
  BY <1>1, <1>2 DEF life, SkipCall, AddHook, KeepOriginal, HookSlot, HookFails, UndoSlot, CallEnds
<1>3. CASE AddHookEnds \/ RemoveHook \/ RestoreSlot \/ RestoreFails \/ RemoveHookEnds
           \/ ReplaceVma
  BY <1>1, <1>3 DEF life, AddHookEnds, RemoveHook, RestoreSlot, RestoreFails, RemoveHookEnds,
     ReplaceVma, CallEnds
<1> QED
  BY <1>2, <1>3 DEF CallStep

LEMMA WorkTypedStep ==
    ASSUME IInv, Next
    PROVE  WorkTyped'
<1>1. /\ TypeOK /\ StepFits /\ ok \in BOOLEAN /\ todo \in Seq(Calls)
      /\ job \in {"none", "hook", "commit3", "commit4", "unhook"}
      /\ step \in {"call", "slot", "write", "undo", "restore"}
  BY DEF IInv, TypeOK
<1>2. CASE CallStep
  <2>1. job' = job /\ todo' \in Seq(Calls)
    BY <1>1, <1>2, CallGoesOn, CallsLeft
  <2>2. step' \in {"call", "slot", "write", "undo", "restore"} /\ ok' \in BOOLEAN
    <3>1. CASE SkipCall \/ AddHook \/ KeepOriginal \/ HookSlot \/ HookFails \/ UndoSlot
      BY <1>1, <3>1 DEF SkipCall, AddHook, KeepOriginal, HookSlot, HookFails, UndoSlot, CallEnds
    <3>2. CASE AddHookEnds \/ RemoveHook \/ RestoreSlot \/ RestoreFails \/ RemoveHookEnds
               \/ ReplaceVma
      BY <1>1, <3>2 DEF AddHookEnds, RemoveHook, RestoreSlot, RestoreFails, RemoveHookEnds,
         ReplaceVma, work, CallEnds
    <3> QED
      BY <1>2, <3>1, <3>2 DEF CallStep
  <2> QED
    BY <1>1, <2>1, <2>2 DEF WorkTyped
<1>3. CASE HookFunctions \/ PropertyGet \/ UnhookFunctions
  <2>1. todo' \in Seq(Calls)
    BY <1>3, LoaderJobsTyped
  <2> QED
    BY <1>1, <1>3, <2>1 DEF HookFunctions, PropertyGet, UnhookFunctions, WorkTyped, work
<1>4. CASE Hooked \/ Unmap \/ Committed \/ CommittedV4
  BY <1>1, <1>4 DEF Hooked, Unmap, Committed, CommittedV4, WorkTyped, work
<1>5. CASE PltHookCommit \/ PltHookCommitV4
  <2>1. todo' \in Seq(Calls)
    BY <1>1, <1>5, CommitTyped, CommitV4Typed
  <2> QED
    BY <1>1, <1>5, <2>1 DEF PltHookCommit, PltHookCommitV4, WorkTyped, work
<1>6. CASE Specialize \/ Specialized \/ PltHookRegister \/ PltHookExclude \/ PltHookRegisterV4
  BY <1>1, <1>6 DEF Specialize, Specialized, PltHookRegister, PltHookExclude, Asks,
     PltHookRegisterV4, WorkTyped, work
<1> QED
  BY <1>2, <1>3, <1>4, <1>5, <1>6 DEF Next, CallStep

QueuesTyped ==
    /\ queue3 \in Seq(V3Hooks) /\ ignore3 \in Seq(V3Ignores) /\ queue4 \in Seq(V4Hooks)
    /\ asked \in 0 .. MaxAsked
    /\ phase \in {"zygote", "specialize", "app", "over"} /\ mapped \in BOOLEAN

LEMMA QueuesTypedStep ==
    ASSUME IInv, Next
    PROVE  QueuesTyped'
<1>1. QueuesTyped /\ TypeOK /\ StepFits
  BY DEF IInv, TypeOK, QueuesTyped
<1>2. CASE CallStep
  <2>1. CASE SkipCall \/ AddHook \/ KeepOriginal \/ HookSlot \/ HookFails \/ UndoSlot
    BY <1>1, <2>1 DEF queues, life, SkipCall, AddHook, KeepOriginal, HookSlot, HookFails,
       UndoSlot, QueuesTyped
  <2>2. CASE AddHookEnds \/ RemoveHook \/ RestoreSlot \/ RestoreFails \/ RemoveHookEnds
             \/ ReplaceVma
    BY <1>1, <2>2 DEF queues, life, AddHookEnds, RemoveHook, RestoreSlot, RestoreFails,
       RemoveHookEnds, ReplaceVma, QueuesTyped
  <2> QED
    BY <1>2, <2>1, <2>2 DEF CallStep
<1>3. CASE \/ HookFunctions \/ PropertyGet \/ Hooked \/ UnhookFunctions \/ Unmap
           \/ Specialize \/ PltHookCommit \/ CommittedV4
  BY <1>1, <1>3 DEF queues, life, HookFunctions, PropertyGet, Hooked, UnhookFunctions, Unmap,
     Specialize, PltHookCommit, CommittedV4, QueuesTyped
<1>4. ASSUME NEW S PROVE <<>> \in Seq(S)
  OBVIOUS
<1>5. CASE Specialized \/ Committed \/ PltHookCommitV4
  BY <1>1, <1>4, <1>5 DEF life, Specialized, Committed, PltHookCommitV4, QueuesTyped
<1>6. ASSUME Asks PROVE asked' \in 0 .. MaxAsked /\ phase' = phase /\ mapped' = mapped
  BY <1>1, <1>6, PltAssumption DEF Asks, QueuesTyped, life
<1>7. CASE PltHookRegister \/ PltHookExclude \/ PltHookRegisterV4
  <2>1. asked' \in 0 .. MaxAsked /\ phase' = phase /\ mapped' = mapped
    BY <1>6, <1>7 DEF PltHookRegister, PltHookExclude, PltHookRegisterV4
  <2>2. queue3' \in Seq(V3Hooks) /\ ignore3' \in Seq(V3Ignores) /\ queue4' \in Seq(V4Hooks)
    <3>1. CASE PltHookRegister
      <4>1. PICK h \in V3Hooks : queue3' = Append(queue3, h)
        BY <3>1 DEF PltHookRegister
      <4>2. queue3' \in Seq(V3Hooks)
        BY <1>1, <4>1, AppendProperties DEF QueuesTyped
      <4> QED
        BY <1>1, <3>1, <4>2 DEF PltHookRegister, QueuesTyped
    <3>2. CASE PltHookExclude
      <4>1. PICK i \in V3Ignores : ignore3' = Append(ignore3, i)
        BY <3>2 DEF PltHookExclude
      <4>2. ignore3' \in Seq(V3Ignores)
        BY <1>1, <4>1, AppendProperties DEF QueuesTyped
      <4> QED
        BY <1>1, <3>2, <4>2 DEF PltHookExclude, QueuesTyped
    <3>3. CASE PltHookRegisterV4
      <4>1. PICK h \in V4Hooks : queue4' = Append(queue4, h)
        BY <3>3 DEF PltHookRegisterV4
      <4>2. queue4' \in Seq(V4Hooks)
        BY <1>1, <4>1, AppendProperties DEF QueuesTyped
      <4> QED
        BY <1>1, <3>3, <4>2 DEF PltHookRegisterV4, QueuesTyped
    <3> QED
      BY <1>7, <3>1, <3>2, <3>3
  <2> QED
    BY <1>1, <2>1, <2>2 DEF QueuesTyped
<1> QED
  BY <1>2, <1>3, <1>5, <1>7 DEF Next, CallStep

LEMMA TypeStep ==
    ASSUME IInv, Next
    PROVE  TypeOK'
  BY MemoryTypedStep, PltiTypedStep, WorkTypedStep, QueuesTypedStep
     DEF TypeOK, MemoryTyped, PltiTyped, WorkTyped, QueuesTyped

-----------------------------------------------------------------------------
(* What slots, records and cells hold                                        *)

(* Only HookSlot makes a record, only KeepOriginal fills a cell, and an empty *)
(* one.                                                                      *)
LEMMA RecordsStep ==
    ASSUME TypeOK, Next
    PROVE  hooks' \subseteq hooks \/ HookSlot
<1>1. CASE \/ SkipCall \/ AddHook \/ KeepOriginal \/ HookFails \/ UndoSlot \/ AddHookEnds
           \/ RemoveHook \/ RestoreSlot \/ RestoreFails \/ RemoveHookEnds \/ ReplaceVma
  BY <1>1 DEF plti, SkipCall, AddHook, KeepOriginal, HookFails, UndoSlot, AddHookEnds,
     RemoveHook, RestoreSlot, RestoreFails, RemoveHookEnds, ReplaceVma
<1>2. CASE \/ HookFunctions \/ PropertyGet \/ Hooked \/ UnhookFunctions \/ Unmap
           \/ Specialize \/ Specialized \/ PltHookRegister \/ PltHookExclude
  BY <1>2 DEF plti, HookFunctions, PropertyGet, Hooked, UnhookFunctions, Unmap, PltiDeinit,
     Specialize, Specialized, PltHookRegister, PltHookExclude, Asks
<1>3. CASE \/ PltHookRegisterV4 \/ PltHookCommit \/ Committed \/ PltHookCommitV4 \/ CommittedV4
  BY <1>3 DEF plti, PltHookRegisterV4, Asks, PltHookCommit, Committed, PltHookCommitV4,
     CommittedV4
<1> QED
  BY <1>1, <1>2, <1>3 DEF Next

(* The cell that is filled gets a value for a symbol of its hook.            *)
LEMMA CellStep ==
    ASSUME IInv, Next
    PROVE  \/ backup' = backup
           \/ \E s \in Slots :
                /\ Call.fn \in Fns /\ backup[Call.fn] = Empty
                /\ SymOf[s] \in Serves[Call.fn]
                /\ backup' = [backup EXCEPT ![Call.fn] = got[s]]
<1>1. CASE KeepOriginal
  <2>1. PICK p \in places : backup' = IF backup[Call.fn] = Empty
                                      THEN [backup EXCEPT ![Call.fn] = got[SlotAt(p)]]
                                      ELSE backup
    BY <1>1 DEF KeepOriginal
  <2>2. /\ SlotAt(p) \in Slots /\ Call \in Calls /\ SymOf[SlotAt(p)] \in Serves[Call.fn]
    BY <1>1, HookedSlotFits DEF KeepOriginal, IInv
  <2>3. Call.fn \in Fns
    BY <2>2 DEF Calls
  <2> QED
    BY <2>1, <2>2, <2>3
<1>2. CASE \/ SkipCall \/ AddHook \/ HookSlot \/ HookFails \/ UndoSlot \/ AddHookEnds
           \/ RemoveHook \/ RestoreSlot \/ RestoreFails \/ RemoveHookEnds \/ ReplaceVma
  BY <1>2 DEF plti, SkipCall, AddHook, HookSlot, HookFails, UndoSlot, AddHookEnds,
     RemoveHook, RestoreSlot, RestoreFails, RemoveHookEnds, ReplaceVma
<1>3. CASE \/ HookFunctions \/ PropertyGet \/ Hooked \/ UnhookFunctions \/ Unmap
           \/ Specialize \/ Specialized \/ PltHookRegister \/ PltHookExclude
  BY <1>3 DEF plti, HookFunctions, PropertyGet, Hooked, UnhookFunctions, Unmap,
     Specialize, Specialized, PltHookRegister, PltHookExclude, Asks
<1>4. CASE \/ PltHookRegisterV4 \/ PltHookCommit \/ Committed \/ PltHookCommitV4 \/ CommittedV4
  BY <1>4 DEF plti, PltHookRegisterV4, Asks, PltHookCommit, Committed, PltHookCommitV4,
     CommittedV4
<1> QED
  BY <1>1, <1>2, <1>3, <1>4 DEF Next

(* What the slots and their saved copies hold after a step they held before, *)
(* elsewhere in their region or as what the step writes.                     *)
LEMMA SlotsAfter ==
    ASSUME IInv, Next, NEW t \in Slots
    PROVE  /\ \/ got'[t] \in {got[t], stash[t]} /\ got'[t] # Empty
              \/ got'[t] \in Symbols \cup Fns /\ Fits(got'[t], t) /\ Full(got'[t])
           /\ stash'[t] \in {stash[t], got[t], Empty}
<1>1. /\ got \in [Slots -> Symbols \cup Fns]
      /\ stash \in [Slots -> Symbols \cup Fns \cup {Empty}]
  BY DEF IInv, TypeOK
<1>2. got[t] # Empty
  BY <1>1, SymbolsApart
<1>3. CASE UNCHANGED memory
  BY <1>2, <1>3 DEF memory
<1>4. CASE Unmap
  BY <1>1, <1>2, <1>4 DEF Unmap, PltiDeinit
<1>5. CASE \E s \in Slots, v \in Symbols \cup Fns : Fits(v, s) /\ Full(v) /\ WritesSlot(s, v)
  <2>1. PICK s \in Slots, v \in Symbols \cup Fns : Fits(v, s) /\ Full(v) /\ WritesSlot(s, v)
    BY <1>5
  <2>2. StashVma(s)[t] \in {stash[t], got[t]}
    BY <1>1 DEF StashVma
  <2>3. stash'[t] \in {stash[t], got[t]}
    BY <2>1, <2>2 DEF WritesSlot
  <2>4. got'[t] = got[t] \/ (t = s /\ got'[t] = v)
    BY <1>1, <2>1 DEF WritesSlot
  <2> QED
    BY <1>2, <2>1, <2>3, <2>4
<1> QED
  BY <1>3, <1>4, <1>5, MemoryStep

(* Slots, saved regions and records keep what may be in them.                *)
LEMMA ValuesStep ==
    ASSUME IInv, Next
    PROVE  ValuesFit'
<1>1. ValuesFit /\ TypeOK /\ CallsFit /\ StepFits
  BY DEF IInv
<1>2. ASSUME NEW s \in Slots
      PROVE  Fits(got'[s], s) /\ (stash'[s] # Empty => Fits(stash'[s], s))
  BY <1>1, SlotsAfter DEF ValuesFit
<1>3. ASSUME NEW r \in hooks'
      PROVE  /\ Fits(r.original, r.slot)
             /\ r.key = "file" => \E h \in LoaderHooks : IsRecordOf(r, h) /\ r.slot \in HookSlots(h)
  <2>1. CASE r \in hooks
    BY <1>1, <2>1 DEF ValuesFit
  <2>2. CASE r \notin hooks
    <3>1. HookSlot
      BY <1>1, <2>2, RecordsStep
    <3>2. PICK p \in places : r = Record(SlotAt(p))
      BY <2>2, <3>1 DEF HookSlot
    <3>3. /\ SlotAt(p) \in Slots
          /\ Call.key = "file" => \E h \in LoaderHooks :
               Call.lib = h.lib /\ Call.name = h.name /\ SlotAt(p) \in HookSlots(h)
      BY <1>1, <3>1, HookedSlotFits DEF HookSlot
    <3>4. /\ r.slot = SlotAt(p) /\ r.original = got[SlotAt(p)]
          /\ r.key = Call.key /\ r.lib = Call.lib /\ r.name = Call.name
      BY <3>2 DEF Record
    <3> QED
      BY <1>1, <3>3, <3>4 DEF ValuesFit, IsRecordOf
  <2> QED
    BY <2>1, <2>2
<1> QED
  BY <1>2, <1>3 DEF ValuesFit, IsRecordOf

(* A cell that is written keeps what it holds.                               *)
LEMMA CellsStay ==
    ASSUME IInv, Next, NEW x, Full(x)
    PROVE  Full(x)'
<1>1. backup \in [Fns -> Symbols \cup Fns \cup {Empty}]
  BY DEF IInv, TypeOK
<1>2. SUFFICES ASSUME x \in Fns, backup[x] # Empty
               PROVE  backup'[x] # Empty
  BY DEF Full
<1> QED
  BY <1>1, <1>2, CellStep

(* Nothing leads to a cell that is empty.                                    *)
LEMMA CellsAreFullStep ==
    ASSUME IInv, Next
    PROVE  CellsAreFull'
<1>1. CellsAreFull /\ TypeOK
  BY DEF IInv
<1>2. ASSUME NEW s \in Slots
      PROVE  Full(got[s])' /\ Full(stash[s])'
  <2>1. Full(got[s]) /\ Full(stash[s]) /\ Full(Empty)
    BY <1>1, SymbolsApart DEF CellsAreFull, Full
  <2>2. Full(got'[s]) /\ Full(stash'[s])
    BY <2>1, SlotsAfter
  <2>3. backup' \in [Fns -> Symbols \cup Fns \cup {Empty}]
    BY TypeStep DEF TypeOK
  <2>4. \A x \in Fns : backup[x] # Empty => backup'[x] # Empty
    BY CellsStay DEF Full
  <2> QED
    BY <2>2, <2>4 DEF Full
<1>3. ASSUME NEW r \in hooks'
      PROVE  Full(r.original)'
  <2>1. Full(r.original)
    <3>1. CASE r \in hooks
      BY <1>1, <3>1 DEF CellsAreFull
    <3>2. CASE r \notin hooks
      <4>1. HookSlot
        BY <1>1, <3>2, RecordsStep
      <4>2. PICK p \in places : r = Record(SlotAt(p))
        BY <3>2, <4>1 DEF HookSlot
      <4>3. SlotAt(p) \in Slots
        BY <1>1, <4>1, HookedSlotFits DEF HookSlot, IInv
      <4> QED
        BY <1>1, <4>2, <4>3 DEF CellsAreFull, Record
    <3> QED
      BY <3>1, <3>2
  <2>2. \A x \in Fns : backup[x] # Empty => backup'[x] # Empty
    BY CellsStay DEF Full
  <2> QED
    BY <2>1, <2>2 DEF Full
<1>4. ASSUME NEW f \in Fns
      PROVE  Full(backup[f])'
  <2>1. backup \in [Fns -> Symbols \cup Fns \cup {Empty}]
    BY <1>1 DEF TypeOK
  <2>2. Full(backup'[f])
    BY <1>1, <2>1, CellStep DEF CellsAreFull
  <2>3. \A x \in Fns : backup[x] # Empty => backup'[x] # Empty
    BY CellsStay DEF Full
  <2> QED
    BY <2>2, <2>3 DEF Full
<1>5. (\A s \in Slots : Full(got[s]) /\ Full(stash[s]))'
  BY <1>2
<1>6. (\A r \in hooks : Full(r.original))'
  BY <1>3
<1>7. (\A f \in Fns : Full(backup[f]))'
  BY <1>4
<1> QED
  BY <1>5, <1>6, <1>7 DEF CellsAreFull

(* A hook is hooked for the one symbol that it serves.                       *)
LEMMA CellsFitStep ==
    ASSUME IInv, Next
    PROVE  CellsFit'
<1>1. /\ CellsFit /\ ValuesFit
      /\ backup \in [Fns -> Symbols \cup Fns \cup {Empty}]
  BY DEF IInv, TypeOK
<1>2. CASE backup' = backup
  BY <1>1, <1>2 DEF CellsFit
<1>3. CASE \E s \in Slots : /\ Call.fn \in Fns /\ backup[Call.fn] = Empty
                            /\ SymOf[s] \in Serves[Call.fn]
                            /\ backup' = [backup EXCEPT ![Call.fn] = got[s]]
  <2>1. PICK s \in Slots : /\ Call.fn \in Fns /\ backup[Call.fn] = Empty
                           /\ SymOf[s] \in Serves[Call.fn]
                           /\ backup' = [backup EXCEPT ![Call.fn] = got[s]]
    BY <1>3
  <2>2. got[s] = SymOf[s] \/ (got[s] \in Fns /\ SymOf[s] \in Serves[got[s]])
    BY <1>1, FitsServes DEF ValuesFit
  <2>3. \A y \in Serves[Call.fn] : y = SymOf[s]
    BY <2>1, HookAssumption
  <2>4. ASSUME NEW f \in Fns, backup'[f] # Empty, NEW y \in Serves[f]
        PROVE  backup'[f] = y \/ (backup'[f] \in Fns /\ y \in Serves[backup'[f]])
    <3>1. CASE f = Call.fn
      BY <1>1, <2>1, <2>2, <2>3, <3>1
    <3>2. CASE f # Call.fn
      BY <1>1, <2>1, <2>4, <3>2 DEF CellsFit
    <3> QED
      BY <3>1, <3>2
  <2> QED
    BY <2>4 DEF CellsFit
<1> QED
  BY <1>2, <1>3, CellStep

(* The cell that is filled was empty, so nothing that is hooked led to it.   *)
LEMMA NoLoopsStep ==
    ASSUME IInv, Next
    PROVE  NoLoops'
<1>1. /\ NoLoops /\ CellsAreFull
      /\ backup \in [Fns -> Symbols \cup Fns \cup {Empty}]
  BY DEF IInv, TypeOK
<1>2. CASE backup' = backup
  BY <1>1, <1>2 DEF NoLoops
<1>3. CASE \E s \in Slots : /\ Call.fn \in Fns /\ backup[Call.fn] = Empty
                            /\ backup' = [backup EXCEPT ![Call.fn] = got[s]]
  <2>1. PICK s \in Slots : /\ Call.fn \in Fns /\ backup[Call.fn] = Empty
                           /\ backup' = [backup EXCEPT ![Call.fn] = got[s]]
    BY <1>3
  <2> DEFINE fn == Call.fn
  <2>2. got[s] # fn
    BY <1>1, <2>1 DEF CellsAreFull, Full
  <2>3. \A f \in Fns : backup[f] # fn
    BY <1>1, <2>1 DEF CellsAreFull, Full
  <2>4. backup'[fn] = got[s] /\ \A f \in Fns : f # fn => backup'[f] = backup[f]
    BY <1>1, <2>1
  <2>5. fn \in Fns
    BY <2>1
  <2> HIDE DEF fn
  <2>6. ASSUME NEW S \in SUBSET {f \in Fns : backup'[f] # Empty}, S # {}
        PROVE  \E f \in S : backup'[f] \notin S
    <3> DEFINE T == S \ {fn}
    <3>1. \A f \in T : f \in Fns /\ f # fn /\ backup[f] # Empty /\ backup'[f] = backup[f]
      BY <2>4
    <3>2. CASE T = {}
      <4>1. S = {fn}
        BY <2>6, <3>2
      <4> QED
        BY <2>2, <2>4, <4>1
    <3>3. CASE T # {}
      <4>1. T \in SUBSET {f \in Fns : backup[f] # Empty}
        BY <3>1
      <4>2. PICK f \in T : backup[f] \notin T
        BY <1>1, <3>3, <4>1 DEF NoLoops
      <4>3. backup[f] # fn /\ backup'[f] = backup[f]
        BY <2>3, <3>1
      <4> QED
        BY <4>2, <4>3
    <3> QED
      BY <3>2, <3>3
  <2> QED
    BY <2>6 DEF NoLoops
<1> QED
  BY <1>2, <1>3, CellStep

-----------------------------------------------------------------------------
(* The work in progress                                                      *)

(* A step that is none of a call comes with no call at work.                 *)
Idle == todo = <<>> /\ step = "call" /\ back = {}

LEMMA OtherStep ==
    ASSUME IInv, Next, ~CallStep
    PROVE  /\ Idle /\ step' = "call" /\ back' = {} /\ places' = places
           /\ \/ HookFunctions \/ PropertyGet \/ UnhookFunctions
              \/ PltHookCommit \/ PltHookCommitV4
              \/ todo' = <<>> /\ job' = "none"
<1>1. StepFits /\ CallsFit /\ step \in {"call", "slot", "write", "undo", "restore"}
  BY DEF IInv, TypeOK
<1>2. todo = <<>> => Idle
  BY <1>1 DEF StepFits, Idle
<1>3. job = "none" => todo = <<>>
  BY <1>1 DEF CallsFit
<1>4. CASE HookFunctions \/ PropertyGet \/ UnhookFunctions \/ PltHookCommit \/ PltHookCommitV4
  BY <1>2, <1>3, <1>4 DEF work, Idle, HookFunctions, PropertyGet, UnhookFunctions, PltHookCommit,
     PltHookCommitV4
<1>5. CASE Hooked \/ Unmap \/ Specialize \/ Specialized \/ Committed \/ CommittedV4
  BY <1>2, <1>3, <1>5 DEF work, Idle, Hooked, Unmap, Specialize, Specialized, Committed, CommittedV4
<1>6. CASE PltHookRegister \/ PltHookExclude \/ PltHookRegisterV4
  BY <1>2, <1>3, <1>6 DEF work, Idle, PltHookRegister, PltHookExclude, PltHookRegisterV4, Asks
<1> QED
  BY <1>4, <1>5, <1>6 DEF Next, CallStep

(* The calls that are left come from the job that made them.                 *)
LEMMA CallsLeftFit ==
    ASSUME IInv, CallStep
    PROVE  \A i \in DOMAIN todo' : \E j \in DOMAIN todo : todo'[i] = todo[j]
<1>1. TypeOK /\ StepFits
  BY DEF IInv
<1>2. todo # <<>> /\ (todo' = todo \/ todo' = Tail(todo))
  BY <1>1, CallGoesOn
<1> QED
  BY <1>1, <1>2, CallsLeft

(* The calls of modules fit.                                                 *)
LEMMA PathCallFits ==
    ASSUME NEW h \in V3Hooks \cup V4Hooks, NEW lib, NEW op \in {"add", "skip"}
    PROVE  ModuleCall(PathCall(op, lib, h))
<1>1. h.fn \in ModuleFns /\ h.fn \in Fns
  BY ModuleFnsAreFns
<1>2. h.sym \in Symbols => h.sym \in Serves[h.fn]
  BY <1>1 DEF Serves
<1> QED
  BY <1>1, <1>2 DEF PathCall, ModuleCall

(* The calls of a job stay what its kind allows.                             *)
LEMMA CallsStep ==
    ASSUME IInv, Next
    PROVE  CallsFit'
<1>1. CallsFit /\ TypeOK /\ StepFits
  BY DEF IInv
<1>2. CASE CallStep
  <2>1. job' = job /\ phase' = phase /\ todo # <<>>
    BY <1>1, <1>2, CallGoesOn
  <2>2. ASSUME NEW i \in DOMAIN todo'
        PROVE  /\ LoaderCall(todo[i])' \/ ModuleCall(todo[i])'
               /\ job = "unhook" => todo'[i].op = "remove"
    <3>1. PICK j \in DOMAIN todo : todo'[i] = todo[j]
      BY <1>2, <2>2, CallsLeftFit
    <3>2. LoaderCall(todo[j]) \/ ModuleCall(todo[j])
      BY <1>1 DEF CallsFit
    <3> QED
      BY <1>1, <2>1, <3>1, <3>2 DEF CallsFit, LoaderCall, ModuleCall
  <2>3. job # "none"
    BY <1>1, <2>1 DEF CallsFit
  <2> QED
    BY <1>1, <2>1, <2>2, <2>3 DEF CallsFit
<1>3. CASE HookFunctions \/ PropertyGet \/ UnhookFunctions
  <2>1. /\ job' \in {"hook", "unhook"}
        /\ job' = "unhook" => phase' = "app"
    BY <1>3 DEF HookFunctions, PropertyGet, UnhookFunctions, life
  <2>2. ASSUME NEW i \in DOMAIN todo'
        PROVE  /\ LoaderCall(todo[i])'
               /\ job' = "unhook" => todo'[i].op = "remove"
    <3>1. CASE \E h \in LoaderHooks : job' = "hook" /\ todo'[i] = FileCall("add", h)
      BY <3>1 DEF LoaderCall, FileCall
    <3>2. CASE job' = "hook" /\ todo'[i] = FileCall("remove", PropertyHook)
      BY <3>2, HooksAreListed DEF LoaderCall, FileCall
    <3>3. CASE \E h \in Core : job' = "unhook" /\ todo'[i] = FileCall("remove", h)
      BY <3>3 DEF LoaderCall, FileCall, Core
    <3> QED
      BY <1>3, <2>2, <3>1, <3>2, <3>3, LoaderJobsTyped
  <2> QED
    BY <2>1, <2>2 DEF CallsFit
<1>4. CASE PltHookCommit
  <2>1. job' = "commit3"
    BY <1>4 DEF PltHookCommit
  <2>2. \A i \in DOMAIN todo' : ModuleCall(todo'[i])
    BY <1>1, <1>4, CommitTyped, PathCallFits
  <2> QED
    BY <2>1, <2>2 DEF CallsFit, ModuleCall
<1>5. CASE PltHookCommitV4
  <2>1. job' = "commit4"
    BY <1>5 DEF PltHookCommitV4
  <2>2. \A i \in DOMAIN todo' : ModuleCall(todo'[i])
    BY <1>1, <1>5, CommitV4Typed, PathCallFits
  <2> QED
    BY <2>1, <2>2 DEF CallsFit, ModuleCall
<1>6. CASE todo' = <<>> /\ job' = "none"
  BY <1>6 DEF CallsFit
<1> QED
  BY <1>2, <1>3, <1>4, <1>5, <1>6, OtherStep

(* The call at work and how far it has come stay in step.                    *)
LEMMA StepFitsStep ==
    ASSUME IInv, Next
    PROVE  StepFits'
<1>1. /\ TypeOK /\ CallsFit /\ StepFits
      /\ step \in {"call", "slot", "write", "undo", "restore"}
  BY DEF IInv, TypeOK
<1>2. CASE ~CallStep
  BY <1>2, OtherStep DEF StepFits
<1>3. CASE SkipCall \/ AddHookEnds \/ RestoreFails \/ RemoveHookEnds
  BY <1>3 DEF SkipCall, AddHookEnds, RestoreFails, RemoveHookEnds, CallEnds, StepFits
<1>4. CASE AddHook
  <2>1. CASE step' = "call"
    BY <1>4, <2>1 DEF AddHook, CallEnds, StepFits
  <2>2. CASE step' # "call"
    BY <1>1, <1>4, <2>2 DEF AddHook, CallEnds, StepFits, plti, Call
  <2> QED
    BY <2>1, <2>2
<1>5. CASE KeepOriginal
  <2>1. PICK p \in places : backup' = IF backup[Call.fn] = Empty
                                      THEN [backup EXCEPT ![Call.fn] = got[SlotAt(p)]]
                                      ELSE backup
    BY <1>5 DEF KeepOriginal
  <2>2. SlotAt(p) \in Slots /\ Call \in Calls
    BY <1>1, <1>5, HookedSlotFits DEF KeepOriginal
  <2>3. backup'[Call.fn] # Empty
    BY <1>1, <2>1, <2>2, SymbolsApart DEF TypeOK, Calls
  <2>4. Call' = Call
    BY <1>5 DEF KeepOriginal, Call
  <2> QED
    BY <1>1, <1>5, <2>3, <2>4 DEF KeepOriginal, StepFits
<1>6. CASE HookSlot
  <2>1. PICK p \in places : places' = places \ {p}
    BY <1>6 DEF HookSlot
  <2>2. Call' = Call
    BY <1>6 DEF HookSlot, Call
  <2> QED
    BY <1>1, <1>6, <2>1, <2>2 DEF HookSlot, StepFits
<1>7. CASE HookFails \/ UndoSlot
  <2>1. Call' = Call
    BY <1>7 DEF HookFails, UndoSlot, Call
  <2> QED
    BY <1>1, <1>7, <2>1 DEF HookFails, UndoSlot, StepFits
<1>8. CASE RemoveHook
  <2>1. CASE step' = "call"
    BY <1>8, <2>1 DEF RemoveHook, CallEnds, StepFits
  <2>2. CASE step' # "call"
    <3>1. Call' = Call /\ Mine' = Mine /\ back' = Mine
      BY <1>8, <2>2 DEF RemoveHook, CallEnds, plti, Call, Mine
    <3> QED
      BY <1>1, <1>8, <2>2, <3>1 DEF RemoveHook, CallEnds, StepFits
  <2> QED
    BY <2>1, <2>2
<1>9. CASE RestoreSlot
  <2>1. Call' = Call /\ Mine' = Mine /\ back' \subseteq back
    BY <1>9 DEF RestoreSlot, Call, Mine, plti
  <2> QED
    BY <1>1, <1>9, <2>1 DEF RestoreSlot, StepFits
<1>10. CASE ReplaceVma
  <2>1. Call' = Call /\ Mine' = Mine /\ UNCHANGED <<plti, todo, work>>
    BY <1>10 DEF ReplaceVma, Call, Mine, plti
  <2> QED
    BY <1>1, <2>1 DEF StepFits, plti, work
<1> QED
  BY <1>2, <1>3, <1>4, <1>5, <1>6, <1>7, <1>8, <1>9, <1>10 DEF CallStep

-----------------------------------------------------------------------------
(* The regions that are replaced                                             *)

LEMMA SavedByWrite ==
    ASSUME TypeOK, SavedAsLinked, NEW s \in Slots, NEW v \in Symbols \cup Fns, WritesSlot(s, v)
    PROVE  SavedAsLinked'
<1>1. /\ got \in [Slots -> Symbols \cup Fns]
      /\ stash \in [Slots -> Symbols \cup Fns \cup {Empty}]
      /\ got' \in [Slots -> Symbols \cup Fns]
      /\ \A t \in Slots : got[t] # Empty
  BY WriteTyped, SymbolsApart DEF TypeOK
<1>2. unsure \subseteq unsure'
  BY DEF WritesSlot
<1>3. \A t \in Slots : stash'[t] = stash[t] \/
          /\ stash'[t] = got[t] /\ SameVma(s, t) /\ stash[s] = Empty /\ stash' = StashVma(s)
  BY <1>1 DEF WritesSlot, StashVma
<1>4. stash' = StashVma(s) /\ Region[s] = "relro" => stash'[s] # Empty
  BY <1>1 DEF StashVma, SameVma
<1>5. ASSUME NEW t \in Slots, stash'[t] # Empty
      PROVE  Region[t] = "relro" /\ (stash'[t] = SymOf[t] \/ t \in unsure')
  <2>1. CASE stash'[t] = stash[t]
    BY <1>2, <1>5, <2>1 DEF SavedAsLinked
  <2>2. CASE stash'[t] = got[t] /\ SameVma(s, t) /\ stash[s] = Empty
    <3>1. stash[t] = Empty /\ Region[t] = "relro"
      BY <2>2 DEF SavedAsLinked, SameVma
    <3> QED
      BY <1>2, <2>2, <3>1 DEF SavedAsLinked
  <2> QED
    BY <1>3, <2>1, <2>2
<1>6. ASSUME NEW t \in Slots, Region[t] = "relro", stash'[t] = Empty
      PROVE  got'[t] = SymOf[t] \/ t \in unsure'
  <2>1. stash[t] = Empty
    BY <1>1, <1>3, <1>6
  <2>2. got'[t] = got[t]
    <3>1. got' = got \/ (got' = [got EXCEPT ![s] = v] /\ stash' = StashVma(s))
      BY DEF WritesSlot
    <3>2. t = s => stash' # StashVma(s)
      BY <1>4, <1>6
    <3> QED
      BY <1>1, <3>1, <3>2
  <2> QED
    BY <1>2, <1>6, <2>1, <2>2 DEF SavedAsLinked
<1>7. ASSUME NEW t \in Slots, NEW u \in Slots, SameVma(t, u), stash'[t] = Empty
      PROVE  stash'[u] = Empty
  <2>1. stash[t] = Empty /\ stash[u] = Empty
    BY <1>1, <1>3, <1>7 DEF SavedAsLinked
  <2>2. CASE stash'[u] = stash[u]
    BY <2>1, <2>2
  <2>3. CASE SameVma(s, u) /\ stash[s] = Empty /\ stash' = StashVma(s)
    <3>1. SameVma(s, t) /\ Region[s] = "relro"
      BY <1>7, <2>3 DEF SameVma
    <3>2. stash'[t] = got[t]
      BY <2>3, <3>1 DEF StashVma
    <3> QED
      BY <1>1, <1>7, <3>2
  <2> QED
    BY <1>3, <2>2, <2>3
<1> QED
  BY <1>5, <1>6, <1>7 DEF SavedAsLinked, SameVma

(* What is saved of a replaced region stays what the platform linked.        *)
LEMMA SavedStep ==
    ASSUME IInv, Next
    PROVE  SavedAsLinked'
<1>1. SavedAsLinked /\ TypeOK
  BY DEF IInv
<1>2. CASE UNCHANGED memory
  BY <1>1, <1>2 DEF SavedAsLinked, memory, SameVma
<1>3. CASE Unmap
  <2>1. PICK lost \in SUBSET Libs : PltiDeinit(lost)
    BY <1>3 DEF Unmap
  <2>2. \A t \in Slots : stash'[t] = Empty
    BY <2>1 DEF PltiDeinit
  <2>3. ASSUME NEW t \in Slots, Region[t] = "relro"
        PROVE  got'[t] = SymOf[t] \/ t \in unsure'
    <3>1. CASE stash[t] = Empty
      <4>1. got'[t] = got[t] /\ unsure \subseteq unsure'
        BY <2>1, <3>1 DEF PltiDeinit
      <4> QED
        BY <1>1, <2>3, <3>1, <4>1 DEF SavedAsLinked
    <3>2. CASE stash[t] # Empty /\ LibOf[t] \in lost
      BY <2>1, <3>2 DEF PltiDeinit
    <3>3. CASE stash[t] # Empty /\ LibOf[t] \notin lost
      <4>1. got'[t] = stash[t] /\ unsure \subseteq unsure'
        BY <2>1, <3>3 DEF PltiDeinit
      <4> QED
        BY <1>1, <3>3, <4>1 DEF SavedAsLinked
    <3> QED
      BY <3>1, <3>2, <3>3
  <2> QED
    BY <2>2, <2>3 DEF SavedAsLinked
<1>4. CASE \E s \in Slots, v \in Symbols \cup Fns : Fits(v, s) /\ Full(v) /\ WritesSlot(s, v)
  BY <1>1, <1>4, SavedByWrite
<1> QED
  BY <1>2, <1>3, <1>4, MemoryStep

(* No slot is to be written before a call has come that far.                 *)
LEMMA NoTarget ==
    ASSUME step \in {"call", "slot"} \/ (step \in {"undo", "restore"} /\ back = {})
    PROVE  \A t : ~Target(t)
  BY DEF Target, Last, First

(* A region is in the middle of its replacement only while the slot for      *)
(* which it is replaced waits.                                               *)
LEMMA HolesStep ==
    ASSUME IInv, Next
    PROVE  HolesFit'
<1>1. HolesFit /\ StepFits /\ TypeOK
      /\ step \in {"call", "slot", "write", "undo", "restore"}
  BY DEF IInv, TypeOK
<1>2. ASSUME NEW s, NEW v, ApplyHook(s, v) \/ RefuseHook(s, v), unsure \subseteq unsure'
      PROVE  HolesFit'
  <2>1. swap' = "no" /\ moving' = {}
    BY <1>1, <1>2 DEF ApplyHook, RefuseHook, MoveBack, HolesFit, memory
  <2>2. gone' \subseteq unsure'
    BY <1>1, <1>2 DEF ApplyHook, RefuseHook, MoveBack, HolesFit, memory
  <2> QED
    BY <2>1, <2>2 DEF HolesFit
<1>3. ASSUME NEW s, NEW v, RefuseHook(s, v)
      PROVE  unsure \subseteq unsure'
  BY <1>3 DEF RefuseHook, MoveBack, memory
<1>4. CASE HookSlot
  <2>1. PICK p \in places :
            /\ ApplyHook(SlotAt(p), Call.fn)
            /\ unsure' = IF Call.fn = got[SlotAt(p)] /\ Call.fn \in LoaderFns
                         THEN unsure \cup {SlotAt(p)} ELSE unsure
    BY <1>4 DEF HookSlot
  <2>2. unsure \subseteq unsure'
    BY <2>1
  <2> QED
    BY <1>2, <2>1, <2>2
<1>5. CASE HookFails
  BY <1>2, <1>3, <1>5 DEF HookFails
<1>6. CASE UndoSlot
  BY <1>2, <1>3, <1>6 DEF UndoSlot
<1>7. CASE RestoreSlot \/ RestoreFails
  BY <1>2, <1>3, <1>7 DEF RestoreSlot, RestoreFails
<1>8. CASE ReplaceVma
  <2>1. PICK s \in Slots : Target(s) /\ (MoveVma(s) \/ ZeroVma \/ CopyVma(s))
    BY <1>8 DEF ReplaceVma
  <2>2. \A t : Target(t)' <=> Target(t)
    BY <1>8 DEF ReplaceVma, work, Target, NextPlace, SlotAt, Last, First, Call
  <2>3. \A t : Vma(t)' = Vma(t)
    BY DEF Vma, SameVma
  <2>4. CASE MoveVma(s)
    BY <1>1, <2>1, <2>2, <2>3, <2>4 DEF MoveVma, HolesFit
  <2>5. CASE ZeroVma
    BY <1>1, <2>2, <2>3, <2>5 DEF ZeroVma, HolesFit
  <2>6. CASE CopyVma(s)
    BY <1>1, <2>6 DEF CopyVma, HolesFit
  <2> QED
    BY <2>1, <2>4, <2>5, <2>6
<1>9. CASE Unmap
  <2>1. step = "call" /\ swap = "no"
    BY <1>1, <1>9, NoTarget DEF Unmap, StepFits, HolesFit
  <2>2. PICK lost \in SUBSET Libs : PltiDeinit(lost)
    BY <1>9 DEF Unmap
  <2> QED
    BY <1>1, <2>1, <2>2 DEF PltiDeinit, HolesFit
<1>10. ASSUME UNCHANGED memory, swap = "no"
       PROVE  HolesFit'
  BY <1>1, <1>10 DEF memory, HolesFit
<1>11. CASE SkipCall \/ AddHook \/ KeepOriginal \/ AddHookEnds \/ RemoveHook \/ RemoveHookEnds
  <2>1. step \in {"call", "slot"} \/ (step \in {"undo", "restore"} /\ back = {})
    BY <1>11 DEF SkipCall, AddHook, KeepOriginal, AddHookEnds, RemoveHook, RemoveHookEnds
  <2>2. UNCHANGED memory
    BY <1>11 DEF SkipCall, AddHook, KeepOriginal, AddHookEnds, RemoveHook, RemoveHookEnds
  <2> QED
    BY <1>1, <1>10, <2>1, <2>2, NoTarget DEF HolesFit
<1>12. CASE ~CallStep /\ ~Unmap
  <2>1. step = "call"
    BY <1>12, OtherStep DEF Idle
  <2>2. UNCHANGED memory
    BY <1>12 DEF Next, CallStep, memory, HookFunctions, PropertyGet, Hooked, UnhookFunctions,
       Specialize, Specialized, PltHookRegister, PltHookExclude, Asks, PltHookRegisterV4,
       PltHookCommit, Committed, PltHookCommitV4, CommittedV4
  <2> QED
    BY <1>1, <1>10, <2>1, <2>2, NoTarget DEF HolesFit
<1> QED
  BY <1>4, <1>5, <1>6, <1>7, <1>8, <1>9, <1>11, <1>12 DEF CallStep

-----------------------------------------------------------------------------
(* Records, as long as plti has them all                                     *)

(* The call at work in a removal.                                            *)
LEMMA RemovedHook ==
    ASSUME TypeOK, CallsFit, StepFits, step = "restore"
    PROVE  /\ todo # <<>> /\ back \subseteq Mine
           /\ \E h \in LoaderHooks : /\ Call = FileCall("remove", h)
                                     /\ Mine = {r \in hooks : IsRecordOf(r, h)}
                                     /\ h # PropertyHook => job = "unhook"
<1>1. todo # <<>> /\ Call.op = "remove" /\ back \subseteq Mine
  BY DEF StepFits
<1>2. LoaderCall(Call) \/ ModuleCall(Call)
  BY <1>1, CallsLeft DEF CallsFit
<1>3. PICK h \in LoaderHooks : /\ Call \in {FileCall("add", h), FileCall("remove", h)}
                               /\ h # PropertyHook => job = "unhook"
  BY <1>1, <1>2 DEF LoaderCall, ModuleCall
<1>4. Call = FileCall("remove", h)
  BY <1>1, <1>3 DEF FileCall
<1>5. Call.lib = h.lib /\ Call.key = "file" /\ Call.name = h.name
  BY <1>4 DEF FileCall
<1>6. Mine = {r \in hooks : IsRecordOf(r, h)}
  BY <1>5 DEF Mine, IsRecordOf
<1> QED
  BY <1>1, <1>3, <1>4, <1>6

(* A loader that takes its hooks out adds none.                              *)
LEMMA UnhookRemoves ==
    ASSUME TypeOK, CallsFit, job = "unhook", todo # <<>>
    PROVE  Call.op = "remove"
  BY CallsLeft DEF CallsFit

(* The job of unhooking goes on until the unmapping, and nothing follows it. *)
LEMMA JobsApart ==
    ASSUME IInv, Next, ~Unmap
    PROVE  /\ job = "unhook" => CallStep /\ job' = "unhook"
           /\ job' = "unhook" => job = "unhook" \/ UnhookFunctions
           /\ phase' # "over" => phase # "over"
<1>1. CASE CallStep
  BY <1>1, CallGoesOn DEF IInv
<1>2. CASE HookFunctions \/ PropertyGet \/ Hooked \/ UnhookFunctions
  BY <1>2 DEF HookFunctions, PropertyGet, Hooked, UnhookFunctions, life
<1>3. CASE Specialize \/ Specialized
  BY <1>3 DEF Specialize, Specialized
<1>4. CASE PltHookRegister \/ PltHookExclude \/ PltHookRegisterV4
  BY <1>4 DEF PltHookRegister, PltHookExclude, PltHookRegisterV4, Asks, life
<1>5. CASE PltHookCommit \/ Committed \/ PltHookCommitV4 \/ CommittedV4
  BY <1>5 DEF PltHookCommit, Committed, PltHookCommitV4, CommittedV4, life
<1> QED
  BY <1>1, <1>2, <1>3, <1>4, <1>5 DEF Next, CallStep

(* A slot that still obeys changes only by a hook that is recorded or by a   *)
(* record that is given back.                                                *)
LEMMA SlotStep ==
    ASSUME IInv, Next, ~Unmap, NEW s \in Sure'
    PROVE  /\ s \in Sure
           /\ \/ got'[s] = got[s]
              \/ HookSlot /\ \E p \in places : s = SlotAt(p) /\ got'[s] = Call.fn
              \/ UndoSlot /\ \E r \in back : s = r.slot /\ got'[s] = r.original
              \/ RestoreSlot /\ \E r \in back : s = r.slot /\ got'[s] = r.original
<1>1. got \in [Slots -> Symbols \cup Fns] /\ s \in Slots /\ s \notin unsure'
  BY DEF IInv, TypeOK, Sure
<1>2. ASSUME NEW t, NEW v, ApplyHook(t, v)
      PROVE  got'[s] = got[s] \/ (s = t /\ got'[s] = v)
  BY <1>1, <1>2 DEF ApplyHook
<1>3. ASSUME NEW t, NEW v, RefuseHook(t, v)
      PROVE  got'[s] = got[s] /\ s \notin unsure
  BY <1>1, <1>3 DEF RefuseHook, ApplyHook, MoveBack, memory
<1>4. CASE HookSlot
  <2>1. PICK p \in places :
            /\ ApplyHook(SlotAt(p), Call.fn)
            /\ unsure' = IF Call.fn = got[SlotAt(p)] /\ Call.fn \in LoaderFns
                         THEN unsure \cup {SlotAt(p)} ELSE unsure
    BY <1>4 DEF HookSlot
  <2> QED
    BY <1>1, <1>2, <1>4, <2>1 DEF Sure
<1>5. CASE HookFails
  <2>1. PICK p \in places : RefuseHook(SlotAt(p), Call.fn)
    BY <1>5 DEF HookFails
  <2> QED
    BY <1>1, <1>3, <2>1 DEF Sure
<1>6. CASE UndoSlot
  <2>1. PICK r \in back : \/ ApplyHook(r.slot, r.original) /\ UNCHANGED <<unsure, faults>>
                          \/ RefuseHook(r.slot, r.original)
    BY <1>6 DEF UndoSlot
  <2> QED
    BY <1>1, <1>2, <1>3, <1>6, <2>1 DEF Sure
<1>7. CASE RestoreSlot
  <2>1. PICK r \in back : ApplyHook(r.slot, r.original)
    BY <1>7 DEF RestoreSlot, First
  <2>2. unsure' = unsure
    BY <1>7 DEF RestoreSlot
  <2> QED
    BY <1>1, <1>2, <1>7, <2>1, <2>2 DEF Sure
<1>8. CASE RestoreFails
  <2>1. PICK r \in back : RefuseHook(r.slot, r.original)
    BY <1>8 DEF RestoreFails, First
  <2> QED
    BY <1>1, <1>3, <2>1 DEF Sure
<1>9. CASE UNCHANGED memory
  BY <1>1, <1>9 DEF memory, Sure
<1>10. CASE \/ SkipCall \/ AddHook \/ KeepOriginal \/ AddHookEnds \/ RemoveHook
            \/ RemoveHookEnds \/ HookFunctions \/ PropertyGet \/ Hooked \/ UnhookFunctions
  BY <1>9, <1>10 DEF memory, SkipCall, AddHook, KeepOriginal, AddHookEnds, RemoveHook,
     RemoveHookEnds, HookFunctions, PropertyGet, Hooked, UnhookFunctions
<1>11. CASE \/ Specialize \/ Specialized \/ PltHookRegister \/ PltHookExclude
            \/ PltHookRegisterV4 \/ PltHookCommit \/ Committed \/ PltHookCommitV4 \/ CommittedV4
  BY <1>9, <1>11 DEF memory, Specialize, Specialized, PltHookRegister, PltHookExclude, Asks,
     PltHookRegisterV4, PltHookCommit, Committed, PltHookCommitV4, CommittedV4
<1>12. CASE ReplaceVma
  BY <1>1, <1>12 DEF ReplaceVma, MoveVma, ZeroVma, CopyVma, Sure
<1> QED
  BY <1>4, <1>5, <1>6, <1>7, <1>8, <1>10, <1>11, <1>12 DEF Next

(* What becomes of the records.                                              *)
LEMMA RecordsStay ==
    ASSUME IInv, Next, ~Unmap
    PROVE  \/ hooks' = hooks
           \/ RemoveHookEnds /\ hooks' = hooks \ Mine /\ step = "restore" /\ back = {}
           \/ HookSlot /\ \E p \in places : hooks' = hooks \cup {Record(SlotAt(p))}
<1>1. CASE HookSlot
  BY <1>1 DEF HookSlot
<1>2. CASE RemoveHookEnds
  BY <1>2 DEF RemoveHookEnds
<1>3. CASE \/ SkipCall \/ AddHook \/ KeepOriginal \/ HookFails \/ UndoSlot \/ AddHookEnds
           \/ RemoveHook \/ RestoreSlot \/ RestoreFails \/ ReplaceVma
  BY <1>3 DEF plti, SkipCall, AddHook, KeepOriginal, HookFails, UndoSlot, AddHookEnds,
     RemoveHook, RestoreSlot, RestoreFails, ReplaceVma
<1>4. CASE \/ HookFunctions \/ PropertyGet \/ Hooked \/ UnhookFunctions
           \/ Specialize \/ Specialized \/ PltHookRegister \/ PltHookExclude
  BY <1>4 DEF plti, HookFunctions, PropertyGet, Hooked, UnhookFunctions,
     Specialize, Specialized, PltHookRegister, PltHookExclude, Asks
<1>5. CASE \/ PltHookRegisterV4 \/ PltHookCommit \/ Committed \/ PltHookCommitV4 \/ CommittedV4
  BY <1>5 DEF plti, PltHookRegisterV4, Asks, PltHookCommit, Committed, PltHookCommitV4,
     CommittedV4
<1> QED
  BY <1>1, <1>2, <1>3, <1>4, <1>5 DEF Next

(* A module's record stays, and so does one of the loader that is not what a *)
(* removal drops.                                                            *)
LEMMA PathsStay ==
    ASSUME IInv, Next, ~Unmap, NEW s
    PROVE  HasPath(s) => HasPath(s)'
<1>1. CASE hooks \subseteq hooks'
  BY <1>1 DEF HasPath
<1>2. CASE hooks' = hooks \ Mine /\ step = "restore"
  <2>1. \A r \in Mine : r.key = "file"
    BY <1>2, RemovedHook DEF IInv, IsRecordOf
  <2> QED
    BY <1>2, <2>1 DEF HasPath
<1> QED
  BY <1>1, <1>2, RecordsStay

(* A record of the loader stays until its hook's removal ends.               *)
LEMMA FilesStay ==
    ASSUME IInv, Next, ~Unmap, NEW h \in LoaderHooks, NEW s, HasFile(h, s)
    PROVE  \/ HasFile(h, s)'
           \/ /\ RemoveHookEnds /\ Call = FileCall("remove", h)
              /\ h # PropertyHook => job = "unhook"
              /\ \E r \in Mine \ back : r.slot = s
<1>1. PICK r \in hooks : r.slot = s /\ IsRecordOf(r, h)
  BY DEF HasFile
<1>2. CASE r \in hooks'
  BY <1>1, <1>2 DEF HasFile, IsRecordOf
<1>3. CASE r \notin hooks'
  <2>1. RemoveHookEnds /\ step = "restore" /\ back = {} /\ r \in Mine
    BY <1>1, <1>3, RecordsStay
  <2>2. PICK g \in LoaderHooks : /\ Call = FileCall("remove", g)
                                 /\ Mine = {q \in hooks : IsRecordOf(q, g)}
                                 /\ g # PropertyHook => job = "unhook"
    BY <2>1, RemovedHook DEF IInv
  <2>3. g = h
    BY <1>1, <2>1, <2>2, HookAssumption DEF IsRecordOf
  <2> QED
    BY <1>1, <2>1, <2>2, <2>3
<1> QED
  BY <1>2, <1>3

(* What a record that is given back holds.                                   *)
LEMMA BackFits ==
    ASSUME IInv, InUse, NEW r \in back, r.slot \in Sure
    PROVE  /\ r.key = "file" => /\ r.original \notin LoaderFns
                                /\ ~HasPath(r.slot) => r.original = SymOf[r.slot]
           /\ r.key # "file" => r.key = "path" /\ HasPath(r.slot)
<1>1. r \in hooks /\ r \in Records
  BY DEF IInv, TypeOK
<1>2. r.key \in {"file", "path"}
  BY <1>1 DEF Records, Keys
<1> QED
  BY <1>1, <1>2 DEF InUse, OriginalsFit, HasPath

(* The parts of InUse, one by one.                                           *)
LEMMA LoaderRecordedStep ==
    ASSUME IInv, InUse, Next, ~Unmap
    PROVE  LoaderRecorded'
<1> SUFFICES ASSUME NEW s \in Sure', ~HasPath(s)', got'[s] # SymOf[s]
             PROVE  got'[s] \in LoaderFns /\ \E r \in hooks' : r.slot = s
  BY DEF LoaderRecorded
<1>1. s \in Sure /\ ~HasPath(s) /\ s \in Slots
  BY SlotStep, PathsStay DEF Sure
<1>2. CASE got'[s] = got[s]
  <2>1. PICK r \in hooks : got[s] \in LoaderFns /\ r.slot = s
    BY <1>1, <1>2 DEF InUse, LoaderRecorded
  <2>2. CASE r \in hooks'
    BY <1>2, <2>1, <2>2
  <2>3. CASE r \notin hooks'
    <3>1. step = "restore" /\ back = {} /\ r \in Mine
      BY <2>1, <2>3, RecordsStay
    <3>2. got[s] = SymOf[s]
      BY <1>1, <2>1, <3>1 DEF InUse, Restored
    <3> QED
      BY <1>2, <3>2
  <2> QED
    BY <2>2, <2>3
<1>3. CASE HookSlot /\ got'[s] # got[s]
  <2>1. PICK p \in places : /\ ApplyHook(SlotAt(p), Call.fn)
                            /\ hooks' = hooks \cup {Record(SlotAt(p))}
    BY <1>3 DEF HookSlot
  <2>2. s = SlotAt(p) /\ got'[s] = Call.fn
    <3>1. got \in [Slots -> Symbols \cup Fns]
      BY DEF IInv, TypeOK
    <3> QED
      BY <1>1, <1>3, <2>1, <3>1 DEF ApplyHook
  <2>3. Record(s) \in hooks' /\ Record(s).slot = s /\ Record(s).key = Call.key
    BY <2>1, <2>2 DEF Record
  <2>4. Call.key # "path"
    BY <2>3 DEF HasPath
  <2>5. \E h \in LoaderHooks : Call.fn = h.fn
    BY <1>3, <2>4, HookedSlotFits DEF HookSlot, IInv
  <2> QED
    BY <2>2, <2>3, <2>5, LoaderFnsAreFns
<1>4. CASE \E r \in back : s = r.slot /\ got'[s] = r.original
  BY <1>1, <1>4, BackFits
<1> QED
  BY <1>2, <1>3, <1>4, SlotStep

LEMMA OriginalsFitStep ==
    ASSUME IInv, InUse, Next, ~Unmap
    PROVE  OriginalsFit'
<1> SUFFICES ASSUME NEW r \in hooks', r.key = "file", r.slot \in Sure'
             PROVE  r.original \notin LoaderFns
                    /\ (~HasPath(r.slot)' => r.original = SymOf[r.slot])
  BY DEF OriginalsFit, HasPath
<1>1. r.slot \in Sure /\ (HasPath(r.slot) => HasPath(r.slot)')
  BY SlotStep, PathsStay
<1>2. CASE r \in hooks
  BY <1>1, <1>2 DEF InUse, OriginalsFit
<1>3. CASE r \notin hooks
  <2>1. HookSlot
    BY <1>3, RecordsStay
  <2>2. PICK p \in places :
            /\ r = Record(SlotAt(p))
            /\ unsure' = IF Call.fn = got[SlotAt(p)] /\ Call.fn \in LoaderFns
                         THEN unsure \cup {SlotAt(p)} ELSE unsure
    BY <1>3, <2>1 DEF HookSlot
  <2>3. r.slot = SlotAt(p) /\ r.original = got[r.slot] /\ Call.key = "file"
    BY <2>2 DEF Record
  <2>4. r.slot \in Slots /\ r.slot \notin unsure'
    BY DEF Sure
  <2>5. PICK h \in LoaderHooks : Call.fn = h.fn /\ r.slot \in HookSlots(h)
    BY <2>1, <2>3, HookedSlotFits DEF HookSlot, IInv
  <2>6. got[r.slot] # h.fn
    BY <2>2, <2>3, <2>4, <2>5, LoaderFnsAreFns
  <2>7. r.original \notin LoaderFns
    <3> SUFFICES ASSUME NEW g \in LoaderHooks, got[r.slot] = g.fn
                 PROVE  FALSE
      BY <2>3 DEF LoaderFns
    <3>1. Fits(g.fn, r.slot)
      BY <2>4 DEF IInv, ValuesFit
    <3>2. r.slot \in HookSlots(g)
      BY <2>4, <3>1, FitsLoader
    <3>3. g = h
      BY <2>5, <3>2, OneLoaderHook
    <3> QED
      BY <2>6, <3>3
  <2>8. ~HasPath(r.slot)' => r.original = SymOf[r.slot]
    BY <1>1, <2>3, <2>7 DEF InUse, LoaderRecorded
  <2> QED
    BY <2>7, <2>8
<1> QED
  BY <1>2, <1>3

(* The loader's function that a call hooks with makes a record of its hook.  *)
LEMMA NewRecord ==
    ASSUME IInv, HookSlot, NEW h \in LoaderHooks, NEW p \in places, Call.fn = h.fn
    PROVE  IsRecordOf(Record(SlotAt(p)), h)
<1>1. Call.fn \in LoaderFns /\ Call.fn \notin ModuleFns
  BY LoaderFnsAreFns, SymbolsApart
<1>2. PICK g \in LoaderHooks : Call.fn = g.fn /\ Call.lib = g.lib /\ Call.name = g.name
  BY <1>1, HookedSlotFits DEF HookSlot, IInv
<1>3. Call.key = "file"
  BY <1>1, HookedSlotFits DEF HookSlot, IInv
<1>4. g = h
  BY <1>2, HookAssumption
<1> QED
  BY <1>2, <1>3, <1>4 DEF Record, IsRecordOf

(* Where a core hook that is still to be taken out comes to be.              *)
LEMMA CoreSlotStep ==
    ASSUME IInv, InUse, Next, ~Unmap, NEW h \in Core, NEW s \in Sure', got'[s] = h.fn,
           job' = "unhook" => Waits(h)'
    PROVE  HasFile(h, s)'
<1>1. s \in Sure /\ h \in LoaderHooks /\ h # PropertyHook /\ h.fn \in LoaderFns /\ s \in Slots
  BY SlotStep, LoaderFnsAreFns DEF Core, Sure
<1>2. job = "unhook" => Waits(h)
  <2> SUFFICES ASSUME job = "unhook"
               PROVE  Waits(h)
    OBVIOUS
  <2>1. CallStep /\ job' = "unhook"
    BY JobsApart
  <2>2. PICK i \in DOMAIN todo' : todo'[i] = FileCall("remove", h)
    BY <2>1 DEF Waits
  <2> QED
    BY <2>1, <2>2, CallsLeftFit DEF Waits
<1>3. CASE got'[s] = got[s]
  <2>1. HasFile(h, s)
    BY <1>1, <1>2, <1>3 DEF InUse, CoreRecorded
  <2>2. ASSUME NEW r \in Mine \ back, r.slot = s, RemoveHookEnds
        PROVE  FALSE
    <3>1. step = "restore"
      BY <2>2 DEF RemoveHookEnds
    <3> QED
      BY <1>1, <1>3, <2>2, <3>1 DEF InUse, Restored
  <2> QED
    BY <1>1, <2>1, <2>2, FilesStay
<1>4. CASE HookSlot /\ got'[s] # got[s]
  <2>1. PICK p \in places : /\ ApplyHook(SlotAt(p), Call.fn)
                            /\ hooks' = hooks \cup {Record(SlotAt(p))}
    BY <1>4 DEF HookSlot
  <2>2. s = SlotAt(p) /\ got'[s] = Call.fn
    <3>1. got \in [Slots -> Symbols \cup Fns]
      BY DEF IInv, TypeOK
    <3> QED
      BY <1>1, <1>4, <2>1, <3>1 DEF ApplyHook
  <2>3. IsRecordOf(Record(s), h) /\ Record(s).slot = s
    BY <1>1, <1>4, <2>2, NewRecord DEF Record
  <2> QED
    BY <2>1, <2>2, <2>3 DEF HasFile, IsRecordOf
<1>5. ASSUME NEW r \in back, s = r.slot, got'[s] = r.original
      PROVE  r.key = "path" /\ r \in hooks
  <2>1. back \subseteq hooks
    BY DEF IInv, TypeOK
  <2> QED
    BY <1>1, <1>5, <2>1, BackFits
<1>6. CASE UndoSlot /\ \E r \in back : s = r.slot /\ got'[s] = r.original
  <2>1. PICK r \in back : s = r.slot /\ got'[s] = r.original
    BY <1>6
  <2>2. r.key = "path" /\ r \in hooks
    BY <1>5, <2>1
  <2>3. step = "undo" /\ hooks' = hooks
    BY <1>6 DEF UndoSlot, plti
  <2>4. job # "unhook"
    BY <2>3, UnhookRemoves DEF IInv, StepFits
  <2>5. HasFile(h, s)
    BY <1>1, <2>1, <2>2, <2>4 DEF InUse, CoreRecorded
  <2> QED
    BY <2>3, <2>5 DEF HasFile, IsRecordOf
<1>7. CASE RestoreSlot /\ \E r \in back : s = r.slot /\ got'[s] = r.original
  <2>1. PICK r \in back : s = r.slot /\ got'[s] = r.original
    BY <1>7
  <2>2. step = "restore"
    BY <1>7 DEF RestoreSlot
  <2>3. r \in Mine /\ \A q \in Mine : q.key = "file"
    BY <2>1, <2>2, RemovedHook DEF IInv, IsRecordOf
  <2> QED
    BY <1>5, <2>1, <2>3
<1> QED
  BY <1>3, <1>4, <1>6, <1>7, SlotStep

LEMMA CoreRecordedStep ==
    ASSUME IInv, InUse, Next, ~Unmap
    PROVE  CoreRecorded'
<1>1. ASSUME NEW h \in Core, job' = "unhook" => Waits(h)', NEW s \in Sure', got'[s] = h.fn
      PROVE  HasFile(h, s)'
  BY <1>1, CoreSlotStep
<1>2. ASSUME job' # "unhook", NEW r \in hooks', r.key = "path", r.slot \in Sure',
             NEW h \in Core, r.original = h.fn
      PROVE  HasFile(h, r.slot)'
  <2>1. job # "unhook" /\ r.slot \in Sure /\ h \in LoaderHooks /\ h # PropertyHook
    BY <1>2, JobsApart, SlotStep DEF Core
  <2>2. HasFile(h, r.slot)
    <3>1. CASE r \in hooks
      BY <1>2, <2>1, <3>1 DEF InUse, CoreRecorded
    <3>2. CASE r \notin hooks
      <4>1. HookSlot
        BY <3>2, RecordsStay
      <4>2. PICK p \in places : r = Record(SlotAt(p))
        BY <3>2, <4>1 DEF HookSlot
      <4>3. got[r.slot] = h.fn
        BY <1>2, <4>2 DEF Record
      <4> QED
        BY <2>1, <4>3 DEF InUse, CoreRecorded
    <3> QED
      BY <3>1, <3>2
  <2> QED
    BY <2>1, <2>2, FilesStay
<1>3. (\A h \in Core : (job = "unhook" => Waits(h)) =>
           \A s \in Sure : got[s] = h.fn => HasFile(h, s))'
  BY <1>1
<1>4. (job # "unhook" => \A r \in hooks : r.key = "path" /\ r.slot \in Sure =>
           \A h \in Core : r.original = h.fn => HasFile(h, r.slot))'
  BY <1>2
<1> QED
  BY <1>3, <1>4 DEF CoreRecorded

LEMMA RestoredStep ==
    ASSUME IInv, InUse, Next, ~Unmap
    PROVE  Restored'
<1> SUFFICES ASSUME step' = "restore", NEW r \in Mine' \ back', r.slot \in Sure'
             PROVE  /\ got'[r.slot] \notin LoaderFns
                    /\ ~HasPath(r.slot)' => got'[r.slot] = SymOf[r.slot]
  BY DEF Restored, HasPath
<1>1. RemoveHook \/ RestoreSlot \/ ReplaceVma
  <2>1. CallStep
    BY OtherStep
  <2>2. CASE \/ SkipCall \/ AddHook \/ KeepOriginal \/ HookSlot \/ HookFails \/ UndoSlot
             \/ AddHookEnds \/ RestoreFails \/ RemoveHookEnds
    BY <2>2 DEF SkipCall, AddHook, KeepOriginal, HookSlot, HookFails, UndoSlot, AddHookEnds,
       RestoreFails, RemoveHookEnds, CallEnds
  <2> QED
    BY <2>1, <2>2 DEF CallStep
<1>2. CASE RemoveHook
  <2>1. back' = Mine /\ Mine' = Mine
    BY <1>2 DEF RemoveHook, CallEnds, Mine, Call, plti
  <2> QED
    BY <2>1
<1>3. CASE RestoreSlot
  <2>1. PICK q \in back : ApplyHook(q.slot, q.original) /\ back' = back \ {q}
    BY <1>3 DEF RestoreSlot
  <2>2. step = "restore" /\ Mine' = Mine /\ hooks' = hooks
    BY <1>3 DEF RestoreSlot, plti, Mine, Call
  <2>3. r.slot \in Sure /\ r.slot \in Slots /\ r \in Mine /\ (HasPath(r.slot) => HasPath(r.slot)')
    BY <2>2, SlotStep, PathsStay DEF Sure
  <2>4. \A g \in Mine : g.key = "file"
    BY <2>2, RemovedHook DEF IInv, IsRecordOf
  <2>5. q \in Mine
    BY <2>2, RemovedHook DEF IInv
  <2>6. got \in [Slots -> Symbols \cup Fns]
    BY DEF IInv, TypeOK
  <2>7. CASE r.slot = q.slot
    <3>1. got'[r.slot] = q.original
      BY <2>1, <2>3, <2>6, <2>7 DEF ApplyHook
    <3> QED
      BY <2>3, <2>4, <2>5, <2>7, <3>1, BackFits
  <2>8. CASE r.slot # q.slot
    <3>1. got'[r.slot] = got[r.slot]
      BY <2>1, <2>3, <2>6, <2>8 DEF ApplyHook
    <3>2. r \in Mine \ back
      BY <2>1, <2>3, <2>8
    <3> QED
      BY <2>2, <2>3, <3>1, <3>2 DEF InUse, Restored
  <2> QED
    BY <2>7, <2>8
<1>4. CASE ReplaceVma
  <2>1. step = "restore" /\ Mine' = Mine /\ hooks' = hooks /\ back' = back /\ got' = got
    BY <1>4 DEF ReplaceVma, MoveVma, ZeroVma, CopyVma, plti, work, Mine, Call
  <2>2. r.slot \in Sure /\ (HasPath(r.slot) => HasPath(r.slot)')
    BY SlotStep, PathsStay, <1>4 DEF Sure
  <2> QED
    BY <2>1, <2>2 DEF InUse, Restored
<1> QED
  BY <1>1, <1>2, <1>3, <1>4

LEMMA TakenOutStep ==
    ASSUME IInv, InUse, Next, ~Unmap
    PROVE  TakenOut'
<1> SUFFICES ASSUME job' = "unhook", ok', NEW h \in Core, ~Waits(h)', NEW s \in Sure',
                    got'[s] = h.fn
             PROVE  FALSE
  BY DEF TakenOut
<1>1. h \in LoaderHooks /\ h.fn \in LoaderFns /\ s \in Sure /\ s \in Slots
  BY LoaderFnsAreFns, SlotStep DEF Core, Sure
<1>2. CASE UnhookFunctions
  <2>1. todo' = [i \in DOMAIN CoreHooks |-> FileCall("remove", CoreHooks[i])]
    BY <1>2 DEF UnhookFunctions
  <2>2. PICK i \in DOMAIN CoreHooks : CoreHooks[i] = h
    BY HookAssumption DEF Core, Range
  <2> QED
    BY <2>1, <2>2 DEF Waits
<1>3. CASE job = "unhook"
  <2>1. CallStep /\ todo # <<>> /\ Call.op = "remove"
    BY <1>3, JobsApart, CallGoesOn, UnhookRemoves DEF IInv
  <2>2. RemoveHook \/ RestoreSlot \/ RestoreFails \/ RemoveHookEnds \/ ReplaceVma
    <3>1. step \notin {"slot", "write", "undo"}
      BY <2>1 DEF IInv, StepFits
    <3> QED
      BY <2>1, <3>1 DEF CallStep, SkipCall, AddHook, KeepOriginal, HookSlot, HookFails, UndoSlot,
         AddHookEnds
  <2>3. CASE RemoveHook
    <3>1. UNCHANGED <<todo, ok, got, unsure>>
      BY <2>3 DEF RemoveHook, memory
    <3> QED
      BY <1>1, <1>3, <3>1 DEF InUse, TakenOut, Waits
  <2>4. CASE RestoreFails
    BY <2>4 DEF RestoreFails
  <2>5. CASE RestoreSlot
    <3>1. step = "restore" /\ UNCHANGED <<todo, ok>>
      BY <2>5 DEF RestoreSlot
    <3>2. got[s] # h.fn
      BY <1>1, <1>3, <3>1 DEF InUse, TakenOut, Waits
    <3>3. PICK r \in back : s = r.slot /\ got'[s] = r.original
      BY <2>5, <3>2, SlotStep DEF RestoreSlot, HookSlot, UndoSlot
    <3>4. r.key = "file"
      BY <3>1, <3>3, RemovedHook DEF IInv, IsRecordOf
    <3> QED
      BY <1>1, <3>3, <3>4, BackFits
  <2>6. CASE RemoveHookEnds
    <3>1. /\ step = "restore" /\ back = {} /\ todo' = Tail(todo)
          /\ UNCHANGED <<ok, got>>
      BY <2>6 DEF RemoveHookEnds, CallEnds, memory
    <3>2. CASE ~Waits(h)
      BY <1>1, <1>3, <3>1, <3>2 DEF InUse, TakenOut
    <3>3. CASE Waits(h)
      <4>1. Call = FileCall("remove", h)
        <5>1. PICK i \in DOMAIN todo : todo[i] = FileCall("remove", h)
          BY <3>3 DEF Waits
        <5>2. i = 1
          BY <2>1, <3>1, <5>1, CallsLeft DEF Waits, IInv
        <5> QED
          BY <2>1, <5>1, <5>2, CallsLeft DEF IInv
      <4>2. HasFile(h, s)
        BY <1>1, <3>1, <3>3 DEF InUse, CoreRecorded
      <4>3. PICK r \in hooks : r.slot = s /\ IsRecordOf(r, h)
        BY <4>2 DEF HasFile
      <4>4. r \in Mine \ back
        BY <3>1, <4>1, <4>3 DEF Mine, FileCall, IsRecordOf
      <4> QED
        BY <1>1, <3>1, <4>3, <4>4 DEF InUse, Restored
    <3> QED
      BY <3>2, <3>3
  <2>7. CASE ReplaceVma
    <3>1. UNCHANGED <<todo, ok, got>>
      BY <2>7 DEF ReplaceVma, MoveVma, ZeroVma, CopyVma
    <3> QED
      BY <1>1, <1>3, <3>1 DEF InUse, TakenOut, Waits
  <2> QED
    BY <2>2, <2>3, <2>4, <2>5, <2>6, <2>7
<1> QED
  BY <1>2, <1>3, JobsApart

(* All parts of InUse hold until the process is done with the loader.        *)
LEMMA InUseStep ==
    ASSUME IInv, Next, phase' # "over"
    PROVE  InUse'
<1>1. ~Unmap
  BY DEF Unmap
<1>2. InUse
  BY <1>1, JobsApart DEF IInv
<1> QED
  BY <1>1, <1>2, LoaderRecordedStep, OriginalsFitStep, CoreRecordedStep, RestoredStep,
     TakenOutStep DEF InUse

(* The loader goes only when its core hooks have come out, and then nothing  *)
(* happens any more.                                                         *)
LEMMA UnmappedStep ==
    ASSUME IInv, Next
    PROVE  Unmapped'
<1>1. CASE Unmap
  <2>1. PICK lost \in SUBSET Libs, alone \in BOOLEAN :
            PltiDeinit(lost) /\ mapped' = ~(ok /\ alone)
    BY <1>1 DEF Unmap
  <2>2. /\ phase' = "over" /\ job' = "none" /\ job = "unhook" /\ todo = <<>>
        /\ \A s \in Slots : stash'[s] = Empty
    BY <1>1, <2>1 DEF Unmap, PltiDeinit
  <2>3. InUse
    BY <2>2 DEF IInv, CallsFit
  <2>4. ASSUME ~mapped', NEW s \in Sure', got'[s] \in LoaderFns
        PROVE  got'[s] = PropertyHook.fn
    <3>1. ok /\ s \in Slots /\ s \notin unsure /\ s \notin unsure'
      BY <2>1, <2>4 DEF PltiDeinit, Sure
    <3>2. CASE got'[s] = stash[s] /\ stash[s] # Empty
      <4>1. stash[s] = SymOf[s]
        BY <3>1, <3>2 DEF IInv, SavedAsLinked
      <4> QED
        BY <2>4, <3>1, <3>2, <4>1, SymbolsApart
    <3>3. CASE got'[s] = got[s]
      <4>1. PICK h \in LoaderHooks : got[s] = h.fn
        BY <2>4, <3>3 DEF LoaderFns
      <4>2. ~Waits(h)
        BY <2>2 DEF Waits
      <4>3. h \notin Core
        BY <2>2, <2>3, <3>1, <4>1, <4>2 DEF InUse, TakenOut, Sure
      <4> QED
        BY <3>3, <4>1, <4>3 DEF Core
    <3> QED
      BY <2>1, <3>1, <3>2, <3>3 DEF PltiDeinit
  <2> QED
    BY <2>2, <2>4 DEF Unmapped
<1>2. CASE ~Unmap
  <2>1. mapped' = mapped
    <3>1. CASE CallStep
      BY <3>1, CallGoesOn DEF IInv
    <3>2. CASE ~CallStep
      BY <1>2, <3>2 DEF Next, CallStep, life, HookFunctions, PropertyGet, Hooked, UnhookFunctions,
         Specialize, Specialized, PltHookRegister, PltHookExclude, PltHookRegisterV4, Asks,
         PltHookCommit, Committed, PltHookCommitV4, CommittedV4
    <3> QED
      BY <3>1, <3>2
  <2>2. ASSUME ~mapped
        PROVE  FALSE
    <3>1. phase = "over" /\ job = "none" /\ todo = <<>>
      BY <2>2 DEF IInv, Unmapped, CallsFit
    <3>2. ~CallStep
      BY <3>1, CallGoesOn DEF IInv
    <3> QED
      BY <1>2, <2>2, <3>1, <3>2 DEF Next, CallStep, HookFunctions, PropertyGet, LeadsHere, Hooked,
         UnhookFunctions, Specialize, Specialized, PltHookRegister, PltHookExclude,
         PltHookRegisterV4, Asks, PltHookCommit, Committed, PltHookCommitV4, CommittedV4
  <2> QED
    BY <2>1, <2>2 DEF Unmapped
<1> QED
  BY <1>1, <1>2

-----------------------------------------------------------------------------
(* The theorems                                                              *)

LEMMA InitHolds ==
    ASSUME Init
    PROVE  IInv
<1>1. /\ got = [s \in Slots |-> SymOf[s]] /\ stash = [s \in Slots |-> Empty]
      /\ backup = [f \in Fns |-> Empty]
      /\ infos = {} /\ hooks = {} /\ made = 0 /\ todo = <<>> /\ job = "none"
      /\ step = "call" /\ back = {} /\ places = {} /\ ok = TRUE /\ mapped = TRUE
      /\ phase = "zygote"
  BY DEF Init
<1>2. TypeOK
  <2>1. \A S : <<>> \in Seq(S)
    OBVIOUS
  <2>2. /\ asked \in 0 .. MaxAsked /\ faults \in 0 .. MaxFaults /\ unsure \subseteq Slots
        /\ swap = "no" /\ moving = {} /\ gone = {}
    BY PltAssumption DEF Init
  <2>3. queue3 = <<>> /\ ignore3 = <<>> /\ queue4 = <<>>
    BY DEF Init
  <2> QED
    BY <1>1, <2>1, <2>2, <2>3 DEF TypeOK, Symbols
<1>3. ValuesFit
  BY <1>1 DEF ValuesFit, Fits
<1>4. CellsAreFull
  BY <1>1, SymbolsApart DEF CellsAreFull, Full
<1>5. CellsFit /\ NoLoops
  BY <1>1 DEF CellsFit, NoLoops
<1>6. CallsFit /\ StepFits
  BY <1>1 DEF CallsFit, StepFits
<1>7. SavedAsLinked
  BY <1>1 DEF SavedAsLinked
<1>8. InUse
  <2>1. LoaderRecorded /\ OriginalsFit
    BY <1>1 DEF LoaderRecorded, OriginalsFit, Sure
  <2>2. CoreRecorded
    <3>1. ASSUME NEW h \in Core, NEW s \in Sure
          PROVE  got[s] # h.fn
      BY <1>1, <3>1, LoaderFnsAreFns, SymbolsApart DEF Core, Sure
    <3> QED
      BY <1>1, <3>1 DEF CoreRecorded
  <2>3. Restored /\ TakenOut
    BY <1>1 DEF Restored, TakenOut
  <2> QED
    BY <2>1, <2>2, <2>3 DEF InUse
<1>9. Unmapped
  BY <1>1 DEF Unmapped
<1>10. HolesFit
  BY DEF Init, HolesFit
<1> QED
  BY <1>2, <1>3, <1>4, <1>5, <1>6, <1>7, <1>8, <1>9, <1>10 DEF IInv

(* A step of nobody, and a step of somebody, keep the whole invariant.       *)
LEMMA StutterHolds ==
    ASSUME IInv, UNCHANGED vars
    PROVE  IInv'
<1> USE DEF vars, memory, plti, queues, life, work
<1>1. TypeOK'
  BY DEF IInv, TypeOK
<1>2. ValuesFit'
  BY DEF IInv, ValuesFit, IsRecordOf
<1>3. CellsAreFull' /\ CellsFit' /\ NoLoops'
  BY DEF IInv, CellsAreFull, Full, CellsFit, NoLoops
<1>4. CallsFit'
  BY DEF IInv, CallsFit, LoaderCall, ModuleCall
<1>5. StepFits'
  BY DEF IInv, StepFits, Call, Mine
<1>6. SavedAsLinked'
  BY DEF IInv, SavedAsLinked, SameVma
<1>7. phase' # "over" => InUse'
  <2>1. ASSUME InUse
        PROVE  InUse'
    <3>1. LoaderRecorded' /\ OriginalsFit'
      BY <2>1 DEF InUse, LoaderRecorded, OriginalsFit, Sure, HasPath
    <3>2. CoreRecorded'
      BY <2>1 DEF InUse, CoreRecorded, Sure, HasFile, Waits, IsRecordOf
    <3>3. Restored'
      BY <2>1 DEF InUse, Restored, Sure, HasPath, Mine, Call
    <3>4. TakenOut'
      BY <2>1 DEF InUse, TakenOut, Sure, Waits
    <3> QED
      BY <3>1, <3>2, <3>3, <3>4 DEF InUse
  <2> QED
    BY <2>1 DEF IInv
<1>8. Unmapped'
  BY DEF IInv, Unmapped, Sure
<1>9. HolesFit'
  BY DEF IInv, HolesFit, Target, Vma, SameVma, NextPlace, SlotAt, Last, First, Call
<1> QED
  BY <1>1, <1>2, <1>3, <1>4, <1>5, <1>6, <1>7, <1>8, <1>9 DEF IInv

LEMMA StepHolds ==
    ASSUME IInv, [Next]_vars
    PROVE  IInv'
<1>1. CASE Next
  BY <1>1, TypeStep, ValuesStep, CellsAreFullStep, CellsFitStep, NoLoopsStep, CallsStep,
     StepFitsStep, SavedStep, HolesStep, InUseStep, UnmappedStep DEF IInv
<1>2. CASE UNCHANGED vars
  BY <1>2, StutterHolds
<1> QED
  BY <1>1, <1>2

(* The invariant that all the others rest on: values, cells, records and     *)
(* saved regions fit together between any two writes and system calls of     *)
(* plti, whatever call is at work, and only the region of the slot that is   *)
(* to be written is ever in the middle of its replacement.                   *)
THEOREM InvariantHolds == Spec => []IInv
<1>1. Init => IInv
  BY InitHolds
<1>2. IInv /\ [Next]_vars => IInv'
  BY StepHolds
<1> QED
  BY <1>1, <1>2, PTL DEF Spec

(* Every variable has its type, and every call of a job is one that plti can *)
(* be asked for.                                                             *)
THEOREM TypeCorrect == Spec => []TypeOK
<1>1. IInv => TypeOK
  BY DEF IInv
<1> QED
  BY <1>1, InvariantHolds, PTL

(* A call through a slot reaches the function the platform linked there,     *)
(* between any two writes and system calls of any call of plti: the cell of  *)
(* a hook is written before its slot, and what it was written with had its   *)
(* own cell full.  Only the slots of a lost region lead nowhere, and those   *)
(* of the region that is being replaced for the write at work.               *)
THEOREM CallsAlwaysComeThrough == Spec => []CallsComeThrough
<1>1. ASSUME IInv
      PROVE  CallsComeThrough
  <2>1. ASSUME NEW s \in Slots
        PROVE  got[s] \in Line(s) /\ \A f \in Line(s) \cap Fns : backup[f] \in Line(s)
    <3>1. got[s] \in Line(s)
      <4>1. Fits(got[s], s) /\ Full(got[s])
        BY <1>1 DEF IInv, ValuesFit, CellsAreFull
      <4>2. got[s] = SymOf[s] \/ (got[s] \in Fns /\ SymOf[s] \in Serves[got[s]])
        BY <4>1, FitsServes
      <4> QED
        BY <4>1, <4>2 DEF Line, Full
    <3>2. ASSUME NEW f \in Fns, f \in Line(s)
          PROVE  backup[f] \in Line(s)
      <4>1. SymOf[s] \in Serves[f] /\ backup[f] # Empty
        BY <3>2, SymbolsApart DEF Line
      <4>2. /\ backup[f] = SymOf[s] \/ (backup[f] \in Fns /\ SymOf[s] \in Serves[backup[f]])
            /\ Full(backup[f])
        BY <1>1, <4>1 DEF IInv, CellsFit, CellsAreFull
      <4> QED
        BY <4>2 DEF Line, Full
    <3> QED
      BY <3>1, <3>2
  <2>2. \A S \in SUBSET {f \in Fns : backup[f] # Empty} : S # {} => \E f \in S : backup[f] \notin S
    BY <1>1 DEF IInv, NoLoops
  <2>3. Hole \subseteq Replaced \cup unsure
    <3>1. HolesFit /\ moving \subseteq Slots
      BY <1>1 DEF IInv, TypeOK
    <3>2. moving \subseteq Replaced
      BY <3>1 DEF HolesFit, Replaced
    <3> QED
      BY <3>1, <3>2 DEF HolesFit, Hole
  <2> QED
    BY <2>1, <2>2, <2>3 DEF CallsComeThrough
<1> QED
  BY <1>1, InvariantHolds, PTL

(* A slot that differs from what the platform linked has a record, until     *)
(* plti_deinit, unless its memory failed while it was written.               *)
THEOREM HooksAlwaysRecorded == Spec => []HooksAreRecorded
<1>1. ASSUME IInv
      PROVE  HooksAreRecorded
  <2> SUFFICES ASSUME phase # "over", NEW s \in Slots \ unsure, got[s] # SymOf[s]
               PROVE  \E h \in hooks : h.slot = s
    BY DEF HooksAreRecorded
  <2>1. LoaderRecorded /\ s \in Sure
    BY <1>1 DEF IInv, InUse, Sure
  <2> QED
    BY <2>1 DEF LoaderRecorded, HasPath
<1> QED
  BY <1>1, InvariantHolds, PTL

(* The slots of property_get, whose removal nobody checks, are in a region   *)
(* that plti replaces as a whole.                                            *)
PropertySlotsReplaced == \A s \in HookSlots(PropertyHook) : Region[s] = "relro"

(* Once the loader has unmapped itself no slot leads into it: the core hooks *)
(* because unhook_functions answered for each of them, property_get because  *)
(* plti_deinit gave its region back.                                         *)
THEOREM UnmapAlwaysSafe ==
    ASSUME PropertySlotsReplaced
    PROVE  Spec => []UnmapIsSafe
<1>1. ASSUME IInv
      PROVE  UnmapIsSafe
  <2> SUFFICES ASSUME ~mapped, NEW s \in Slots \ unsure
               PROVE  /\ got[s] \notin LoaderFns
                      /\ Region[s] = "relro" => got[s] = SymOf[s]
    BY DEF UnmapIsSafe
  <2>1. Region[s] = "relro" => got[s] = SymOf[s]
    BY <1>1 DEF IInv, Unmapped, SavedAsLinked
  <2>2. ASSUME got[s] \in LoaderFns
        PROVE  FALSE
    <3>1. got[s] = PropertyHook.fn /\ Fits(got[s], s) /\ PropertyHook \in LoaderHooks
      BY <1>1, <2>2, HooksAreListed DEF IInv, Unmapped, Sure, ValuesFit
    <3>2. s \in HookSlots(PropertyHook)
      BY <3>1, FitsLoader
    <3>3. got[s] = SymOf[s]
      BY <2>1, <3>2 DEF PropertySlotsReplaced
    <3> QED
      BY <2>2, <3>3, SymbolsApart
  <2> QED
    BY <2>1, <2>2
<1> QED
  BY <1>1, InvariantHolds, PTL
=============================================================================
