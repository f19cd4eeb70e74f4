------------------------------ MODULE PltHooks ------------------------------
(* The hooks in the import tables of the libraries of a process: the         *)
(* interposition library (plti), the hooks the loader puts in through it and *)
(* takes out before it unmaps itself (hook_register.rs), and the ones that   *)
(* modules queue and commit by the v3 and the v4 interface (plt_commit.rs,   *)
(* plt_commit_v4.rs).                                                        *)
(*                                                                           *)
(* A slot holds a function: the one the platform linked, named like its      *)
(* symbol, or a hook.  A hook goes on through its backup cell, which is      *)
(* named like the hook.  The lock of PLTI lets one call work at a time, but  *)
(* the rest of the process calls through the slots all along: so a call is   *)
(* one step for each cell, slot or list that it writes, and for each system  *)
(* call that replaces a region; and memory protection may fail at every slot.*)
EXTENDS Naturals, Sequences, FiniteSets, Functions

CONSTANTS
    MapOrder,      \* the libraries in the order of /proc/self/maps
    Relocs,        \* of each library: [table, kind, sym, slot] in table order
    Region,        \* of each slot: "relro", "anon" or "data"
    PrefixOf,      \* what each prefix matches
    Runtime, Art,  \* libandroid_runtime.so, libart.so
    RuntimeHooks,  \* what the loader hooks in Runtime: [lib, name, by, fn], in order
    PropertyHook,  \* its element that waits for Art
    ArtHook,       \* the hook in Art that takes everything out again
    CoreHooks,     \* what it takes out, in order
    V3Hooks,       \* what modules may register: [match, sym, fn]
    V3Ignores,     \* and exclude: [match, sym], sym may be AnySymbol
    V4Hooks,       \* [lib, sym, fn]
    AnySymbol,
    MaxRegister,   \* MAX_REGISTER_INFO and MAX_IGNORE_INFO
    MaxAsked,      \* bound: registrations in a process
    MaxRecords,    \* bound: records of plti up to which property_get is called
    MaxFaults      \* bound: protection calls that fail

Libs == Range(MapOrder)
Slots == DOMAIN Region
SymOf == [s \in Slots |->
              (CHOOSE r \in UNION {Range(Relocs[l]) : l \in Libs} : r.slot = s).sym]
LibOf == [s \in Slots |-> CHOOSE l \in Libs : \E r \in Range(Relocs[l]) : r.slot = s]

LoaderHooks == Range(RuntimeHooks) \cup {ArtHook}
LoaderFns == {h.fn : h \in LoaderHooks}
ModuleFns == {h.fn : h \in V3Hooks \cup V4Hooks}
Fns == LoaderFns \cup ModuleFns
Symbols == {SymOf[s] : s \in Slots}
Empty == "empty"

Names(name, by) == IF by = "prefix" THEN PrefixOf[name] ELSE {name}

(* collect_relocs over the three tables: the import table proper knows jump  *)
(* slots and stops at its first match of an exact name, the others have      *)
(* absolute and global data references.                                      *)
Kinds(table) == IF table = "plt" THEN {"jump"} ELSE {"abs", "glob"}

CollectRelocs(lib, name, by) ==
    {i \in DOMAIN Relocs[lib] : /\ Relocs[lib][i].kind \in Kinds(Relocs[lib][i].table)
                                /\ Relocs[lib][i].sym \in Names(name, by)}

FindPltAddrs(lib, name, by) ==
    {i \in CollectRelocs(lib, name, by) :
        Relocs[lib][i].table = "plt" /\ by = "exact" =>
            \A j \in CollectRelocs(lib, name, by) : Relocs[lib][j].table = "plt" => i <= j}

TableRank == [plt |-> 1, rel |-> 2, android |-> 3]
Before(lib, i, j) ==
    LET rank(k) == TableRank[Relocs[lib][k].table]
    IN rank(i) < rank(j) \/ (rank(i) = rank(j) /\ i < j)

(* The slots a hook of the loader is put in, and the symbols whose calls a   *)
(* function takes.                                                           *)
HookSlots(h) == {Relocs[h.lib][i].slot : i \in FindPltAddrs(h.lib, h.name, h.by)}

Serves ==
    [fn \in Fns |->
        {y \in Symbols : \/ \E h \in LoaderHooks : h.fn = fn /\ y \in Names(h.name, h.by)
                         \/ \E h \in V3Hooks \cup V4Hooks : h.fn = fn /\ h.sym = y}]

(* A slot has one symbol.                                                    *)
ASSUME PltAssumption ==
    /\ MapOrder \in Seq(Libs) /\ {Runtime, Art} \subseteq Libs
    /\ \A l \in Libs : \A i \in DOMAIN Relocs[l] :
           Relocs[l][i].slot \in Slots /\ Relocs[l][i].sym = SymOf[Relocs[l][i].slot]
    /\ MaxFaults \in Nat /\ MaxAsked \in Nat

(* A hook is a function of its own for one symbol, with one cell; what the   *)
(* loader hooks and what it unhooks are two lists in the code.               *)
ASSUME HookAssumption ==
    /\ RuntimeHooks \in Seq(LoaderHooks) /\ PropertyHook \in Range(RuntimeHooks)
    /\ CoreHooks \in Seq(LoaderHooks) /\ Range(CoreHooks) = LoaderHooks \ {PropertyHook}
    /\ \A h \in LoaderHooks : h.lib \in Libs /\ h.by \in {"exact", "prefix"}
    /\ \A g, h \in LoaderHooks : g # h => /\ g.fn # h.fn
                                          /\ g.lib # h.lib \/ g.name # h.name
                                          /\ HookSlots(g) \cap HookSlots(h) = {}
    /\ \A h \in V4Hooks : h.lib \in Libs
    /\ LoaderFns \cap ModuleFns = {} /\ Fns \cap Symbols = {}
    /\ Empty \notin Fns \cup Symbols
    /\ \A fn \in Fns : \A y, z \in Serves[fn] : y = z

VARIABLES
    got,      \* what each slot holds
    stash,    \* the saved contents of slots whose region has been replaced
    infos,    \* elf_infos: the libraries known to plti
    hooks,    \* the records of plti: [lib, key, name, slot, original, no]
    made,     \* how many there have been; numbers them
    backup,   \* the backup cell of each hook
    queue3, ignore3,   \* register_info, ignore_info
    queue4,   \* PLT_HOOK_LIST
    phase,    \* "zygote", "specialize" while a context exists, "app", "over"
    mapped,   \* the loader is still in memory
    job,      \* who makes the calls: "none", "hook", "commit3", "commit4", "unhook"
    todo,     \* its calls, the one at work first: [op, lib, key, name, by, fn]
    step,     \* "call" before it, then "slot", "write", "undo" or "restore"
    places,   \* the relocations it has still to hook
    back,     \* the records whose slots it has still to give back
    ok,       \* all_ok of unhook_functions
    asked, faults,
    unsure,   \* slots written by a call that then failed, recorded twice by the
              \* loader, or in a region whose contents were lost
    swap,     \* stash_vma at work: "no", "moved" or "zero"
    moving,   \* the slots of the region that it replaces
    gone      \* slots of a region that is not mapped any more

memory == <<got, stash, unsure, faults, swap, moving, gone>>
plti == <<infos, hooks, made, backup>>
queues == <<queue3, ignore3, queue4, asked>>
life == <<phase, mapped>>
work == <<step, places, back>>
vars == <<memory, plti, queues, life, job, todo, work, ok>>

Init ==
    /\ got = [s \in Slots |-> SymOf[s]]
    /\ stash = [s \in Slots |-> Empty]
    /\ infos = {} /\ hooks = {} /\ made = 0
    /\ backup = [f \in Fns |-> Empty]
    /\ queue3 = <<>> /\ ignore3 = <<>> /\ queue4 = <<>>
    /\ phase = "zygote" /\ mapped = TRUE
    /\ job = "none" /\ todo = <<>> /\ ok = TRUE
    /\ step = "call" /\ places = {} /\ back = {}
    /\ asked = 0 /\ faults = 0 /\ unsure = {}
    /\ swap = "no" /\ moving = {} /\ gone = {}

-----------------------------------------------------------------------------
(* plti_internal_set_got_entry                                               *)

(* The read-only region of a slot, replaced as a whole.                      *)
SameVma(s, t) == LibOf[s] = LibOf[t] /\ Region[s] = "relro" /\ Region[t] = "relro"
Vma(s) == {t \in Slots : SameVma(s, t)}

(* Nothing is mapped at these slots, or zeros.                               *)
Hole == moving \cup gone

StashVma(s) ==
    IF Region[s] = "relro" /\ stash[s] = Empty
    THEN [t \in Slots |-> IF SameVma(s, t) THEN got[t] ELSE stash[t]] ELSE stash

(* stash_vma: the region is moved away and its address mapped with zeros     *)
(* before its contents are copied back.  The rest of the process goes on.    *)
MoveVma(s) ==
    /\ swap = "no" /\ Region[s] = "relro" /\ stash[s] = Empty /\ s \notin gone
    /\ swap' = "moved" /\ moving' = Vma(s)
    /\ UNCHANGED <<got, stash, unsure, faults, gone>>

ZeroVma ==
    /\ swap = "moved" /\ swap' = "zero"
    /\ UNCHANGED <<got, stash, unsure, faults, moving, gone>>

CopyVma(s) ==
    /\ swap = "zero" /\ swap' = "no"
    /\ stash' = StashVma(s) /\ moving' = {}
    /\ UNCHANGED <<got, unsure, faults, gone>>

(* The slot is written.  A region that is anonymous or writable, or has been *)
(* replaced, is written in place.                                            *)
ApplyHook(s, v) ==
    /\ swap = "no" /\ s \notin gone
    /\ Region[s] = "relro" => stash[s] # Empty
    /\ got' = [got EXCEPT ![s] = v]
    /\ UNCHANGED <<stash, swap, moving, gone>>

(* No zeros can be mapped: the region is moved back, or, if that fails too,  *)
(* is gone with its contents.                                                *)
MoveBack ==
    /\ swap = "moved" /\ swap' = "no" /\ moving' = {}
    /\ \/ UNCHANGED <<gone, unsure>>
       \/ gone' = gone \cup moving /\ unsure' = unsure \cup moving
    /\ UNCHANGED <<got, stash>>

(* A slot whose memory does not obey: before the write, after it, or in the  *)
(* middle of the replacement; or whose region is gone.                       *)
RefuseHook(s, v) ==
    \/ /\ faults < MaxFaults /\ faults' = faults + 1
       /\ \/ swap = "no" /\ UNCHANGED <<got, stash, unsure, swap, moving, gone>>
          \/ ApplyHook(s, v) /\ unsure' = unsure \cup {s}
          \/ MoveBack
    \/ swap = "no" /\ s \in gone /\ UNCHANGED memory

-----------------------------------------------------------------------------
(* A call of plti.  A library is given by a part of its path: key says       *)
(* whether by the file name or the whole path, and records are told apart by *)
(* it.                                                                       *)

(* plti_add_lib: a library that is there already is not added again.         *)
AddLib(lib) == infos' = infos \cup {lib}

Call == Head(todo)
Mine == {h \in hooks : h.lib = Call.lib /\ h.key = Call.key /\ h.name = Call.name}

CallEnds == todo' = Tail(todo) /\ step' = "call" /\ places' = {} /\ back' = {}

(* An entry that no map matches or that is excluded calls nothing.           *)
SkipCall ==
    /\ todo # <<>> /\ step = "call" /\ Call.op = "skip"
    /\ CallEnds
    /\ UNCHANGED <<memory, plti, queues, life, job, ok>>

(* plti_add_hook and plti_add_hook_by_prefix                                 *)
AddHook ==
    /\ todo # <<>> /\ step = "call" /\ Call.op = "add"
    /\ LET found == FindPltAddrs(Call.lib, Call.name, Call.by) IN
       IF Call.lib \in infos /\ found # {}
       THEN step' = "slot" /\ places' = found /\ UNCHANGED <<todo, back>>
       ELSE CallEnds
    /\ UNCHANGED <<memory, plti, queues, life, job, ok>>

NextPlace(p) == p \in places /\ \A q \in places \ {p} : Before(Call.lib, p, q)
SlotAt(p) == Relocs[Call.lib][p].slot

(* The cell is written once, before the slot is; mutant: every time.  A      *)
(* process that reads a slot of a region that is gone dies.                  *)
KeepOriginalAlways ==
    /\ step = "slot"
    /\ \E p \in places : /\ NextPlace(p) /\ SlotAt(p) \notin gone
                         /\ backup' = [backup EXCEPT ![Call.fn] = got[SlotAt(p)]]
    /\ step' = "write"
    /\ UNCHANGED <<memory, infos, hooks, made, queues, life, job, todo, places, back, ok>>
KeepOriginal ==
    /\ step = "slot"
    /\ \E p \in places : /\ NextPlace(p) /\ SlotAt(p) \notin gone
                         /\ backup' = IF backup[Call.fn] = Empty
                                      THEN [backup EXCEPT ![Call.fn] = got[SlotAt(p)]]
                                      ELSE backup
    /\ step' = "write"
    /\ UNCHANGED <<memory, infos, hooks, made, queues, life, job, todo, places, back, ok>>

Record(s) == [lib |-> Call.lib, key |-> Call.key, name |-> Call.name, slot |-> s,
              original |-> got[s], no |-> made]

(* A slot is written and recorded.  Mutant: recorded only while the library  *)
(* has no other record of the symbol.                                        *)
HookFirstSlot ==
    /\ step = "write"
    /\ \E p \in places :
          /\ NextPlace(p) /\ ApplyHook(SlotAt(p), Call.fn)
          /\ hooks' = IF Mine = {} THEN hooks \cup {Record(SlotAt(p))} ELSE hooks
          /\ places' = places \ {p}
    /\ made' = made + 1 /\ step' = "slot"
    /\ UNCHANGED <<unsure, faults, infos, backup, queues, life, job, todo, back, ok>>
HookSlot ==
    /\ step = "write"
    /\ \E p \in places :
          /\ NextPlace(p) /\ ApplyHook(SlotAt(p), Call.fn)
          /\ hooks' = hooks \cup {Record(SlotAt(p))}
          /\ unsure' = IF Call.fn = got[SlotAt(p)] /\ Call.fn \in LoaderFns
                       THEN unsure \cup {SlotAt(p)} ELSE unsure
          /\ places' = places \ {p}
    /\ made' = made + 1 /\ step' = "slot"
    /\ UNCHANGED <<faults, infos, backup, queues, life, job, todo, back, ok>>

(* The slot cannot be hooked: what has been hooked under that name is.       *)
HookFails ==
    /\ step = "write"
    /\ \E p \in places : NextPlace(p) /\ RefuseHook(SlotAt(p), Call.fn)
    /\ step' = "undo" /\ places' = {} /\ back' = Mine
    /\ UNCHANGED <<plti, queues, life, job, todo, ok>>

Last(h) == h \in back /\ \A g \in back : g.no <= h.no
First(h) == h \in back /\ \A g \in back : h.no <= g.no

(* The best effort of plti_internal_add_hook: the latest record first.       *)
UndoSlot ==
    /\ step = "undo"
    /\ \E h \in back : /\ Last(h)
                       /\ \/ ApplyHook(h.slot, h.original) /\ UNCHANGED <<unsure, faults>>
                          \/ RefuseHook(h.slot, h.original)
                       /\ back' = back \ {h}
    /\ UNCHANGED <<plti, queues, life, job, todo, step, places, ok>>

AddHookEnds ==
    /\ \/ step = "slot" /\ places = {}
       \/ step = "undo" /\ back = {}
    /\ CallEnds
    /\ UNCHANGED <<memory, plti, queues, life, job, ok>>

(* plti_internal_remove_hook: every record in its order; a slot that cannot  *)
(* be given its original ends it and keeps the records.                      *)
RemoveHook ==
    /\ todo # <<>> /\ step = "call" /\ Call.op = "remove"
    /\ IF backup[Call.fn] # Empty /\ Call.lib \in infos /\ Mine # {}
       THEN step' = "restore" /\ back' = Mine /\ UNCHANGED <<todo, places, ok>>
       ELSE CallEnds /\ ok' = FALSE
    /\ UNCHANGED <<memory, plti, queues, life, job>>

RestoreSlot ==
    /\ step = "restore"
    /\ \E h \in back : /\ First(h) /\ ApplyHook(h.slot, h.original)
                       /\ back' = back \ {h}
    /\ UNCHANGED <<unsure, faults, plti, queues, life, job, todo, step, places, ok>>

RestoreFails ==
    /\ step = "restore"
    /\ \E h \in back : First(h) /\ RefuseHook(h.slot, h.original)
    /\ CallEnds /\ ok' = FALSE
    /\ UNCHANGED <<plti, queues, life, job>>

(* Mutant: the answer is the one of the last call.                           *)
RemoveEndsWell ==
    /\ step = "restore" /\ back = {}
    /\ hooks' = hooks \ Mine
    /\ CallEnds /\ ok' = TRUE
    /\ UNCHANGED <<memory, infos, made, backup, queues, life, job>>
RemoveHookEnds ==
    /\ step = "restore" /\ back = {}
    /\ hooks' = hooks \ Mine
    /\ CallEnds
    /\ UNCHANGED <<memory, infos, made, backup, queues, life, job, ok>>

(* The slot the call is about to write; its region is replaced first, if     *)
(* that has not been done.                                                   *)
Target(s) ==
    \/ step = "write" /\ \E p \in places : NextPlace(p) /\ s = SlotAt(p)
    \/ step = "undo" /\ \E h \in back : Last(h) /\ s = h.slot
    \/ step = "restore" /\ \E h \in back : First(h) /\ s = h.slot

ReplaceVma ==
    /\ \E s \in Slots : Target(s) /\ (MoveVma(s) \/ ZeroVma \/ CopyVma(s))
    /\ UNCHANGED <<plti, queues, life, job, todo, work, ok>>

-----------------------------------------------------------------------------
(* The loader's own hooks.  It names a library by its file name.             *)

FileCall(op, h) == [op |-> op, lib |-> h.lib, key |-> "file", name |-> h.name, by |-> h.by,
                    fn |-> h.fn]

(* hook_functions: a hook that fails does not stop the others.               *)
HookFunctions ==
    /\ job = "none" /\ phase = "zygote" /\ infos = {}
    /\ job' = "hook" /\ AddLib(Runtime)
    /\ todo' = [i \in DOMAIN RuntimeHooks |-> FileCall("add", RuntimeHooks[i])]
    /\ UNCHANGED <<memory, hooks, made, backup, queues, life, work, ok>>

(* The functions a call through a slot runs, one after the other.            *)
Through(s) ==
    LET at[n \in 0 .. Cardinality(Fns)] ==
            IF n = 0 THEN got[s]
            ELSE IF at[n - 1] \in Fns THEN backup[at[n - 1]] ELSE at[n - 1]
    IN Range(at)

LeadsHere(fn) == mapped /\ \E s \in Slots \ Hole : fn \in Through(s)

(* property_get of the loader, whose body is hook_unloader: once libart is   *)
(* there, its hook goes in and this one is taken out.                        *)
PropertyGet ==
    /\ job = "none" /\ LeadsHere(PropertyHook.fn) /\ Cardinality(hooks) < MaxRecords
    /\ job' = "hook" /\ AddLib(Art)
    /\ todo' = <<FileCall("add", ArtHook), FileCall("remove", PropertyHook)>>
    /\ UNCHANGED <<memory, hooks, made, backup, queues, life, work, ok>>

Hooked ==
    /\ job = "hook" /\ todo = <<>> /\ job' = "none" /\ ok' = TRUE
    /\ UNCHANGED <<memory, plti, queues, life, todo, work>>

(* pthread_attr_setstacksize of the loader, in a process that is to be rid   *)
(* of it: unhook_functions tries every core hook and answers whether all     *)
(* came out.                                                                 *)
UnhookFunctions ==
    /\ job = "none" /\ LeadsHere(ArtHook.fn) /\ phase = "app"
    /\ job' = "unhook" /\ ok' = TRUE
    /\ todo' = [i \in DOMAIN CoreHooks |-> FileCall("remove", CoreHooks[i])]
    /\ UNCHANGED <<memory, plti, queues, life, work>>

(* plti_deinit: the regions it replaced come back, each by one system call,  *)
(* except the lost ones, which keep what they hold or are not mapped any more.*)
PltiDeinit(lost) ==
    /\ got' = [s \in Slots |-> IF stash[s] # Empty /\ LibOf[s] \notin lost
                               THEN stash[s] ELSE got[s]]
    /\ stash' = [s \in Slots |-> Empty]
    /\ infos' = {} /\ hooks' = {} /\ made' = 0
    /\ LET left == {s \in Slots : stash[s] # Empty /\ LibOf[s] \in lost} IN
       unsure' = unsure \cup left /\ gone' \in {gone, gone \cup left}
    /\ UNCHANGED <<swap, moving>>

(* An incomplete restore, or another thread inside the library, keeps the    *)
(* loader in memory.                                                         *)
Unmap ==
    /\ job = "unhook" /\ todo = <<>>
    /\ \E lost \in SUBSET Libs :
          /\ lost # {} => faults < MaxFaults
          /\ faults' = IF lost = {} THEN faults ELSE faults + 1
          /\ PltiDeinit(lost)
    /\ \E alone \in BOOLEAN : mapped' = ~(ok /\ alone)
    /\ phase' = "over" /\ job' = "none" /\ ok' = TRUE
    /\ UNCHANGED <<backup, queues, todo, work>>

-----------------------------------------------------------------------------
(* What modules ask for, while the process is being specialized.  They name  *)
(* a library by its path.                                                    *)

PathCall(op, lib, h) == [op |-> op, lib |-> lib, key |-> "path", name |-> h.sym,
                         by |-> "exact", fn |-> h.fn]

Specialize ==
    /\ job = "none" /\ phase = "zygote" /\ phase' = "specialize"
    /\ UNCHANGED <<memory, plti, queues, mapped, job, todo, work, ok>>

Specialized ==
    /\ job = "none" /\ phase = "specialize" /\ phase' = "app"
    /\ queue3' = <<>> /\ ignore3' = <<>>
    /\ UNCHANGED <<memory, plti, queue4, asked, mapped, job, todo, work, ok>>

Asks ==
    /\ job = "none" /\ phase = "specialize"
    /\ asked < MaxAsked /\ asked' = asked + 1
    /\ UNCHANGED <<memory, hooks, made, backup, life, job, todo, work, ok>>

(* api_plt_hook_register *)
PltHookRegister ==
    /\ Asks /\ Len(queue3) < MaxRegister
    /\ \E h \in V3Hooks : queue3' = Append(queue3, h)
    /\ UNCHANGED <<infos, ignore3, queue4>>

(* api_plt_hook_exclude *)
PltHookExclude ==
    /\ Asks /\ Len(ignore3) < MaxRegister
    /\ \E i \in V3Ignores : ignore3' = Append(ignore3, i)
    /\ UNCHANGED <<infos, queue3, queue4>>

(* api_plt_hook_register_v4: the library is looked up and added at once.     *)
PltHookRegisterV4 ==
    /\ Asks
    /\ \E h \in V4Hooks : AddLib(h.lib) /\ queue4' = Append(queue4, h)
    /\ UNCHANGED <<queue3, ignore3>>

Ignored(lib, sym) ==
    \E i \in Range(ignore3) : lib \in i.match /\ i.sym \in {AnySymbol, sym}

(* api_plt_hook_commit: every library of the maps against every entry.  The  *)
(* libraries are the ones plti knows already, it adds none.                  *)
CommitEntry(lib, h) ==
    PathCall(IF lib \in h.match /\ ~Ignored(lib, h.sym) THEN "add" ELSE "skip", lib, h)

PltHookCommit ==
    /\ job = "none" /\ phase = "specialize" /\ queue3 # <<>>
    /\ job' = "commit3"
    /\ LET n == Len(queue3) IN
       todo' = [k \in 1 .. Len(MapOrder) * n |->
                  CommitEntry(MapOrder[((k - 1) \div n) + 1], queue3[((k - 1) % n) + 1])]
    /\ UNCHANGED <<memory, plti, queues, life, work, ok>>

Committed ==
    /\ job = "commit3" /\ todo = <<>> /\ job' = "none"
    /\ queue3' = <<>> /\ ignore3' = <<>>
    /\ UNCHANGED <<memory, plti, queue4, asked, life, todo, work, ok>>

(* api_plt_hook_commit_v4 takes the list of all modules.                     *)
PltHookCommitV4 ==
    /\ job = "none" /\ phase = "specialize" /\ queue4 # <<>>
    /\ job' = "commit4" /\ queue4' = <<>>
    /\ todo' = [i \in DOMAIN queue4 |-> PathCall("add", queue4[i].lib, queue4[i])]
    /\ UNCHANGED <<memory, plti, queue3, ignore3, asked, life, work, ok>>

CommittedV4 ==
    /\ job = "commit4" /\ todo = <<>> /\ job' = "none"
    /\ UNCHANGED <<memory, plti, queues, life, todo, work, ok>>

Next ==
    \/ SkipCall
    \/ AddHook \/ KeepOriginal \/ HookSlot \/ HookFails \/ UndoSlot \/ AddHookEnds
    \/ RemoveHook \/ RestoreSlot \/ RestoreFails \/ RemoveHookEnds \/ ReplaceVma
    \/ HookFunctions \/ PropertyGet \/ Hooked \/ UnhookFunctions \/ Unmap
    \/ Specialize \/ Specialized
    \/ PltHookRegister \/ PltHookExclude \/ PltHookRegisterV4
    \/ PltHookCommit \/ Committed \/ PltHookCommitV4 \/ CommittedV4

Spec == Init /\ [][Next]_vars

-----------------------------------------------------------------------------
(* Properties                                                                *)

Keys == {"file", "path"}
HookNames == {h.name : h \in LoaderHooks} \cup {h.sym : h \in V3Hooks \cup V4Hooks}
Records == [lib : Libs, key : Keys, name : HookNames, slot : Slots,
            original : Symbols \cup Fns, no : Nat]
Calls == [op : {"add", "remove", "skip"}, lib : Libs, key : Keys, name : HookNames,
          by : {"exact", "prefix"}, fn : Fns]

TypeOK ==
    /\ got \in [Slots -> Symbols \cup Fns]
    /\ stash \in [Slots -> Symbols \cup Fns \cup {Empty}]
    /\ backup \in [Fns -> Symbols \cup Fns \cup {Empty}]
    /\ infos \subseteq Libs /\ hooks \subseteq Records /\ made \in Nat
    /\ queue3 \in Seq(V3Hooks) /\ ignore3 \in Seq(V3Ignores) /\ queue4 \in Seq(V4Hooks)
    /\ phase \in {"zygote", "specialize", "app", "over"} /\ mapped \in BOOLEAN
    /\ job \in {"none", "hook", "commit3", "commit4", "unhook"}
    /\ todo \in Seq(Calls)
    /\ step \in {"call", "slot", "write", "undo", "restore"}
    /\ places \subseteq UNION {DOMAIN Relocs[l] : l \in Libs}
    /\ back \subseteq hooks /\ ok \in BOOLEAN /\ unsure \subseteq Slots
    /\ asked \in 0 .. MaxAsked /\ faults \in 0 .. MaxFaults
    /\ swap \in {"no", "moved", "zero"} /\ moving \subseteq Slots /\ gone \subseteq Slots

(* The functions through which a call of the symbol of s may run: the symbol *)
(* itself, and the hooks for it whose cell has been written.                 *)
Line(s) == {SymOf[s]} \cup {f \in Fns : SymOf[s] \in Serves[f] /\ backup[f] # Empty}

(* While stash_vma is at work, the region of the slot that is to be written.  *)
Replaced ==
    {s \in Slots : swap # "no" /\ \E t \in Slots : Target(t) /\ s \in Vma(t)}

(* At every moment, however hooks are put over one another, rolled back and  *)
(* taken out, and whatever fails on the way, a call through a slot reaches   *)
(* the function the platform linked there: it runs from hook to hook of that *)
(* symbol, through cells that are written, and no hooks lead into one        *)
(* another for ever (plti_internal_add_hook writes a cell before the slot,   *)
(* and only once).  A slot leads nowhere only while stash_vma replaces its   *)
(* region for the write at work ("if we are too late, we could make other    *)
(* threads crash", fork_hooks.rs:624-629), or when a system call lost the    *)
(* region.                                                                   *)
CallsComeThrough ==
    /\ \A s \in Slots \ Hole : got[s] \in Line(s)
    /\ \A s \in Slots : \A f \in Line(s) \cap Fns : backup[f] \in Line(s)
    /\ \A S \in SUBSET {f \in Fns : backup[f] # Empty} :
           S # {} => \E f \in S : backup[f] \notin S
    /\ Hole \subseteq Replaced \cup unsure

(* A slot that differs from what the platform linked is in the records, from *)
(* which alone it can be restored, unless its memory failed in the middle:   *)
(* plti_internal_add_hook records each slot of each table, and a removal     *)
(* drops the records only when every slot has its original back.             *)
HooksAreRecorded ==
    phase # "over" => \A s \in Slots \ unsure :
        got[s] # SymOf[s] => \E h \in hooks : h.slot = s

(* Once the loader has unmapped itself no slot holds a function of it, and   *)
(* in the tables whose pages plti replaced every slot has the function the   *)
(* platform linked again, so that no module's hook goes on into the loader   *)
(* (unhook_functions, the gate of pthread_attr_setstacksize, plti_deinit).   *)
UnmapIsSafe ==
    ~mapped => \A s \in Slots \ unsure :
        /\ got[s] \notin LoaderFns
        /\ Region[s] = "relro" => got[s] = SymOf[s]
=============================================================================
