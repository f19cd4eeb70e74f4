------------------------------ MODULE CsoLinker ------------------------------
(* The in-process library loader (csoloader) as the loader library drives    *)
(* it: load_modules_only loads and links the modules of a process one after  *)
(* the other, run_modules_post unloads or abandons each of them, and the     *)
(* self-unmap calls csoloader_deinit.  Modelled are the phases of            *)
(* csoloader_load and linker_link with their failures, the dependency walk,  *)
(* relocation with symbol lookup, the registrations at the unwinder and in   *)
(* the loader's own tables, constructors and destructors, and the two ways   *)
(* to let go of a library.  Thread-local storage is CsoTls, whose table the  *)
(* other threads of the process use at the same time.                        *)
EXTENDS CsoTls, Sequences, SequencesExt

CONSTANTS
    Mains,        \* the modules of the process, in load order
    Libs,         \* libraries they may need
    Worlds,       \* what the library files on the device contain
    Loader,       \* the thread that loads
    MaxDeps,      \* MAX_DEPS
    MaxCustomLibs,     \* MAX_CUSTOM_LIBS, slots of the backtrace registry
    MaxActiveLinkers   \* MAX_ACTIVE_LINKERS

Files == Range(Mains) \cup Libs
NoMain == "none"

ASSUME LinkerAssumption ==
    /\ Mains \in Seq(Range(Mains)) /\ IsInjective(Mains)
    /\ Images = Range(Mains) \X Files
    /\ {MaxDeps, MaxCustomLibs, MaxActiveLinkers} \subseteq Nat
    /\ Loader \in Threads
    /\ NoMain \notin Files

(* Of each file: the names it needs, its relocations; the libraries that are *)
(* on the search paths; and the images for whose program headers there will  *)
(* be no memory.                                                             *)
ASSUME WorldAssumption ==
    \A w \in Worlds :
        /\ w.needed \in [Files -> Seq(Libs)]
        /\ \A f \in Files : Len(w.relocs[f]) \in Nat
        /\ w.present \subseteq Libs
        /\ w.uncopied \subseteq Images

VARIABLES
    world,      \* the member of Worlds this device is
    queue,      \* the modules still to be loaded
    phase,      \* "load", "post" once the process is specialized, "ended"
    pc,         \* where csoloader_load or the release stands
    cur,        \* the module in work
    k,          \* position in the loop of the current phase, 0 for main
    names,      \* loaded_libs, the work list of linker_link
    deps,       \* linker.dependencies up to dep_count
    linked,     \* linker.is_linked
    unload,     \* the release under way is linker_destroy, not linker_abandon
    rel,        \* position in the relocations of the image in work
    visit,      \* constructor_state: 0, 1 while it is visited, 2 when it has run
    stack,      \* calls of call_manual_constructors under way: [dep, next]
    addr,       \* which address the linker has: the local one or the table's
    life,       \* what has become of each module
    mapped,     \* images the loader has mapped and not unmapped
    leaked,     \* of these, the ones no record of the loader names
    live,       \* CsoElf objects in existence
    bound,      \* the images a relocated image calls into
    tlsRefs,    \* TLS module ids written into an image by its relocations
    ctorLog,    \* images in the order of their constructors
    finalised,  \* images whose destructors have run
    backtrace,  \* images in the backtrace registry
    frames,     \* images whose .eh_frame the unwinder knows
    registry    \* ACTIVE_LINKERS, addresses of Linker records

linkVars == <<world, queue, phase, pc, cur, k, names, deps, linked, unload,
              rel, visit, stack, addr, life, mapped, leaked, live, bound, tlsRefs, ctorLog,
              finalised, backtrace, frames, registry>>
vars == <<linkVars, tlsVars>>
walkVars == <<rel, visit, stack>>

Main(m) == <<m, m>>
FileOf(img) == img[2]
ModuleOf(img) == img[1]

(* The images linker_link works on: main and the manual dependencies, by     *)
(* their positions.                                                          *)
ImageAt(m, i) == IF i = 0 THEN Main(m) ELSE <<m, deps[m][i].lib>>
ToLink(m) == {0} \cup {i \in DOMAIN deps[m] : deps[m][i].manual}
LinkedImages(m) == {ImageAt(m, i) : i \in ToLink(m)}

(* A system library has its image object but is mapped by the platform.      *)
IsSystem(img) == FileOf(img) \in world.system

Init ==
    /\ world \in Worlds
    /\ queue = Mains
    /\ phase = "load"
    /\ pc = "idle"
    /\ cur = NoMain
    /\ k = 0
    /\ names = <<>>
    /\ deps = [m \in Range(Mains) |-> <<>>]
    /\ linked = [m \in Range(Mains) |-> FALSE]
    /\ unload = FALSE
    /\ rel = 1 /\ visit = [i \in 1 .. MaxDeps |-> 0] /\ stack = <<>>
    /\ addr = [m \in Range(Mains) |-> "local"]
    /\ life = [m \in Range(Mains) |-> "none"]
    /\ mapped = {} /\ leaked = {} /\ live = {}
    /\ bound = [i \in Images |-> {}]
    /\ tlsRefs = [i \in Images |-> {}]
    /\ ctorLog = <<>> /\ finalised = {}
    /\ backtrace = {} /\ frames = {} /\ registry = {}
    /\ TlsInit

-----------------------------------------------------------------------------
(* csoloader_load                                                            *)

GiveUp(m) ==
    /\ life' = [life EXCEPT ![m] = "gone"]
    /\ UNCHANGED <<pc, cur, k, names, mapped, live, registry>>

(* Up to linker_init.  The image is mapped and parsed, or nothing of it      *)
(* stays.  The Linker lies in a local of load_modules_only at this time:     *)
(* register_linker finds that address taken by the module before, or takes   *)
(* a place for it while there is one.                                        *)
StartLoad ==
    /\ phase = "load" /\ pc = "idle" /\ queue # <<>>
    /\ queue' = Tail(queue)
    /\ LET m == Head(queue) IN
       \/ GiveUp(m)
       \/ /\ mapped' = mapped \cup {Main(m)}
          /\ live' = live \cup {Main(m)}
          /\ life' = [life EXCEPT ![m] = "loading"]
          /\ registry' = IF Cardinality(registry) < MaxActiveLinkers
                         THEN registry \cup {"local"} ELSE registry
          /\ names' = world.needed[m]
          /\ cur' = m /\ k' = 1 /\ pc' = "deps"
    /\ UNCHANGED <<world, phase, deps, linked, unload, walkVars, addr, leaked, bound, tlsRefs,
                   ctorLog, finalised, backtrace, frames, tlsVars>>

(* linker_link returned false: csoloader_load calls linker_destroy.          *)
LinkFails == pc' = "fini" /\ unload' = TRUE /\ k' = 0

(* ---- the dependency loop of linker_link -------------------------------- *)

LinkVarsInDeps == <<world, queue, phase, cur, linked, walkVars, addr, life, bound, tlsRefs,
                    ctorLog, finalised, backtrace, frames, registry, tlsVars>>

AddDependency(m, lib, manual) ==
    deps' = [deps EXCEPT ![m] = Append(@, [lib |-> lib, manual |-> manual])]

(* The names a manual dependency needs and the list does not have yet; one   *)
(* that occurs twice is found present the second time.                       *)
NewNames(lib) ==
    FoldLeft(LAMBDA acc, n : IF n \in Range(acc) THEN acc ELSE Append(acc, n),
             names, world.needed[lib])

(* A needed library that is nowhere on the search paths is skipped.          *)
SkipMissing(n) ==
    /\ n \notin world.present
    /\ names' = RemoveAt(names, k)
    /\ UNCHANGED <<pc, k, unload, deps, mapped, leaked, live>>

IsLoaded(n) == n = cur \/ \E i \in DOMAIN deps[cur] : deps[cur][i].lib = n

SkipLoaded(n) ==
    /\ n \in world.present /\ IsLoaded(n)
    /\ k' = k + 1
    /\ UNCHANGED <<pc, names, unload, deps, mapped, leaked, live>>

MustLoad(n) == n \in world.present /\ ~IsLoaded(n)

TooManyDeps(n) ==
    /\ MustLoad(n) /\ Len(deps[cur]) >= MaxDeps
    /\ LinkFails
    /\ UNCHANGED <<names, deps, mapped, leaked, live>>

(* elf_create_loaded: the platform has it already.                           *)
TakeLoaded(n) ==
    /\ MustLoad(n) /\ Len(deps[cur]) < MaxDeps /\ n \in world.system
    /\ AddDependency(cur, n, FALSE)
    /\ live' = live \cup {<<cur, n>>}
    /\ k' = k + 1
    /\ UNCHANGED <<pc, names, unload, mapped, leaked>>

LoadManually(n) ==
    /\ MustLoad(n) /\ Len(deps[cur]) < MaxDeps /\ n \notin world.system
    /\ AddDependency(cur, n, TRUE)
    /\ mapped' = mapped \cup {<<cur, n>>}
    /\ live' = live \cup {<<cur, n>>}
    /\ names' = NewNames(n)
    /\ k' = k + 1
    /\ UNCHANGED <<pc, unload, leaked>>

(* The mapping fails whole, or succeeds and the image cannot be parsed: then *)
(* dep_count has not counted it and nobody unmaps it.                        *)
LoadManuallyFails(n) ==
    /\ MustLoad(n) /\ Len(deps[cur]) < MaxDeps /\ n \notin world.system
    /\ \/ UNCHANGED <<mapped, leaked>>
       \/ /\ mapped' = mapped \cup {<<cur, n>>}
          /\ leaked' = leaked \cup {<<cur, n>>}
    /\ LinkFails
    /\ UNCHANGED <<names, deps, live>>

ResolveNeeded ==
    /\ pc = "deps" /\ k <= Len(names)
    /\ LET n == names[k] IN
       \/ SkipMissing(n) \/ SkipLoaded(n) \/ TooManyDeps(n)
       \/ TakeLoaded(n) \/ LoadManually(n) \/ LoadManuallyFails(n)
    /\ UNCHANGED LinkVarsInDeps

DepsDone ==
    /\ pc = "deps" /\ k > Len(names)
    /\ pc' = "tls" /\ k' = 0 /\ names' = <<>>
    /\ UNCHANGED <<deps, mapped, leaked, live, unload, LinkVarsInDeps>>

(* ---- TLS registration --------------------------------------------------- *)

Stays == <<world, queue, phase, cur, names, deps, linked, addr, life, mapped,
           leaked, live, finalised, registry>>

RegisterTls ==
    /\ pc = "tls" /\ k <= Len(deps[cur])
    /\ LET img == ImageAt(cur, k) IN
       \/ /\ k \notin ToLink(cur) \/ FileOf(img) \notin world.tls
          /\ k' = k + 1 /\ UNCHANGED <<pc, unload, tlsVars>>
       \/ /\ k \in ToLink(cur) /\ FileOf(img) \in world.tls /\ FreeSlots # {}
          /\ RegisterTlsSegment(img)
          /\ k' = k + 1 /\ UNCHANGED <<pc, unload>>
       \/ /\ k \in ToLink(cur) /\ FileOf(img) \in world.tls /\ FreeSlots = {}
          /\ LinkFails /\ UNCHANGED tlsVars
    /\ UNCHANGED <<Stays, walkVars, bound, tlsRefs, ctorLog, backtrace, frames>>

TlsDone ==
    /\ pc = "tls" /\ k > Len(deps[cur])
    /\ BumpTlsGeneration
    /\ pc' = "reloc" /\ k' = 0
    /\ UNCHANGED <<Stays, unload, walkVars, bound, tlsRefs, ctorLog, backtrace, frames>>

(* ---- relocation --------------------------------------------------------- *)

Exports(lib, sym) == sym \in world.exports[lib]

(* find_symbol_in_linker_scope_info: the image's own tables, the main image, *)
(* then the dependencies in load order.                                      *)
Provider(img, sym) ==
    LET m == ModuleOf(img)
        exporting == {i \in DOMAIN deps[m] : Exports(deps[m][i].lib, sym)}
    IN IF Exports(FileOf(img), sym) THEN img
       ELSE IF Exports(m, sym) THEN Main(m)
       ELSE IF exporting # {} THEN ImageAt(m, LowestOf(exporting))
       ELSE NoImage

HasTls(img) == FileOf(img) \in world.tls

NextReloc == rel' = rel + 1 /\ UNCHANGED <<pc, k, unload>>
Skip == NextReloc /\ UNCHANGED <<bound, tlsRefs, tracked, thread>>
Refuse == LinkFails /\ rel' = 1 /\ UNCHANGED <<bound, tlsRefs, tracked, thread>>

(* One relocation r of img, by its class as classify_reloc names it; p is    *)
(* the image that provides the symbol.  A class of another architecture and  *)
(* a symbol nobody defines fail the image, unless the reference is weak.     *)
RelocOther(r) == r.kind = "other" /\ Refuse

RelocRelative(r) == r.kind = "relative" /\ Skip

Unresolved(r, p) ==
    /\ r.kind \notin {"other", "relative"} /\ p = NoImage
    /\ \/ r.weak /\ Skip
       \/ ~r.weak /\ Refuse

RelocSymbol(img, r, p) ==
    /\ r.kind = "symbol" /\ p # NoImage
    /\ bound' = [bound EXCEPT ![img] = @ \cup {p}]
    /\ NextReloc /\ UNCHANGED <<tlsRefs, tracked, thread>>

RefersTo(img, r, p) ==
    /\ tlsRefs' = [tlsRefs EXCEPT ![img] =
                      @ \cup {[id |-> modId[p], of |-> p, desc |-> r.kind = "tlsdesc"]}]
    /\ NextReloc /\ UNCHANGED bound

NoTls(r, p) ==
    /\ r.kind \in {"dtpmod", "tlsdesc", "tprel"} /\ p # NoImage /\ ~HasTls(p)
    /\ \/ r.kind = "dtpmod" /\ Skip
       \/ r.kind # "dtpmod" /\ Refuse

(* A module id, for code that calls __tls_get_addr: always the loader's own. *)
RelocDtpMod(img, r, p) ==
    /\ r.kind = "dtpmod" /\ p # NoImage /\ HasTls(p)
    /\ RefersTo(img, r, p) /\ UNCHANGED <<tracked, thread>>

(* A descriptor whose argument is a tls_index the provider keeps.            *)
RelocTlsDesc(img, r, p) ==
    /\ r.kind = "tlsdesc" /\ p # NoImage /\ HasTls(p)
    /\ RefersTo(img, r, p)
    /\ tracked' = tracked \cup {p} /\ UNCHANGED thread

(* An offset from the thread pointer, found by calling __tls_get_addr now.   *)
RelocTprel(img, r, p) ==
    /\ r.kind = "tprel" /\ p # NoImage /\ HasTls(p)
    /\ RefersTo(img, r, p)
    /\ \E how \in Allocations : TlsGetAddr(Loader, modId[p], how)
    /\ UNCHANGED tracked

(* linker_process_relocations for the k-th image.  Without PT_DYNAMIC there  *)
(* is nothing to do, with it but without symbols the image is refused, which *)
(* a world says with an "other" entry.                                       *)
Relocations(i) == world.relocs[FileOf(ImageAt(cur, i))]

ProcessRelocation ==
    /\ pc = "reloc" /\ k \in ToLink(cur) /\ rel <= Len(Relocations(k))
    /\ LET img == ImageAt(cur, k)
           r == Relocations(k)[rel]
           p == IF r.sym = "self" THEN img ELSE Provider(img, r.sym)
       IN \/ RelocOther(r) \/ RelocRelative(r) \/ Unresolved(r, p)
          \/ RelocSymbol(img, r, p) \/ NoTls(r, p)
          \/ RelocDtpMod(img, r, p) \/ RelocTlsDesc(img, r, p) \/ RelocTprel(img, r, p)
    /\ UNCHANGED <<Stays, visit, stack, ctorLog, backtrace, frames, modules, generation, modId>>

ImageDone ==
    /\ pc = "reloc" /\ k <= Len(deps[cur])
    /\ k \in ToLink(cur) => rel > Len(Relocations(k))
    /\ k' = k + 1 /\ rel' = 1
    /\ UNCHANGED <<Stays, pc, unload, visit, stack, bound, tlsRefs, ctorLog, backtrace, frames,
                   tlsVars>>

RelocsDone ==
    /\ pc = "reloc" /\ k > Len(deps[cur])
    /\ pc' = "unwind" /\ k' = 0
    /\ UNCHANGED <<Stays, unload, walkVars, bound, tlsRefs, ctorLog, backtrace, frames, tlsVars>>

(* ---- registration at the unwinder, constructors ------------------------- *)

(* register_custom_library_for_backtrace, while there is a slot, and if the  *)
(* program headers of the library can be copied.                             *)
RegisterForBacktrace(img) ==
    backtrace' = IF Cardinality(backtrace) < MaxCustomLibs /\ img \notin world.uncopied
                 THEN backtrace \cup {img} ELSE backtrace

(* register_eh_frame_for_library: the unwinder gets the frames, and the slot *)
(* of the library remembers it, if it has one.                               *)
RegisterEhFrames(img) == frames' = frames \cup {img}

RegisterUnwind ==
    /\ pc = "unwind" /\ k <= Len(deps[cur])
    /\ \/ /\ k \in ToLink(cur)
          /\ RegisterForBacktrace(ImageAt(cur, k)) /\ RegisterEhFrames(ImageAt(cur, k))
       \/ k \notin ToLink(cur) /\ UNCHANGED <<backtrace, frames>>
    /\ k' = k + 1
    /\ UNCHANGED <<Stays, pc, unload, walkVars, bound, tlsRefs, ctorLog, tlsVars>>

UnwindDone ==
    /\ pc = "unwind" /\ k > Len(deps[cur])
    /\ pc' = "ctor" /\ k' = 1
    /\ UNCHANGED <<Stays, unload, walkVars, bound, tlsRefs, ctorLog, backtrace, frames, tlsVars>>

(* find_dep_index: 0 stands for the -1 of the code.                          *)
FindDepIndex(lib) ==
    LET hits == {i \in DOMAIN deps[cur] : deps[cur][i].manual /\ deps[cur][i].lib = lib}
    IN IF hits = {} THEN 0 ELSE LowestOf(hits)

CallConstructors(i) == ctorLog' = Append(ctorLog, ImageAt(cur, i))

InWalk == <<world, queue, phase, cur, names, deps, unload, rel, addr, life, mapped, leaked,
            live, bound, tlsRefs, finalised, backtrace, frames, registry, tlsVars>>

(* call_manual_constructors: a call for a dependency that is not visited.    *)
Enter(i, callers) ==
    /\ visit' = [visit EXCEPT ![i] = 1]
    /\ stack' = Append(callers, [dep |-> i, next |-> 1])

(* The loop of linker_link that starts a walk from each manual dependency.   *)
StartWalk ==
    /\ pc = "ctor" /\ stack = <<>> /\ k <= Len(deps[cur])
    /\ \/ deps[cur][k].manual /\ visit[k] = 0 /\ Enter(k, <<>>)
       \/ ~(deps[cur][k].manual /\ visit[k] = 0) /\ UNCHANGED <<visit, stack>>
    /\ k' = k + 1
    /\ UNCHANGED <<InWalk, pc, linked, ctorLog>>

(* The innermost call looks at the next name its library needs.  One that is *)
(* being visited itself ends all calls at once: every caller returns false,  *)
(* and the dependencies of all these calls stay in state 1.                  *)
Top == stack[Len(stack)]
NamesBelow == world.needed[deps[cur][Top.dep].lib]

WalkNext ==
    /\ pc = "ctor" /\ stack # <<>> /\ Top.next <= Len(NamesBelow)
    /\ LET d == FindDepIndex(NamesBelow[Top.next])
           onward == [stack EXCEPT ![Len(stack)].next = @ + 1]
       IN \/ /\ d # 0 => visit[d] = 2
             /\ stack' = onward /\ UNCHANGED visit
          \/ /\ d # 0 /\ visit[d] = 1
             /\ stack' = <<>> /\ UNCHANGED visit
          \/ /\ d # 0 /\ visit[d] = 0
             /\ Enter(d, onward)
    /\ UNCHANGED <<InWalk, pc, k, linked, ctorLog>>

WalkCalls ==
    /\ pc = "ctor" /\ stack # <<>> /\ Top.next > Len(NamesBelow)
    /\ CallConstructors(Top.dep)
    /\ visit' = [visit EXCEPT ![Top.dep] = 2]
    /\ stack' = SubSeq(stack, 1, Len(stack) - 1)
    /\ UNCHANGED <<InWalk, pc, k, linked>>

WalksDone ==
    /\ pc = "ctor" /\ stack = <<>> /\ k > Len(deps[cur])
    /\ pc' = "rest" /\ k' = 1
    /\ UNCHANGED <<InWalk, visit, stack, linked, ctorLog>>

(* The second loop of linker_link: what the walks have left out, in order.   *)
(* Mutant: it does not ask what they have called.                            *)
ConstructRestAgain ==
    /\ pc = "rest" /\ k <= Len(deps[cur])
    /\ \/ deps[cur][k].manual /\ CallConstructors(k)
          /\ visit' = [visit EXCEPT ![k] = 2]
       \/ ~deps[cur][k].manual /\ UNCHANGED <<ctorLog, visit>>
    /\ k' = k + 1
    /\ UNCHANGED <<InWalk, pc, stack, linked>>

ConstructRest ==
    /\ pc = "rest" /\ k <= Len(deps[cur])
    /\ \/ /\ deps[cur][k].manual /\ visit[k] # 2
          /\ CallConstructors(k)
          /\ visit' = [visit EXCEPT ![k] = 2]
       \/ /\ ~deps[cur][k].manual \/ visit[k] = 2
          /\ UNCHANGED <<ctorLog, visit>>
    /\ k' = k + 1
    /\ UNCHANGED <<InWalk, pc, stack, linked>>

ConstructMain ==
    /\ pc = "rest" /\ k > Len(deps[cur])
    /\ CallConstructors(0)
    /\ linked' = [linked EXCEPT ![cur] = TRUE]
    /\ visit' = [i \in 1 .. MaxDeps |-> 0]
    /\ pc' = "linked"
    /\ UNCHANGED <<InWalk, k, stack>>

(* load_modules_only looks the entry point up: with it the record moves to   *)
(* the module table, without it the module is unloaded at once.              *)
FindEntry ==
    /\ pc = "linked"
    /\ \/ /\ life' = [life EXCEPT ![cur] = "linked"]
          /\ addr' = [addr EXCEPT ![cur] = cur]
          /\ pc' = "idle" /\ cur' = NoMain
          /\ UNCHANGED <<unload, k>>
       \/ /\ LinkFails
          /\ UNCHANGED <<life, addr, cur>>
    /\ UNCHANGED <<world, queue, phase, names, deps, linked, walkVars, mapped, leaked, live,
                   bound, tlsRefs, ctorLog, finalised, backtrace, frames, registry, tlsVars>>

-----------------------------------------------------------------------------
(* run_modules_post: csoloader_unload for a module that asked for it,        *)
(* csoloader_abandon for the others.                                         *)
StartRelease ==
    /\ pc = "idle" /\ queue = <<>> /\ phase # "ended"
    /\ \E m \in Range(Mains) :
         /\ life[m] = "linked"
         /\ cur' = m
         /\ unload' \in BOOLEAN
         /\ pc' = IF unload' THEN "fini" ELSE "release"
         /\ k' = IF unload' THEN 0 ELSE Len(deps[m])
    /\ phase' = "post"
    /\ UNCHANGED <<world, queue, names, deps, linked, walkVars, addr, life, mapped, leaked, live,
                   bound, tlsRefs, ctorLog, finalised, backtrace, frames, registry, tlsVars>>

(* unregister_eh_frame_for_library reaches the unwinder only through the     *)
(* slot that remembers the registration.  Mutant: the slot is given up and   *)
(* the frames stay.                                                          *)
UnregisterSlotOnly(imgs) == backtrace' = backtrace \ imgs /\ UNCHANGED frames
UnregisterUnwind(imgs) ==
    /\ frames' = frames \ (imgs \cap backtrace)
    /\ backtrace' = backtrace \ imgs

(* Mutant: the release begins one dependency short. *)
RunDestructorsShort ==
    /\ pc = "fini" /\ Len(deps[cur]) > 0
    /\ finalised' = finalised \cup LinkedImages(cur)
    /\ UnregisterUnwind(LinkedImages(cur))
    /\ pc' = "release" /\ k' = Len(deps[cur]) - 1
    /\ UNCHANGED <<world, queue, phase, cur, names, deps, linked, unload, walkVars, addr, life,
                   mapped,
                   leaked, live, bound, tlsRefs, ctorLog, registry, tlsVars>>

(* The destructors of linker_destroy: main and the manual dependencies, if   *)
(* the library was ever linked.                                              *)
RunDestructors ==
    /\ pc = "fini"
    /\ LET imgs == IF linked[cur] THEN LinkedImages(cur) ELSE {} IN
       /\ finalised' = finalised \cup imgs
       /\ UnregisterUnwind(imgs)
    /\ pc' = "release" /\ k' = Len(deps[cur])
    /\ UNCHANGED <<world, queue, phase, cur, names, deps, linked, unload, walkVars, addr, life,
                   mapped,
                   leaked, live, bound, tlsRefs, ctorLog, registry, tlsVars>>

(* release_dependency, from the last to the first.                           *)
ReleaseDependency ==
    /\ pc = "release" /\ k > 0
    /\ LET img == <<cur, deps[cur][k].lib>> IN
       /\ UnregisterTlsSegments({img})
       /\ live' = live \ {img}
       /\ mapped' = IF unload /\ deps[cur][k].manual THEN mapped \ {img} ELSE mapped
    /\ k' = k - 1
    /\ UNCHANGED <<world, queue, phase, pc, cur, names, deps, linked, unload, walkVars, addr,
                   life, leaked, bound, tlsRefs, ctorLog, finalised, backtrace, frames, registry>>

(* The rest of linker_destroy and of linker_abandon: the registry forgets    *)
(* the address the record has now, main gives its slot back, and only an     *)
(* unloaded main is unmapped.                                                *)
ReleaseMain ==
    /\ pc = "release" /\ k = 0
    /\ registry' = registry \ {addr[cur]}
    /\ IF ~unload /\ linked[cur] THEN UnregisterUnwind({Main(cur)})
       ELSE UNCHANGED <<frames, backtrace>>
    /\ UnregisterTlsSegments({Main(cur)})
    /\ live' = live \ {Main(cur)}
    /\ mapped' = IF unload THEN mapped \ {Main(cur)} ELSE mapped
    /\ life' = [life EXCEPT ![cur] = IF unload THEN "gone" ELSE "kept"]
    /\ linked' = [linked EXCEPT ![cur] = FALSE]
    /\ deps' = [deps EXCEPT ![cur] = <<>>]
    /\ cur' = NoMain /\ pc' = "idle"
    /\ UNCHANGED <<world, queue, phase, k, names, unload, walkVars, addr, leaked, bound, tlsRefs,
                   ctorLog, finalised>>

(* csoloader_deinit, once the modules are all released.                      *)
Deinit ==
    /\ pc = "idle" /\ phase # "ended" /\ queue = <<>>
    /\ \A m \in Range(Mains) : life[m] \in {"gone", "kept"}
    /\ TlsDeinit
    /\ phase' = "ended"
    /\ UNCHANGED <<world, queue, pc, cur, k, names, deps, linked, unload, walkVars, addr, life,
                   mapped,
                   leaked, live, bound, tlsRefs, ctorLog, finalised, backtrace, frames,
                   registry>>

-----------------------------------------------------------------------------
(* Code of the libraries, in any thread, using its thread-local variables.   *)

Constructed == Range(ctorLog)
Running == {i \in Constructed : i \in mapped /\ i \notin finalised}

(* The module id such code passes on: the one a relocation stored, or what   *)
(* is to be read where a tls_index has been freed.                           *)
PassedId(ref) == IF ref.desc /\ ref.of \notin tracked THEN 0 .. (MaxTlsModules - 1)
                 ELSE {ref.id}

AccessTls(t) ==
    /\ t = Loader => pc \in {"idle", "ctor", "rest", "linked"}
    /\ \E img \in Running : \E ref \in tlsRefs[img] : \E id \in PassedId(ref) :
         \E how \in Allocations : TlsGetAddr(t, id, how)
    /\ UNCHANGED <<linkVars, modules, generation, modId, tracked>>

ThreadExit(t) ==
    /\ t # Loader
    /\ ThreadEnds(t)
    /\ UNCHANGED linkVars

Next ==
    \/ StartLoad \/ ResolveNeeded \/ DepsDone \/ RegisterTls \/ TlsDone
    \/ ProcessRelocation \/ ImageDone \/ RelocsDone \/ RegisterUnwind \/ UnwindDone
    \/ StartWalk \/ WalkNext \/ WalkCalls \/ WalksDone \/ ConstructRest \/ ConstructMain
    \/ FindEntry
    \/ StartRelease \/ RunDestructors \/ ReleaseDependency \/ ReleaseMain \/ Deinit
    \/ \E t \in Threads : AccessTls(t) \/ ThreadExit(t)

Spec == Init /\ [][Next]_vars

-----------------------------------------------------------------------------
(* Properties                                                                *)

TypeOK ==
    /\ world \in Worlds
    /\ phase \in {"load", "post", "ended"}
    /\ pc \in {"idle", "deps", "tls", "reloc", "unwind", "ctor", "rest", "linked", "fini",
               "release"}
    /\ cur \in Range(Mains) \cup {NoMain}
    /\ \A m \in Range(Mains) :
         /\ deps[m] \in Seq([lib : Libs, manual : BOOLEAN])
         /\ life[m] \in {"none", "loading", "linked", "kept", "gone"}
         /\ addr[m] \in {"local", m}
    /\ {mapped, live, leaked, finalised, backtrace, frames} \subseteq SUBSET Images
    /\ registry \subseteq {"local"} \cup Range(Mains)
    /\ TlsTypeOK

(* The dependencies of m whose constructors the loader runs.  AboveCycle(m,  *)
(* l): from l there is a way that never ends along the names they need.      *)
ManualFiles(m) == {FileOf(i) : i \in {j \in Constructed : ModuleOf(j) = m}} \ {m}
Needs(e, f) == f \in Range(world.needed[e])
AboveCycle(m, l) ==
    \E endless \in SUBSET ManualFiles(m) :
        l \in endless /\ \A e \in endless : \E f \in endless : Needs(e, f)

Precedes(i, j) == \A p, q \in DOMAIN ctorLog : ctorLog[p] = i /\ ctorLog[q] = j => p < q

(* Constructors run once for each library.  When main's has run, it was the  *)
(* last, and each dependency's ran after those of the dependencies it needs, *)
(* unless a cycle is in the way: call_manual_constructors and the loop of    *)
(* linker_link that follows it.                                              *)
ConstructedInOrder ==
    /\ \A p, q \in DOMAIN ctorLog : ctorLog[p] = ctorLog[q] => p = q
    /\ \A m \in Range(Mains) : Main(m) \in Constructed =>
         \A l \in ManualFiles(m) :
             /\ Precedes(<<m, l>>, Main(m))
             /\ AboveCycle(m, l) \/
                \A n \in ManualFiles(m) : Needs(l, n) => Precedes(<<m, n>>, <<m, l>>)

(* Nothing is left of a module whose load failed or which was unloaded: no   *)
(* mapping, image object, TLS slot or unwind record.  Two things survive,    *)
(* and only these: a dependency that was mapped and could not be parsed, and *)
(* the frame registration of a library that got no slot in the backtrace     *)
(* registry, which was full or had no memory for its program headers.        *)
GoneLeavesNothing ==
    \A m \in {x \in Range(Mains) : life[x] = "gone"} : \A img \in {m} \X Files :
        /\ img \notin live \cup backtrace \cup Range(modules)
        /\ img \in mapped => img \in leaked
        /\ Cardinality(Constructed) <= MaxCustomLibs /\ img \notin world.uncopied
              => img \notin frames

(* Nothing the process may still run or read leads to memory that is gone.   *)
(* The unwinder never has the frames of an unmapped library whose            *)
(* registration the backtrace registry remembers, at no point of a release   *)
(* either.  Code that may still run, that of linked and of abandoned         *)
(* libraries, never has an unmapped library behind a symbol it was linked    *)
(* to.  A library loses its memory only after its destructors have run.      *)
NothingDangles ==
    /\ backtrace \subseteq mapped
    /\ Cardinality(Constructed) <= MaxCustomLibs => frames \ world.uncopied \subseteq mapped
    /\ \A img \in Running : \A p \in bound[img] : p \in mapped \/ IsSystem(p)
    /\ Constructed \ mapped \subseteq finalised
    /\ finalised \subseteq Constructed

(* The TLS table and the images agree: a slot belongs to an image that still *)
(* exists and knows its slot, and an image that believes it has one owns it. *)
SlotsBelongToLive ==
    /\ \A s \in Slots : modules[s] # NoImage =>
           modules[s] \in live /\ modId[modules[s]] = s
    /\ \A img \in live : modId[img] # 0 => modules[modId[img]] = img

(* A thread that is up to date with the table holds no block for an empty    *)
(* slot, and no thread ever hands a slice of its own arena to free().        *)
SyncedHoldsNoDead ==
    \A t \in Threads :
        /\ ~thread[t].wrongFree
        /\ thread[t].gen = generation =>
               \A s \in Slots : modules[s] = NoImage => thread[t].block[s] = NoImage

(* register_tls_segment, unregister_tls_segment and sync_thread_tls_locked   *)
(* keep the table, the images and the threads in step, whatever load fails   *)
(* and whenever a thread looks.                                              *)
TlsInStep == TypeOK /\ SlotsBelongToLive /\ SyncedHoldsNoDead

(* sync_thread_tls_locked: "free per-thread blocks of modules that have      *)
(* since been unregistered".  A thread that is up to date would then hold in *)
(* a slot the block of its present owner, or none.                           *)
SyncedHoldsCurrent ==
    \A t \in Threads : thread[t].gen = generation =>
        \A s \in Slots : thread[t].block[s] \in {NoImage, modules[s]}
=============================================================================
