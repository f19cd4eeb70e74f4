------------------------------ MODULE CsoImage ------------------------------
(* One library on its way into memory by the loader of its own (crates/      *)
(* csoloader): its segments are mapped one by one (linker_load.rs), what is  *)
(* not writable is made so, the relocation tables are walked                 *)
(* (linker_reloc.rs), the protections of the segments come back and RELRO    *)
(* is sealed (linker_core.rs).                                               *)
(*                                                                           *)
(* Memory is counted in units, PageUnits of them to a page.  A unit holds    *)
(* a unit of the file, zero, or what a relocation made of it.                *)
EXTENDS ElfTables

CONSTANTS
    Libraries,   \* what may be loaded: see ElfTables and Segment
    PageUnits,
    MaxFaults    \* bound: system calls that fail

ASSUME PageAssumption == PageUnits \in Nat \ {0} /\ MaxFaults \in Nat

Segment == [vaddr : Nat, memsz : Nat \ {0}, offset : Nat, filesz : Nat, flags : SUBSET {"r", "w", "x"}]

PageStart(u) == (u \div PageUnits) * PageUnits
PageEnd(u) == PageStart(u + PageUnits - 1)
PagesOf(from, size) == {p \in PageStart(from) .. (PageEnd(from + size) - 1) : PageStart(p) = p}
UnitsOf(pages) == UNION {p .. (p + PageUnits - 1) : p \in pages}
UnitsIn(s) == s.vaddr .. (s.vaddr + s.memsz - 1)

(* What link editors see to: every segment may be read, and the pages of     *)
(* RELRO have no code and no other data that is written, for all of them     *)
(* will be read-only.                                                        *)
ASSUME LayoutAssumption ==
    \A l \in Libraries :
        /\ l.segs \in Seq(Segment) /\ l.relro \in [vaddr : Nat, size : Nat]
        /\ \A s \in Range(l.segs) :
              /\ "r" \in s.flags
              /\ \A p \in PagesOf(l.relro.vaddr, l.relro.size) \cap PagesOf(s.vaddr, s.memsz) :
                    /\ "x" \notin s.flags
                    /\ "w" \in s.flags => UnitsIn(s) \cap UnitsOf({p}) \subseteq
                           l.relro.vaddr .. (l.relro.vaddr + l.relro.size - 1)

VARIABLES
    lib,     \* the library
    phase,   \* what is done next; or linked, failed, or crashed on a page
    next,    \* the next segment
    mem,     \* content of each unit of the reserved region
    prot,    \* protection of each page of it
    walk,    \* where the walk through the packed table stands
    faults

vars == <<lib, phase, next, mem, prot, walk, faults>>

Nothing == <<"none">>
Zero == <<"zero">>
File(u) == <<"file", u>>
NoWalk == [pos |-> 3, seen |-> 0, left |-> 0, flags |-> 0, delta |-> 0, offset |-> 0,
           info |-> 0, addend |-> 0]

Init ==
    /\ lib \in Libraries
    /\ phase = "reserve" /\ next = 1
    /\ mem = <<>> /\ prot = <<>>
    /\ walk = NoWalk /\ faults = 0

Failing(S) == {{}} \cup (IF faults < MaxFaults THEN {{x} : x \in S} ELSE {})
Count(failed) == faults' = faults + Cardinality(failed)

-----------------------------------------------------------------------------
(* linker_load_library_manually                                              *)

Segs == Range(lib.segs)
Region == LET lo == PageStart(Least({s.vaddr : s \in Segs}))
              hi == PageEnd(CHOOSE e \in {s.vaddr + s.memsz : s \in Segs} :
                                \A s \in Segs : s.vaddr + s.memsz <= e)
          IN lo .. (hi - 1)

Unmapped == mem' = <<>> /\ prot' = <<>> /\ phase' = "failed"

(* The whole region is reserved without access.                              *)
Reserve ==
    /\ phase = "reserve"
    /\ \E failed \in Failing({"mmap"}) :
         /\ Count(failed)
         /\ IF lib.segs = <<>> \/ failed # {} THEN Unmapped
            ELSE /\ mem' = [u \in Region |-> Nothing]
                 /\ prot' = [p \in {u \in Region : PageStart(u) = u} |-> {}]
                 /\ phase' = "load"
    /\ UNCHANGED <<lib, next, walk>>

(* load_one_segment: the pages of the file, anonymous ones behind them, and  *)
(* zeros after the end of the file's part on its last page.                  *)
FilePages(s) == PagesOf(s.vaddr, PageEnd(s.offset + s.filesz) - PageStart(s.offset) - (s.vaddr % PageUnits))
BssPages(s) == PagesOf(s.vaddr, s.memsz) \ FilePages(s)
TailUnits(s) ==
    LET end == s.vaddr + s.filesz
    IN IF "w" \in s.flags /\ s.filesz < s.memsz
       THEN {u \in end .. (PageEnd(end) - 1) : u < s.vaddr + s.memsz} ELSE {}

(* Mutant: the tail of the last page keeps what the file has there.          *)
LoadedNoTail(s) ==
    [u \in DOMAIN mem |->
        IF u \in UnitsOf(BssPages(s)) THEN Zero
        ELSE IF u \in UnitsOf(FilePages(s))
             THEN File(u - PageStart(s.vaddr) + PageStart(s.offset)) ELSE mem[u]]
Loaded(s) ==
    [u \in DOMAIN mem |->
        IF u \in TailUnits(s) \cup UnitsOf(BssPages(s)) THEN Zero
        ELSE IF u \in UnitsOf(FilePages(s))
             THEN File(u - PageStart(s.vaddr) + PageStart(s.offset)) ELSE mem[u]]

LoadSegment ==
    /\ phase = "load" /\ next <= Len(lib.segs)
    /\ LET s == lib.segs[next] IN
       \E failed \in Failing({"mmap"}) :
         /\ Count(failed) /\ next' = next + 1
         /\ IF failed # {} THEN Unmapped
            ELSE IF BssPages(s) # {} /\ "w" \notin s.flags
            THEN phase' = "crashed" /\ UNCHANGED <<mem, prot>>   \* the memset
            ELSE /\ mem' = Loaded(s)
                 /\ prot' = [p \in DOMAIN prot |->
                               IF p \in PagesOf(s.vaddr, s.memsz) THEN s.flags ELSE prot[p]]
                 /\ UNCHANGED phase
    /\ UNCHANGED <<lib, walk>>

-----------------------------------------------------------------------------
(* linker_link, for this image.                                              *)

ReadOnly == {s \in Segs : "w" \notin s.flags}

(* A segment that cannot be made writable is warned about.                   *)
MakeWritable ==
    /\ phase = "load" /\ next > Len(lib.segs) /\ phase' = "relr"
    /\ \E failed \in Failing(ReadOnly) :
         /\ Count(failed)
         /\ prot' = [p \in DOMAIN prot |->
                LET over == {s \in ReadOnly \ failed : p \in PagesOf(s.vaddr, s.memsz)}
                IN IF over = {} THEN prot[p]
                   ELSE {"r", "w"} \cup (LET last == CHOOSE s \in over : \A t \in over : t.vaddr <= s.vaddr
                                         IN last.flags \cap {"x"})]
    /\ UNCHANGED <<lib, next, mem, walk>>

(* linker_process_relocations, table by table.                               *)
MayWrite(u) == u \in DOMAIN mem /\ "w" \in prot[PageStart(u)]

(* Without an addend of its own, a relocation adds to what the word holds,   *)
(* or to nothing.                                                            *)
Applied(m, r) ==
    LET addend == IF r.rela THEN <<"add", r.addend>>
                  ELSE IF RelocType(r.info) \in {"abs", "pc"} THEN m[r.offset] ELSE <<"add", 0>>
    IN [m EXCEPT ![r.offset] = <<"reloc", r.info, addend>>]

WriteAll(relocs, then) ==
    IF \A r \in Range(relocs) : MayWrite(r.offset)
    THEN mem' = FoldLeft(Applied, mem, relocs) /\ phase' = then
    ELSE phase' = "crashed" /\ UNCHANGED mem

RelocateRelr ==
    /\ phase = "relr"
    /\ LET at == DecodeRelr(lib.relr)
       IN IF \A u \in at : MayWrite(u)
          THEN /\ mem' = [u \in DOMAIN mem |-> IF u \in at THEN <<"bias", mem[u]>> ELSE mem[u]]
               /\ phase' = "rela"
          ELSE phase' = "crashed" /\ UNCHANGED mem
    /\ UNCHANGED <<lib, next, prot, walk, faults>>

RelocateRela ==
    /\ phase = "rela"
    /\ WriteAll(lib.rela \o lib.rel, IF lib.packed = <<>> THEN "plt" ELSE "packed")
    /\ walk' = [NoWalk EXCEPT !.offset = IF Len(lib.packed) >= 2 THEN lib.packed[2] ELSE 0]
    /\ UNCHANGED <<lib, next, prot, faults>>

(* walk_android_packed applies each relocation as it is read, and takes a    *)
(* value past the end of the table for zero.                                 *)
Value(p) == IF p <= Len(lib.packed) THEN lib.packed[p] ELSE 0
Upto(p) == IF p <= Len(lib.packed) THEN p ELSE Len(lib.packed) + 1

WalkGroup ==
    /\ phase = "packed" /\ walk.left = 0 /\ walk.seen < Value(1)
    /\ LET size   == Value(walk.pos)
           flags  == Value(walk.pos + 1)
           infoAt == walk.pos + 2 + When(ByDelta(flags))
           addAt  == infoAt + When(ByInfo(flags))
           shared == lib.isRela /\ HasAddend(flags) /\ ByAddend(flags)
           own    == lib.isRela /\ HasAddend(flags) /\ ~ByAddend(flags)
       IN walk' = [walk EXCEPT
             !.left = size, !.seen = @ + size, !.flags = flags,
             !.delta = IF ByDelta(flags) THEN Value(walk.pos + 2) ELSE 0,
             !.info = IF ByInfo(flags) THEN Value(infoAt) ELSE @,
             !.addend = IF shared THEN @ + Value(addAt) ELSE IF own THEN @ ELSE 0,
             !.pos = Upto(addAt + When(shared))]
    /\ UNCHANGED <<lib, phase, next, mem, prot, faults>>

(* What the walk holds after the next relocation.                          *)
AfterReloc(w) ==
    LET infoAt == w.pos + When(~ByDelta(w.flags))
        addAt  == infoAt + When(~ByInfo(w.flags))
        own    == lib.isRela /\ HasAddend(w.flags) /\ ~ByAddend(w.flags)
    IN [w EXCEPT !.left = @ - 1,
                 !.offset = @ + IF ByDelta(w.flags) THEN w.delta ELSE Value(w.pos),
                 !.info = IF ByInfo(w.flags) THEN @ ELSE Value(infoAt),
                 !.addend = @ + IF own THEN Value(addAt) ELSE 0,
                 !.pos = Upto(addAt + When(own))]

WalkReloc ==
    /\ phase = "packed" /\ walk.left > 0
    /\ walk' = AfterReloc(walk)
    /\ IF MayWrite(walk'.offset)
       THEN /\ mem' = Applied(mem, [offset |-> walk'.offset, info |-> walk'.info,
                                    addend |-> walk'.addend, rela |-> lib.isRela])
            /\ UNCHANGED phase
       ELSE phase' = "crashed" /\ UNCHANGED mem
    /\ UNCHANGED <<lib, next, prot, faults>>

WalkEnds ==
    /\ phase = "packed" /\ walk.left = 0 /\ walk.seen >= Value(1)
    /\ phase' = "plt"
    /\ UNCHANGED <<lib, next, mem, prot, walk, faults>>

RelocatePlt ==
    /\ phase = "plt" /\ WriteAll(lib.plt, "restore")
    /\ UNCHANGED <<lib, next, prot, walk, faults>>

(* restore_protections: page by page what the segments on it ask for         *)
(* together.  Mutant: what the last of them asks for.                        *)
Over(p) == {s \in Segs : p \in PagesOf(s.vaddr, s.memsz)}
WantedByLast(p) == IF Over(p) = {} THEN {}
                   ELSE (CHOOSE s \in Over(p) : \A t \in Over(p) : t.vaddr <= s.vaddr).flags
Wanted(p) == UNION {s.flags : s \in Over(p)}

RestoreProtections ==
    /\ phase = "restore" /\ phase' = "relro"
    /\ \E failed \in Failing(DOMAIN prot) :
         /\ Count(failed)
         /\ prot' = [p \in DOMAIN prot |->
                       IF Wanted(p) = {} \/ p \in failed THEN prot[p] ELSE Wanted(p)]
    /\ UNCHANGED <<lib, next, mem, walk>>

(* protect_gnu_relro                                                         *)
ProtectGnuRelro ==
    /\ phase = "relro" /\ phase' = "linked"
    /\ \E failed \in Failing({"mprotect"}) :
         /\ Count(failed)
         /\ prot' = [p \in DOMAIN prot |->
                       IF failed = {} /\ p \in PagesOf(lib.relro.vaddr, lib.relro.size)
                       THEN {"r"} ELSE prot[p]]
    /\ UNCHANGED <<lib, next, mem, walk>>

Next ==
    \/ Reserve \/ LoadSegment \/ MakeWritable
    \/ RelocateRelr \/ RelocateRela \/ WalkGroup \/ WalkReloc \/ WalkEnds \/ RelocatePlt
    \/ RestoreProtections \/ ProtectGnuRelro

Spec == Init /\ [][Next]_vars

-----------------------------------------------------------------------------
(* Properties                                                                *)

TypeOK ==
    /\ Segs \subseteq Segment
    /\ phase \in {"reserve", "load", "relr", "rela", "packed", "plt", "restore", "relro",
                  "linked", "failed", "crashed"}
    /\ \A p \in DOMAIN prot : prot[p] \subseteq {"r", "w", "x"} /\ PageStart(p) = p
    /\ UnitsOf(DOMAIN prot) = DOMAIN mem
    /\ faults \in 0 .. MaxFaults

(* What the program headers ask for at a unit, and the relocations after it. *)
OfFile(u) ==
    LET s == CHOOSE t \in Segs : u \in UnitsIn(t)
    IN IF u < s.vaddr + s.filesz THEN File(u - s.vaddr + s.offset) ELSE Zero
Covered == UNION {UnitsIn(s) : s \in Segs}
Expected ==
    LET plain == [u \in Covered |-> IF u \in lib.relative THEN <<"bias", OfFile(u)>> ELSE OfFile(u)]
    IN FoldLeft(Applied, plain, lib.rela \o lib.rel \o PackedRelocs(lib).out \o lib.plt)

(* A library that is linked holds, at every address of a segment, the file's *)
(* content or zero as its headers say, with the relocations applied once     *)
(* each that the ELF reader lists for it: pages are mapped one segment over  *)
(* another (load_one_segment) and a packed table is decoded by two programs  *)
(* (walk_android_packed, decode_android_packed).  It does not crash unless a *)
(* protection could not be changed.                                          *)
LoadedAsListed ==
    /\ TypeOK
    /\ Listed(lib) =>
        /\ phase = "linked" => \A u \in Covered : mem[u] = Expected[u]
        /\ phase = "crashed" => faults > 0

(* When no call failed, a unit can be written after linking if and only if   *)
(* it is on a page with a writable unit outside RELRO, and executed if and   *)
(* only if a segment on its page says so: what was opened up for the         *)
(* relocations is closed again (restore_protections, protect_gnu_relro).     *)
Relro == lib.relro.vaddr .. (lib.relro.vaddr + lib.relro.size - 1)
WritableUnits == {u \in Covered \ Relro : \E s \in Segs : "w" \in s.flags /\ u \in UnitsIn(s)}
SealedAsAsked ==
    phase = "linked" /\ faults = 0 => \A p \in DOMAIN prot :
        /\ "w" \in prot[p] <=> WritableUnits \cap UnitsOf({p}) # {}
        /\ "x" \in prot[p] <=> \E s \in Over(p) : "x" \in s.flags
        /\ Covered \cap UnitsOf({p}) # {} => "r" \in prot[p]

(* Link editors emit one of DT_RELA and DT_REL, jump slots in the PLT alone  *)
(* and one for a symbol, nothing else in the PLT, no word that holds the     *)
(* distance to a symbol of another library, and no relocation of the header. *)
ByLinkEditor ==
    LET others == Range(lib.rela \o lib.rel \o PackedRelocs(lib).out)
    IN /\ lib.rela = <<>> \/ lib.rel = <<>>
       /\ \A r \in others : RelocType(r.info) \in {"abs", "glob"}
       /\ \A r \in Range(lib.plt) : RelocType(r.info) = "jump"
       /\ \A i, j \in DOMAIN lib.plt : i # j => lib.plt[i].info # lib.plt[j].info
       /\ \A r \in others \cup Range(lib.plt) : r.offset > lib.segs[1].vaddr

(* Every slot plti finds for a name is one that the linker filled with its   *)
(* address, never with a distance to it, which a hook could not stand in     *)
(* for; in a library as link editors make them it finds all of them          *)
(* (dynsym_index_by_name and find_plt_addrs, on which all of module PltHooks *)
(* rests), if the library has one symbol of the name.                        *)
Slots(name) == {u \in DOMAIN mem : /\ mem[u][1] = "reloc" /\ SymIdx(mem[u][2]) \in DOMAIN lib.syms
                                   /\ lib.syms[SymIdx(mem[u][2])] = name
                                   /\ RelocType(mem[u][2]) # "pc"}
PltiFindsSlots ==
    phase = "linked" /\ Listed(lib) => \A name \in Names :
        /\ SlotsFound(lib, name) \subseteq Slots(name)
        /\ ByLinkEditor => Slots(name) \subseteq SlotsFound(lib, name)
=============================================================================
