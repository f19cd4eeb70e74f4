--------------------------- MODULE CsoImageProofs ---------------------------
(* The protections of a library once it is linked, for any segments, any     *)
(* relocations and any size of a page.                                       *)
EXTENDS CsoImage, FiniteSetTheorems, TLAPS

-----------------------------------------------------------------------------
(* Pages                                                                     *)

IsPage(p) == p \in Int /\ PageStart(p) = p

(* A unit is on the page that starts before it, and starts of pages are      *)
(* apart from one another.                                                   *)
LEMMA PageOfUnit ==
    ASSUME NEW u \in Int
    PROVE  PageStart(u) \in Int /\ PageStart(u) <= u /\ u < PageStart(u) + PageUnits
<1>1. PageUnits \in Nat \ {0}
  BY PageAssumption
<1>2. u = PageUnits * (u \div PageUnits) + (u % PageUnits)
      /\ u % PageUnits \in 0 .. (PageUnits - 1) /\ u \div PageUnits \in Int
  BY <1>1
<1>3. PageStart(u) = PageUnits * (u \div PageUnits)
  BY <1>1, <1>2 DEF PageStart
<1> QED
  BY <1>1, <1>2, <1>3

LEMMA PagesApart ==
    ASSUME NEW u \in Int, NEW v \in Int, PageStart(u) < PageStart(v)
    PROVE  PageStart(u) + PageUnits <= PageStart(v)
<1>1. PageUnits \in Nat \ {0} /\ u \div PageUnits \in Int /\ v \div PageUnits \in Int
  BY PageAssumption
<1>2. ASSUME NEW a \in Int, NEW b \in Int, a * PageUnits < b * PageUnits
      PROVE  a * PageUnits + PageUnits <= b * PageUnits
  <2>1. a < b
    BY <1>1, <1>2
  <2>2. a + 1 <= b
    BY <2>1
  <2>3. (a + 1) * PageUnits <= b * PageUnits
    BY <1>1, <2>2
  <2> QED
    BY <1>1, <2>3
<1> QED
  BY <1>1, <1>2 DEF PageStart

(* A page of a piece of memory has a unit of it, and the page of each unit   *)
(* is one of its pages.                                                      *)
LEMMA UnitOnPage ==
    ASSUME NEW v \in Nat, NEW m \in Nat \ {0}, NEW p \in PagesOf(v, m)
    PROVE  IsPage(p) /\ \E u \in v .. (v + m - 1) : u \in p .. (p + PageUnits - 1)
<1>1. PageUnits \in Nat \ {0}
  BY PageAssumption
<1> DEFINE e == v + m + PageUnits - 1
<1>2. e \in Int /\ PageStart(e) \in Int /\ PageStart(e) <= e
      /\ PageStart(v) \in Int /\ v < PageStart(v) + PageUnits
  BY <1>1, PageOfUnit
<1>3. p \in PageStart(v) .. (PageStart(e) - 1) /\ PageStart(p) = p
  BY DEF PagesOf, PageEnd
<1>4. p \in Int /\ PageStart(v) <= p /\ PageStart(p) < PageStart(e)
  BY <1>2, <1>3
<1>5. p + PageUnits <= PageStart(e)
  BY <1>2, <1>3, <1>4, PagesApart
<1>6. p < v + m /\ v < p + PageUnits
  BY <1>1, <1>2, <1>4, <1>5
<1>7. CASE p <= v
  BY <1>1, <1>3, <1>4, <1>6, <1>7 DEF IsPage
<1>8. CASE v < p
  BY <1>1, <1>3, <1>4, <1>6, <1>8 DEF IsPage
<1> QED
  BY <1>4, <1>7, <1>8

LEMMA PageOfPiece ==
    ASSUME NEW v \in Nat, NEW m \in Nat, NEW p, IsPage(p),
           NEW u \in v .. (v + m - 1), u \in p .. (p + PageUnits - 1)
    PROVE  p \in PagesOf(v, m)
<1>1. PageUnits \in Nat \ {0} /\ p \in Int /\ PageStart(p) = p
  BY PageAssumption DEF IsPage
<1> DEFINE e == v + m + PageUnits - 1
<1>2. e \in Int /\ PageStart(e) \in Int /\ e < PageStart(e) + PageUnits
      /\ PageStart(v) \in Int /\ PageStart(v) <= v
  BY <1>1, PageOfUnit
<1>3. PageStart(v) <= p
  <2>1. ~(PageStart(p) < PageStart(v))
    BY <1>1, <1>2, PagesApart
  <2> QED
    BY <1>1, <1>2, <2>1
<1>4. p < PageStart(e)
  BY <1>1, <1>2
<1>5. p \in PageStart(v) .. (PageStart(e) - 1)
  BY <1>1, <1>2, <1>3, <1>4
<1> QED
  BY <1>1, <1>5 DEF PagesOf, PageEnd

(* The units of one page.                                                    *)
LEMMA UnitsOfPage == \A p : UnitsOf({p}) = p .. (p + PageUnits - 1)
  BY DEF UnitsOf

-----------------------------------------------------------------------------
(* What a library is                                                         *)

(* The segments of a library, from LayoutAssumption.                         *)
LEMMA SegsFit ==
    ASSUME lib \in Libraries
    PROVE  /\ lib.segs \in Seq(Segment) /\ lib.relro.vaddr \in Nat /\ lib.relro.size \in Nat
           /\ \A s \in Segs :
                 /\ s.vaddr \in Nat /\ s.memsz \in Nat \ {0} /\ s.flags \subseteq {"r", "w", "x"}
                 /\ "r" \in s.flags
<1>1. /\ lib.segs \in Seq(Segment) /\ lib.relro \in [vaddr : Nat, size : Nat]
      /\ \A s \in Range(lib.segs) : "r" \in s.flags
  BY LayoutAssumption
<1>2. \A s \in Segs : s \in Segment /\ "r" \in s.flags
  BY <1>1 DEF Segs, Range
<1> QED
  BY <1>1, <1>2 DEF Segment

(* The pages of the reserved region.                                         *)
LEMMA RegionUnits == \A u \in Region : u \in Int
  BY DEF Region

(* A call that fails is counted.                                             *)
LEMMA FailuresCount ==
    ASSUME NEW S, NEW failed \in Failing(S), faults \in Nat, Count(failed)
    PROVE  faults' \in Nat /\ (faults' = 0 => faults = 0 /\ failed = {})
<1>1. CASE failed = {}
  BY <1>1, FS_EmptySet DEF Count
<1>2. CASE failed # {}
  <2>1. PICK x : failed = {x}
    BY <1>2 DEF Failing
  <2>2. Cardinality(failed) = 1
    BY <2>1, FS_Singleton
  <2> QED
    BY <2>2 DEF Count
<1> QED
  BY <1>1, <1>2

-----------------------------------------------------------------------------
(* The invariant                                                             *)

(* Until the protections come back, a page of no segment cannot be accessed. *)
Before == {"load", "relr", "rela", "packed", "plt", "restore"}

ProtInv ==
    /\ lib \in Libraries /\ faults \in Nat /\ next \in Nat \ {0}
    /\ phase \in Before \cup {"reserve", "relro", "linked", "failed", "crashed"}
    /\ \A p \in DOMAIN prot : IsPage(p)
    /\ phase \in Before => \A p \in DOMAIN prot : Over(p) = {} => prot[p] = {}
    /\ phase = "relro" /\ faults = 0 => \A p \in DOMAIN prot : prot[p] = Wanted(p)
    /\ SealedAsAsked

(* Once the library is linked, in steps of its pages.                        *)
LEMMA Sealed ==
    ASSUME lib \in Libraries, NEW p, IsPage(p), NEW flags,
           flags = IF p \in PagesOf(lib.relro.vaddr, lib.relro.size) THEN {"r"} ELSE Wanted(p)
    PROVE  /\ "w" \in flags <=> WritableUnits \cap UnitsOf({p}) # {}
           /\ "x" \in flags <=> \E s \in Over(p) : "x" \in s.flags
           /\ Covered \cap UnitsOf({p}) # {} => "r" \in flags
<1> DEFINE sealed == PagesOf(lib.relro.vaddr, lib.relro.size)
<1>1. /\ lib.relro.vaddr \in Nat /\ lib.relro.size \in Nat
      /\ \A s \in Segs : s.vaddr \in Nat /\ s.memsz \in Nat \ {0} /\ "r" \in s.flags
  BY SegsFit
<1>2. ASSUME NEW s \in Segs, NEW u \in UnitsIn(s) \cap UnitsOf({p})
      PROVE  s \in Over(p)
  BY <1>1, <1>2, PageOfPiece, UnitsOfPage DEF UnitsIn, Over
<1>3. ASSUME NEW s \in Over(p)
      PROVE  s \in Segs /\ p \in PagesOf(s.vaddr, s.memsz) /\ UnitsIn(s) \cap UnitsOf({p}) # {}
  BY <1>1, <1>3, UnitOnPage, UnitsOfPage DEF UnitsIn, Over
<1>4. ASSUME NEW u \in Relro \cap UnitsOf({p})
      PROVE  p \in sealed
  BY <1>1, <1>4, PageOfPiece, UnitsOfPage DEF Relro
<1>5. CASE p \in sealed
  <2>1. flags = {"r"}
    BY <1>5
  <2>2. ASSUME NEW s \in Over(p)
        PROVE  /\ "x" \notin s.flags
               /\ "w" \in s.flags => UnitsIn(s) \cap UnitsOf({p}) \subseteq Relro
    <3>1. s \in Range(lib.segs) /\ p \in PagesOf(s.vaddr, s.memsz)
      BY <1>3, <2>2 DEF Segs
    <3> QED
      BY <1>5, <3>1, LayoutAssumption DEF Relro
  <2>3. WritableUnits \cap UnitsOf({p}) = {}
    BY <1>2, <2>2 DEF WritableUnits
  <2> QED
    BY <2>1, <2>2, <2>3
<1>6. CASE p \notin sealed
  <2>1. flags = Wanted(p)
    BY <1>6
  <2>2. \A f : f \in flags <=> \E s \in Over(p) : f \in s.flags
    BY <2>1 DEF Wanted
  <2>3. ASSUME NEW s \in Over(p), "w" \in s.flags
        PROVE  WritableUnits \cap UnitsOf({p}) # {}
    <3>1. PICK u \in UnitsIn(s) \cap UnitsOf({p}) : TRUE
      BY <1>3, <2>3
    <3>2. s \in Segs /\ u \notin Relro
      BY <1>3, <1>4, <1>6, <2>3, <3>1
    <3> QED
      BY <2>3, <3>1, <3>2 DEF WritableUnits, Covered
  <2>4. ASSUME NEW u \in WritableUnits \cap UnitsOf({p})
        PROVE  \E s \in Over(p) : "w" \in s.flags
    BY <1>2, <2>4 DEF WritableUnits
  <2>5. ASSUME NEW u \in Covered \cap UnitsOf({p})
        PROVE  "r" \in flags
    <3>1. PICK s \in Segs : u \in UnitsIn(s)
      BY <2>5 DEF Covered
    <3>2. s \in Over(p)
      BY <1>2, <2>5, <3>1
    <3> QED
      BY <1>1, <2>2, <3>1, <3>2
  <2> QED
    BY <2>2, <2>3, <2>4, <2>5
<1> QED
  BY <1>5, <1>6

(* One lemma for each step, and one for those that leave protections alone.  *)
LEMMA InitProtected == Init => ProtInv
<1> SUFFICES ASSUME Init
             PROVE  ProtInv
  OBVIOUS
<1>1. DOMAIN prot = {}
  BY DEF Init
<1> QED
  BY <1>1 DEF Init, ProtInv, Before, SealedAsAsked

LEMMA ReserveProtects == ASSUME ProtInv, Reserve PROVE ProtInv'
<1>1. PICK failed \in Failing({"mmap"}) :
        /\ Count(failed)
        /\ IF lib.segs = <<>> \/ failed # {} THEN Unmapped
           ELSE /\ prot' = [p \in {u \in Region : PageStart(u) = u} |-> {}]
                /\ phase' = "load"
  BY DEF Reserve
<1>2. faults' \in Nat /\ lib' = lib /\ next' = next
  BY <1>1, FailuresCount DEF ProtInv, Reserve
<1>3. CASE Unmapped
  <2>1. phase' = "failed" /\ DOMAIN prot' = {}
    BY <1>3 DEF Unmapped
  <2> QED
    BY <1>2, <2>1 DEF ProtInv, Before, SealedAsAsked
<1>4. CASE phase' = "load" /\ prot' = [p \in {u \in Region : PageStart(u) = u} |-> {}]
  <2>1. \A p \in DOMAIN prot' : IsPage(p) /\ prot'[p] = {}
    BY <1>4, RegionUnits DEF IsPage
  <2> QED
    BY <1>2, <1>4, <2>1 DEF ProtInv, Before, SealedAsAsked, IsPage, PageStart
<1> QED
  BY <1>1, <1>3, <1>4

LEMMA LoadProtects == ASSUME ProtInv, LoadSegment PROVE ProtInv'
<1> DEFINE s == lib.segs[next]
<1>1. PICK failed \in Failing({"mmap"}) :
        /\ Count(failed) /\ next' = next + 1
        /\ IF failed # {} THEN Unmapped
           ELSE IF BssPages(s) # {} /\ "w" \notin s.flags
           THEN phase' = "crashed" /\ UNCHANGED <<mem, prot>>
           ELSE /\ prot' = [p \in DOMAIN prot |->
                              IF p \in PagesOf(s.vaddr, s.memsz) THEN s.flags ELSE prot[p]]
                /\ UNCHANGED phase
  BY DEF LoadSegment
<1>2. faults' \in Nat /\ lib' = lib /\ next' \in Nat \ {0} /\ phase = "load"
  BY <1>1, FailuresCount DEF ProtInv, LoadSegment
<1>3. CASE Unmapped
  <2>1. phase' = "failed" /\ DOMAIN prot' = {}
    BY <1>3 DEF Unmapped
  <2> QED
    BY <1>2, <2>1 DEF ProtInv, Before, SealedAsAsked
<1>4. CASE phase' = "crashed" /\ prot' = prot
  BY <1>2, <1>4 DEF ProtInv, Before, SealedAsAsked, IsPage, PageStart
<1>5. CASE phase' = phase /\ prot' = [p \in DOMAIN prot |->
              IF p \in PagesOf(s.vaddr, s.memsz) THEN s.flags ELSE prot[p]]
  <2>1. s \in Segs
    BY <1>2, SegsFit DEF ProtInv, LoadSegment, Segs, Range
  <2>2. \A p \in DOMAIN prot' : IsPage(p) /\ (Over(p) = {} => prot'[p] = {})
    BY <1>2, <1>5, <2>1 DEF ProtInv, Before, Over
  <2> QED
    BY <1>2, <1>5, <2>2 DEF ProtInv, Before, SealedAsAsked, IsPage, PageStart, Over, Segs
<1> QED
  BY <1>1, <1>3, <1>4, <1>5

LEMMA WritableProtects == ASSUME ProtInv, MakeWritable PROVE ProtInv'
<1>1. /\ phase = "load" /\ phase' = "relr" /\ lib' = lib /\ next' = next
      /\ DOMAIN prot' = DOMAIN prot
      /\ \A p \in DOMAIN prot : Over(p) = {} => prot'[p] = prot[p]
  BY DEF MakeWritable, ReadOnly, Over
<1>2. faults' \in Nat
  BY FailuresCount DEF MakeWritable, ProtInv
<1> QED
  BY <1>1, <1>2 DEF ProtInv, Before, SealedAsAsked, IsPage, PageStart, Over, Segs

(* Relocations are written as the protections are.                           *)
LEMMA RelocationsProtect ==
    ASSUME ProtInv,
           \/ RelocateRelr \/ RelocateRela \/ RelocatePlt
           \/ WalkGroup \/ WalkReloc \/ WalkEnds
    PROVE  ProtInv'
<1>1. /\ phase \in Before /\ phase' \in Before \cup {"crashed"}
      /\ UNCHANGED <<lib, next, prot, faults>>
  BY DEF Before, RelocateRelr, RelocateRela, RelocatePlt, WriteAll, WalkGroup, WalkReloc, WalkEnds
<1> QED
  BY <1>1 DEF ProtInv, Before, SealedAsAsked, IsPage, PageStart, Over, Segs

LEMMA RestoreProtects == ASSUME ProtInv, RestoreProtections PROVE ProtInv'
<1>1. PICK failed \in Failing(DOMAIN prot) :
        /\ Count(failed)
        /\ prot' = [p \in DOMAIN prot |->
                      IF Wanted(p) = {} \/ p \in failed THEN prot[p] ELSE Wanted(p)]
  BY DEF RestoreProtections
<1>2. /\ phase = "restore" /\ phase' = "relro" /\ lib' = lib /\ next' = next
      /\ faults' \in Nat /\ (faults' = 0 => failed = {})
  BY <1>1, FailuresCount DEF RestoreProtections, ProtInv
<1>3. ASSUME NEW p \in DOMAIN prot, faults' = 0
      PROVE  prot'[p] = Wanted(p)
  <2>1. CASE Wanted(p) = {}
    <3>1. Over(p) = {}
      BY <2>1, SegsFit DEF ProtInv, Wanted, Over
    <3> QED
      BY <1>1, <1>2, <1>3, <2>1, <3>1 DEF ProtInv, Before
  <2>2. CASE Wanted(p) # {}
    BY <1>1, <1>2, <1>3, <2>2
  <2> QED
    BY <2>1, <2>2
<1>4. DOMAIN prot' = DOMAIN prot /\ \A p : Wanted(p)' = Wanted(p)
  BY <1>1, <1>2 DEF Wanted, Over, Segs, PagesOf, PageStart, PageEnd
<1> QED
  BY <1>2, <1>3, <1>4 DEF ProtInv, Before, SealedAsAsked, IsPage, PageStart

LEMMA RelroProtects == ASSUME ProtInv, ProtectGnuRelro PROVE ProtInv'
<1>1. PICK failed \in Failing({"mprotect"}) :
        /\ Count(failed)
        /\ prot' = [p \in DOMAIN prot |->
                      IF failed = {} /\ p \in PagesOf(lib.relro.vaddr, lib.relro.size)
                      THEN {"r"} ELSE prot[p]]
  BY DEF ProtectGnuRelro
<1>2. /\ phase = "relro" /\ phase' = "linked" /\ lib' = lib /\ next' = next
      /\ faults' \in Nat /\ (faults' = 0 => faults = 0 /\ failed = {})
  BY <1>1, FailuresCount DEF ProtectGnuRelro, ProtInv
<1>3. ASSUME NEW p \in DOMAIN prot, faults' = 0
      PROVE  /\ "w" \in prot'[p] <=> WritableUnits \cap UnitsOf({p}) # {}
             /\ "x" \in prot'[p] <=> \E s \in Over(p) : "x" \in s.flags
             /\ Covered \cap UnitsOf({p}) # {} => "r" \in prot'[p]
  <2>1. prot'[p] = IF p \in PagesOf(lib.relro.vaddr, lib.relro.size) THEN {"r"} ELSE Wanted(p)
    BY <1>1, <1>2, <1>3 DEF ProtInv
  <2>2. lib \in Libraries /\ IsPage(p)
    BY <1>3 DEF ProtInv
  <2> QED
    BY <2>1, <2>2, Sealed
<1>4. /\ DOMAIN prot' = DOMAIN prot /\ WritableUnits' = WritableUnits /\ Covered' = Covered
      /\ \A p : Over(p)' = Over(p) /\ UnitsOf({p})' = UnitsOf({p})
  BY <1>1, <1>2 DEF WritableUnits, Covered, Relro, Over, Segs, UnitsIn, UnitsOf, PagesOf,
     PageStart, PageEnd
<1>5. SealedAsAsked'
  BY <1>2, <1>3, <1>4 DEF SealedAsAsked
<1> QED
  BY <1>2, <1>4, <1>5 DEF ProtInv, Before, IsPage, PageStart

(* What was opened up for the relocations is closed again: without a failed  *)
(* call, a page can be written after linking exactly if it has data outside  *)
(* RELRO, and executed exactly if it has code.                               *)
THEOREM ProtectionsCorrect == Spec => []SealedAsAsked
<1>1. Init => ProtInv
  BY InitProtected
<1>2. ProtInv /\ [Next]_vars => ProtInv'
  <2>1. ASSUME ProtInv, Next
        PROVE  ProtInv'
    BY <2>1, ReserveProtects, LoadProtects, WritableProtects, RelocationsProtect,
       RestoreProtects, RelroProtects DEF Next
  <2>2. ASSUME ProtInv, UNCHANGED vars
        PROVE  ProtInv'
    BY <2>2 DEF vars, ProtInv, SealedAsAsked, IsPage, PageStart, Over, Wanted, Segs,
       WritableUnits, Covered, Relro, UnitsIn, UnitsOf, PagesOf, PageEnd
  <2> QED
    BY <2>1, <2>2
<1>3. ProtInv => SealedAsAsked
  BY DEF ProtInv
<1> QED
  BY <1>1, <1>2, <1>3, PTL DEF Spec
=============================================================================
