------------------------------ MODULE ElfTables ------------------------------
(* What the ELF reader (crates/elf) makes of the tables of a library: the    *)
(* relocations it lists for plti, Android packed ones decoded in one go, and *)
(* the index it finds for a symbol's name through the GNU hash table.        *)
(*                                                                           *)
(* A library is a record: segs, relro, relr, rela, rel, packed, isRela and   *)
(* plt as in CsoImage; relLast, that DT_REL comes after DT_RELA; syms, the   *)
(* names of its dynamic symbols from index 1 on (index 0 is the null symbol);*)
(* symoffset, the first index that is hashed; and nbucket.                   *)
(* Addresses count units; a packed table is the sequence of its SLEB128      *)
(* values; the info of a relocation is a symbol's index and a type.          *)
EXTENDS Integers, Sequences, FiniteSets, SequencesExt

CONSTANTS
    Hash,         \* the GNU hash of each name
    BloomBits,    \* bits of a word of the bloom filter, of which there is one
    BloomShift,
    RelrBits      \* words that one RELR bitmap covers

ASSUME HashAssumption == BloomBits \in Nat \ {0} /\ Range(Hash) \subseteq Nat

Names == DOMAIN Hash
Least(S) == CHOOSE x \in S : \A y \in S : x <= y
When(c) == IF c THEN 1 ELSE 0

(* What of the types fills a word with a symbol's address (generic_reloc_    *)
(* type): absolute, global data, jump slot, and relative to the word.        *)
RelocTypes == <<"abs", "glob", "jump", "pc">>
SymIdx(info) == info \div Len(RelocTypes)
RelocType(info) == RelocTypes[(info % Len(RelocTypes)) + 1]

-----------------------------------------------------------------------------
(* Android packed relocations.  Flags of a group.                            *)
ByInfo(flags)    == flags % 2 = 1
ByDelta(flags)   == (flags \div 2) % 2 = 1
ByAddend(flags)  == (flags \div 4) % 2 = 1
HasAddend(flags) == (flags \div 8) % 2 = 1

Start(s) == [pos |-> 3, seen |-> 0, offset |-> IF Len(s) >= 2 THEN s[2] ELSE 0,
             info |-> 0, addend |-> 0, out |-> <<>>, ok |-> Len(s) >= 2]

(* One group: size, flags, what its relocations share, and for each of them  *)
(* what they do not, in this order: offset, info, addend.  A value past the  *)
(* end, an empty group and an addend in a REL table are errors.              *)
DecodeGroup(s, isRela, d) ==
    LET size    == s[d.pos]
        flags   == s[d.pos + 1]
        shared  == isRela /\ HasAddend(flags) /\ ByAddend(flags)
        own     == isRela /\ HasAddend(flags) /\ ~ByAddend(flags)
        infoAt  == d.pos + 2 + When(ByDelta(flags))
        addAt   == infoAt + When(ByInfo(flags))
        first   == addAt + When(shared)
        width   == When(~ByDelta(flags)) + When(~ByInfo(flags)) + When(own)
        At(k)   == first + (k - 1) * width
        Delta(k) == IF ByDelta(flags) THEN s[d.pos + 2] ELSE s[At(k)]
        Info(k) == IF ByInfo(flags) THEN s[infoAt] ELSE s[At(k) + When(~ByDelta(flags))]
        base    == IF shared THEN d.addend + s[addAt] ELSE IF own THEN d.addend ELSE 0
        offset[k \in 0 .. size] == IF k = 0 THEN d.offset ELSE offset[k - 1] + Delta(k)
        addend[k \in 0 .. size] ==
            IF k = 0 THEN base ELSE addend[k - 1] + (IF own THEN s[At(k) + width - 1] ELSE 0)
        fits == d.pos + 1 <= Len(s) /\ size > 0 /\ first + size * width - 1 <= Len(s)
    IN IF ~fits \/ (~isRela /\ HasAddend(flags)) THEN [d EXCEPT !.ok = FALSE]
       ELSE [d EXCEPT !.pos = first + size * width, !.seen = @ + size,
                      !.offset = offset[size], !.info = Info(size), !.addend = addend[size],
                      !.out = @ \o [k \in 1 .. size |-> [offset |-> offset[k], info |-> Info(k),
                                                         addend |-> addend[k], rela |-> isRela]]]

DecodePacked(s, isRela) ==
    LET count == IF s = <<>> THEN 0 ELSE s[1]
        after[n \in 0 .. count] ==
            IF n = 0 THEN Start(s)
            ELSE LET d == after[n - 1]
                 IN IF d.ok /\ d.seen < count THEN DecodeGroup(s, isRela, d) ELSE d
    IN after[count]

(* relocations_grouped: nothing at all when the packed table is malformed.   *)
PackedRelocs(lib) == IF lib.packed = <<>> THEN [ok |-> TRUE, out |-> <<>>]
                     ELSE DecodePacked(lib.packed, lib.isRela)
Listed(lib) == PackedRelocs(lib).ok

(* Of DT_RELA and DT_REL it keeps the last.                                  *)
RelTable(lib) == IF lib.rel # <<>> /\ (lib.relLast \/ lib.rela = <<>>) THEN lib.rel ELSE lib.rela

(* RELR: an address, or the set bits of a bitmap over the words that follow  *)
(* the ones named so far.                                                    *)
DecodeRelr(entries) ==
    FoldLeft(LAMBDA d, e :
                 IF e.kind = "address"
                 THEN [base |-> e.at + 1, out |-> d.out \cup {e.at}]
                 ELSE [base |-> d.base + RelrBits, out |-> d.out \cup {d.base + b : b \in e.bits}],
             [base |-> 0, out |-> {}], entries).out

-----------------------------------------------------------------------------
(* The GNU hash table as the link editor lays it out: from symoffset on the  *)
(* symbols are ordered by bucket, and the last one of a bucket ends a chain. *)
BucketOf(lib, name) == Hash[name] % lib.nbucket
Hashed(lib) == lib.symoffset .. Len(lib.syms)
BloomOf(name) == {Hash[name] % BloomBits, (Hash[name] \div 2 ^ BloomShift) % BloomBits}
Bloom(lib) == UNION {BloomOf(lib.syms[i]) : i \in Hashed(lib)}
Bucket(lib, b) == LET mine == {i \in Hashed(lib) : BucketOf(lib, lib.syms[i]) = b}
                  IN IF mine = {} THEN 0 ELSE Least(mine)
EndsChain(lib, i) == \/ i = Len(lib.syms)
                     \/ BucketOf(lib, lib.syms[i + 1]) # BucketOf(lib, lib.syms[i])

(* gnu_lookup_index_filtered: the filter, the bucket, then the chain, whose  *)
(* values are hashes without their lowest bit; the name decides.  Mutant:    *)
(* the chain's value does.                                                   *)
MatchesHash(lib, i, name) == Hash[lib.syms[i]] \div 2 = Hash[name] \div 2
Matches(lib, i, name) == Hash[lib.syms[i]] \div 2 = Hash[name] \div 2 /\ lib.syms[i] = name

GnuLookup(lib, name) ==
    LET first == Bucket(lib, BucketOf(lib, name))
        walked == {i \in first .. Len(lib.syms) : \A j \in first .. (i - 1) : ~EndsChain(lib, j)}
        hits == {i \in walked : Matches(lib, i, name)}
    IN IF BloomOf(name) \subseteq Bloom(lib) /\ first # 0 /\ hits # {} THEN Least(hits) ELSE 0

(* dynsym_index_by_name: any symbol will do, imports come before symoffset.  *)
DynsymIndexByName(lib, name) ==
    LET found == GnuLookup(lib, name)
        below == {i \in 1 .. (lib.symoffset - 1) : lib.syms[i] = name}
    IN IF found # 0 THEN found ELSE IF below # {} THEN Least(below) ELSE 0

(* What plti finds for an exact name: the first jump slot of the PLT, and    *)
(* every absolute and global data reference of the other tables, if it is    *)
(* behind the ELF header, with which the first segment begins.  Mutant: of   *)
(* any type.                                                                 *)
FindsOfAnyType(lib, r, index, types) == SymIdx(r.info) = index /\ r.offset > lib.segs[1].vaddr
Finds(lib, r, index, types) ==
    SymIdx(r.info) = index /\ RelocType(r.info) \in types /\ r.offset > lib.segs[1].vaddr

SlotsFound(lib, name) ==
    LET index == DynsymIndexByName(lib, name)
        inPlt == {i \in DOMAIN lib.plt : Finds(lib, lib.plt[i], index, {"jump"})}
        others == {r \in Range(RelTable(lib) \o PackedRelocs(lib).out) :
                       Finds(lib, r, index, {"abs", "glob"})}
    IN IF index = 0 \/ ~Listed(lib) THEN {}
       ELSE {r.offset : r \in others} \cup (IF inPlt = {} THEN {} ELSE {lib.plt[Least(inPlt)].offset})
=============================================================================
