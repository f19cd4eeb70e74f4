----------------------------- MODULE MCCsoImage -----------------------------
(* CsoImage over the layouts that link editors make on pages of two units,   *)
(* and on one of them over every packed table of one or two small groups,    *)
(* whole and cut short.                                                      *)
EXTENDS CsoImage

Seg(vaddr, memsz, offset, filesz, flags) ==
    [vaddr |-> vaddr, memsz |-> memsz, offset |-> offset, filesz |-> filesz, flags |-> flags]
Span(vaddr, size) == [vaddr |-> vaddr, size |-> size]
Rela(offset, info) == [offset |-> offset, info |-> info, addend |-> 1, rela |-> TRUE]
Rel(offset, info) == [offset |-> offset, info |-> info, addend |-> 0, rela |-> FALSE]

(* Relocations of the symbol i.                                              *)
Abs(i) == i * Len(RelocTypes)
Glob(i) == Abs(i) + 1
Jump(i) == Abs(i) + 2
Pc(i) == Abs(i) + 3

MCHash == [fork |-> 4, prop |-> 5, strdup |-> 6]

(* Imports and what is hashed: one, two or none imported; prop collides with *)
(* fork but for the lowest bit.                                              *)
Imports == <<"strdup", "fork", "prop">>
SymTabs == {[syms |-> Imports, symoffset |-> 2, nbucket |-> 2],
            [syms |-> Imports, symoffset |-> 1, nbucket |-> 1],
            [syms |-> Imports, symoffset |-> 4, nbucket |-> 1]}

Library(segs, relro, symtab) ==
    [segs |-> segs, relro |-> relro, relr |-> <<>>, relative |-> {}, rela |-> <<>>, rel |-> <<>>, relLast |-> TRUE,
     packed |-> <<>>, isRela |-> TRUE, plt |-> <<>>, syms |-> symtab.syms, symoffset |-> symtab.symoffset,
     nbucket |-> symtab.nbucket]

RX == {"r", "x"}
RW == {"r", "w"}
Plain == CHOOSE t \in SymTabs : t.symoffset = 2

(* Text, then data whose first page is RELRO and whose end is not in the     *)
(* file.                                                                     *)
TextData == <<Seg(0, 3, 0, 3, RX), Seg(4, 5, 4, 3, RW)>>

Layouts == {
    [Library(TextData, Span(4, 2), Plain) EXCEPT
        !.relr = <<[kind |-> "address", at |-> 4], [kind |-> "bits", bits |-> {0, 2}]>>,
        !.relative = {4, 5, 7}, !.rela = <<Rela(6, Glob(1))>>, !.plt = <<Rel(8, Jump(2))>>],
    \* text and data share a page
    [Library(<<Seg(0, 3, 0, 3, RX), Seg(3, 3, 3, 3, RW)>>, Span(0, 0), Plain) EXCEPT
        !.plt = <<Rela(3, Jump(1)), Rela(4, Jump(2))>>],
    \* constants, text that is relocated, code that is written, a page between
    [Library(<<Seg(0, 2, 0, 2, {"r"}), Seg(2, 1, 2, 1, RX), Seg(4, 1, 4, 1, RW \cup {"x"}),
               Seg(8, 2, 6, 2, RW)>>, Span(8, 1), Plain) EXCEPT
        !.rela = <<Rela(2, Glob(1)), Rela(4, Abs(3))>>,
        !.relr = <<[kind |-> "bits", bits |-> {1}], [kind |-> "address", at |-> 8]>>,
        !.relative = {1, 8}, !.relro = Span(8, 0)],
    \* data, and a segment of zeros that begins in the middle of its last page
    [Library(<<Seg(0, 4, 0, 4, RX), Seg(4, 3, 4, 3, RW), Seg(7, 3, 7, 0, RW)>>, Span(4, 2), Plain) EXCEPT
        !.rel = <<Rel(4, Abs(3))>>, !.plt = <<Rela(5, Jump(3)), Rel(6, Jump(1))>>],
    \* both tables and one that is not kept, types plti passes over, a symbol
    \* twice in the PLT
    [Library(<<Seg(0, 4, 0, 4, RW)>>, Span(0, 0), Plain) EXCEPT
        !.rela = <<Rela(1, Glob(1))>>, !.rel = <<Rel(2, Abs(2))>>, !.relLast = FALSE,
        !.plt = <<Rela(3, Jump(3))>>],
    [Library(<<Seg(0, 6, 0, 6, RW)>>, Span(0, 0), Plain) EXCEPT
        !.rela = <<Rela(0, Glob(1)), Rela(1, Jump(1)), Rela(2, Pc(2))>>,
        !.plt = <<Rela(3, Glob(3)), Rela(4, Jump(2)), Rela(5, Jump(2))>>],
    Library(<<>>, Span(0, 0), Plain)}

(* A packed table: the count, the first offset, and groups.                  *)
Item(flags, k, isRela) ==
    (IF ByDelta(flags) THEN <<>> ELSE <<1>>) \o (IF ByInfo(flags) THEN <<>> ELSE <<Glob(k)>>)
    \o (IF isRela /\ HasAddend(flags) /\ ~ByAddend(flags) THEN <<3>> ELSE <<>>)
Group(size, flags, isRela) ==
    <<size, flags>> \o (IF ByDelta(flags) THEN <<1>> ELSE <<>>) \o (IF ByInfo(flags) THEN <<Abs(2)>> ELSE <<>>)
    \o (IF isRela /\ HasAddend(flags) /\ ByAddend(flags) THEN <<5>> ELSE <<>>)
    \o FlattenSeq([k \in 1 .. size |-> Item(flags, k, isRela)])

Tables(isRela) ==
    {<<size, 4>> \o Group(size, flags, isRela) : size \in 0 .. 3, flags \in 0 .. 15}
    \cup {<<1 + size, 4>> \o Group(1, f, isRela) \o Group(size, flags, isRela) :
              size \in 0 .. 2, f \in {0, 9, 12}, flags \in {0, 3, 8, 9, 12, 15}}
Cut(table) == SubSeq(table, 1, Len(table) - 1)

Packed(table, isRela, symtab) ==
    [Library(TextData, Span(4, 2), symtab) EXCEPT !.packed = table, !.isRela = isRela]

MCLibraries ==
    Layouts
    \cup {Packed(<<3, 4>> \o Group(3, 8, TRUE), TRUE, symtab) : symtab \in SymTabs}
    \cup UNION {{Packed(t, isRela, Plain) : t \in Tables(isRela) \cup {Cut(u) : u \in Tables(isRela)}} :
                isRela \in BOOLEAN}
=============================================================================
