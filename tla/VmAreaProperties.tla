-------------------------- MODULE VmAreaProperties --------------------------
(* What memory mapping should do, over VmArea.                               *)
EXTENDS VmArea

\* Types of the variables (struct vm_area, the page table entries).
TypeOK ==
    /\ areas \in Seq([start : Nat, end : Nat, prot : Prots \cup {DUMMY},
                      kind : {Unset, Normal, HugeMap}])
    /\ pmd \in [Regions -> [kind : {"none", "table", "huge"}, w : BOOLEAN]]
    /\ pte \in [Pages -> [kind : {"none", "page"}, w : BOOLEAN]]
    /\ reply \in [call : {"none", "mmap", "munmap", "make_hugepage",
                          "break_hugepage", "read", "write"},
                  at : Nat, ret : Int]
    /\ fault \in {"none", "null", "freed", "hang"}

\* Every walk of mmap.c relies on it: the list starts with the dummy, its areas
\* are not empty, do not overlap, are in order and end by MMAP_AREA_END, although
\* each call grows, cuts, splits and joins them in place.
ListSorted ==
    /\ areas # <<>> => /\ areas[1].start = START /\ areas[1].prot = DUMMY
                       /\ areas[1].end = START + Page
    /\ \A i \in DOMAIN areas :
          /\ areas[i].start < areas[i].end /\ areas[i].end <= END
          /\ i > 1 => areas[i - 1].end <= areas[i].start

\* The list and the page table are kept apart, by the calls and by the page fault
\* handler: a page with a translation belongs to an area, and the hardware lets
\* it be written exactly when that area may be.
TablesAgree ==
    \A p \in Pages : Present(p) =>
        Mapped(p) /\ (MayWrite(p) <=> Writable(AreaOf(p).prot))

\* A huge area is made of whole huge pages, so that the huge page that its first
\* access brings in serves no other area.
HugeAligned ==
    \A i \in DOMAIN areas : areas[i].kind = HugeMap =>
        areas[i].start % Huge = 0 /\ areas[i].end % Huge = 0

ListSound == ListSorted /\ HugeAligned

\* A careful process does not make mmap.c follow NULL, use an area it has freed or
\* walk for ever.  make_hugepage looks at the table of each area it takes in, and
\* at the area after, which earlier calls and accesses left.
NeverBreaks == fault = "none"

\* The calls keep what PageMap promises.
MapPages == Pages \ {START}
MapView ==
    [p \in MapPages |->
        LET S == {i \in DOMAIN areas : Covers(areas[i], p)}
            area == areas[CHOOSE i \in S : TRUE]
        IN  IF S = {} THEN [prot |-> 0, huge |-> FALSE]
            ELSE [prot |-> area.prot, huge |-> area.kind = HugeMap]]
Promise == INSTANCE PageMap
    WITH Pages <- MapPages, map <- MapView,
         answer <- [reply EXCEPT !.ret = IF @ > 0 THEN 0 ELSE @]

ImplementsPageMap == Promise!Spec

\* CS330_Assignment_4.pdf 3.2.1 of munmap: "subsequent references to these pages
\* will generate SIGSEGV".  do_unmap never clears an entry that is present.
UnmappedFaults ==
    [][reply'.call \in {"read", "write"} /\ ~ Mapped(reply'.at)
         => reply'.ret = SIGSEGV]_reply

\* CS330_Assignment_4.pdf of mmap: on success it "returns a pointer to the
\* mapped area".  The search returns the new end of the area it grows.
MapReturnsArea ==
    reply.call = "mmap" /\ reply.ret > 0 => Mapped(reply.ret)

\* CS330_Assignment_4.pdf of mmap: the pages of a PROT_WRITE area "will have
\* READ_WRITE access".  The table above a page has the rights of the area that
\* was touched first below it.
WritableIsWritable ==
    [][reply'.call = "write" /\ Mapped(reply'.at) /\ Writable(AreaOf(reply'.at).prot)
         => reply'.ret = OK]_reply
=============================================================================
