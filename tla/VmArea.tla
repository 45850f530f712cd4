------------------------------- MODULE VmArea -------------------------------
(***************************************************************************)
(* Memory mapping in gemOS, Assignment_4/.../src/mmap.c, with the page     *)
(* fault handler of entry.c that drives it: the list of vm_areas of one    *)
(* process, and the two lower levels of its page table.                    *)
(*                                                                         *)
(* An area is a range of addresses with its protection and its mapping     *)
(* type; the list is the sequence of areas, NULL the empty one.  Its first *)
(* area is a dummy.  pmd holds one entry per huge page (region) and pte    *)
(* one per page, as the hardware reads them: a region's entry is absent,   *)
(* a table of pages, or a huge page.                                       *)
(*                                                                         *)
(* A system call runs to its end with interrupts off, so each call, and    *)
(* each access of the process with the fault it takes, is one step.        *)
(***************************************************************************)
EXTENDS Integers, Sequences, FiniteSets, SequencesExt

CONSTANTS
  Page, Huge,       \* sizes of a page and of a huge page
  START, END,       \* MMAP_AREA_START and MMAP_AREA_END
  Addrs, Lengths,   \* arguments the process passes
  Usage             \* what the process does beyond the careful core

READ == 1           \* MM_RD
READ_WRITE == 3     \* MM_RD | MM_WR
DUMMY == 4          \* protection of the dummy area
Prots == {READ, READ_WRITE}
Writable(prot) == prot = READ_WRITE

Unset == 0          \* mapping_type of an area that nobody set
Normal == 1         \* NORMAL_PAGE_MAPPING
HugeMap == 2        \* HUGE_PAGE_MAPPING

ENOMAPPING == 6
EDIFFPROT == 7
EVMAOCCUPIED == 8
EINVAL == 9

(***************************************************************************)
(* Uses of the calls that a process may or may not make.                   *)
(***************************************************************************)
Usages ==
  {"map_nothing",     \* mmap of length 0
   "map_beyond",      \* mmap when only addresses past END are left
   "map_at_huge",     \* mmap whose gap ends at a huge area of that prot
   "unmap_start",     \* munmap of the dummy area
   "unmap_middle",    \* munmap that splits an area
   "unmap_resident",  \* munmap of pages that were touched
   "unmap_huge",      \* munmap of part of a huge page
   "unmap_unaligned", \* munmap at an even address that no page starts at
   "touch_dummy",     \* access to the dummy area
   "touch_mixed",     \* access in a region of several protections
   "make_any",        \* make_hugepage of anything but whole untouched areas
   "break_any"}       \* break_hugepage with areas after the range, or below

ASSUME VmAssumption ==
    /\ Page \in Nat \ {0} /\ Huge \in Nat \ {0} /\ Page % 2 = 0
    /\ Huge % Page = 0
    /\ START \in Nat \ {0} /\ END \in Nat /\ START + Page <= END
    /\ START % Huge = 0 /\ END % Huge = 0
    /\ Addrs \subseteq Nat /\ Lengths \subseteq Nat
    /\ Usage \subseteq Usages

VARIABLES
  areas,  \* current->vm_area, followed along vm_next
  pmd,    \* third level of the page table, by region
  pte,    \* fourth level, by page
  reply,  \* the last call or access and what it returned
  fault   \* "none", or how the kernel went wrong in the last call

vars == <<areas, pmd, pte, reply, fault>>

PageOf(a) == a - (a % Page)
RegionOf(a) == a - (a % Huge)
Pages == {a \in START .. END - 1 : a % Page = 0}
Regions == {a \in START .. END - 1 : a % Huge = 0}

Absent == [kind |-> "none", w |-> FALSE]
Entry(kind, w) == [kind |-> kind, w |-> w]

Area(start, end, prot, kind) ==
    [start |-> start, end |-> end, prot |-> prot, kind |-> kind]

\* What a call leaves: the list, the value it returns, and a fault.
Out(list, ret) == [areas |-> list, ret |-> ret, fault |-> "none"]
Broken(list, how) == [areas |-> list, ret |-> 0, fault |-> how]

Init ==
    /\ areas = <<>>
    /\ pmd = [r \in Regions |-> Absent]
    /\ pte = [p \in Pages |-> Absent]
    /\ reply = [call |-> "none", at |-> 0, ret |-> 0]
    /\ fault = "none"

-----------------------------------------------------------------------------
RoundUp(n, unit) == IF n % unit = 0 THEN n ELSE (n \div unit + 1) * unit

Covers(area, a) == area.start <= a /\ a < area.end
Meets(area, lo, hi) == area.start < hi /\ lo < area.end

\* Variant: an area that starts at lo is not inside.
InsideOpen(area, lo, hi) == lo < area.start /\ area.end <= hi

Inside(area, lo, hi) == lo <= area.start /\ area.end <= hi

\* The first index of list at which P holds, given that it does at one.
First(list, P(_)) ==
    CHOOSE i \in DOMAIN list : P(i) /\ \A j \in 1 .. i - 1 : ~ P(j)

\* The area at i takes in the one after it, which is freed.
Joined(list, i) == RemoveAt([list EXCEPT ![i].end = list[i + 1].end], i + 1)

\* The hardware's view: is there a translation for a, and may it be written?
Present(a) == \/ pmd[RegionOf(a)].kind = "huge"
              \/ pmd[RegionOf(a)].kind = "table" /\ pte[PageOf(a)].kind = "page"
MayWrite(a) == /\ pmd[RegionOf(a)].w
               /\ pmd[RegionOf(a)].kind = "huge" \/ pte[PageOf(a)].w
Resident(lo, hi) == \E p \in Pages : lo < p + Page /\ p < hi /\ Present(p)

-----------------------------------------------------------------------------
(* mmap                                                                      *)

\* Variant: the dummy area has no access flags.
BegunBare == IF areas = <<>> THEN <<Area(START, START + Page, 0, Normal)>>
             ELSE areas

\* vm_area_map makes the dummy area even when it then refuses.
Begun == IF areas = <<>> THEN <<Area(START, START + Page, DUMMY, Normal)>>
         ELSE areas

MapRefused(addr, length, fixed) ==
    \/ addr # 0 /\ addr < START
    \/ addr + length > END
    \/ fixed /\ addr % Page # 0
    \/ fixed /\ addr # 0 /\ addr + RoundUp(length, Page) > END

\* The request starts where the area at i, of the same kind, ends.
Extends(list, i, lo, prot) == list[i].end = lo /\ list[i].prot = prot

\* ... or ends where the area after i starts.
Precedes(list, i, hi, prot) ==
    i < Len(list) /\ list[i + 1].start = hi /\ list[i + 1].prot = prot

\* The range lo .. hi is free after the area at i: grow a neighbour or insert.
Place(list, i, lo, hi, prot) ==
    IF list[i].kind = Normal /\ Precedes(list, i, hi, prot)
         /\ list[i + 1].kind = Normal
    THEN IF Extends(list, i, lo, prot) THEN Joined(list, i)
         ELSE [list EXCEPT ![i + 1].start = lo]
    ELSE IF list[i].kind = Normal /\ Extends(list, i, lo, prot)
    THEN [list EXCEPT ![i].end = hi]
    ELSE InsertAt(list, i + 1, Area(lo, hi, prot, Normal))

\* Variant: the walk does not look at the next area.
HintStopBlind(list, lo, hi) == First(list, LAMBDA i : lo >= list[i].end)

\* The area after which the walk for a hint stops.
HintStop(list, lo, hi) ==
    First(list, LAMBDA i : \/ Meets(list[i], lo, hi)
                           \/ i = Len(list)
                           \/ list[i + 1].start >= hi)

\* The area after which the first gap of at least length is.
GapStop(list, length) ==
    First(list, LAMBDA i : \/ i = Len(list)
                           \/ list[i + 1].start - list[i].end >= length)

(***************************************************************************)
(* The search for a gap.  Where it grows the area before the gap it        *)
(* returns the new end of that area, and it takes in the area after the    *)
(* gap whatever that one's mapping type is.                                *)
(***************************************************************************)
Search(list, length, prot) ==
    LET i == GapStop(list, length)
        lo == list[i].end
        hi == lo + length
        next == Precedes(list, i, hi, prot)
        grown == IF next THEN Joined(list, i) ELSE [list EXCEPT ![i].end = hi]
    IN  IF list[i].prot = prot /\ list[i].kind = Normal
        THEN Out(grown, grown[i].end)
        ELSE IF next /\ list[i + 1].kind = Normal
        THEN Out([list EXCEPT ![i + 1].start = lo], lo)
        ELSE Out(InsertAt(list, i + 1, Area(lo, hi, prot, Normal)), lo)

MapResult(addr, length, prot, fixed) ==
    LET lo == RoundUp(addr, Page)
        len == RoundUp(length, Page)
        i == HintStop(Begun, lo, lo + len)
    IN  IF MapRefused(addr, length, fixed) THEN Out(Begun, - EINVAL)
        ELSE IF addr = 0 THEN Search(Begun, len, prot)
        ELSE IF ~ Meets(Begun[i], lo, lo + len)
        THEN Out(Place(Begun, i, lo, lo + len, prot), lo)
        ELSE IF fixed THEN Out(Begun, - EINVAL)
        ELSE Search(Begun, len, prot)

-----------------------------------------------------------------------------
(* munmap                                                                    *)

TrimsFront(area, lo, hi) ==
    lo <= area.start /\ area.start < hi /\ hi < area.end

\* What is left of one area.  The upper part of a split area has the mapping
\* type its memory happened to hold.
Cut(area, lo, hi, kind) ==
    IF Inside(area, lo, hi) THEN <<>>
    ELSE IF TrimsFront(area, lo, hi) THEN <<[area EXCEPT !.start = hi]>>
    ELSE IF area.start < lo /\ hi < area.end
    THEN <<[area EXCEPT !.end = lo], [area EXCEPT !.start = hi, !.kind = kind]>>
    ELSE IF area.start < lo /\ lo < area.end THEN <<[area EXCEPT !.end = lo]>>
    ELSE <<area>>

\* The walk ends at the first area whose front is trimmed.
CutAll(list, lo, hi, kind) ==
    FlattenSeq([i \in DOMAIN list |->
        IF \E j \in 1 .. i - 1 : TrimsFront(list[j], lo, hi) THEN <<list[i]>>
        ELSE Cut(list[i], lo, hi, kind)])

\* addr & page != 0 compares page with 0 first: only odd addresses are refused.
UnmapResult(addr, length, kind) ==
    LET hi == addr + RoundUp(length, Page)
    IN  IF addr < START \/ addr + length > END \/ length = 0
        THEN Out(areas, - EINVAL)
        ELSE IF addr % 2 = 1 \/ areas = <<>> THEN Out(areas, -1)
        ELSE IF Inside(areas[1], addr, hi) THEN Broken(areas, "freed")
        ELSE Out(CutAll(areas, addr, hi, kind), 0)

\* get_pte finds an entry for a only when it is not present.
GetPte(a) == /\ pmd[RegionOf(a)].kind = "table"
             /\ pte[PageOf(a)].kind = "none"

\* do_unmap clears the entry get_pte finds.
Cleared(p) == IF GetPte(p) THEN Absent ELSE pte[p]

-----------------------------------------------------------------------------
(* make_hugepage                                                             *)

\* The three ways an area can take addr: a huge area ends there, or the area
\* starts there, or it holds addr inside.
Before(area, lo) == area.start <= lo /\ area.end = lo /\ area.kind = HugeMap
Starts(area, lo) == area.start = lo /\ ~ Before(area, lo)
Holds(area, lo) == area.start < lo /\ lo < area.end

\* Why the area at k cannot be taken into lo .. hi, or 0.
Refusal(list, k, prot, force) ==
    IF ~ force /\ list[k].prot # prot THEN EDIFFPROT
    ELSE IF list[k].kind = HugeMap THEN EVMAOCCUPIED
    ELSE IF list[k].start # list[k - 1].end THEN ENOMAPPING
    ELSE 0

\* Where the walk over the areas after i ends: past the list, at an area that
\* is not inside lo .. hi or is refused, or at the one that ends at hi.
StopAt(list, i, lo, hi, prot, force) ==
    CHOOSE k \in i + 1 .. Len(list) + 1 :
        /\ \/ k > Len(list) \/ ~ Inside(list[k], lo, hi)
           \/ Refusal(list, k, prot, force) # 0
           \/ list[k].end = hi
        /\ \A j \in i + 1 .. k - 1 :
              /\ Inside(list[j], lo, hi) /\ list[j].end # hi
              /\ Refusal(list, j, prot, force) = 0

\* What the area that takes lo .. hi becomes, huge up to top.
Heads(area, lo, top, prot) ==
    IF Before(area, lo) \/ Starts(area, lo)
    THEN <<[area EXCEPT !.end = top, !.kind = HugeMap]>>
    ELSE <<[area EXCEPT !.end = lo], Area(lo, top, prot, HugeMap)>>

Replace(list, i, k, new) ==
    SubSeq(list, 1, i - 1) \o new \o SubSeq(list, k + 1, Len(list))

\* Variant: the merge does not compare protections.
MergesAny(list, a) ==
    \E j \in 1 .. Len(list) - 1 :
        Covers(list[j], a) /\ list[j].kind = HugeMap /\ list[j + 1].kind = HugeMap

\* A huge area of the same protection is next, be there a gap or not: the merge
\* unlinks it and frees the area after it.
MergesWrong(list, a) ==
    \E j \in 1 .. Len(list) - 1 :
        /\ Covers(list[j], a) /\ list[j].kind = HugeMap
        /\ list[j + 1].kind = HugeMap /\ list[j + 1].prot = list[j].prot

\* Areas i + 1 .. k are taken in.  If the first page of one of them could be
\* mapped, the copy goes through get_pte, which finds no huge page.
Taken(list, i, k, lo, hi, prot) ==
    LET new == Replace(list, i, k, Heads(list[i], lo, hi, prot))
    IN  IF MergesWrong(new, lo) THEN Broken(new, "freed")
        ELSE IF \E j \in i + 1 .. k : GetPte(list[j].start)
        THEN Broken(new, "null")
        ELSE Out(new, lo)

\* The list when the walk does not get past the area after i.
Forced(list, k, prot, force) == IF force THEN [list EXCEPT ![k].prot = prot]
                                ELSE list

\* ... when that area is refused: a huge area before it has already grown.
RefusedAt(list, i, lo, hi, prot, force) ==
    Forced(IF Before(list[i], lo) THEN [list EXCEPT ![i].end = hi] ELSE list,
           i + 1, prot, force)

\* ... and when it reaches past hi: the huge page is made before its protection
\* is compared, as far as the area i goes.
TornAt(list, i, lo, hi, prot) ==
    LET last == list[i].end
        top == IF Holds(list[i], lo) /\ hi > last
               THEN hi - RoundUp(hi - last, Huge) ELSE hi
        rest == IF top = hi THEN <<>>
                ELSE <<Area(top, last, list[i].prot, Normal)>>
    IN  Replace(list, i, i, Heads(list[i], lo, top, prot) \o rest)

\* The area at i takes in the areas after it up to hi.
Absorb(list, i, lo, hi, prot, force) ==
    LET k == StopAt(list, i, lo, hi, prot, force)
        code == Refusal(list, k, prot, force)
    IN  IF k > Len(list) THEN Broken(list, "null")
        ELSE IF ~ Inside(list[k], lo, hi)
        THEN IF k > i + 1 \/ force \/ list[k].prot = prot
             THEN Broken(list, "freed")
             ELSE Out(TornAt(list, i, lo, hi, prot), - EDIFFPROT)
        ELSE IF code = 0 THEN Taken(list, i, k, lo, hi, prot)
        ELSE IF k > i + 1 THEN Broken(list, "freed")
        ELSE Out(RefusedAt(list, i, lo, hi, prot, force), - code)

\* An odd length becomes its number of huge pages.
MakeResult(addr, length, prot, force) ==
    LET lo == RoundUp(addr, Huge)
        hi == lo + IF length % Huge = 0 THEN length ELSE length \div Huge
        Takes(area) == Before(area, lo) \/ Starts(area, lo) \/ Holds(area, lo)
        i == First(areas, LAMBDA j : Takes(areas[j]))
    IN  IF length = 0 \/ addr < START \/ addr + length > END
        THEN Out(areas, - EINVAL)
        ELSE IF \A j \in DOMAIN areas : ~ Takes(areas[j])
        THEN Broken(areas, "null")
        ELSE IF Before(areas[i], lo)
        THEN IF i < Len(areas) /\ areas[i + 1].start = lo
             THEN Absorb(areas, i, lo, hi, prot, force)
             ELSE Out(areas, - ENOMAPPING)
        ELSE IF areas[i].kind = HugeMap THEN Out(areas, - EVMAOCCUPIED)
        ELSE IF Starts(areas[i], lo) /\ areas[i].end = hi
        THEN Taken(areas, i, i, lo, hi, prot)
        ELSE IF Holds(areas[i], lo) /\ ~ force /\ areas[i].prot # prot
        THEN Out(areas, - EDIFFPROT)
        ELSE Absorb(areas, i, lo, hi, prot, force)

-----------------------------------------------------------------------------
(* break_hugepage                                                            *)

\* One area when lo .. hi is broken.  A huge area that does not start at lo is
\* split there, even when it ends before lo.
BreakArea(area, lo, hi) ==
    IF area.kind = Normal \/ area.end > hi THEN <<area>>
    ELSE IF area.start >= lo THEN <<[area EXCEPT !.kind = Normal]>>
    ELSE <<[area EXCEPT !.end = lo], [area EXCEPT !.start = lo, !.kind = Normal]>>

\* merger: areas that touch and agree become one.
Merge(done, area) ==
    LET last == done[Len(done)]
    IN  IF last.end = area.start /\ last.kind = area.kind /\ last.prot = area.prot
        THEN [done EXCEPT ![Len(done)].end = area.end]
        ELSE Append(done, area)

Merger(list) ==
    LET merged[n \in 1 .. Len(list)] ==
          IF n = 1 THEN <<list[1]>> ELSE Merge(merged[n - 1], list[n])
    IN  merged[Len(list)]

\* An area that reaches past the range is split at hi again and again.
BreakResult(addr, length) ==
    LET hi == addr + length
    IN  IF addr = 0 \/ length % Huge # 0 \/ addr % Huge # 0
        THEN Out(areas, - EINVAL)
        ELSE IF areas = <<>> THEN Broken(areas, "null")
        ELSE IF \E i \in DOMAIN areas : addr <= areas[i].start /\ hi < areas[i].end
        THEN Broken(areas, "hang")
        ELSE Out(Merger(FlattenSeq([i \in DOMAIN areas |->
                                      BreakArea(areas[i], addr, hi)])), 0)

-----------------------------------------------------------------------------
(* The uses a call makes; a process makes those in Usage only.               *)

MapUses(addr, length, prot, fixed) == {u \in Usages :
    CASE u = "map_nothing" -> length = 0
      [] u = "map_beyond" ->
           LET list == MapResult(addr, length, prot, fixed).areas
           IN  \E i \in DOMAIN list : list[i].end > END
      [] u = "map_at_huge" ->
           \E i \in 1 .. Len(areas) - 1 :
              /\ areas[i].end + RoundUp(length, Page) = areas[i + 1].start
              /\ areas[i].prot = prot /\ areas[i].kind = Normal
              /\ areas[i + 1].prot = prot /\ areas[i + 1].kind = HugeMap
      [] OTHER -> FALSE}

UnmapUses(lo, hi) == {u \in Usages : \E i \in DOMAIN areas :
    CASE u = "unmap_start" -> i = 1 /\ Meets(areas[i], lo, hi)
      [] u = "unmap_middle" -> areas[i].start < lo /\ hi < areas[i].end
      [] u = "unmap_resident" -> Resident(lo, hi)
      [] u = "unmap_huge" ->
           /\ areas[i].kind = HugeMap /\ Meets(areas[i], lo, hi)
           /\ \/ areas[i].start < lo /\ lo % Huge # 0
              \/ hi < areas[i].end /\ hi % Huge # 0
      [] u = "unmap_unaligned" -> lo % Page # 0 /\ lo % 2 = 0
      [] OTHER -> FALSE}

\* lo .. hi is made of whole normal areas, none of them touched, the first with
\* the protection asked for.  A huge area that ends there has it too; the next
\* area is not a huge one of it, which the merge takes in at any distance.
Whole(lo, hi, prot, force) ==
    /\ ~ Resident(lo, hi)
    /\ \E i, k \in DOMAIN areas :
          /\ i <= k /\ areas[i].start = lo /\ areas[k].end = hi
          /\ areas[i].prot = prot
          /\ \A j \in i .. k : /\ areas[j].kind = Normal
                               /\ areas[j].prot = prot \/ force
                               /\ j < k => areas[j].end = areas[j + 1].start
          /\ k < Len(areas) /\ areas[k + 1].kind = HugeMap => areas[k + 1].prot # prot
    /\ \A j \in DOMAIN areas :
          areas[j].kind = HugeMap /\ areas[j].end = lo => areas[j].prot = prot

\* ... or the call is refused before it changes anything.
MakeUses(addr, length, prot, force) == {u \in {"make_any"} :
    LET lo == RoundUp(addr, Huge)
    IN  /\ length # 0 /\ START <= addr /\ addr + length <= END
        /\ ~ (length % Huge = 0 /\ Whole(lo, lo + length, prot, force))
        /\ \A j \in DOMAIN areas :
              areas[j].kind = HugeMap /\ Covers(areas[j], lo) =>
                  j > 1 /\ Before(areas[j - 1], lo)}

BreakUses(addr, hi) == {u \in {"break_any"} :
    /\ addr # 0 /\ addr % Huge = 0 /\ hi % Huge = 0
    /\ \/ areas = <<>>
       \/ \E i \in DOMAIN areas : \/ areas[i].end > hi
                                  \/ areas[i].kind = HugeMap /\ areas[i].end <= addr}

\* "touch_mixed" is an access to a writable area below a table that was made
\* for a read-only one.
TouchUses(a) == {u \in Usages : \E i \in DOMAIN areas :
    /\ Covers(areas[i], a)
    /\ CASE u = "touch_dummy" -> i = 1
         [] u = "touch_mixed" -> /\ Writable(areas[i].prot)
                                 /\ pmd[RegionOf(a)].kind # "none"
                                 /\ ~ pmd[RegionOf(a)].w
         [] OTHER -> FALSE}

-----------------------------------------------------------------------------
(* The process                                                               *)

Step(call, at, out) ==
    /\ fault = "none"
    /\ areas' = out.areas
    /\ fault' = out.fault
    /\ reply' = [call |-> call, at |-> at, ret |-> out.ret]

Map == \E addr \in Addrs, length \in Lengths, prot \in Prots, fixed \in BOOLEAN :
    /\ MapUses(addr, length, prot, fixed) \subseteq Usage
    /\ Step("mmap", addr, MapResult(addr, length, prot, fixed))
    /\ UNCHANGED <<pmd, pte>>

Unmap == \E addr \in Addrs, length \in Lengths :
    LET hi == addr + RoundUp(length, Page)
        splits == "unmap_middle" \in UnmapUses(addr, hi)
        out(kind) == UnmapResult(addr, length, kind)
    IN  /\ UnmapUses(addr, hi) \subseteq Usage
        /\ \E kind \in IF splits THEN {Unset, Normal, HugeMap} ELSE {Normal} :
              Step("munmap", addr, out(kind))
        /\ pte' = [p \in Pages |-> IF reply'.ret = 0 /\ addr < p + Page /\ p <= hi - Page
                                   THEN Cleared(p) ELSE pte[p]]
        /\ UNCHANGED pmd

MakeHuge == \E addr \in Addrs, length \in Lengths, prot \in Prots, force \in BOOLEAN :
    /\ MakeUses(addr, length, prot, force) \subseteq Usage
    /\ Step("make_hugepage", addr, MakeResult(addr, length, prot, force))
    /\ UNCHANGED <<pmd, pte>>

BreakHuge == \E addr \in Addrs, length \in Lengths :
    /\ BreakUses(addr, addr + length) \subseteq Usage
    /\ Step("break_hugepage", addr, BreakResult(addr, length))
    /\ UNCHANGED <<pmd, pte>>

-----------------------------------------------------------------------------
(* An access, and the fault it takes                                         *)

OK == 0
SIGSEGV == -1

\* Variant: the entry of a page can always be written.
MapWritable(a, area) ==
    LET r == RegionOf(a)
    IN  /\ pmd' = [pmd EXCEPT ![r] = Entry(IF area.kind = HugeMap THEN "huge"
                                           ELSE "table", TRUE)]
        /\ pte' = [pte EXCEPT ![PageOf(a)] = Entry("page", TRUE)]

\* map_physical_area: a huge page replaces the table of its region, a page is
\* put into the table, which is made with the flags of this area if need be.
MapPhysical(a, area) ==
    LET r == RegionOf(a)
        w == Writable(area.prot)
    IN  IF area.kind = HugeMap
        THEN /\ pmd' = [pmd EXCEPT ![r] = Entry("huge", w)]
             /\ pte' = [p \in Pages |-> IF RegionOf(p) = r THEN Absent ELSE pte[p]]
        ELSE /\ pmd' = IF pmd[r].kind = "none"
                       THEN [pmd EXCEPT ![r] = Entry("table", w)] ELSE pmd
             /\ pte' = [pte EXCEPT ![PageOf(a)] = Entry("page", w)]

\* vm_area_pagefault: the first area that holds a decides.
Mapped(a) == \E i \in DOMAIN areas : Covers(areas[i], a)
AreaOf(a) == areas[First(areas, LAMBDA i : Covers(areas[i], a))]
PageFault(a, write) ==
    /\ Mapped(a)
    /\ write => Writable(AreaOf(a).prot)
    /\ MapPhysical(a, AreaOf(a))

Access(a, write, ret) ==
    /\ fault = "none"
    /\ TouchUses(a) \subseteq Usage
    /\ reply' = [call |-> IF write THEN "write" ELSE "read", at |-> a, ret |-> ret]
    /\ UNCHANGED <<areas, fault>>

\* The access needs no fault, is served by the handler, or gets SIGSEGV; a
\* fault on a page that is present is a SIGSEGV at once.
Hit(a, write) ==
    /\ Present(a) /\ (write => MayWrite(a))
    /\ Access(a, write, OK)
    /\ UNCHANGED <<pmd, pte>>

Served(a, write) ==
    /\ ~ Present(a)
    /\ PageFault(a, write)
    /\ Access(a, write, OK)

Refused(a, write) ==
    /\ IF Present(a) THEN write /\ ~ MayWrite(a)
       ELSE Mapped(a) => write /\ ~ Writable(AreaOf(a).prot)
    /\ Access(a, write, SIGSEGV)
    /\ UNCHANGED <<pmd, pte>>

Touch == \E a \in Addrs, write \in BOOLEAN :
    /\ START <= a /\ a < END
    /\ Hit(a, write) \/ Served(a, write) \/ Refused(a, write)

Next == Map \/ Unmap \/ MakeHuge \/ BreakHuge \/ Touch

Spec == Init /\ [][Next]_vars
=============================================================================
