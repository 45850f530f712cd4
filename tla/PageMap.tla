------------------------------- MODULE PageMap -------------------------------
(***************************************************************************)
(* What the mapping system calls promise a process: every page is free or  *)
(* mapped with a protection and backed by pages or by huge pages, whatever *)
(* list or page table keeps track of it.  The first page is never handed   *)
(* out.                                                                    *)
(***************************************************************************)
EXTENDS Integers

CONSTANTS
  Page, Huge, START, END, Addrs, Lengths, Prots, READ_WRITE, EINVAL, EVMAOCCUPIED,
  Pages    \* the pages that can be handed out

VARIABLES
  map,     \* page -> Free, or its protection and whether it is huge
  answer   \* the last call or access, its address, and its result

vars == <<map, answer>>

Free == [prot |-> 0, huge |-> FALSE]
RoundUp(n, unit) == IF n % unit = 0 THEN n ELSE (n \div unit + 1) * unit
Range(lo, hi) == {p \in Pages : lo <= p /\ p < hi}
IsFree(m, lo, hi) == /\ START + Page <= lo /\ hi <= END
                     /\ \A p \in Range(lo, hi) : m[p] = Free
Set(m, S, value) == [p \in Pages |-> IF p \in S THEN value ELSE m[p]]

Init == map = [p \in Pages |-> Free] /\ answer = [call |-> "none", at |-> 0, ret |-> 0]

Answer(call, at, ret) == answer' = [call |-> call, at |-> at, ret |-> ret]
Fail(call, at, ret) == Answer(call, at, ret) /\ UNCHANGED map

\* lo is the lowest address with room for len.
Lowest(m, lo, len) == /\ IsFree(m, lo, lo + len)
                      /\ \A p \in Pages : p < lo => ~ IsFree(m, p, p + len)

\* The hint is honoured when its pages are free; otherwise the lowest gap is
\* taken, unless the address was fixed.
Map(m, addr, length, prot, fixed) ==
    LET lo == RoundUp(addr, Page)
        len == RoundUp(length, Page)
        hinted == addr # 0 /\ IsFree(m, lo, lo + len)
    IN  \/ /\ Fail("mmap", addr, - EINVAL)
           /\ \/ addr # 0 /\ addr < START
              \/ addr + length > END
              \/ fixed /\ addr # 0 /\ (addr % Page # 0 \/ ~ hinted)
        \/ /\ Answer("mmap", addr, 0)
           /\ hinted \/ ~ fixed \/ addr = 0
           /\ \E at \in Pages :
                 /\ IF hinted THEN at = lo ELSE Lowest(m, at, len)
                 /\ map' = Set(m, Range(at, at + len),
                               [prot |-> prot, huge |-> FALSE])

Unmap(m, addr, length) ==
    \/ /\ Fail("munmap", addr, - EINVAL)
       /\ addr < START \/ addr + length > END \/ length = 0
    \/ /\ Fail("munmap", addr, -1)
       /\ addr % 2 = 1 \/ \A p \in Pages : m[p] = Free
    \/ /\ Answer("munmap", addr, 0)
       /\ addr % Page = 0
       /\ map' = Set(m, Range(addr, addr + RoundUp(length, Page)), Free)

MakeHuge(m, addr, length, prot) ==
    LET lo == RoundUp(addr, Huge)
        pages == Range(lo, lo + length)
    IN  \/ /\ Fail("make_hugepage", addr, - EINVAL)
           /\ length = 0 \/ addr < START \/ addr + length > END
        \/ /\ Fail("make_hugepage", addr, - EVMAOCCUPIED)
           /\ lo \in Pages /\ m[lo].huge
        \/ /\ Answer("make_hugepage", addr, 0)
           /\ \A p \in pages : m[p] # Free /\ ~ m[p].huge
           /\ map' = Set(m, pages, [prot |-> prot, huge |-> TRUE])

BreakHuge(m, addr, length) ==
    \/ /\ Fail("break_hugepage", addr, - EINVAL)
       /\ addr = 0 \/ addr % Huge # 0 \/ length % Huge # 0
    \/ /\ Answer("break_hugepage", addr, 0)
       /\ map' = [p \in Pages |-> IF p \in Range(addr, addr + length)
                                  THEN [m[p] EXCEPT !.huge = FALSE] ELSE m[p]]

\* An access works exactly when its page is mapped and the protection allows it.
Touch(m, a, write) ==
    LET now == m[a - (a % Page)]
        allowed == now # Free /\ (write => now.prot = READ_WRITE)
    IN  /\ a - (a % Page) \in Pages
        /\ Fail(IF write THEN "write" ELSE "read", a, IF allowed THEN 0 ELSE -1)

Next == LET m == map IN \E addr \in {answer'.at} :
    /\ addr \in Addrs
    /\ CASE answer'.call = "mmap" ->
              \E length \in Lengths, prot \in Prots, fixed \in BOOLEAN :
                  Map(m, addr, length, prot, fixed)
         [] answer'.call = "munmap" -> \E length \in Lengths : Unmap(m, addr, length)
         [] answer'.call = "make_hugepage" ->
              \E length \in Lengths, prot \in Prots : MakeHuge(m, addr, length, prot)
         [] answer'.call = "break_hugepage" ->
              \E length \in Lengths : BreakHuge(m, addr, length)
         [] OTHER -> \E write \in BOOLEAN : Touch(m, addr, write)

Spec == Init /\ [][Next]_vars
=============================================================================
