---------------------------- MODULE VmAreaProofs ----------------------------
(***************************************************************************)
(* Proofs about memory mapping: for every size of pages and huge pages,    *)
(* every mapping region and all addresses and lengths, while the process   *)
(* keeps to the uses that do not break the list of areas.                  *)
(***************************************************************************)
EXTENDS VmAreaProperties, Orders

-----------------------------------------------------------------------------
(* Multiples of a unit.                                                     *)

LEMMA Multiple ==
    ASSUME NEW k \in Nat, NEW u \in Nat \ {0}
    PROVE  k * u \in Nat /\ (k * u) % u = 0
  OBVIOUS

LEMMA Quotient ==
    ASSUME NEW a \in Nat, NEW u \in Nat \ {0}, a % u = 0
    PROVE  \E k \in Nat : a = k * u
<1>1. a \div u \in Nat /\ a = (a \div u) * u + (a % u)
  OBVIOUS
<1>2. a = (a \div u) * u
  BY <1>1
<1>3. QED
  BY <1>1, <1>2

LEMMA SumMultiple ==
    ASSUME NEW a \in Nat, NEW b \in Nat, NEW u \in Nat \ {0}, a % u = 0, b % u = 0
    PROVE  (a + b) % u = 0
<1>1. PICK k \in Nat : a = k * u
  BY Quotient
<1>2. PICK l \in Nat : b = l * u
  BY Quotient
<1>3. a + b = (k + l) * u
  BY <1>1, <1>2
<1>4. k + l \in Nat
  OBVIOUS
<1>5. ((k + l) * u) % u = 0
  BY <1>4, Multiple, Zenon
<1>6. QED
  BY <1>3, <1>5, Zenon

\* Two different multiples of a unit are a unit apart.
LEMMA GapMultiple ==
    ASSUME NEW a \in Nat, NEW b \in Nat, NEW u \in Nat \ {0}, a % u = 0, b % u = 0, a < b
    PROVE  a + u <= b
<1>1. PICK k \in Nat : a = k * u
  BY Quotient
<1>2. PICK l \in Nat : b = l * u
  BY Quotient
<1>3. k < l
  BY <1>1, <1>2
<1>4. k + 1 <= l
  BY <1>3
<1>5. (k + 1) * u <= l * u
  BY <1>4
<1>6. QED
  BY <1>1, <1>2, <1>5

LEMMA HugeIsPages == ASSUME NEW a \in Nat, a % Huge = 0 PROVE a % Page = 0
<1>1. Huge \in Nat \ {0} /\ Page \in Nat \ {0} /\ Huge % Page = 0
  BY VmAssumption
<1>2. PICK k \in Nat : a = k * Huge
  BY <1>1, Quotient
<1>3. PICK l \in Nat : Huge = l * Page
  BY <1>1, Quotient
<1>4. a = (k * l) * Page /\ k * l \in Nat
  BY <1>1, <1>2, <1>3
<1>5. QED
  BY <1>1, <1>4, Multiple

LEMMA Rounded ==
    ASSUME NEW n \in Nat, NEW u \in Nat \ {0}
    PROVE  /\ RoundUp(n, u) \in Nat /\ RoundUp(n, u) % u = 0
           /\ n <= RoundUp(n, u) /\ RoundUp(n, u) < n + u
<1>1. n \div u \in Nat /\ n % u \in 0 .. u - 1 /\ n = (n \div u) * u + (n % u)
  OBVIOUS
<1>2. (n \div u + 1) * u = (n \div u) * u + u
  BY <1>1
<1>3. (n \div u + 1) * u \in Nat /\ ((n \div u + 1) * u) % u = 0
  <2>1. n \div u + 1 \in Nat
    BY <1>1
  <2>2. QED
    BY <2>1, Multiple, Zenon
<1> DEFINE q == (n \div u + 1) * u
           d == (n \div u) * u
           r == n % u
<1>4. d \in Nat /\ r \in 0 .. u - 1 /\ n = d + r /\ q = d + u /\ q \in Nat /\ q % u = 0
  BY <1>1, <1>2, <1>3
<1>5. RoundUp(n, u) = IF r = 0 THEN n ELSE q
  BY DEF RoundUp
<1> HIDE DEF q
<1>6. RoundUp(n, u) % u = 0
  BY <1>4, <1>5, Zenon
<1> HIDE DEF d, r
<1>7. RoundUp(n, u) \in Nat /\ n <= RoundUp(n, u) /\ RoundUp(n, u) < n + u
  BY <1>4, <1>5
<1>8. QED
  BY <1>6, <1>7

\* The page and the region of an address.
LEMMA Floor ==
    ASSUME NEW a \in Nat, NEW u \in Nat \ {0}
    PROVE  /\ a - (a % u) \in Nat /\ (a - (a % u)) % u = 0
           /\ a - (a % u) <= a /\ a < a - (a % u) + u
<1>1. a \div u \in Nat /\ a % u \in 0 .. u - 1 /\ a = (a \div u) * u + (a % u)
  OBVIOUS
<1>2. (a \div u) * u \in Nat /\ ((a \div u) * u) % u = 0
  BY <1>1, Multiple
<1>3. a - (a % u) = (a \div u) * u
  BY <1>1, <1>2
<1>4. QED
  BY <1>1, <1>2, <1>3

LEMMA PageFacts ==
    ASSUME NEW p \in Pages
    PROVE  /\ p \in Nat /\ START <= p /\ p < END /\ p % Page = 0 /\ PageOf(p) = p
           /\ RegionOf(p) \in Regions /\ RegionOf(p) \in Nat /\ RegionOf(p) % Huge = 0
           /\ RegionOf(p) <= p /\ p < RegionOf(p) + Huge
<1>1. p \in Nat /\ START <= p /\ p < END /\ p % Page = 0 /\ START \in Nat /\ END \in Nat
      /\ Page \in Nat \ {0} /\ Huge \in Nat \ {0} /\ START % Huge = 0
  BY VmAssumption DEF Pages
<1>2. PageOf(p) = p
  BY <1>1 DEF PageOf
<1> DEFINE r == RegionOf(p)
<1>3. r \in Nat /\ r % Huge = 0 /\ r <= p /\ p < r + Huge
  BY <1>1, Floor DEF RegionOf
<1> HIDE DEF r
<1>4. START <= r
  <2>1. SUFFICES ASSUME r < START PROVE FALSE
    BY <1>1, <1>3
  <2>2. r + Huge <= START
    BY <1>1, <1>3, <2>1, GapMultiple
  <2>3. QED
    BY <1>1, <1>3, <2>2
<1>5. r \in Regions
  BY <1>1, <1>3, <1>4 DEF Regions
<1>6. QED
  BY <1>1, <1>2, <1>3, <1>5 DEF r

\* An address, its page and its region.
LEMMA AddressFacts ==
    ASSUME NEW a \in Nat, START <= a, a < END
    PROVE  /\ PageOf(a) \in Pages /\ PageOf(a) <= a /\ a < PageOf(a) + Page
           /\ RegionOf(a) \in Regions /\ RegionOf(a) \in Nat /\ RegionOf(a) % Huge = 0
           /\ RegionOf(a) <= a /\ a < RegionOf(a) + Huge
           /\ RegionOf(PageOf(a)) = RegionOf(a)
<1> DEFINE r == RegionOf(a)
           p == PageOf(a)
           q == RegionOf(p)
<1>1. START \in Nat /\ END \in Nat /\ Page \in Nat \ {0} /\ Huge \in Nat \ {0}
      /\ START % Huge = 0 /\ START % Page = 0
  BY VmAssumption, HugeIsPages
<1>2. p \in Nat /\ p % Page = 0 /\ p <= a /\ a < p + Page
  BY <1>1, Floor DEF PageOf
<1>3. r \in Nat /\ r % Huge = 0 /\ r <= a /\ a < r + Huge
  BY <1>1, Floor DEF RegionOf
<1> HIDE DEF r, p
<1>4. r % Page = 0
  BY <1>3, HugeIsPages
<1>5. ASSUME NEW u \in Nat \ {0}, NEW x \in Nat, NEW y \in Nat, x % u = 0, y % u = 0,
             x <= a, a < y + u
      PROVE  x <= y
  <2>1. SUFFICES ASSUME y < x PROVE FALSE
    BY <1>5
  <2>2. y + u <= x
    BY <1>5, <2>1, GapMultiple
  <2>3. QED
    BY <1>5, <2>2
<1>6. START <= p /\ START <= r /\ r <= p
  BY <1>1, <1>2, <1>3, <1>4, <1>5
<1>7. p \in Pages /\ r \in Regions
  BY <1>1, <1>2, <1>3, <1>6 DEF Pages, Regions
<1>8. q \in Nat /\ q % Huge = 0 /\ q <= p /\ p < q + Huge
  BY <1>7, PageFacts
<1> HIDE DEF q
<1>9. r <= q
  <2>1. SUFFICES ASSUME q < r PROVE FALSE
    BY <1>3, <1>8
  <2>2. q + Huge <= r
    BY <1>1, <1>3, <1>8, <2>1, GapMultiple
  <2>3. QED
    BY <1>1, <1>2, <1>3, <1>6, <1>8, <2>2
<1>10. q <= r
  <2>1. SUFFICES ASSUME r < q PROVE FALSE
    BY <1>3, <1>8
  <2>2. r + Huge <= q
    BY <1>1, <1>3, <1>8, <2>1, GapMultiple
  <2>3. QED
    BY <1>1, <1>2, <1>3, <1>8, <2>2
<1>11. q = r
  BY <1>3, <1>8, <1>9, <1>10
<1>12. QED
  BY <1>2, <1>3, <1>7, <1>11 DEF q, r, p

-----------------------------------------------------------------------------
(* The list of areas.                                                       *)

AreaType == [start : Nat, end : Nat, prot : Prots \cup {DUMMY},
             kind : {Unset, Normal, HugeMap}]
Aligned(x, unit) == x.start % unit = 0 /\ x.end % unit = 0
GoodAreas ==
    {x \in AreaType : /\ x.kind # Unset /\ START <= x.start /\ x.start < x.end /\ x.end <= END
                      /\ Aligned(x, Page) /\ (x.kind = HugeMap => Aligned(x, Huge))}
Apart == {p \in GoodAreas \X GoodAreas :
            p[1].end <= p[2].start /\ p[2].prot # DUMMY}
Dummy == Area(START, START + Page, DUMMY, Normal)
Sorted(list) ==
    Ordered(list, GoodAreas, Apart) /\ (list # <<>> => list[1] = Dummy)

\* What new still says of the pages in S.
Keeps(old, new, S) ==
    \A p \in S : \A i \in DOMAIN old : Covers(old[i], p) =>
        \E j \in DOMAIN new : Covers(new[j], p) /\ new[j].prot = old[i].prot

LEMMA AreaFacts ==
    ASSUME NEW x \in GoodAreas
    PROVE  /\ x.start \in Nat /\ x.end \in Nat /\ START <= x.start /\ x.start < x.end
           /\ x.end <= END /\ Aligned(x, Page) /\ (x.kind = HugeMap => Aligned(x, Huge))
           /\ x.prot \in Prots \cup {DUMMY} /\ x.kind \in {Normal, HugeMap}
           /\ x \in AreaType /\ x = Area(x.start, x.end, x.prot, x.kind)
  BY DEF GoodAreas, AreaType, Area

LEMMA NormalGood ==
    ASSUME NEW x \in AreaType, x.kind = Normal, START <= x.start, x.start < x.end,
           x.end <= END, x.start % Page = 0, x.end % Page = 0
    PROVE  x \in GoodAreas
  BY DEF GoodAreas, Aligned, Unset, Normal, HugeMap

LEMMA SortedFacts ==
    ASSUME NEW list, Sorted(list)
    PROVE  /\ list \in Seq(GoodAreas) /\ Len(list) \in Nat /\ DOMAIN list = 1 .. Len(list)
           /\ \A i \in DOMAIN list : list[i] \in GoodAreas
           /\ \A i, j \in DOMAIN list : i < j =>
                 list[i].end <= list[j].start /\ list[j].prot # DUMMY
           /\ list # <<>> => 1 \in DOMAIN list /\ list[1] = Dummy
<1>1. list \in Seq(GoodAreas) /\ Len(list) \in Nat /\ DOMAIN list = 1 .. Len(list)
  BY LenProperties DEF Sorted, Ordered
<1>2. \A i \in DOMAIN list : list[i] \in GoodAreas
  BY <1>1, ElementOfSeq
<1>3. \A i, j \in DOMAIN list : i < j => list[i].end <= list[j].start /\ list[j].prot # DUMMY
  BY <1>1 DEF Sorted, Ordered, Apart
<1>4. list # <<>> => 1 \in DOMAIN list /\ list[1] = Dummy
  BY <1>1, EmptySeq DEF Sorted
<1>5. QED
  BY <1>1, <1>2, <1>3, <1>4

LEMMA DummyGood == Dummy \in GoodAreas /\ Dummy.start = START /\ Dummy.end = START + Page
<1>1. START \in Nat /\ END \in Nat /\ Page \in Nat \ {0} /\ START % Huge = 0 /\ START + Page <= END
  BY VmAssumption
<1>2. START % Page = 0
  BY <1>1, HugeIsPages
<1>3. Page % Page = 0
  BY <1>1
<1>4. (START + Page) % Page = 0
  BY <1>1, <1>2, <1>3, SumMultiple
<1>5. QED
  BY <1>1, <1>2, <1>4
    DEF Dummy, Area, GoodAreas, AreaType, Aligned, Unset, Normal, HugeMap

LEMMA SortedEmpty == Sorted(<<>>)
<1>1. <<>> \in Seq(GoodAreas) /\ Len(<<>>) = 0
  BY EmptySeq
<1>2. DOMAIN <<>> = 1 .. 0
  BY <1>1, LenProperties
<1>3. QED
  BY <1>1, <1>2 DEF Sorted, Ordered

LEMMA OneOrdered ==
    ASSUME NEW x \in GoodAreas PROVE Ordered(<<x>>, GoodAreas, Apart)
  BY DEF Ordered

\* news can stand in list between its areas below i and those above k.
Fits(list, i, k, news) ==
    /\ Ordered(news, GoodAreas, Apart)
    /\ i \in 2 .. Len(list) + 1 /\ k \in i - 1 .. Len(list)
    /\ \A m \in DOMAIN news :
          /\ news[m].prot # DUMMY
          /\ list[i - 1].end <= news[m].start
          /\ k < Len(list) => news[m].end <= list[k + 1].start

LEMMA ReplaceSorted ==
    ASSUME NEW list, Sorted(list), NEW i, NEW k, NEW news, Fits(list, i, k, news)
    PROVE  /\ Sorted(Replace(list, i, k, news))
           /\ \A j \in DOMAIN list : j < i \/ j > k =>
                 \E h \in DOMAIN Replace(list, i, k, news) : Replace(list, i, k, news)[h] = list[j]
           /\ \A m \in DOMAIN news :
                 \E h \in DOMAIN Replace(list, i, k, news) : Replace(list, i, k, news)[h] = news[m]
<1> DEFINE n == Len(list)
           s == SubSeq(list, 1, i - 1)
           t == SubSeq(list, k + 1, n)
<1>1. /\ n \in Nat /\ DOMAIN list = 1 .. n /\ i \in 2 .. n + 1 /\ k \in i - 1 .. n
      /\ \A j \in DOMAIN list : list[j] \in GoodAreas
      /\ \A a, b \in DOMAIN list : a < b => list[a].end <= list[b].start /\ list[b].prot # DUMMY
      /\ list[1] = Dummy
  BY SortedFacts, EmptySeq DEF Fits
<1>2. i \in Nat /\ k \in Nat
  BY <1>1
<1>3. /\ Ordered(s, GoodAreas, Apart) /\ DOMAIN s = 1 .. i - 1 /\ Len(s) = i - 1
      /\ \A j \in 1 .. i - 1 : j \in DOMAIN list /\ s[j] = list[j]
  <2>1. 1 \in 1 .. Len(list) + 1 /\ i - 1 \in 1 - 1 .. Len(list)
    BY <1>1, <1>2
  <2>2. /\ Ordered(s, GoodAreas, Apart)
        /\ DOMAIN s = 1 .. (i - 1) - 1 + 1 /\ Len(s) = (i - 1) - 1 + 1
        /\ \A j \in 1 .. (i - 1) - 1 + 1 : j + 1 - 1 \in DOMAIN list /\ s[j] = list[j + 1 - 1]
    BY <2>1, OrderedSub DEF Sorted
  <2>3. (i - 1) - 1 + 1 = i - 1 /\ \A j \in 1 .. i - 1 : j + 1 - 1 = j
    BY <1>2
  <2> HIDE DEF s
  <2>4. QED
    BY <2>2, <2>3
<1>4. /\ Ordered(t, GoodAreas, Apart) /\ DOMAIN t = 1 .. n - k /\ Len(t) = n - k
      /\ \A j \in 1 .. n - k : j + k \in DOMAIN list /\ t[j] = list[j + k]
  <2>1. k + 1 \in 1 .. Len(list) + 1 /\ n \in (k + 1) - 1 .. Len(list)
    BY <1>1, <1>2
  <2>2. /\ Ordered(t, GoodAreas, Apart)
        /\ DOMAIN t = 1 .. n - (k + 1) + 1 /\ Len(t) = n - (k + 1) + 1
        /\ \A j \in 1 .. n - (k + 1) + 1 :
              j + (k + 1) - 1 \in DOMAIN list /\ t[j] = list[j + (k + 1) - 1]
    BY <2>1, OrderedSub DEF Sorted
  <2>3. n - (k + 1) + 1 = n - k /\ \A j \in 1 .. n - k : j + (k + 1) - 1 = j + k
    BY <1>1, <1>2
  <2> HIDE DEF t
  <2>4. QED
    BY <2>2, <2>3
<1>5. Ordered(news, GoodAreas, Apart) /\ DOMAIN news = 1 .. Len(news) /\ Len(news) \in Nat
      /\ \A m \in DOMAIN news :
           /\ news[m] \in GoodAreas /\ news[m].prot # DUMMY
           /\ list[i - 1].end <= news[m].start
           /\ k < n => news[m].end <= list[k + 1].start
  BY LenProperties DEF Fits, Ordered
<1> HIDE DEF s, t, n
<1>6. Precede(s, news, Apart)
  <2> SUFFICES ASSUME NEW j \in DOMAIN s, NEW m \in DOMAIN news
               PROVE  <<s[j], news[m]>> \in Apart
    BY DEF Precede
  <2>1. j \in 1 .. i - 1 /\ j \in DOMAIN list /\ s[j] = list[j] /\ i - 1 \in DOMAIN list
    BY <1>1, <1>2, <1>3
  <2>2. list[j].end <= list[i - 1].end
    <3>1. CASE j = i - 1
      BY <1>1, <2>1, <3>1, AreaFacts
    <3>2. CASE j < i - 1
      <4>1. list[j].end <= list[i - 1].start /\ list[i - 1].start < list[i - 1].end
        BY <1>1, <2>1, <3>2, AreaFacts
      <4>2. list[j].end \in Nat /\ list[i - 1].start \in Nat /\ list[i - 1].end \in Nat
        BY <1>1, <2>1, AreaFacts
      <4>3. QED
        BY <4>1, <4>2
    <3>3. QED
      BY <1>2, <2>1, <3>1, <3>2
  <2>3. list[j].end \in Nat /\ list[i - 1].end \in Nat /\ news[m].start \in Nat
    BY <1>1, <1>5, <2>1, AreaFacts
  <2>4. s[j].end <= news[m].start
    BY <1>5, <2>1, <2>2, <2>3
  <2>5. QED
    BY <1>1, <1>5, <2>1, <2>4 DEF Apart
<1>7. Precede(news, t, Apart) /\ Precede(s, t, Apart)
  <2>1. ASSUME NEW m \in DOMAIN news, NEW j \in DOMAIN t PROVE <<news[m], t[j]>> \in Apart
    <3>1. j \in 1 .. n - k /\ j + k \in DOMAIN list /\ t[j] = list[j + k] /\ k < n
          /\ k + 1 \in DOMAIN list
      BY <1>1, <1>2, <1>4
    <3>2. list[k + 1].start <= list[j + k].start
      <4>1. CASE j = 1
        BY <1>1, <1>2, <3>1, <4>1, AreaFacts
      <4>2. CASE j # 1
        <5>1. k + 1 < j + k
          BY <1>1, <1>2, <3>1, <4>2
        <5>2. list[k + 1].end <= list[j + k].start /\ list[k + 1].start < list[k + 1].end
          BY <1>1, <3>1, <5>1, AreaFacts
        <5>3. list[k + 1].end \in Nat /\ list[j + k].start \in Nat /\ list[k + 1].start \in Nat
          BY <1>1, <3>1, AreaFacts
        <5>4. QED
          BY <5>2, <5>3
      <4>3. QED
        BY <4>1, <4>2
    <3>3. news[m].end \in Nat /\ list[j + k].start \in Nat /\ list[k + 1].start \in Nat
      BY <1>1, <1>5, <3>1, AreaFacts
    <3>4. news[m].end <= list[j + k].start
      BY <1>5, <3>1, <3>2, <3>3
    <3>5. list[j + k].prot # DUMMY
      <4>1. 1 \in DOMAIN list /\ 1 < j + k
        BY <1>1, <1>2, <3>1
      <4>2. QED
        BY <1>1, <3>1, <4>1
    <3>6. QED
      BY <1>1, <1>5, <3>1, <3>4, <3>5 DEF Apart
  <2>2. ASSUME NEW a \in DOMAIN s, NEW j \in DOMAIN t PROVE <<s[a], t[j]>> \in Apart
    <3>1. a \in DOMAIN list /\ s[a] = list[a] /\ j + k \in DOMAIN list /\ t[j] = list[j + k]
      BY <1>3, <1>4
    <3>2. a < j + k
      BY <1>1, <1>2, <1>3, <1>4
    <3>3. QED
      BY <1>1, <3>1, <3>2 DEF Apart
  <2>3. QED
    BY <2>1, <2>2 DEF Precede
<1>8. Ordered(s \o news, GoodAreas, Apart) /\ Joins(s \o news, s, news)
  BY <1>3, <1>5, <1>6, OrderedConcat
<1>9. Precede(s \o news, t, Apart)
  <2> SUFFICES ASSUME NEW a \in DOMAIN (s \o news), NEW j \in DOMAIN t
               PROVE  <<(s \o news)[a], t[j]>> \in Apart
    BY DEF Precede
  <2>1. CASE a \in DOMAIN s
    BY <1>7, <1>8, <2>1 DEF Precede, Joins
  <2>2. CASE a \notin DOMAIN s
    <3>1. a - Len(s) \in DOMAIN news /\ (a - Len(s)) + Len(s) = a
      BY <1>1, <1>2, <1>3, <1>5, <1>8, <2>2 DEF Joins
    <3>2. (s \o news)[a] = news[a - Len(s)]
      BY <1>8, <3>1 DEF Joins
    <3>3. QED
      BY <1>7, <3>1, <3>2 DEF Precede
  <2>3. QED
    BY <2>1, <2>2
<1> DEFINE u == s \o news
           r == u \o t
<1>10. Ordered(r, GoodAreas, Apart) /\ Joins(r, u, t) /\ Joins(u, s, news)
  BY <1>4, <1>8, <1>9, OrderedConcat
<1>11. Replace(list, i, k, news) = r
  BY DEF Replace, s, t, n
<1> HIDE DEF u, r
<1>12. ASSUME NEW j \in DOMAIN s PROVE j \in DOMAIN r /\ r[j] = list[j]
  BY <1>3, <1>10 DEF Joins
<1>13. r[1] = Dummy
  <2>1. 1 \in DOMAIN s
    BY <1>1, <1>2, <1>3
  <2>2. QED
    BY <1>1, <1>12, <2>1
<1>14. ASSUME NEW j \in DOMAIN list, j < i \/ j > k PROVE \E h \in DOMAIN r : r[h] = list[j]
  <2>1. CASE j < i
    <3>1. j \in DOMAIN s
      BY <1>1, <1>2, <1>3, <2>1
    <3>2. QED
      BY <1>12, <3>1
  <2>2. CASE j > k
    <3>1. j - k \in DOMAIN t /\ (j - k) + k = j
      BY <1>1, <1>2, <1>4, <2>2
    <3>2. t[j - k] = list[j]
      BY <1>4, <3>1
    <3>3. QED
      BY <1>10, <3>1, <3>2 DEF Joins
  <2>3. QED
    BY <1>14, <2>1, <2>2
<1>15. ASSUME NEW m \in DOMAIN news PROVE \E h \in DOMAIN r : r[h] = news[m]
  <2>1. PICK a \in DOMAIN u : u[a] = news[m]
    BY <1>10 DEF Joins
  <2>2. QED
    BY <1>10, <2>1 DEF Joins
<1>16. QED
  BY <1>10, <1>11, <1>13, <1>14, <1>15 DEF Sorted

LEMMA ReplaceKeeps ==
    ASSUME NEW list, Sorted(list), NEW i, NEW k, NEW news, Fits(list, i, k, news), NEW S,
           \A p \in S : \A j \in i .. k : Covers(list[j], p) =>
               \E m \in DOMAIN news : Covers(news[m], p) /\ news[m].prot = list[j].prot
    PROVE  Keeps(list, Replace(list, i, k, news), S)
<1> DEFINE r == Replace(list, i, k, news)
<1>1. /\ \A j \in DOMAIN list : j < i \/ j > k => \E h \in DOMAIN r : r[h] = list[j]
      /\ \A m \in DOMAIN news : \E h \in DOMAIN r : r[h] = news[m]
  BY ReplaceSorted
<1> HIDE DEF r
<1>2. DOMAIN list = 1 .. Len(list) /\ Len(list) \in Nat /\ i \in Nat /\ k \in Nat
  BY SortedFacts DEF Fits
<1>3. ASSUME NEW p \in S, NEW j \in DOMAIN list, Covers(list[j], p)
      PROVE  \E h \in DOMAIN r : Covers(r[h], p) /\ r[h].prot = list[j].prot
  <2>1. CASE j < i \/ j > k
    BY <1>1, <1>3, <2>1
  <2>2. CASE ~ (j < i \/ j > k)
    <3>1. j \in i .. k
      BY <1>2, <2>2
    <3>2. PICK m \in DOMAIN news : Covers(news[m], p) /\ news[m].prot = list[j].prot
      BY <1>3, <3>1
    <3>3. QED
      BY <1>1, <3>2
  <2>3. QED
    BY <2>1, <2>2
<1>4. QED
  BY <1>3 DEF Keeps, r

\* One area instead of those from i to k.
OneAt(r, list, i, k, x) ==
    /\ Len(r) = Len(list) - k + i
    /\ \A m \in 1 .. Len(list) - k + i :
          r[m] = IF m < i THEN list[m] ELSE IF m = i THEN x ELSE list[m + k - i]

LEMMA ReplaceByOne ==
    ASSUME NEW E, NEW list \in Seq(E), NEW x \in E,
           NEW i \in 1 .. Len(list) + 1, NEW k \in i - 1 .. Len(list)
    PROVE  Replace(list, i, k, <<x>>) \in Seq(E) /\ OneAt(Replace(list, i, k, <<x>>), list, i, k, x)
<1> DEFINE n == Len(list)
           s == SubSeq(list, 1, i - 1)
           t == SubSeq(list, k + 1, n)
           u == s \o <<x>>
<1>1. n \in Nat /\ i \in Nat /\ k \in Nat /\ \A j \in 1 .. n : list[j] \in E
  BY LenProperties, ElementOfSeq
<1>2. /\ s \in Seq(E) /\ Len(s) = i - 1 /\ \A m \in 1 .. i - 1 : s[m] = list[m]
  <2>1. 1 \in Int /\ i - 1 \in Int /\ \A j \in 1 .. i - 1 : list[j] \in E
    BY <1>1
  <2>2. /\ s \in Seq(E) /\ Len(s) = IF 1 <= i - 1 THEN (i - 1) - 1 + 1 ELSE 0
        /\ \A j \in 1 .. (i - 1) - 1 + 1 : s[j] = list[1 + j - 1]
    BY <2>1, SubSeqProperties
  <2> HIDE DEF s
  <2>3. \A j \in 1 .. i - 1 : 1 + j - 1 = j
    OBVIOUS
  <2>4. QED
    BY <1>1, <2>2, <2>3
<1>3. /\ t \in Seq(E) /\ Len(t) = n - k /\ \A m \in 1 .. n - k : t[m] = list[k + m]
  <2>1. k + 1 \in Int /\ n \in Int /\ \A j \in k + 1 .. n : list[j] \in E
    BY <1>1
  <2>2. /\ t \in Seq(E) /\ Len(t) = IF k + 1 <= n THEN n - (k + 1) + 1 ELSE 0
        /\ \A j \in 1 .. n - (k + 1) + 1 : t[j] = list[(k + 1) + j - 1]
    BY <2>1, SubSeqProperties
  <2> HIDE DEF t
  <2>3. \A j \in 1 .. n - k : (k + 1) + j - 1 = k + j
    BY <1>1
  <2>4. QED
    BY <1>1, <2>2, <2>3
<1> HIDE DEF s, t, n
<1>4. /\ u \in Seq(E) /\ Len(u) = i
      /\ \A m \in 1 .. i : u[m] = IF m < i THEN list[m] ELSE x
  <2>1. <<x>> \in Seq(E) /\ Len(<<x>>) = 1 /\ <<x>>[1] = x
    OBVIOUS
  <2> DEFINE w == <<x>>
  <2>2. /\ u \in Seq(E) /\ Len(u) = Len(s) + Len(w)
        /\ \A m \in 1 .. Len(s) + Len(w) : u[m] = IF m <= Len(s) THEN s[m] ELSE w[m - Len(s)]
    BY <1>2, <2>1, ConcatProperties
  <2> HIDE DEF u, w
  <2>3. w[1] = x /\ Len(w) = 1
    BY <2>1 DEF w
  <2>4. QED
    BY <1>1, <1>2, <2>2, <2>3
<1> HIDE DEF u
<1>5. /\ u \o t \in Seq(E) /\ Len(u \o t) = i + (n - k)
      /\ \A m \in 1 .. i + (n - k) : (u \o t)[m] = IF m <= i THEN u[m] ELSE t[m - i]
  <2>1. /\ u \o t \in Seq(E) /\ Len(u \o t) = Len(u) + Len(t)
        /\ \A m \in 1 .. Len(u) + Len(t) :
              (u \o t)[m] = IF m <= Len(u) THEN u[m] ELSE t[m - Len(u)]
    BY <1>3, <1>4, ConcatProperties
  <2>2. Len(u) = i /\ Len(t) = n - k
    BY <1>3, <1>4
  <2> DEFINE w == u \o t
  <2> HIDE DEF w
  <2>3. /\ w \in Seq(E) /\ Len(w) = i + (n - k)
        /\ \A m \in 1 .. i + (n - k) : w[m] = IF m <= i THEN u[m] ELSE t[m - i]
    BY <2>1, <2>2, Zenon DEF w
  <2>4. QED
    BY <2>3, Zenon DEF w
<1>6. ASSUME NEW m \in 1 .. n - k + i
      PROVE  (u \o t)[m] = IF m < i THEN list[m] ELSE IF m = i THEN x ELSE list[m + k - i]
  <2>1. m \in 1 .. i + (n - k)
    BY <1>1
  <2>2. CASE m <= i
    <3>1. m \in 1 .. i
      BY <1>1, <2>1, <2>2
    <3>2. QED
      BY <1>1, <1>4, <1>5, <2>1, <2>2, <3>1
  <2>3. CASE m > i
    <3>1. m - i \in 1 .. n - k /\ k + (m - i) = m + k - i
      BY <1>1, <2>1, <2>3
    <3>2. (u \o t)[m] = list[k + (m - i)]
      BY <1>1, <1>3, <1>5, <2>1, <2>3, <3>1
    <3>3. QED
      BY <1>1, <2>1, <2>3, <3>1, <3>2
  <2>4. m <= i \/ m > i
    BY <1>1, <2>1
  <2>5. QED
    BY <2>2, <2>3, <2>4, Zenon
<1>7. Replace(list, i, k, <<x>>) = u \o t /\ i + (n - k) = n - k + i
  BY <1>1 DEF Replace, u, s, t, n
<1>8. QED
  BY <1>5, <1>6, <1>7 DEF n, OneAt

LEMMA ExceptIsReplace ==
    ASSUME NEW E, NEW list \in Seq(E), NEW x \in E, NEW i \in 1 .. Len(list)
    PROVE  [list EXCEPT ![i] = x] = Replace(list, i, i, <<x>>)
<1> DEFINE a == [list EXCEPT ![i] = x]
           b == Replace(list, i, i, <<x>>)
<1>1. Len(list) \in Nat /\ i \in Nat
  BY LenProperties
<1>2. /\ a \in Seq(E) /\ Len(a) = Len(list)
      /\ \A m \in 1 .. Len(list) : a[m] = IF m = i THEN x ELSE list[m]
  BY ExceptSeq
<1>3. i \in 1 .. Len(list) + 1 /\ i \in i - 1 .. Len(list)
  BY <1>1
<1>4. b \in Seq(E) /\ OneAt(b, list, i, i, x)
  BY <1>3, ReplaceByOne
<1> HIDE DEF a, b
<1>5. Len(list) - i + i = Len(list) /\ \A m \in 1 .. Len(list) : m + i - i = m
  BY <1>1
<1>6. Len(b) = Len(list) /\ \A m \in 1 .. Len(list) : b[m] = IF m = i THEN x ELSE list[m]
  BY <1>1, <1>4, <1>5 DEF OneAt
<1>7. \A m \in 1 .. Len(a) : a[m] = b[m]
  BY <1>2, <1>6
<1>8. a = b
  BY <1>2, <1>4, <1>6, <1>7, SeqEqual
<1>9. QED
  BY <1>8 DEF a, b

LEMMA InsertIsReplace ==
    ASSUME NEW E, NEW list \in Seq(E), NEW x, NEW i \in 1 .. Len(list)
    PROVE  InsertAt(list, i + 1, x) = Replace(list, i + 1, i, <<x>>)
  BY DEF InsertAt, Replace

LEMMA JoinedIsReplace ==
    ASSUME NEW list \in Seq(GoodAreas), NEW i \in 1 .. Len(list) - 1,
           [list[i] EXCEPT !.end = list[i + 1].end] \in GoodAreas
    PROVE  Joined(list, i)
             = Replace(list, i, i + 1, <<[list[i] EXCEPT !.end = list[i + 1].end]>>)
<1> DEFINE n == Len(list)
           x == [list[i] EXCEPT !.end = list[i + 1].end]
           L == [list EXCEPT ![i] = x]
           s == SubSeq(L, 1, i)
           t == SubSeq(L, i + 2, n)
           b == Replace(list, i, i + 1, <<x>>)
<1>1. n \in Nat /\ i \in Nat /\ i \in 1 .. n /\ DOMAIN list = 1 .. n
  BY LenProperties
<1>2. /\ L \in Seq(GoodAreas) /\ Len(L) = n
      /\ \A m \in 1 .. n : L[m] = IF m = i THEN x ELSE list[m]
  BY <1>1, ExceptSeq
<1>3. Joined(list, i) = s \o t
  <2>1. [list EXCEPT ![i].end = list[i + 1].end] = L
    BY <1>1
  <2>2. Joined(list, i) = RemoveAt(L, i + 1)
    BY <2>1 DEF Joined
  <2>3. (i + 1) - 1 = i /\ (i + 1) + 1 = i + 2
    BY <1>1
  <2> HIDE DEF L
  <2>4. QED
    BY <1>2, <2>2, <2>3 DEF RemoveAt
<1>4. b \in Seq(GoodAreas) /\ OneAt(b, list, i, i + 1, x)
  <2>1. i \in 1 .. Len(list) + 1 /\ i + 1 \in i - 1 .. Len(list)
    BY <1>1
  <2>2. QED
    BY <2>1, ReplaceByOne
<1> HIDE DEF L, x, b
<1>5. \A m \in 1 .. n : L[m] \in GoodAreas
  BY <1>2, ElementOfSeq
<1>6. s \in Seq(GoodAreas) /\ Len(s) = i /\ \A m \in 1 .. i : s[m] = L[m]
  <2>1. 1 \in Int /\ i \in Int /\ \A j \in 1 .. i : L[j] \in GoodAreas
    BY <1>1, <1>5
  <2>2. /\ s \in Seq(GoodAreas) /\ Len(s) = IF 1 <= i THEN i - 1 + 1 ELSE 0
        /\ \A j \in 1 .. i - 1 + 1 : s[j] = L[1 + j - 1]
    BY <2>1, SubSeqProperties
  <2> HIDE DEF s
  <2>3. \A j \in 1 .. i : 1 + j - 1 = j
    OBVIOUS
  <2>4. QED
    BY <1>1, <2>2, <2>3
<1>7. /\ t \in Seq(GoodAreas) /\ Len(t) = n - (i + 1)
      /\ \A m \in 1 .. n - (i + 1) : t[m] = L[m + (i + 1)]
  <2>1. i + 2 \in Int /\ n \in Int /\ \A j \in i + 2 .. n : L[j] \in GoodAreas
    BY <1>1, <1>5
  <2>2. /\ t \in Seq(GoodAreas) /\ Len(t) = IF i + 2 <= n THEN n - (i + 2) + 1 ELSE 0
        /\ \A j \in 1 .. n - (i + 2) + 1 : t[j] = L[(i + 2) + j - 1]
    BY <2>1, SubSeqProperties
  <2> HIDE DEF t
  <2>3. \A j \in 1 .. n - (i + 1) : (i + 2) + j - 1 = j + (i + 1)
    BY <1>1
  <2>4. QED
    BY <1>1, <2>2, <2>3
<1> HIDE DEF s, t
<1>8. /\ s \o t \in Seq(GoodAreas) /\ Len(s \o t) = i + (n - (i + 1))
      /\ \A m \in 1 .. i + (n - (i + 1)) : (s \o t)[m] = IF m <= i THEN s[m] ELSE t[m - i]
  <2>1. /\ s \o t \in Seq(GoodAreas) /\ Len(s \o t) = Len(s) + Len(t)
        /\ \A m \in 1 .. Len(s) + Len(t) :
              (s \o t)[m] = IF m <= Len(s) THEN s[m] ELSE t[m - Len(s)]
    BY <1>6, <1>7, ConcatProperties
  <2>2. Len(s) = i /\ Len(t) = n - (i + 1)
    BY <1>6, <1>7
  <2> DEFINE w == s \o t
  <2> HIDE DEF w
  <2>3. /\ w \in Seq(GoodAreas) /\ Len(w) = i + (n - (i + 1))
        /\ \A m \in 1 .. i + (n - (i + 1)) : w[m] = IF m <= i THEN s[m] ELSE t[m - i]
    BY <2>1, <2>2, Zenon DEF w
  <2>4. QED
    BY <2>3, Zenon DEF w
<1>9. i + (n - (i + 1)) = n - 1 /\ n - (i + 1) + i = n - 1 /\ n - 1 \in Nat
  BY <1>1
<1>10. ASSUME NEW m \in 1 .. n - 1 PROVE (s \o t)[m] = b[m]
  <2> n - (i + 1) + i = n - 1
    BY <1>9
  <2>4. Len(b) = n - 1 /\ \A j \in 1 .. n - 1 :
          b[j] = IF j < i THEN list[j] ELSE IF j = i THEN x ELSE list[j + (i + 1) - i]
    BY <1>4, <1>9 DEF OneAt, n
  <2>1. CASE m <= i
    <3>1. m \in 1 .. i /\ m \in 1 .. n /\ m \in 1 .. i + (n - (i + 1))
      BY <1>1, <2>1
    <3>2. (s \o t)[m] = L[m]
      BY <1>6, <1>8, <2>1, <3>1
    <3>3. CASE m = i
      BY <1>2, <2>4, <3>1, <3>2, <3>3
    <3>4. CASE m < i
      BY <1>2, <2>4, <3>1, <3>2, <3>4
    <3>5. m = i \/ m < i
      BY <1>1, <2>1
    <3>6. QED
      BY <3>3, <3>4, <3>5, Zenon
  <2>2. CASE m > i
    <3>1. m - i \in 1 .. n - (i + 1) /\ (m - i) + (i + 1) = m + 1 /\ m + (i + 1) - i = m + 1
          /\ m + 1 \in 1 .. n /\ m + 1 # i
      BY <1>1, <2>2
    <3>2. (s \o t)[m] = L[m + 1]
      BY <1>1, <1>7, <1>8, <1>9, <2>2, <3>1
    <3>3. b[m] = list[m + 1]
      <4>1. ~ (m < i) /\ m # i /\ m \in 1 .. n - 1
        BY <1>1, <2>2
      <4>2. b[m] = list[m + (i + 1) - i]
        BY <2>4, <4>1, Zenon
      <4>3. QED
        BY <3>1, <4>2, Zenon
    <3>4. QED
      BY <1>2, <3>1, <3>2, <3>3
  <2>5. m <= i \/ m > i
    BY <1>1
  <2>6. QED
    BY <2>1, <2>2, <2>5, Zenon
<1>11. s \o t = b
  <2>1. Len(s \o t) = n - 1 /\ Len(b) = n - 1
    BY <1>4, <1>8, <1>9 DEF OneAt, n
  <2>2. QED
    BY <1>4, <1>8, <1>10, <2>1, SeqEqual
<1>12. QED
  BY <1>3, <1>11 DEF b, x
-----------------------------------------------------------------------------
(* What a call may do to the list: leave it sorted, and take no page away.  *)

Grown(old, new) == Sorted(new) /\ Keeps(old, new, Pages)

LEMMA KeepsRefl == ASSUME NEW list, NEW S PROVE Keeps(list, list, S)
  BY DEF Keeps

LEMMA KeepsTrans ==
    ASSUME NEW a, NEW b, NEW c, NEW S, Keeps(a, b, S), Keeps(b, c, S)
    PROVE  Keeps(a, c, S)
<1> SUFFICES ASSUME NEW p \in S, NEW i \in DOMAIN a, Covers(a[i], p)
             PROVE  \E j \in DOMAIN c : Covers(c[j], p) /\ c[j].prot = a[i].prot
  BY DEF Keeps
<1>1. PICK j \in DOMAIN b : Covers(b[j], p) /\ b[j].prot = a[i].prot
  BY DEF Keeps
<1>2. PICK k \in DOMAIN c : Covers(c[k], p) /\ c[k].prot = b[j].prot
  BY <1>1 DEF Keeps
<1>3. QED
  BY <1>1, <1>2

\* The areas of a list may be replaced by one that covers them.
OneFits(list, i, k, x) ==
    /\ i \in 2 .. Len(list) + 1 /\ k \in i - 1 .. Len(list)
    /\ x \in GoodAreas /\ x.prot # DUMMY
    /\ list[i - 1].end <= x.start
    /\ k < Len(list) => x.end <= list[k + 1].start

OneCovers(list, i, k, x) ==
    \A j \in i .. k : x.start <= list[j].start /\ list[j].end <= x.end /\ x.prot = list[j].prot

LEMMA OneGrown ==
    ASSUME NEW list, Sorted(list), NEW i, NEW k, NEW x, OneFits(list, i, k, x),
           OneCovers(list, i, k, x)
    PROVE  /\ Grown(list, Replace(list, i, k, <<x>>))
           /\ i \in DOMAIN Replace(list, i, k, <<x>>) /\ Replace(list, i, k, <<x>>)[i] = x
<1> DEFINE w == <<x>>
           r == Replace(list, i, k, w)
<1>1. w \in Seq(GoodAreas) /\ DOMAIN w = 1 .. 1 /\ w[1] = x
  BY DEF OneFits
<1>2. Ordered(w, GoodAreas, Apart)
  BY OneOrdered DEF OneFits
<1> HIDE DEF w
<1>3. Fits(list, i, k, w)
  BY <1>1, <1>2 DEF Fits, OneFits
<1>4. list \in Seq(GoodAreas) /\ Len(list) \in Nat /\ i \in Nat /\ k \in Nat
      /\ \A j \in i .. k : j \in DOMAIN list /\ list[j] \in GoodAreas
  BY SortedFacts DEF OneFits
<1>5. Sorted(r)
  BY <1>3, ReplaceSorted
<1>6. ASSUME NEW p \in Pages, NEW j \in i .. k, Covers(list[j], p)
      PROVE  \E m \in DOMAIN w : Covers(w[m], p) /\ w[m].prot = list[j].prot
  <2>1. x.start <= list[j].start /\ list[j].end <= x.end /\ x.prot = list[j].prot
    BY DEF OneCovers
  <2>2. x.start \in Nat /\ x.end \in Nat /\ list[j].start \in Nat /\ list[j].end \in Nat
        /\ p \in Nat
    BY <1>4, AreaFacts, VmAssumption DEF OneFits, Pages
  <2>3. Covers(x, p)
    BY <1>6, <2>1, <2>2 DEF Covers
  <2>4. QED
    BY <1>1, <2>1, <2>3
<1>7. Keeps(list, r, Pages)
  BY <1>3, <1>6, ReplaceKeeps
<1>8. /\ Replace(list, i, k, <<x>>) \in Seq(GoodAreas)
      /\ OneAt(Replace(list, i, k, <<x>>), list, i, k, x)
  <2>1. i \in 1 .. Len(list) + 1 /\ k \in i - 1 .. Len(list) /\ x \in GoodAreas
    BY <1>4 DEF OneFits
  <2>2. QED
    BY <1>4, <2>1, ReplaceByOne
<1>9. i \in DOMAIN r /\ r[i] = x
  <2>1. r \in Seq(GoodAreas) /\ OneAt(r, list, i, k, x)
    BY <1>8 DEF r, w
  <2> HIDE DEF r
  <2>2. DOMAIN r = 1 .. Len(r) /\ Len(r) = Len(list) - k + i
    BY <2>1, LenProperties DEF OneAt
  <2>3. i \in 1 .. Len(list) - k + i /\ ~ (i < i)
    BY <1>4 DEF OneFits
  <2>4. QED
    BY <2>1, <2>2, <2>3 DEF OneAt
<1>10. QED
  BY <1>5, <1>7, <1>9 DEF w, Grown

-----------------------------------------------------------------------------
(* mmap: the ways to fill a gap.                                            *)

\* lo .. hi is free between the area at i and the next.
Gap(list, i, lo, hi) ==
    /\ i \in DOMAIN list /\ lo \in Nat /\ hi \in Nat /\ lo < hi
    /\ lo % Page = 0 /\ hi % Page = 0
    /\ list[i].end <= lo
    /\ i < Len(list) => hi <= list[i + 1].start

LEMMA GapFacts ==
    ASSUME NEW list, Sorted(list), NEW i, NEW lo, NEW hi, Gap(list, i, lo, hi)
    PROVE  /\ i \in Nat /\ i >= 1 /\ i <= Len(list) /\ Len(list) \in Nat /\ i \in 1 .. Len(list)
           /\ list[i] \in GoodAreas /\ list \in Seq(GoodAreas) /\ START < lo
           /\ i < Len(list) => /\ i + 1 \in 1 .. Len(list) /\ list[i + 1] \in GoodAreas
                               /\ list[i + 1].prot # DUMMY
           /\ i > 1 => i - 1 \in 1 .. Len(list) /\ list[i - 1].end <= list[i].start
           /\ list[i].prot \in Prots => i > 1
<1>1. /\ list \in Seq(GoodAreas) /\ Len(list) \in Nat /\ DOMAIN list = 1 .. Len(list)
      /\ \A j \in DOMAIN list : list[j] \in GoodAreas
      /\ \A j, k \in DOMAIN list : j < k => list[j].end <= list[k].start /\ list[k].prot # DUMMY
      /\ list # <<>> => list[1] = Dummy
  BY SortedFacts
<1>2. i \in 1 .. Len(list) /\ i \in Nat
  BY <1>1 DEF Gap
<1>3. list # <<>>
  BY <1>1, <1>2, EmptySeq
<1>4. list[1].prot = DUMMY /\ DUMMY \notin Prots
  BY <1>1, <1>3 DEF Dummy, Area, DUMMY, Prots, READ, READ_WRITE
<1>5. list[i] \in GoodAreas /\ list[i].start \in Nat /\ list[i].end \in Nat
      /\ START <= list[i].start /\ list[i].start < list[i].end
  BY <1>1, <1>2, AreaFacts
<1>6. START < lo
  BY <1>5, VmAssumption DEF Gap
<1>7. i < Len(list) => /\ i + 1 \in 1 .. Len(list) /\ list[i + 1] \in GoodAreas
                       /\ list[i + 1].prot # DUMMY
  <2>1. i < Len(list) => i + 1 \in 1 .. Len(list) /\ 1 < i + 1 /\ 1 \in 1 .. Len(list)
    BY <1>1, <1>2
  <2>2. QED
    BY <1>1, <2>1
<1>8. i > 1 => i - 1 \in 1 .. Len(list) /\ list[i - 1].end <= list[i].start
  <2>1. i > 1 => i - 1 \in 1 .. Len(list) /\ i - 1 < i
    BY <1>1, <1>2
  <2>2. QED
    BY <1>1, <1>2, <2>1
<1>9. list[i].prot \in Prots => i > 1
  <2>1. i = 1 \/ i > 1
    BY <1>2
  <2>2. QED
    BY <1>4, <2>1
<1>10. i >= 1 /\ i <= Len(list)
  BY <1>1, <1>2
<1>11. QED
  BY <1>1, <1>2, <1>5, <1>6, <1>7, <1>8, <1>9, <1>10

\* A new area between two others.
LEMMA FillInsert ==
    ASSUME NEW list, Sorted(list), NEW i, NEW lo, NEW hi, Gap(list, i, lo, hi), hi <= END,
           NEW prot \in Prots
    PROVE  Grown(list, InsertAt(list, i + 1, Area(lo, hi, prot, Normal)))
<1> DEFINE x == Area(lo, hi, prot, Normal)
<1>1. i \in Nat /\ Len(list) \in Nat /\ i \in 1 .. Len(list) /\ START < lo
      /\ list \in Seq(GoodAreas)
  BY GapFacts
<1>2. /\ x.start = lo /\ x.end = hi /\ x.prot = prot /\ x.kind = Normal /\ x \in AreaType
      /\ lo < hi /\ lo % Page = 0 /\ hi % Page = 0 /\ lo \in Nat /\ hi \in Nat
  BY DEF Area, AreaType, Gap
<1>4. prot # DUMMY
  BY DEF DUMMY, Prots, READ, READ_WRITE
<1> HIDE DEF x
<1>3. x \in GoodAreas
  <2>1. START <= x.start /\ x.end <= END
    BY <1>1, <1>2, VmAssumption
  <2>2. QED
    BY <1>2, <2>1, NormalGood
<1>5. i + 1 \in 2 .. Len(list) + 1 /\ i \in (i + 1) - 1 .. Len(list) /\ (i + 1) - 1 = i
  BY <1>1
<1>6. OneFits(list, i + 1, i, x)
  BY <1>2, <1>3, <1>4, <1>5 DEF OneFits, Gap
<1>7. OneCovers(list, i + 1, i, x)
  BY <1>1 DEF OneCovers
<1>8. InsertAt(list, i + 1, x) = Replace(list, i + 1, i, <<x>>)
  BY <1>1, InsertIsReplace
<1>9. QED
  BY <1>6, <1>7, <1>8, OneGrown DEF x

\* The area below the gap, or the one above, grows.
LEMMA FillEnd ==
    ASSUME NEW list, Sorted(list), NEW i, NEW lo, NEW hi, Gap(list, i, lo, hi), hi <= END,
           list[i].prot \in Prots, list[i].kind = Normal
    PROVE  /\ Grown(list, [list EXCEPT ![i].end = hi])
           /\ i \in DOMAIN [list EXCEPT ![i].end = hi]
           /\ [list EXCEPT ![i].end = hi][i].end = hi
<1> DEFINE x == [list[i] EXCEPT !.end = hi]
<1>1. /\ i \in Nat /\ Len(list) \in Nat /\ i \in 1 .. Len(list) /\ i > 1
      /\ list \in Seq(GoodAreas) /\ list[i] \in GoodAreas
      /\ list[i - 1].end <= list[i].start
  BY GapFacts
<1>2. /\ list[i] \in AreaType /\ list[i].start \in Nat /\ list[i].end \in Nat
      /\ START <= list[i].start /\ list[i].start < list[i].end /\ list[i].start % Page = 0
  BY <1>1, AreaFacts DEF GoodAreas, Aligned
<1>3. /\ x \in AreaType /\ x.start = list[i].start /\ x.end = hi /\ x.prot = list[i].prot
      /\ x.kind = Normal
  BY <1>2 DEF AreaType, Gap
<1>4. hi % Page = 0 /\ list[i].end < hi /\ hi \in Nat
      /\ (i < Len(list) => hi <= list[i + 1].start)
  BY <1>2 DEF Gap
<1>5. list[i].prot # DUMMY
  BY DEF DUMMY, Prots, READ, READ_WRITE
<1>7. [list EXCEPT ![i].end = hi] = [list EXCEPT ![i] = x]
  BY <1>1
<1> HIDE DEF x
<1>6. x \in GoodAreas
  <2>1. START <= x.start /\ x.start < x.end /\ x.end <= END
    BY <1>2, <1>3, <1>4
  <2>2. QED
    BY <1>2, <1>3, <1>4, <2>1, NormalGood
<1>8. i \in 2 .. Len(list) + 1 /\ i \in i - 1 .. Len(list)
  BY <1>1
<1>9. OneFits(list, i, i, x)
  BY <1>1, <1>3, <1>4, <1>5, <1>6, <1>8 DEF OneFits
<1>10. \A j \in i .. i : j = i
  BY <1>1
<1>11. OneCovers(list, i, i, x)
  BY <1>2, <1>3, <1>4, <1>10 DEF OneCovers
<1>12. [list EXCEPT ![i] = x] = Replace(list, i, i, <<x>>)
  BY <1>1, <1>6, ExceptIsReplace
<1>13. QED
  BY <1>3, <1>7, <1>9, <1>11, <1>12, OneGrown

LEMMA FillStart ==
    ASSUME NEW list, Sorted(list), NEW i, NEW lo, NEW hi, Gap(list, i, lo, hi),
           i < Len(list), list[i + 1].start = hi, list[i + 1].kind = Normal
    PROVE  Grown(list, [list EXCEPT ![i + 1].start = lo])
<1> DEFINE x == [list[i + 1] EXCEPT !.start = lo]
<1>1. /\ i \in Nat /\ Len(list) \in Nat /\ i \in 1 .. Len(list) /\ i + 1 \in 1 .. Len(list)
      /\ list \in Seq(GoodAreas) /\ list[i + 1] \in GoodAreas /\ START < lo
      /\ list[i + 1].prot # DUMMY
  BY GapFacts
<1>2. /\ list[i + 1] \in AreaType /\ list[i + 1].end \in Nat /\ list[i + 1].end <= END
      /\ hi < list[i + 1].end /\ list[i + 1].end % Page = 0
  BY <1>1, AreaFacts DEF GoodAreas, Aligned
<1>3. /\ lo \in Nat /\ hi \in Nat /\ lo < hi /\ lo % Page = 0 /\ list[i].end <= lo
  BY DEF Gap
<1>4. /\ x \in AreaType /\ x.start = lo /\ x.end = list[i + 1].end /\ x.prot = list[i + 1].prot
      /\ x.kind = Normal
  BY <1>2, <1>3 DEF AreaType
<1>6. [list EXCEPT ![i + 1].start = lo] = [list EXCEPT ![i + 1] = x]
  BY <1>1
<1> HIDE DEF x
<1>5. x \in GoodAreas
  <2>1. START <= x.start /\ x.start < x.end /\ x.end <= END
    BY <1>1, <1>2, <1>3, <1>4, VmAssumption
  <2>2. QED
    BY <1>2, <1>3, <1>4, <2>1, NormalGood
<1>7. i + 1 \in 2 .. Len(list) + 1 /\ i + 1 \in (i + 1) - 1 .. Len(list) /\ (i + 1) - 1 = i
  BY <1>1
<1>8. i + 1 < Len(list) => list[i + 1].end <= list[(i + 1) + 1].start
  <2>1. \A j, k \in DOMAIN list : j < k => list[j].end <= list[k].start
    BY SortedFacts
  <2>2. DOMAIN list = 1 .. Len(list)
    BY SortedFacts
  <2>3. i + 1 < Len(list) => (i + 1) + 1 \in 1 .. Len(list) /\ i + 1 < (i + 1) + 1
    BY <1>1
  <2>4. QED
    BY <1>1, <2>1, <2>2, <2>3
<1>9. OneFits(list, i + 1, i + 1, x)
  BY <1>1, <1>3, <1>4, <1>5, <1>7, <1>8 DEF OneFits
<1>10. \A j \in i + 1 .. i + 1 : j = i + 1
  BY <1>1
<1>11. OneCovers(list, i + 1, i + 1, x)
  BY <1>2, <1>3, <1>4, <1>10 DEF OneCovers
<1>12. [list EXCEPT ![i + 1] = x] = Replace(list, i + 1, i + 1, <<x>>)
  BY <1>1, <1>5, ExceptIsReplace
<1>13. QED
  BY <1>6, <1>9, <1>11, <1>12, OneGrown

\* The area below the gap grows over it and takes in the one above.
LEMMA FillJoin ==
    ASSUME NEW list, Sorted(list), NEW i, NEW lo, NEW hi, Gap(list, i, lo, hi),
           i < Len(list), list[i + 1].start = hi, list[i + 1].prot = list[i].prot,
           list[i].prot \in Prots, list[i].kind = Normal
    PROVE  Grown(list, Joined(list, i)) /\ i \in DOMAIN Joined(list, i)
<1> DEFINE x == [list[i] EXCEPT !.end = list[i + 1].end]
<1>1. /\ i \in Nat /\ Len(list) \in Nat /\ i \in 1 .. Len(list) /\ i + 1 \in 1 .. Len(list)
      /\ i > 1 /\ list \in Seq(GoodAreas) /\ list[i] \in GoodAreas /\ list[i + 1] \in GoodAreas
      /\ list[i - 1].end <= list[i].start /\ list[i + 1].prot # DUMMY
  BY GapFacts
<1>2. /\ list[i] \in AreaType /\ list[i].start \in Nat /\ list[i].end \in Nat
      /\ START <= list[i].start /\ list[i].start < list[i].end /\ list[i].start % Page = 0
  BY <1>1, AreaFacts DEF GoodAreas, Aligned
<1>3. /\ list[i + 1].end \in Nat /\ list[i + 1].end <= END
      /\ hi < list[i + 1].end /\ list[i + 1].end % Page = 0
  BY <1>1, AreaFacts DEF GoodAreas, Aligned
<1>4. lo \in Nat /\ hi \in Nat /\ lo < hi /\ list[i].end <= lo
  BY DEF Gap
<1>5. /\ x \in AreaType /\ x.start = list[i].start /\ x.end = list[i + 1].end
      /\ x.prot = list[i].prot /\ x.kind = Normal
  BY <1>2, <1>3 DEF AreaType
<1>6. x \in GoodAreas
  <2> HIDE DEF x
  <2>1. START <= x.start /\ x.start < x.end /\ x.end <= END
    BY <1>2, <1>3, <1>4, <1>5
  <2>2. QED
    BY <1>2, <1>3, <1>5, <2>1, NormalGood
<1>7. Joined(list, i) = Replace(list, i, i + 1, <<x>>)
  <2>1. i \in 1 .. Len(list) - 1
    BY <1>1
  <2>2. QED
    BY <1>1, <1>6, <2>1, JoinedIsReplace
<1> HIDE DEF x
<1>8. i \in 2 .. Len(list) + 1 /\ i + 1 \in i - 1 .. Len(list)
  BY <1>1
<1>9. i + 1 < Len(list) => list[i + 1].end <= list[(i + 1) + 1].start
  <2>1. \A j, k \in DOMAIN list : j < k => list[j].end <= list[k].start
    BY SortedFacts
  <2>2. DOMAIN list = 1 .. Len(list)
    BY SortedFacts
  <2>3. i + 1 < Len(list) => (i + 1) + 1 \in 1 .. Len(list) /\ i + 1 < (i + 1) + 1
    BY <1>1
  <2>4. QED
    BY <1>1, <2>1, <2>2, <2>3
<1>10. OneFits(list, i, i + 1, x)
  BY <1>1, <1>5, <1>6, <1>8, <1>9 DEF OneFits
<1>11. \A j \in i .. i + 1 : j = i \/ j = i + 1
  BY <1>1
<1>12. OneCovers(list, i, i + 1, x)
  BY <1>2, <1>3, <1>4, <1>5, <1>11 DEF OneCovers
<1>13. QED
  BY <1>7, <1>10, <1>12, OneGrown
-----------------------------------------------------------------------------
(* mmap: the searches find a gap, and what is placed there fits.            *)

LEMMA FirstOf ==
    ASSUME NEW S \in SUBSET Nat, S # {}
    PROVE  \E i \in S : \A j \in 1 .. i - 1 : j \notin S
<1>1. PICK m \in S : \A y \in S : m <= y
  BY MinInSet
<1>2. \A j \in 1 .. m - 1 : j \notin S
  BY <1>1
<1>3. QED
  BY <1>1, <1>2

LEMMA HintStopGap ==
    ASSUME NEW list, Sorted(list), list # <<>>, NEW lo \in Nat, NEW hi \in Nat, START < hi,
           NEW i, i = HintStop(list, lo, hi)
    PROVE  /\ i \in 1 .. Len(list)
           /\ ~ Meets(list[i], lo, hi) =>
                 list[i].end <= lo /\ (i < Len(list) => hi <= list[i + 1].start)
<1> DEFINE P(j) == Meets(list[j], lo, hi) \/ j = Len(list) \/ list[j + 1].start >= hi
           S == {j \in DOMAIN list : P(j)}
<1>1. /\ Len(list) \in Nat /\ DOMAIN list = 1 .. Len(list) /\ list[1] = Dummy
      /\ \A j \in DOMAIN list : list[j] \in GoodAreas
      /\ \A j, k \in DOMAIN list : j < k => list[j].end <= list[k].start
      /\ 1 \in DOMAIN list
  BY SortedFacts
<1>2. Len(list) \in S /\ S \in SUBSET Nat
  BY <1>1
<1>3. \E j \in DOMAIN list : P(j) /\ \A k \in 1 .. j - 1 : ~ P(k)
  <2>1. PICK j \in S : \A k \in 1 .. j - 1 : k \notin S
    BY <1>2, FirstOf
  <2>2. j \in DOMAIN list
    BY <2>1
  <2>3. \A k \in 1 .. j - 1 : k \in DOMAIN list
    BY <1>1, <2>2
  <2>4. QED
    BY <2>1, <2>2, <2>3
<1>4. i = CHOOSE j \in DOMAIN list : P(j) /\ \A k \in 1 .. j - 1 : ~ P(k)
  BY DEF HintStop, First
<1> HIDE DEF P
<1>5. i \in DOMAIN list /\ P(i) /\ \A k \in 1 .. i - 1 : ~ P(k)
  BY <1>3, <1>4
<1>6. i \in 1 .. Len(list) /\ i \in Nat
  BY <1>1, <1>5
<1>7. ASSUME ~ Meets(list[i], lo, hi)
      PROVE  list[i].end <= lo /\ (i < Len(list) => hi <= list[i + 1].start)
  <2>1. list[i].start < hi
    <3>1. CASE i = 1
      BY <1>1, <3>1 DEF Dummy, Area
    <3>2. CASE i # 1
      <4>1. i - 1 \in 1 .. i - 1 /\ i - 1 \in DOMAIN list /\ i - 1 # Len(list) /\ (i - 1) + 1 = i
        BY <1>1, <1>6, <3>2
      <4>2. ~ P(i - 1)
        BY <1>5, <4>1
      <4>3. ~ (list[i].start >= hi)
        BY <4>1, <4>2 DEF P
      <4>4. list[i].start \in Nat
        BY <1>1, <1>5, AreaFacts
      <4>5. QED
        BY <4>3, <4>4
    <3>3. QED
      BY <3>1, <3>2
  <2>2. list[i].end \in Nat /\ list[i].start \in Nat
    BY <1>1, <1>5, AreaFacts
  <2>3. list[i].end <= lo
    BY <1>7, <2>1, <2>2 DEF Meets
  <2>4. i < Len(list) => hi <= list[i + 1].start
    <3>1. i < Len(list) => i + 1 \in DOMAIN list /\ i # Len(list)
      BY <1>1, <1>6
    <3>2. i < Len(list) => list[i + 1].start >= hi /\ list[i + 1].start \in Nat
      BY <1>1, <1>5, <1>7, <3>1, AreaFacts DEF P
    <3>3. QED
      BY <3>2
  <2>5. QED
    BY <2>3, <2>4
<1>8. QED
  BY <1>6, <1>7

LEMMA GapStopGap ==
    ASSUME NEW list, Sorted(list), list # <<>>, NEW length \in Nat \ {0}, length % Page = 0,
           NEW i, i = GapStop(list, length)
    PROVE  Gap(list, i, list[i].end, list[i].end + length)
<1> DEFINE P(j) == j = Len(list) \/ list[j + 1].start - list[j].end >= length
           S == {j \in DOMAIN list : P(j)}
<1>1. /\ Len(list) \in Nat /\ DOMAIN list = 1 .. Len(list) /\ 1 \in DOMAIN list
      /\ \A j \in DOMAIN list : list[j] \in GoodAreas
  BY SortedFacts
<1>2. Len(list) \in S /\ S \in SUBSET Nat
  BY <1>1
<1>3. \E j \in DOMAIN list : P(j) /\ \A k \in 1 .. j - 1 : ~ P(k)
  <2>1. PICK j \in S : \A k \in 1 .. j - 1 : k \notin S
    BY <1>2, FirstOf
  <2>2. j \in DOMAIN list
    BY <2>1
  <2>3. \A k \in 1 .. j - 1 : k \in DOMAIN list
    BY <1>1, <2>2
  <2>4. QED
    BY <2>1, <2>2, <2>3
<1>4. i = CHOOSE j \in DOMAIN list : P(j) /\ \A k \in 1 .. j - 1 : ~ P(k)
  BY DEF GapStop, First
<1> HIDE DEF P
<1>5. i \in DOMAIN list /\ P(i)
  BY <1>3, <1>4
<1>6. list[i].end \in Nat /\ list[i].end % Page = 0
  BY <1>1, <1>5, AreaFacts DEF Aligned
<1>7. (list[i].end + length) % Page = 0
  BY <1>6, VmAssumption, SumMultiple
<1>8. i < Len(list) => list[i].end + length <= list[i + 1].start
  <2>1. i < Len(list) => i + 1 \in DOMAIN list /\ i # Len(list)
    BY <1>1, <1>5
  <2>2. i < Len(list) => list[i + 1].start - list[i].end >= length /\ list[i + 1].start \in Nat
    BY <1>1, <1>5, <2>1, AreaFacts DEF P
  <2>3. QED
    BY <1>6, <2>2
<1>9. list[i].end < list[i].end + length /\ list[i].end + length \in Nat
      /\ list[i].end <= list[i].end
  BY <1>6
<1>10. QED
  BY <1>5, <1>6, <1>7, <1>8, <1>9 DEF Gap

\* No area ends past MMAP_AREA_END.
Bounded(list) == ~ \E i \in DOMAIN list : list[i].end > END

\* A gap that is filled without going past the end.
LEMMA FilledBounded ==
    ASSUME NEW list, Sorted(list), NEW i, NEW lo, NEW hi, Gap(list, i, lo, hi),
           NEW prot \in Prots,
           \/ i < Len(list)
           \/ Bounded([list EXCEPT ![i].end = hi])
           \/ Bounded(InsertAt(list, i + 1, Area(lo, hi, prot, Normal)))
    PROVE  hi <= END
<1>1. /\ i \in Nat /\ Len(list) \in Nat /\ i \in 1 .. Len(list) /\ list \in Seq(GoodAreas)
      /\ list[i] \in GoodAreas /\ DOMAIN list = 1 .. Len(list)
  BY GapFacts, SortedFacts
<1>2. lo \in Nat /\ hi \in Nat /\ lo < hi /\ END \in Nat
  BY VmAssumption DEF Gap
<1>3. CASE i < Len(list)
  <2>1. list[i + 1] \in GoodAreas
    BY <1>3, GapFacts
  <2>2. list[i + 1].start \in Nat /\ list[i + 1].start < list[i + 1].end
        /\ list[i + 1].end <= END /\ list[i + 1].end \in Nat
    BY <2>1, AreaFacts
  <2>3. QED
    BY <1>2, <1>3, <2>2 DEF Gap
<1>4. CASE Bounded([list EXCEPT ![i].end = hi])
  <2> DEFINE new == [list EXCEPT ![i].end = hi]
  <2>1. list[i] \in AreaType
    BY <1>1 DEF GoodAreas
  <2>2. i \in DOMAIN new /\ new[i].end = hi
    BY <1>1, <2>1 DEF AreaType
  <2> HIDE DEF new
  <2>3. ~ (hi > END)
    BY <1>4, <2>2 DEF Bounded, new
  <2>4. QED
    BY <1>2, <2>3
<1>5. CASE Bounded(InsertAt(list, i + 1, Area(lo, hi, prot, Normal)))
  <2> DEFINE x == Area(lo, hi, prot, Normal)
             new == Replace(list, i + 1, i, <<x>>)
  <2>1. InsertAt(list, i + 1, x) = new
    BY <1>1, InsertIsReplace
  <2>2. x \in AreaType /\ x.end = hi
    BY <1>2 DEF Area, AreaType
  <2> HIDE DEF x
  <2>3. \A j \in 1 .. Len(list) : list[j] \in AreaType
    BY <1>1, SortedFacts DEF GoodAreas
  <2>4. list \in Seq(AreaType)
    <3>1. GoodAreas \subseteq AreaType
      BY DEF GoodAreas
    <3>2. QED
      BY <1>1, <2>3, <3>1
  <2>5. i + 1 \in 1 .. Len(list) + 1 /\ i \in (i + 1) - 1 .. Len(list)
    BY <1>1
  <2>6. new \in Seq(AreaType) /\ OneAt(new, list, i + 1, i, x)
    BY <2>2, <2>4, <2>5, ReplaceByOne
  <2> HIDE DEF new
  <2>7. i + 1 \in 1 .. Len(list) - i + (i + 1) /\ ~ (i + 1 < i + 1)
    BY <1>1
  <2>8. i + 1 \in DOMAIN new /\ new[i + 1] = x
    BY <2>6, <2>7, LenProperties DEF OneAt
  <2>9. ~ (hi > END)
    BY <1>5, <2>1, <2>2, <2>8 DEF Bounded, x
  <2>10. QED
    BY <1>2, <2>9
<1>6. QED
  BY <1>3, <1>4, <1>5

LEMMA PlaceGrown ==
    ASSUME NEW list, Sorted(list), NEW i, NEW lo, NEW hi, Gap(list, i, lo, hi),
           NEW prot \in Prots, Bounded(Place(list, i, lo, hi, prot))
    PROVE  Grown(list, Place(list, i, lo, hi, prot))
<1> DEFINE next == list[i].kind = Normal /\ Precedes(list, i, hi, prot)
                     /\ list[i + 1].kind = Normal
           grows == list[i].kind = Normal /\ Extends(list, i, lo, prot)
<1>1. CASE next /\ Extends(list, i, lo, prot)
  <2>1. Place(list, i, lo, hi, prot) = Joined(list, i)
    BY <1>1 DEF Place
  <2>2. i < Len(list) /\ list[i + 1].start = hi /\ list[i + 1].prot = list[i].prot
        /\ list[i].prot \in Prots /\ list[i].kind = Normal
    BY <1>1 DEF Precedes, Extends
  <2>3. QED
    BY <2>1, <2>2, FillJoin
<1>2. CASE next /\ ~ Extends(list, i, lo, prot)
  <2>1. Place(list, i, lo, hi, prot) = [list EXCEPT ![i + 1].start = lo]
    BY <1>2 DEF Place
  <2>2. i < Len(list) /\ list[i + 1].start = hi /\ list[i + 1].kind = Normal
    BY <1>2 DEF Precedes
  <2>3. Grown(list, [list EXCEPT ![i + 1].start = lo])
    BY <2>2, FillStart
  <2>4. QED
    BY <2>1, <2>3
<1>3. CASE ~ next /\ grows
  <2>1. Place(list, i, lo, hi, prot) = [list EXCEPT ![i].end = hi]
    BY <1>3 DEF Place
  <2>2. list[i].prot \in Prots /\ list[i].kind = Normal
    BY <1>3 DEF Extends
  <2> DEFINE new == [list EXCEPT ![i].end = hi]
  <2>3. Bounded(new)
    BY <2>1
  <2>4. hi <= END
    BY <2>3, FilledBounded
  <2>5. Grown(list, new)
    BY <2>2, <2>4, FillEnd
  <2>6. QED
    BY <2>1, <2>5
<1>4. CASE ~ next /\ ~ grows
  <2>1. Place(list, i, lo, hi, prot) = InsertAt(list, i + 1, Area(lo, hi, prot, Normal))
    BY <1>4 DEF Place
  <2> DEFINE new == InsertAt(list, i + 1, Area(lo, hi, prot, Normal))
  <2>2. Bounded(new)
    BY <2>1
  <2>3. hi <= END
    BY <2>2, FilledBounded
  <2>4. Grown(list, new)
    BY <2>3, FillInsert
  <2>5. QED
    BY <2>1, <2>4
<1>5. QED
  BY <1>1, <1>2, <1>3, <1>4

\* What a call may return: a list that grew, an integer and no fault.
Fine(old, out) == Grown(old, out.areas) /\ out.ret \in Int /\ out.fault = "none"

LEMMA FineOut ==
    ASSUME NEW old, NEW new, Grown(old, new), NEW ret \in Int
    PROVE  Fine(old, Out(new, ret))
  BY DEF Fine, Out

LEMMA SearchFine ==
    ASSUME NEW list, Sorted(list), list # <<>>, NEW length \in Nat \ {0}, length % Page = 0,
           NEW prot \in Prots, Bounded(Search(list, length, prot).areas)
    PROVE  Fine(list, Search(list, length, prot))
<1> DEFINE i == GapStop(list, length)
           lo == list[i].end
           hi == lo + length
           next == Precedes(list, i, hi, prot)
           grows == list[i].prot = prot /\ list[i].kind = Normal
           res == Search(list, length, prot)
<1>1. Gap(list, i, lo, hi)
  BY GapStopGap
<1>2. lo \in Int
  BY <1>1 DEF Gap
<1>3. CASE grows /\ next
  <2>1. res = Out(Joined(list, i), Joined(list, i)[i].end)
    BY <1>3 DEF Search
  <2> HIDE DEF i
  <2>2. i < Len(list) /\ list[i + 1].start = hi /\ list[i + 1].prot = list[i].prot
        /\ list[i].prot \in Prots /\ list[i].kind = Normal
    BY <1>3 DEF Precedes
  <2> HIDE DEF lo, hi, res, next
  <2>3. Grown(list, Joined(list, i)) /\ i \in DOMAIN Joined(list, i)
    BY <1>1, <2>2, FillJoin
  <2>4. Joined(list, i)[i] \in GoodAreas
    BY <2>3, SortedFacts DEF Grown
  <2>5. Joined(list, i)[i].end \in Int
    BY <2>4, AreaFacts
  <2>6. Fine(list, res)
    BY <2>1, <2>3, <2>5, FineOut, Zenon
  <2>7. QED
    BY <2>6 DEF res
<1>4. CASE grows /\ ~ next
  <2> DEFINE new == [list EXCEPT ![i].end = hi]
  <2>1. res = Out(new, new[i].end)
    BY <1>4 DEF Search
  <2> HIDE DEF i
  <2>2. list[i].prot \in Prots /\ list[i].kind = Normal
    BY <1>4
  <2>3. Bounded(new)
    BY <2>1 DEF Out
  <2> HIDE DEF lo, hi, res, next
  <2>4. hi <= END
    BY <1>1, <2>3, FilledBounded
  <2>5. Grown(list, new) /\ i \in DOMAIN new
    BY <1>1, <2>2, <2>4, FillEnd
  <2> HIDE DEF new
  <2>6. new[i] \in GoodAreas
    BY <2>5, SortedFacts DEF Grown
  <2>7. new[i].end \in Int
    BY <2>6, AreaFacts
  <2>8. Fine(list, res)
    BY <2>1, <2>5, <2>7, FineOut, Zenon
  <2>9. QED
    BY <2>8 DEF res
<1>5. CASE ~ grows /\ next /\ list[i + 1].kind = Normal
  <2> DEFINE new == [list EXCEPT ![i + 1].start = lo]
  <2>1. res = Out(new, lo)
    BY <1>5 DEF Search
  <2> HIDE DEF i
  <2>2. i < Len(list) /\ list[i + 1].start = hi /\ list[i + 1].kind = Normal
    BY <1>5 DEF Precedes
  <2> HIDE DEF lo, hi, res, next
  <2>3. Grown(list, new)
    BY <1>1, <2>2, FillStart
  <2>4. Fine(list, res)
    BY <1>2, <2>1, <2>3, FineOut, Zenon
  <2>5. QED
    BY <2>4 DEF res
<1>6. CASE ~ grows /\ ~ (next /\ list[i + 1].kind = Normal)
  <2> DEFINE new == InsertAt(list, i + 1, Area(lo, hi, prot, Normal))
  <2>1. res = Out(new, lo)
    BY <1>6 DEF Search
  <2>2. Bounded(new)
    BY <2>1 DEF Out
  <2> HIDE DEF i, lo, hi, res, next
  <2>3. hi <= END
    BY <1>1, <2>2, FilledBounded
  <2>4. Grown(list, new)
    BY <1>1, <2>3, FillInsert
  <2>5. Fine(list, res)
    BY <1>2, <2>1, <2>4, FineOut, Zenon
  <2>6. QED
    BY <2>5 DEF res
<1>7. QED
  BY <1>3, <1>4, <1>5, <1>6

\* The dummy area alone is a list, and an empty list becomes it.
LEMMA BegunSorted ==
    ASSUME Sorted(areas) PROVE Grown(areas, Begun) /\ Begun # <<>>
<1>1. CASE areas # <<>>
  BY <1>1, KeepsRefl DEF Begun, Grown
<1>2. CASE areas = <<>>
  <2> DEFINE w == <<Dummy>>
  <2>1. Begun = w
    BY <1>2 DEF Begun, Dummy
  <2>2. Dummy \in GoodAreas
    BY DummyGood
  <2>3. Ordered(w, GoodAreas, Apart) /\ w[1] = Dummy
    BY <2>2, OneOrdered
  <2>4. w # <<>>
    <3>1. Len(w) = 1 /\ Len(<<>>) = 0
      BY EmptySeq
    <3>2. QED
      BY <3>1
  <2> HIDE DEF w
  <2>5. DOMAIN areas = {}
    <3>1. Len(areas) = 0 /\ DOMAIN areas = 1 .. Len(areas)
      BY <1>2, EmptySeq, SortedFacts
    <3>2. QED
      BY <3>1
  <2>6. QED
    BY <2>1, <2>3, <2>4, <2>5 DEF Grown, Sorted, Keeps
<1>3. QED
  BY <1>1, <1>2

LEMMA MapFine ==
    ASSUME Sorted(areas), NEW addr \in Nat, NEW length \in Nat \ {0}, NEW prot \in Prots,
           NEW fixed \in BOOLEAN, Bounded(MapResult(addr, length, prot, fixed).areas)
    PROVE  Fine(areas, MapResult(addr, length, prot, fixed))
<1> DEFINE lo == RoundUp(addr, Page)
           len == RoundUp(length, Page)
           hi == lo + len
           i == HintStop(Begun, lo, hi)
           res == MapResult(addr, length, prot, fixed)
<1>1. Grown(areas, Begun) /\ Begun # <<>> /\ Sorted(Begun)
  BY BegunSorted DEF Grown
<1>2. /\ lo \in Nat /\ lo % Page = 0 /\ addr <= lo
      /\ len \in Nat /\ len % Page = 0 /\ length <= len
  BY VmAssumption, Rounded
<1>3. len \in Nat \ {0} /\ hi \in Nat /\ lo < hi
  BY <1>2
<1>4. hi % Page = 0
  BY <1>2, VmAssumption, SumMultiple
<1>5. - EINVAL \in Int
  BY DEF EINVAL
<1>6. ASSUME NEW out, Fine(Begun, out) PROVE Fine(areas, out)
  BY <1>1, <1>6, KeepsTrans DEF Fine, Grown
<1>7. CASE MapRefused(addr, length, fixed)
  <2>1. res = Out(Begun, - EINVAL)
    BY <1>7 DEF MapResult
  <2>2. QED
    BY <1>1, <1>5, <2>1, FineOut
<1>8. CASE ~ MapRefused(addr, length, fixed) /\ addr # 0 /\ ~ Meets(Begun[i], lo, hi)
  <2>1. res = Out(Place(Begun, i, lo, hi, prot), lo)
    BY <1>8 DEF MapResult
  <2>2. START < hi
    BY <1>2, <1>3, <1>8, VmAssumption DEF MapRefused
  <2>3. i \in 1 .. Len(Begun) /\ Begun[i].end <= lo
        /\ (i < Len(Begun) => hi <= Begun[i + 1].start)
    BY <1>1, <1>2, <1>3, <1>8, <2>2, HintStopGap
  <2>4. Bounded(Place(Begun, i, lo, hi, prot))
    BY <2>1 DEF Out
  <2>5. DOMAIN Begun = 1 .. Len(Begun)
    BY <1>1, SortedFacts
  <2> HIDE DEF lo, hi, len, i, res
  <2>6. Gap(Begun, i, lo, hi)
    BY <1>2, <1>3, <1>4, <2>3, <2>5 DEF Gap
  <2>7. Grown(Begun, Place(Begun, i, lo, hi, prot))
    BY <1>1, <2>4, <2>6, PlaceGrown
  <2>8. lo \in Int
    BY <1>2
  <2>9. Fine(Begun, res)
    BY <2>1, <2>7, <2>8, FineOut, Zenon
  <2>10. QED
    BY <1>6, <2>9 DEF res
<1>9. CASE /\ ~ MapRefused(addr, length, fixed)
           /\ addr = 0 \/ (~ fixed /\ Meets(Begun[i], lo, hi))
  <2>1. res = Search(Begun, len, prot)
    BY <1>9 DEF MapResult
  <2>2. Bounded(Search(Begun, len, prot).areas)
    BY <2>1
  <2> HIDE DEF lo, hi, len, i, res
  <2>3. Fine(Begun, res)
    BY <1>1, <1>2, <1>3, <2>1, <2>2, SearchFine
  <2>4. QED
    BY <1>6, <2>3 DEF res
<1>10. CASE ~ MapRefused(addr, length, fixed) /\ addr # 0 /\ fixed /\ Meets(Begun[i], lo, hi)
  <2>1. res = Out(Begun, - EINVAL)
    BY <1>10 DEF MapResult
  <2>2. QED
    BY <1>1, <1>5, <2>1, FineOut
<1>11. QED
  <2> HIDE DEF lo, hi, len, i, res
  <2>1. \/ MapRefused(addr, length, fixed)
        \/ ~ MapRefused(addr, length, fixed) /\ addr # 0 /\ ~ Meets(Begun[i], lo, hi)
        \/ /\ ~ MapRefused(addr, length, fixed)
           /\ addr = 0 \/ (~ fixed /\ Meets(Begun[i], lo, hi))
        \/ ~ MapRefused(addr, length, fixed) /\ addr # 0 /\ fixed /\ Meets(Begun[i], lo, hi)
    OBVIOUS
  <2>2. QED
    BY <1>7, <1>8, <1>9, <1>10, <2>1, Zenon
-----------------------------------------------------------------------------
(* Calls that replace each area by pieces of it.                            *)

PieceOf(x, y) ==
    y \in GoodAreas /\ y.prot = x.prot /\ x.start <= y.start /\ y.end <= x.end
Pieces(x, seq) ==
    Ordered(seq, GoodAreas, Apart) /\ \A m \in DOMAIN seq : PieceOf(x, seq[m])

\* The pieces still cover what the area covers of S.
KeptIn(x, seq, S) ==
    \A p \in S : Covers(x, p) => \E m \in DOMAIN seq : Covers(seq[m], p)

LEMMA PieceSelf ==
    ASSUME NEW x \in GoodAreas, NEW S PROVE Pieces(x, <<x>>) /\ KeptIn(x, <<x>>, S)
<1> DEFINE w == <<x>>
<1>1. Ordered(w, GoodAreas, Apart) /\ DOMAIN w = 1 .. 1 /\ w[1] = x
  BY OneOrdered
<1>2. PieceOf(x, x)
  BY AreaFacts DEF PieceOf
<1> HIDE DEF w
<1>3. 1 \in DOMAIN w /\ \A m \in DOMAIN w : m = 1
  BY <1>1
<1>4. Pieces(x, w) /\ KeptIn(x, w, S)
  BY <1>1, <1>2, <1>3 DEF Pieces, KeptIn
<1>5. QED
  BY <1>4 DEF w

LEMMA PieceOne ==
    ASSUME NEW x, NEW y, PieceOf(x, y) PROVE Pieces(x, <<y>>)
<1> DEFINE w == <<y>>
<1>1. Ordered(w, GoodAreas, Apart) /\ DOMAIN w = 1 .. 1 /\ w[1] = y
  BY OneOrdered DEF PieceOf
<1> HIDE DEF w
<1>2. \A m \in DOMAIN w : m = 1
  BY <1>1
<1>3. Pieces(x, w)
  BY <1>1, <1>2 DEF Pieces
<1>4. QED
  BY <1>3 DEF w

LEMMA PieceNone == ASSUME NEW x PROVE Pieces(x, <<>>)
<1> DEFINE w == <<>>
<1>1. w \in Seq(GoodAreas) /\ DOMAIN w = {}
  BY EmptySeq
<1> HIDE DEF w
<1>2. Pieces(x, w)
  BY <1>1 DEF Pieces, Ordered
<1>3. QED
  BY <1>2 DEF w

LEMMA FlattenPieces ==
    ASSUME NEW list, Sorted(list), list # <<>>, NEW seqs, NEW S,
           DOMAIN seqs = DOMAIN list, seqs = [i \in DOMAIN seqs |-> seqs[i]],
           \A i \in DOMAIN list : Pieces(list[i], seqs[i]) /\ KeptIn(list[i], seqs[i], S),
           seqs[1] = <<Dummy>>
    PROVE  Grown(list, list) /\ Sorted(FlattenSeq(seqs)) /\ Keeps(list, FlattenSeq(seqs), S)
           /\ FlattenSeq(seqs) # <<>>
<1> DEFINE n == Len(list)
           F == FlattenSeq(seqs)
<1>1. /\ n \in Nat /\ DOMAIN list = 1 .. n /\ 1 \in DOMAIN list
      /\ \A i \in DOMAIN list : list[i] \in GoodAreas
      /\ \A i, j \in DOMAIN list : i < j => list[i].end <= list[j].start /\ list[j].prot # DUMMY
  BY SortedFacts
<1> HIDE DEF n
<1>2. seqs \in [1 .. n -> Seq(GoodAreas)]
  BY <1>1 DEF Pieces, Ordered
<1>3. seqs \in Seq(Seq(GoodAreas)) /\ Len(seqs) = n /\ n > 0
  <2>1. seqs \in Seq(Seq(GoodAreas))
    BY <1>1, <1>2, SeqDef
  <2>2. 1 .. Len(seqs) = 1 .. n /\ Len(seqs) \in Nat
    BY <1>1, <2>1, LenProperties
  <2>3. QED
    BY <1>1, <2>1, <2>2
<1>4. \A i \in DOMAIN seqs : Ordered(seqs[i], GoodAreas, Apart)
  BY DEF Pieces
<1>5. ASSUME NEW i \in DOMAIN seqs, NEW j \in DOMAIN seqs, i < j
      PROVE  Precede(seqs[i], seqs[j], Apart)
  <2> SUFFICES ASSUME NEW a \in DOMAIN seqs[i], NEW b \in DOMAIN seqs[j]
               PROVE  <<seqs[i][a], seqs[j][b]>> \in Apart
    BY DEF Precede
  <2>1. PieceOf(list[i], seqs[i][a]) /\ PieceOf(list[j], seqs[j][b])
    BY DEF Pieces
  <2>2. list[i].end <= list[j].start /\ list[j].prot # DUMMY
    BY <1>1, <1>5
  <2>3. list[i].end \in Nat /\ list[j].start \in Nat /\ seqs[i][a].end \in Nat
        /\ seqs[j][b].start \in Nat
    BY <1>1, <2>1, AreaFacts DEF PieceOf
  <2>4. seqs[i][a].end <= seqs[j][b].start
    BY <2>1, <2>2, <2>3 DEF PieceOf
  <2>5. QED
    BY <2>1, <2>2, <2>4 DEF PieceOf, Apart
<1> DEFINE w == <<Dummy>>
<1>6. w # <<>> /\ w[1] = Dummy
  <2>1. Len(w) = 1 /\ Len(<<>>) = 0
    BY EmptySeq
  <2>2. QED
    BY <2>1
<1>7. seqs[1] # <<>> /\ seqs[1][1] = Dummy
  BY <1>6, Zenon DEF w
<1> HIDE DEF w, F
<1>8. /\ Ordered(F, GoodAreas, Apart)
      /\ \A i \in DOMAIN seqs : \A m \in DOMAIN seqs[i] :
            \E h \in DOMAIN F : F[h] = seqs[i][m]
      /\ 1 \in DOMAIN F /\ F[1] = Dummy
  <2>1. \A i, j \in DOMAIN seqs : i < j => Precede(seqs[i], seqs[j], Apart)
    BY <1>5
  <2>2. Len(seqs) > 0 /\ seqs \in Seq(Seq(GoodAreas))
    BY <1>3
  <2>3. Stacked(seqs, GoodAreas, Apart)
    BY <1>4, <2>1, <2>2, Zenon DEF Stacked
  <2>4. Flattens(seqs, F, GoodAreas, Apart)
    BY <2>3, StackedFlattens, Zenon DEF F
  <2>5. QED
    BY <1>7, <2>4, Zenon DEF Flattens
<1>9. Sorted(F)
  BY <1>8 DEF Sorted
<1>10. F # <<>>
  BY <1>8, EmptySeq
<1>11. Keeps(list, F, S)
  <2> SUFFICES ASSUME NEW p \in S, NEW i \in DOMAIN list, Covers(list[i], p)
               PROVE  \E h \in DOMAIN F : Covers(F[h], p) /\ F[h].prot = list[i].prot
    BY DEF Keeps
  <2>1. PICK m \in DOMAIN seqs[i] : Covers(seqs[i][m], p)
    BY DEF KeptIn
  <2>2. seqs[i][m].prot = list[i].prot
    BY <2>1 DEF Pieces, PieceOf
  <2>3. PICK h \in DOMAIN F : F[h] = seqs[i][m]
    BY <1>8, <2>1
  <2>4. QED
    BY <2>1, <2>2, <2>3
<1>12. QED
  BY <1>9, <1>10, <1>11, KeepsRefl DEF F, Grown

-----------------------------------------------------------------------------
(* munmap.                                                                  *)

\* The pages that have no address in lo .. hi.
Outside(lo, hi) == {p \in Pages : ~ (lo < p + Page /\ p < hi)}

LEMMA CutPieces ==
    ASSUME NEW x \in GoodAreas, NEW lo \in Nat, NEW hi \in Nat, lo < hi,
           lo % Page = 0, hi % Page = 0, NEW kind,
           ~ (x.start < lo /\ hi < x.end),
           x.kind = HugeMap /\ Meets(x, lo, hi) =>
               (x.start < lo => lo % Huge = 0) /\ (hi < x.end => hi % Huge = 0)
    PROVE  /\ Pieces(x, Cut(x, lo, hi, kind))
           /\ KeptIn(x, Cut(x, lo, hi, kind), Outside(lo, hi))
           /\ ~ Meets(x, lo, hi) => Cut(x, lo, hi, kind) = <<x>>
<1> DEFINE c == Cut(x, lo, hi, kind)
<1>1. /\ x.start \in Nat /\ x.end \in Nat /\ START <= x.start /\ x.start < x.end
      /\ x.end <= END /\ x.start % Page = 0 /\ x.end % Page = 0
      /\ (x.kind = HugeMap => x.start % Huge = 0 /\ x.end % Huge = 0)
      /\ x \in AreaType /\ x.kind # Unset
  BY AreaFacts DEF GoodAreas, Aligned
<1>2. \A p \in Outside(lo, hi) : p \in Nat /\ ~ (lo <= p /\ p < hi)
  BY VmAssumption DEF Outside, Pages
<1>3. CASE Inside(x, lo, hi)
  <2>1. c = <<>>
    BY <1>3 DEF Cut
  <2>2. \A p \in Outside(lo, hi) : ~ Covers(x, p)
    BY <1>1, <1>2, <1>3 DEF Covers, Inside
  <2>3. KeptIn(x, c, Outside(lo, hi))
    BY <2>2 DEF KeptIn
  <2>4. Meets(x, lo, hi)
    BY <1>1, <1>3 DEF Meets, Inside
  <2>5. QED
    BY <2>1, <2>3, <2>4, PieceNone
<1>4. CASE ~ Inside(x, lo, hi) /\ TrimsFront(x, lo, hi)
  <2> DEFINE y == [x EXCEPT !.start = hi]
             w == <<y>>
  <2>1. c = w
    BY <1>4 DEF Cut
  <2>2. lo <= x.start /\ x.start < hi /\ hi < x.end /\ Meets(x, lo, hi)
    BY <1>1, <1>4 DEF TrimsFront, Meets
  <2>3. /\ y \in AreaType /\ y.start = hi /\ y.end = x.end /\ y.prot = x.prot
        /\ y.kind = x.kind
    BY <1>1 DEF AreaType
  <2> HIDE DEF y
  <2>4. y \in GoodAreas
    <3>1. START <= y.start /\ y.start < y.end /\ y.end <= END
      BY <1>1, <2>2, <2>3, VmAssumption
    <3>2. y.kind = HugeMap => y.start % Huge = 0 /\ y.end % Huge = 0
      BY <1>1, <2>2, <2>3
    <3>3. QED
      BY <1>1, <2>3, <3>1, <3>2 DEF GoodAreas, Aligned
  <2>5. PieceOf(x, y)
    BY <1>1, <2>2, <2>3, <2>4 DEF PieceOf
  <2>6. 1 \in DOMAIN w /\ w[1] = y
    OBVIOUS
  <2>7. \A p \in Outside(lo, hi) : Covers(x, p) => Covers(y, p)
    BY <1>1, <1>2, <2>2, <2>3 DEF Covers
  <2> HIDE DEF w, c
  <2>8. KeptIn(x, c, Outside(lo, hi))
    BY <2>1, <2>6, <2>7 DEF KeptIn
  <2>9. Pieces(x, c)
    BY <2>1, <2>5, PieceOne DEF w
  <2>10. QED
    BY <2>2, <2>8, <2>9 DEF c
<1>5. CASE ~ Inside(x, lo, hi) /\ ~ TrimsFront(x, lo, hi) /\ x.start < lo /\ lo < x.end
  <2> DEFINE y == [x EXCEPT !.end = lo]
             w == <<y>>
  <2>1. c = w
    BY <1>5 DEF Cut
  <2>2. x.end <= hi /\ Meets(x, lo, hi)
    BY <1>1, <1>5 DEF Meets
  <2>3. /\ y \in AreaType /\ y.start = x.start /\ y.end = lo /\ y.prot = x.prot
        /\ y.kind = x.kind
    BY <1>1 DEF AreaType
  <2> HIDE DEF y
  <2>4. y \in GoodAreas
    BY <1>1, <1>5, <2>2, <2>3, VmAssumption DEF GoodAreas, Aligned
  <2>5. PieceOf(x, y)
    BY <1>1, <1>5, <2>3, <2>4 DEF PieceOf
  <2>6. 1 \in DOMAIN w /\ w[1] = y
    OBVIOUS
  <2>7. \A p \in Outside(lo, hi) : Covers(x, p) => Covers(y, p)
    BY <1>1, <1>2, <2>2, <2>3 DEF Covers
  <2> HIDE DEF w, c
  <2>8. KeptIn(x, c, Outside(lo, hi))
    BY <2>1, <2>6, <2>7 DEF KeptIn
  <2>9. Pieces(x, c)
    BY <2>1, <2>5, PieceOne DEF w
  <2>10. QED
    BY <2>2, <2>8, <2>9 DEF c
<1>6. CASE ~ Inside(x, lo, hi) /\ ~ TrimsFront(x, lo, hi) /\ ~ (x.start < lo /\ lo < x.end)
  <2>1. c = <<x>>
    BY <1>6 DEF Cut
  <2>2. QED
    BY <2>1, PieceSelf
<1>7. ASSUME ~ Meets(x, lo, hi) PROVE c = <<x>>
  <2>1. ~ Inside(x, lo, hi) /\ ~ TrimsFront(x, lo, hi) /\ ~ (x.start < lo /\ lo < x.end)
    BY <1>1, <1>7 DEF Meets, Inside, TrimsFront
  <2>2. QED
    BY <2>1 DEF Cut
<1>8. QED
  <2> HIDE DEF c
  <2>1. \/ Inside(x, lo, hi)
        \/ ~ Inside(x, lo, hi) /\ TrimsFront(x, lo, hi)
        \/ ~ Inside(x, lo, hi) /\ ~ TrimsFront(x, lo, hi) /\ x.start < lo /\ lo < x.end
        \/ ~ Inside(x, lo, hi) /\ ~ TrimsFront(x, lo, hi) /\ ~ (x.start < lo /\ lo < x.end)
    OBVIOUS
  <2>2. Pieces(x, c) /\ KeptIn(x, c, Outside(lo, hi))
    BY <1>3, <1>4, <1>5, <1>6, <2>1, Zenon DEF c
  <2>3. QED
    BY <1>7, <2>2 DEF c

\* What any careful call leaves: a sorted list that keeps what lies in S.
Held(old, out, S) ==
    /\ Sorted(out.areas) /\ Keeps(old, out.areas, S)
    /\ out.ret \in Int /\ out.fault = "none"

LEMMA HeldOut ==
    ASSUME NEW old, NEW new, NEW S, Sorted(new), Keeps(old, new, S), NEW ret \in Int
    PROVE  Held(old, Out(new, ret), S)
  BY DEF Held, Out

\* The careful uses of munmap.
UnmapCareful(lo, hi) ==
    \A i \in DOMAIN areas :
        /\ ~ (i = 1 /\ Meets(areas[i], lo, hi))
        /\ ~ (areas[i].start < lo /\ hi < areas[i].end)
        /\ areas[i].kind = HugeMap /\ Meets(areas[i], lo, hi) =>
               (areas[i].start < lo => lo % Huge = 0) /\ (hi < areas[i].end => hi % Huge = 0)
        /\ lo % Page = 0 \/ lo % 2 # 0

LEMMA CutAllHeld ==
    ASSUME Sorted(areas), areas # <<>>, NEW lo \in Nat, NEW hi \in Nat, lo < hi,
           lo % Page = 0, hi % Page = 0, NEW kind, UnmapCareful(lo, hi)
    PROVE  Held(areas, Out(CutAll(areas, lo, hi, kind), 0), Outside(lo, hi))
<1> DEFINE S == Outside(lo, hi)
           stopped(i) == \E j \in 1 .. i - 1 : TrimsFront(areas[j], lo, hi)
           piece(i) == IF stopped(i) THEN <<areas[i]>> ELSE Cut(areas[i], lo, hi, kind)
           seqs == [i \in DOMAIN areas |-> piece(i)]
<1>1. /\ \A i \in DOMAIN areas : areas[i] \in GoodAreas
      /\ 1 \in DOMAIN areas /\ areas[1] = Dummy
  BY SortedFacts
<1>2. CutAll(areas, lo, hi, kind) = FlattenSeq(seqs)
  BY DEF CutAll
<1>3. ASSUME NEW i \in DOMAIN areas
      PROVE  /\ Pieces(areas[i], piece(i)) /\ KeptIn(areas[i], piece(i), S)
             /\ i = 1 => piece(i) = <<areas[i]>>
  <2>1. Pieces(areas[i], <<areas[i]>>) /\ KeptIn(areas[i], <<areas[i]>>, S)
    BY <1>1, PieceSelf
  <2>2. /\ Pieces(areas[i], Cut(areas[i], lo, hi, kind))
        /\ KeptIn(areas[i], Cut(areas[i], lo, hi, kind), S)
        /\ ~ Meets(areas[i], lo, hi) => Cut(areas[i], lo, hi, kind) = <<areas[i]>>
    BY <1>1, CutPieces DEF UnmapCareful
  <2>3. i = 1 => ~ Meets(areas[i], lo, hi)
    BY DEF UnmapCareful
  <2> HIDE DEF stopped, S
  <2>4. QED
    BY <2>1, <2>2, <2>3
<1> HIDE DEF piece, S
<1>4. DOMAIN seqs = DOMAIN areas /\ \A i \in DOMAIN areas : seqs[i] = piece(i)
  OBVIOUS
<1>5. seqs = [i \in DOMAIN seqs |-> seqs[i]]
  OBVIOUS
<1>6. seqs[1] = <<Dummy>>
  BY <1>1, <1>3, <1>4, Zenon
<1> HIDE DEF seqs
<1>7. \A i \in DOMAIN areas : Pieces(areas[i], seqs[i]) /\ KeptIn(areas[i], seqs[i], S)
  BY <1>3, <1>4
<1>8. Sorted(FlattenSeq(seqs)) /\ Keeps(areas, FlattenSeq(seqs), S)
  BY <1>4, <1>5, <1>6, <1>7, FlattenPieces
<1>9. QED
  BY <1>2, <1>8, HeldOut DEF S

LEMMA UnmapHeld ==
    ASSUME Sorted(areas), NEW addr \in Nat, NEW length \in Nat, NEW kind,
           NEW hi, hi = addr + RoundUp(length, Page), UnmapCareful(addr, hi)
    PROVE  /\ Held(areas, UnmapResult(addr, length, kind), Outside(addr, hi))
           /\ UnmapResult(addr, length, kind).ret = 0 => addr % Page = 0 /\ hi % Page = 0
<1> DEFINE res == UnmapResult(addr, length, kind)
           up == RoundUp(length, Page)
<1>1. up \in Nat /\ up % Page = 0 /\ length <= up /\ hi \in Nat
  <2>1. up \in Nat /\ up % Page = 0 /\ length <= up
    BY VmAssumption, Rounded
  <2>2. hi \in Nat
    BY <2>1
  <2>3. QED
    BY <2>1, <2>2
<1>2. Keeps(areas, areas, Outside(addr, hi))
  BY KeepsRefl
<1>3. - EINVAL \in Int /\ - EINVAL # 0 /\ -1 \in Int /\ -1 # 0
  BY DEF EINVAL
<1>4. CASE addr < START \/ addr + length > END \/ length = 0
  <2>1. res = Out(areas, - EINVAL)
    BY <1>4 DEF UnmapResult
  <2> HIDE DEF res
  <2>2. Held(areas, res, Outside(addr, hi))
    BY <1>2, <1>3, <2>1, HeldOut, Zenon
  <2>3. res.ret # 0
    BY <1>3, <2>1 DEF Out
  <2>4. QED
    BY <2>2, <2>3 DEF res
<1> DEFINE early == addr < START \/ addr + length > END \/ length = 0
           odd == addr % 2 = 1 \/ areas = <<>>
<1>5. CASE ~ early /\ odd
  <2>1. res = Out(areas, -1)
    BY <1>5 DEF UnmapResult
  <2> HIDE DEF res
  <2>2. Held(areas, res, Outside(addr, hi))
    BY <1>2, <1>3, <2>1, HeldOut, Zenon
  <2>3. res.ret # 0
    BY <1>3, <2>1 DEF Out
  <2>4. QED
    BY <2>2, <2>3 DEF res
<1>6. CASE ~ early /\ ~ odd
  <2>1. 1 \in DOMAIN areas /\ areas[1] \in GoodAreas
    BY <1>6, SortedFacts
  <2>2. addr < hi
    BY <1>1, <1>6
  <2>3. ~ Meets(areas[1], addr, hi)
    BY <2>1 DEF UnmapCareful
  <2>4. areas[1].start \in Nat /\ areas[1].end \in Nat /\ areas[1].start < areas[1].end
    BY <2>1, AreaFacts
  <2>5. ~ Inside(areas[1], addr, hi)
    BY <1>1, <2>2, <2>3, <2>4 DEF Inside, Meets
  <2>6. res = Out(CutAll(areas, addr, hi, kind), 0)
    BY <1>6, <2>5 DEF UnmapResult
  <2>7. addr % 2 \in {0, 1}
    OBVIOUS
  <2>8. addr % Page = 0
    BY <1>6, <2>1, <2>7 DEF UnmapCareful
  <2>9. hi % Page = 0
    BY <1>1, <2>8, VmAssumption, SumMultiple
  <2> HIDE DEF res
  <2>10. Held(areas, res, Outside(addr, hi))
    BY <1>1, <1>6, <2>2, <2>6, <2>8, <2>9, CutAllHeld
  <2>11. QED
    BY <2>8, <2>9, <2>10 DEF res
<1>7. QED
  BY <1>4, <1>5, <1>6
-----------------------------------------------------------------------------
(* make_hugepage.                                                           *)

LEMMA OneHeld ==
    ASSUME NEW list, Sorted(list), NEW i, NEW k, NEW x, OneFits(list, i, k, x), NEW S,
           \A p \in S : \A j \in i .. k :
               Covers(list[j], p) => Covers(x, p) /\ x.prot = list[j].prot
    PROVE  /\ Sorted(Replace(list, i, k, <<x>>))
           /\ Keeps(list, Replace(list, i, k, <<x>>), S)
<1> DEFINE w == <<x>>
<1>1. w \in Seq(GoodAreas) /\ DOMAIN w = 1 .. 1 /\ w[1] = x
  BY DEF OneFits
<1>2. Ordered(w, GoodAreas, Apart)
  BY OneOrdered DEF OneFits
<1> HIDE DEF w
<1>3. Fits(list, i, k, w)
  BY <1>1, <1>2 DEF Fits, OneFits
<1>4. Sorted(Replace(list, i, k, w))
  BY <1>3, ReplaceSorted
<1>5. \A p \in S : \A j \in i .. k : Covers(list[j], p) =>
          \E m \in DOMAIN w : Covers(w[m], p) /\ w[m].prot = list[j].prot
  BY <1>1
<1>6. Keeps(list, Replace(list, i, k, w), S)
  BY <1>3, <1>5, ReplaceKeeps
<1>7. QED
  BY <1>4, <1>6 DEF w

LEMMA KeepsLess ==
    ASSUME NEW a, NEW b, NEW S, NEW T, Keeps(a, b, T), S \subseteq T PROVE Keeps(a, b, S)
  BY DEF Keeps

LEMMA HeldLess ==
    ASSUME NEW old, NEW out, NEW S, NEW T, Held(old, out, T), S \subseteq T PROVE Held(old, out, S)
  BY KeepsLess DEF Held

\* No two areas hold the same address, and only neighbours touch.
LEMMA Disjoint ==
    ASSUME NEW list, Sorted(list), NEW i \in DOMAIN list, NEW j \in DOMAIN list, NEW p \in Nat,
           Covers(list[i], p), Covers(list[j], p)
    PROVE  i = j
<1>1. /\ DOMAIN list = 1 .. Len(list) /\ Len(list) \in Nat
      /\ \A a, b \in DOMAIN list : a < b => list[a].end <= list[b].start
      /\ \A a \in DOMAIN list : list[a].start \in Nat /\ list[a].end \in Nat
  BY SortedFacts, AreaFacts
<1>2. i \in Nat /\ j \in Nat
  BY <1>1
<1>3. ~ (i < j) /\ ~ (j < i)
  BY <1>1 DEF Covers
<1>4. QED
  BY <1>2, <1>3

LEMMA Neighbours ==
    ASSUME NEW list, Sorted(list), NEW i \in DOMAIN list, NEW j \in DOMAIN list, i < j,
           list[i].end = list[j].start
    PROVE  j = i + 1
<1>1. /\ DOMAIN list = 1 .. Len(list) /\ Len(list) \in Nat
      /\ \A a, b \in DOMAIN list : a < b => list[a].end <= list[b].start
      /\ \A a \in DOMAIN list : list[a].start \in Nat /\ list[a].end \in Nat
                                /\ list[a].start < list[a].end
  BY SortedFacts, AreaFacts
<1>2. i \in Nat /\ j \in Nat /\ i + 1 \in DOMAIN list
  BY <1>1
<1>3. ASSUME i + 1 < j PROVE FALSE
  <2>1. list[i].end <= list[i + 1].start /\ list[i + 1].end <= list[j].start
    BY <1>1, <1>2, <1>3
  <2>2. QED
    BY <1>1, <1>2, <2>1
<1>4. QED
  BY <1>2, <1>3

\* The first area that takes lo, seen from one that starts there or holds it.
Takes(area, lo) == Before(area, lo) \/ Starts(area, lo) \/ Holds(area, lo)
FirstTaker(list, lo) == First(list, LAMBDA m : Takes(list[m], lo))

LEMMA FirstTakes ==
    ASSUME NEW list, Sorted(list), NEW lo \in Nat, NEW j \in DOMAIN list, Covers(list[j], lo),
           NEW i, i = FirstTaker(list, lo)
    PROVE  /\ i \in DOMAIN list /\ Takes(list[j], lo) /\ ~ Before(list[j], lo)
           /\ \/ i = j
              \/ j > 1 /\ i = j - 1 /\ Before(list[i], lo) /\ list[j].start = lo
<1> DEFINE P(m) == Takes(list[m], lo)
           S == {m \in DOMAIN list : P(m)}
<1>1. /\ DOMAIN list = 1 .. Len(list) /\ Len(list) \in Nat
      /\ \A a, b \in DOMAIN list : a < b => list[a].end <= list[b].start
      /\ \A a \in DOMAIN list : list[a].start \in Nat /\ list[a].end \in Nat
                                /\ list[a].start < list[a].end
  BY SortedFacts, AreaFacts
<1>2. P(j) /\ ~ Before(list[j], lo)
  BY <1>1 DEF Takes, Before, Starts, Holds, Covers
<1>3. j \in S /\ S \in SUBSET Nat
  BY <1>1, <1>2
<1>4. \E m \in DOMAIN list : P(m) /\ \A k \in 1 .. m - 1 : ~ P(k)
  <2>1. PICK m \in S : \A k \in 1 .. m - 1 : k \notin S
    BY <1>3, FirstOf
  <2>2. m \in DOMAIN list
    BY <2>1
  <2>3. \A k \in 1 .. m - 1 : k \in DOMAIN list
    BY <1>1, <2>2
  <2>4. QED
    BY <2>1, <2>2, <2>3
<1>5. i = CHOOSE m \in DOMAIN list : P(m) /\ \A k \in 1 .. m - 1 : ~ P(k)
  BY DEF FirstTaker, First
<1> HIDE DEF P
<1>6. i \in DOMAIN list /\ P(i) /\ \A k \in 1 .. i - 1 : ~ P(k)
  BY <1>4, <1>5
<1>7. i \in Nat /\ j \in Nat /\ i >= 1
  BY <1>1, <1>6
<1>8. ~ (j < i)
  <2>1. j < i => j \in 1 .. i - 1
    BY <1>1, <1>7
  <2>2. QED
    BY <1>2, <1>6, <2>1
<1>9. ASSUME i < j PROVE j > 1 /\ i = j - 1 /\ Before(list[i], lo) /\ list[j].start = lo
  <2>1. list[i].end <= list[j].start /\ list[j].start <= lo
    BY <1>1, <1>6, <1>9 DEF Covers
  <2>2. ~ Starts(list[i], lo) /\ ~ Holds(list[i], lo)
    BY <1>1, <1>6, <2>1 DEF Starts, Holds
  <2>3. Before(list[i], lo)
    BY <1>6, <2>2 DEF P, Takes
  <2>4. list[i].end = lo /\ list[j].start = lo
    BY <1>1, <1>6, <2>1, <2>3 DEF Before
  <2>5. j = i + 1
    BY <1>6, <1>9, <2>4, Neighbours
  <2>6. QED
    BY <1>7, <2>3, <2>4, <2>5
<1>10. i = j \/ i < j
  BY <1>7, <1>8
<1>11. QED
  BY <1>2, <1>6, <1>9, <1>10 DEF P

\* Areas i0 .. k0 fill lo .. hi and may be taken.
Filling(list, i0, k0, lo, hi, prot, force) ==
    /\ i0 \in DOMAIN list /\ k0 \in DOMAIN list /\ i0 <= k0
    /\ list[i0].start = lo /\ list[k0].end = hi /\ list[i0].prot = prot
    /\ \A j \in i0 .. k0 : /\ list[j].kind = Normal
                           /\ list[j].prot = prot \/ force
                           /\ j < k0 => list[j].end = list[j + 1].start

\* The walk ends at the area that ends at hi.
LEMMA StopsThere ==
    ASSUME NEW list, Sorted(list), NEW i0, NEW k0, NEW lo \in Nat, NEW hi \in Nat,
           NEW prot \in Prots, NEW force \in BOOLEAN,
           Filling(list, i0, k0, lo, hi, prot, force),
           NEW i \in DOMAIN list, i < k0,
           i = i0 \/ (i + 1 = i0 /\ list[i].end = lo)
    PROVE  /\ StopAt(list, i, lo, hi, prot, force) = k0
           /\ Inside(list[k0], lo, hi) /\ Refusal(list, k0, prot, force) = 0
<1> DEFINE In(j) == Inside(list[j], lo, hi)
           Code(j) == Refusal(list, j, prot, force)
           Q(k) == /\ k > Len(list) \/ ~ In(k) \/ Code(k) # 0 \/ list[k].end = hi
                   /\ \A j \in i + 1 .. k - 1 : In(j) /\ list[j].end # hi /\ Code(j) = 0
<1>1. /\ DOMAIN list = 1 .. Len(list) /\ Len(list) \in Nat
      /\ \A a, b \in DOMAIN list : a < b => list[a].end <= list[b].start
      /\ \A a \in DOMAIN list : list[a].start \in Nat /\ list[a].end \in Nat
                                /\ list[a].start < list[a].end
  BY SortedFacts, AreaFacts
<1>2. i \in Nat /\ i0 \in Nat /\ k0 \in Nat /\ i0 \in DOMAIN list /\ k0 \in DOMAIN list
      /\ i0 <= k0 /\ k0 <= Len(list) /\ i >= 1
  BY <1>1 DEF Filling
<1>3. ASSUME NEW j \in i + 1 .. k0
      PROVE  In(j) /\ Code(j) = 0 /\ (j # k0 => list[j].end # hi)
  <2>1. j \in i0 .. k0 /\ j \in DOMAIN list /\ j \in Nat /\ j - 1 \in DOMAIN list
    BY <1>1, <1>2
  <2>2. lo <= list[j].start
    <3>1. i0 = j \/ i0 < j
      BY <1>2, <2>1
    <3>2. i0 < j => list[i0].start < list[i0].end /\ list[i0].end <= list[j].start
      BY <1>1, <1>2, <2>1
    <3>3. QED
      BY <1>1, <1>2, <2>1, <3>1, <3>2 DEF Filling
  <2>3. list[j].end <= hi /\ (j # k0 => list[j].end # hi)
    <3>1. j = k0 \/ j < k0
      BY <1>2, <2>1
    <3>2. j < k0 => list[j].end <= list[k0].start /\ list[k0].start < list[k0].end
      BY <1>1, <1>2, <2>1
    <3>3. QED
      BY <1>1, <1>2, <2>1, <3>1, <3>2 DEF Filling
  <2>4. list[j].start = list[j - 1].end
    <3>1. CASE j = i0
      <4>1. i + 1 = i0 /\ list[i].end = lo /\ j - 1 = i
        BY <1>2, <2>1, <3>1
      <4>2. QED
        BY <3>1, <4>1 DEF Filling
    <3>2. CASE j # i0
      <4>1. j - 1 \in i0 .. k0 /\ j - 1 < k0 /\ (j - 1) + 1 = j
        BY <1>2, <2>1, <3>2
      <4>2. QED
        BY <4>1 DEF Filling
    <3>3. QED
      BY <3>1, <3>2
  <2>5. list[j].kind = Normal /\ (list[j].prot = prot \/ force)
    BY <2>1 DEF Filling
  <2>6. Code(j) = 0
    BY <2>4, <2>5 DEF Refusal, Normal, HugeMap
  <2>7. QED
    BY <2>2, <2>3, <2>6 DEF Inside
<1>4. StopAt(list, i, lo, hi, prot, force) = CHOOSE k \in i + 1 .. Len(list) + 1 : Q(k)
  BY DEF StopAt
<1>5. list[k0].end = hi
  BY DEF Filling
<1> HIDE DEF In, Code
<1>6. Q(k0) /\ k0 \in i + 1 .. Len(list) + 1
  BY <1>1, <1>2, <1>3, <1>5
<1>7. ASSUME NEW k \in i + 1 .. Len(list) + 1, Q(k) PROVE k = k0
  <2>1. ASSUME k < k0 PROVE FALSE
    <3>1. k \in i + 1 .. k0 /\ k # k0 /\ ~ (k > Len(list))
      BY <1>1, <1>2, <2>1
    <3>2. QED
      BY <1>3, <1>7, <3>1
  <2>2. ASSUME k > k0 PROVE FALSE
    <3>1. k0 \in i + 1 .. k - 1
      BY <1>2, <2>2
    <3>2. QED
      BY <1>5, <1>7, <3>1
  <2>3. QED
    BY <1>2, <2>1, <2>2
<1> HIDE DEF Q
<1>8. StopAt(list, i, lo, hi, prot, force) = k0
  BY <1>4, <1>6, <1>7
<1>9. k0 \in i + 1 .. k0
  BY <1>2
<1>10. QED
  BY <1>3, <1>8, <1>9 DEF In, Code

\* A table of pages holds at least one that was touched: nobody takes one away.
Tabled ==
    \A r \in Regions : pmd[r].kind = "table" =>
        \E p \in Pages : RegionOf(p) = r /\ pte[p].kind = "page"

\* So no table is found in whole huge pages that were not touched.
LEMMA NoTableInside ==
    ASSUME Tabled, NEW lo \in Nat, NEW hi \in Nat, lo % Huge = 0, hi % Huge = 0,
           ~ Resident(lo, hi), NEW a \in Nat, lo <= a, a < hi, START <= a, a < END
    PROVE  ~ GetPte(a)
<1> DEFINE r == RegionOf(a)
<1>1. SUFFICES ASSUME pmd[r].kind = "table" PROVE FALSE
  BY DEF GetPte
<1>2. r \in Regions /\ r \in Nat /\ r % Huge = 0 /\ r <= a /\ a < r + Huge
  BY AddressFacts
<1> HIDE DEF r
<1>3. PICK p \in Pages : RegionOf(p) = r /\ pte[p].kind = "page"
  BY <1>1, <1>2 DEF Tabled
<1>4. p \in Nat /\ r <= p /\ p < r + Huge /\ PageOf(p) = p
  BY <1>3, PageFacts
<1>5. Present(p)
  BY <1>1, <1>3, <1>4 DEF Present
<1>6. Page \in Nat \ {0} /\ Huge \in Nat \ {0}
  BY VmAssumption
<1>7. lo <= r
  <2>1. SUFFICES ASSUME r < lo PROVE FALSE
    BY <1>2
  <2>2. r + Huge <= lo
    BY <1>2, <1>6, <2>1, GapMultiple
  <2>3. QED
    BY <1>2, <1>6, <2>2
<1>8. r + Huge <= hi
  <2>1. r < hi
    BY <1>2
  <2>2. QED
    BY <1>2, <1>6, <2>1, GapMultiple
<1>9. lo < p + Page /\ p < hi
  BY <1>2, <1>4, <1>6, <1>7, <1>8
<1>10. QED
  BY <1>5, <1>9 DEF Resident

\* The area after the one at k is not a huge one of that protection.
Unmerged(list, k, prot) ==
    k < Len(list) /\ list[k + 1].kind = HugeMap => list[k + 1].prot # prot

LEMMA TakenHeld ==
    ASSUME NEW list, Sorted(list), NEW i0, NEW k0, NEW lo \in Nat, NEW hi \in Nat,
           lo % Huge = 0, hi % Huge = 0, NEW prot \in Prots, NEW force \in BOOLEAN,
           Filling(list, i0, k0, lo, hi, prot, force),
           NEW i \in DOMAIN list,
           i = i0 \/ (i + 1 = i0 /\ Before(list[i], lo) /\ list[i].prot = prot),
           Unmerged(list, k0, prot), Tabled, ~ Resident(lo, hi)
    PROVE  Held(list, Taken(list, i, k0, lo, hi, prot), Outside(lo, hi))
<1> DEFINE x == [list[i] EXCEPT !.end = hi, !.kind = HugeMap]
           new == Replace(list, i, k0, <<x>>)
           S == Outside(lo, hi)
<1>1. /\ DOMAIN list = 1 .. Len(list) /\ Len(list) \in Nat /\ list # <<>> => list[1] = Dummy
      /\ \A a, b \in DOMAIN list : a < b => list[a].end <= list[b].start
      /\ \A a \in DOMAIN list : list[a] \in GoodAreas
  BY SortedFacts
<1>2. /\ \A a \in DOMAIN list : list[a].start \in Nat /\ list[a].end \in Nat
                                /\ list[a].start < list[a].end /\ START <= list[a].start
                                /\ list[a].end <= END /\ list[a] \in AreaType
  BY <1>1, AreaFacts
<1>3. i \in Nat /\ i0 \in Nat /\ k0 \in Nat /\ i0 \in DOMAIN list /\ k0 \in DOMAIN list
      /\ i0 <= k0 /\ k0 <= Len(list) /\ i >= 1 /\ i <= i0
  BY <1>1 DEF Filling
<1>4. list[i0].start = lo /\ list[k0].end = hi /\ list[i0].prot = prot
  BY DEF Filling
<1>5. list[i].prot = prot
  BY <1>4
<1>6. i >= 2
  <2>1. list # <<>>
    BY <1>1, <1>3, EmptySeq
  <2>2. list[1].prot = DUMMY /\ DUMMY \notin Prots
    BY <1>1, <2>1 DEF Dummy, Area, DUMMY, Prots, READ, READ_WRITE
  <2>3. i # 1
    BY <1>5, <2>2
  <2>4. QED
    BY <1>3, <2>3
<1>7. list[i].start % Huge = 0
  <2>1. CASE i = i0
    BY <1>4, <2>1
  <2>2. CASE Before(list[i], lo)
    BY <1>1, <2>2, AreaFacts DEF Before, Aligned
  <2>3. QED
    BY <2>1, <2>2
<1>8. ASSUME NEW j \in i0 .. k0
      PROVE  j \in DOMAIN list /\ lo <= list[j].start /\ list[j].end <= hi
  <2>1. j \in DOMAIN list /\ j \in Nat
    BY <1>1, <1>3
  <2>2. i0 = j \/ i0 < j
    BY <1>3, <2>1
  <2>3. i0 < j => list[i0].start < list[i0].end /\ list[i0].end <= list[j].start
    BY <1>1, <1>2, <1>3, <2>1
  <2>4. lo <= list[j].start
    BY <1>2, <1>3, <1>4, <2>1, <2>2, <2>3
  <2>5. j = k0 \/ j < k0
    BY <1>3, <2>1
  <2>6. j < k0 => list[j].end <= list[k0].start /\ list[k0].start < list[k0].end
    BY <1>1, <1>2, <1>3, <2>1
  <2>7. list[j].end <= hi
    BY <1>2, <1>3, <1>4, <2>1, <2>5, <2>6
  <2>8. QED
    BY <2>1, <2>4, <2>7
<1>9. list[i].start < hi /\ hi <= END /\ list[i].start <= lo /\ lo < hi
  <2>1. lo < hi
    <3>1. i0 \in i0 .. k0
      BY <1>3
    <3>2. lo < list[i0].end /\ list[i0].end <= hi
      BY <1>2, <1>3, <1>4, <1>8, <3>1
    <3>3. QED
      BY <1>2, <1>3, <3>2
  <2>2. list[i].start <= lo
    BY <1>2, <1>4 DEF Before
  <2>3. hi <= END
    BY <1>2, <1>3, <1>4
  <2>4. QED
    BY <1>2, <2>1, <2>2, <2>3
<1>10. /\ x \in AreaType /\ x.start = list[i].start /\ x.end = hi /\ x.prot = prot
       /\ x.kind = HugeMap
  BY <1>2, <1>5 DEF AreaType
<1>11. Heads(list[i], lo, hi, prot) = <<x>>
  <2>1. CASE i = i0
    <3>1. Starts(list[i], lo)
      BY <1>2, <1>4, <2>1 DEF Starts, Before
    <3>2. QED
      BY <3>1 DEF Heads
  <2>2. CASE Before(list[i], lo)
    BY <2>2 DEF Heads
  <2>3. QED
    BY <2>1, <2>2
<1> HIDE DEF x
<1>12. x \in GoodAreas
  <2>1. START <= x.start /\ x.start < x.end /\ x.end <= END
    BY <1>2, <1>9, <1>10
  <2>2. x.start % Huge = 0 /\ x.end % Huge = 0 /\ x.start \in Nat /\ x.end \in Nat
    BY <1>2, <1>7, <1>10
  <2>3. x.start % Page = 0 /\ x.end % Page = 0
    BY <2>2, HugeIsPages
  <2>4. x.kind # Unset
    BY <1>10 DEF Unset, HugeMap
  <2>5. QED
    BY <1>10, <2>1, <2>2, <2>3, <2>4 DEF GoodAreas, Aligned
<1>13. x.prot # DUMMY
  BY <1>10 DEF DUMMY, Prots, READ, READ_WRITE
<1>14. i \in 2 .. Len(list) + 1 /\ k0 \in i - 1 .. Len(list)
  BY <1>3, <1>6
<1>15. list[i - 1].end <= x.start
  <2>1. i - 1 \in DOMAIN list /\ i - 1 < i
    BY <1>1, <1>3, <1>6
  <2>2. QED
    BY <1>1, <1>10, <2>1
<1>16. k0 < Len(list) => x.end <= list[k0 + 1].start
  <2>1. k0 < Len(list) => k0 + 1 \in DOMAIN list /\ k0 < k0 + 1
    BY <1>1, <1>3
  <2>2. QED
    BY <1>1, <1>3, <1>4, <1>10, <2>1
<1>17. OneFits(list, i, k0, x)
  BY <1>12, <1>13, <1>14, <1>15, <1>16 DEF OneFits
<1>18. ASSUME NEW p \in S, NEW j \in i .. k0, Covers(list[j], p)
       PROVE  Covers(x, p) /\ x.prot = list[j].prot
  <2>1. p \in Nat /\ ~ (lo <= p /\ p < hi)
    BY VmAssumption DEF Outside, Pages
  <2>2. ~ (j \in i0 .. k0)
    <3>1. SUFFICES ASSUME j \in i0 .. k0 PROVE FALSE
      OBVIOUS
    <3>2. lo <= list[j].start /\ list[j].end <= hi /\ list[j].start \in Nat
          /\ list[j].end \in Nat
      BY <1>2, <1>8, <3>1
    <3>3. QED
      BY <1>18, <2>1, <3>2 DEF Covers
  <2>3. j = i /\ i + 1 = i0
    BY <1>3, <2>2
  <2>4. list[i].end = lo
    BY <1>3, <2>3 DEF Before
  <2>5. p < hi
    BY <1>2, <1>9, <1>18, <2>1, <2>3, <2>4 DEF Covers
  <2>6. QED
    BY <1>5, <1>10, <1>18, <2>3, <2>5 DEF Covers
<1>19. Sorted(new) /\ Keeps(list, new, S)
  BY <1>17, <1>18, OneHeld
<1>20. Taken(list, i, k0, lo, hi, prot)
         = IF MergesWrong(new, lo) THEN Broken(new, "freed")
           ELSE IF \E j \in i + 1 .. k0 : GetPte(list[j].start)
           THEN Broken(new, "null")
           ELSE Out(new, lo)
  BY <1>11 DEF Taken
<1>21. ASSUME NEW j \in i + 1 .. k0 PROVE ~ GetPte(list[j].start)
  <2>1. j \in i0 .. k0 /\ j \in DOMAIN list
    BY <1>1, <1>3, <1>8
  <2>2. /\ list[j].start \in Nat /\ lo <= list[j].start /\ list[j].end <= hi
        /\ list[j].start < list[j].end /\ list[j].end \in Nat
        /\ START <= list[j].start /\ list[j].end <= END
    BY <1>2, <1>8, <2>1
  <2>3. list[j].start < hi /\ list[j].start < END
    BY <2>2, VmAssumption
  <2>4. QED
    BY <2>2, <2>3, NoTableInside
<1>22. ~ MergesWrong(new, lo)
  <2>1. SUFFICES ASSUME NEW j \in 1 .. Len(new) - 1, Covers(new[j], lo),
                        new[j + 1].kind = HugeMap, new[j + 1].prot = new[j].prot
                 PROVE  FALSE
    BY DEF MergesWrong
  <2>2. list \in Seq(GoodAreas)
    BY SortedFacts
  <2>3. new \in Seq(GoodAreas) /\ OneAt(new, list, i, k0, x)
    BY <1>12, <1>14, <2>2, ReplaceByOne
  <2> HIDE DEF new
  <2>4. /\ Len(new) = Len(list) - k0 + i /\ DOMAIN new = 1 .. Len(new)
        /\ \A m \in 1 .. Len(new) :
              new[m] = IF m < i THEN list[m] ELSE IF m = i THEN x ELSE list[m + k0 - i]
    BY <2>3, LenProperties DEF OneAt
  <2>5. i \in DOMAIN new /\ j \in DOMAIN new /\ new[i] = x
    BY <1>1, <1>3, <2>4
  <2>6. Covers(new[i], lo)
    BY <1>2, <1>9, <1>10, <2>5 DEF Covers
  <2>7. j = i
    BY <1>19, <2>1, <2>5, <2>6, Disjoint DEF new
  <2>8. new[i + 1] = list[k0 + 1] /\ k0 < Len(list)
    <3>1. Len(new) \in Nat /\ i + 1 <= Len(new)
      BY <1>1, <1>3, <2>1, <2>4, <2>7
    <3>2. i + 1 \in 1 .. Len(new) /\ ~ (i + 1 < i) /\ i + 1 # i /\ (i + 1) + k0 - i = k0 + 1
      BY <1>3, <3>1
    <3>3. new[i + 1] = list[k0 + 1]
      BY <2>4, <3>2
    <3>4. k0 < Len(list)
      BY <1>1, <1>3, <2>4, <3>1
    <3>5. QED
      BY <3>3, <3>4
  <2>9. QED
    BY <1>10, <2>1, <2>5, <2>7, <2>8 DEF Unmerged
<1> HIDE DEF new, S
<1>23. Held(list, Out(new, lo), S)
  BY <1>19, HeldOut
<1>24. QED
  BY <1>20, <1>21, <1>22, <1>23 DEF S

Touched == {p \in Pages : Present(p)}

LEMMA TouchedOutside ==
    ASSUME NEW lo, NEW hi, ~ Resident(lo, hi) PROVE Touched \subseteq Outside(lo, hi)
  BY DEF Resident, Touched, Outside

LEMMA MakeHeld ==
    ASSUME Sorted(areas), NEW addr \in Nat, NEW length \in Nat, NEW prot \in Prots,
           NEW force \in BOOLEAN, MakeUses(addr, length, prot, force) = {}, Tabled
    PROVE  Held(areas, MakeResult(addr, length, prot, force), Touched)
<1> DEFINE lo == RoundUp(addr, Huge)
           hi == lo + IF length % Huge = 0 THEN length ELSE length \div Huge
           i == FirstTaker(areas, lo)
           res == MakeResult(addr, length, prot, force)
           early == length = 0 \/ addr < START \/ addr + length > END
           none == \A j \in DOMAIN areas : ~ Takes(areas[j], lo)
<1>1. lo \in Nat /\ lo % Huge = 0 /\ addr <= lo
  BY VmAssumption, Rounded
<1>2. res = IF early THEN Out(areas, - EINVAL)
            ELSE IF none THEN Broken(areas, "null")
            ELSE IF Before(areas[i], lo)
            THEN IF i < Len(areas) /\ areas[i + 1].start = lo
                 THEN Absorb(areas, i, lo, hi, prot, force)
                 ELSE Out(areas, - ENOMAPPING)
            ELSE IF areas[i].kind = HugeMap THEN Out(areas, - EVMAOCCUPIED)
            ELSE IF Starts(areas[i], lo) /\ areas[i].end = hi
            THEN Taken(areas, i, i, lo, hi, prot)
            ELSE IF Holds(areas[i], lo) /\ ~ force /\ areas[i].prot # prot
            THEN Out(areas, - EDIFFPROT)
            ELSE Absorb(areas, i, lo, hi, prot, force)
  BY DEF MakeResult, FirstTaker, Takes
<1> HIDE DEF lo
<1>3. - EINVAL \in Int /\ - EVMAOCCUPIED \in Int
  BY DEF EINVAL, EVMAOCCUPIED
<1>4. CASE early
  <2>1. res = Out(areas, - EINVAL)
    BY <1>2, <1>4
  <2> HIDE DEF res
  <2>2. Held(areas, res, Touched)
    BY <1>3, <2>1, KeepsRefl, HeldOut
  <2>3. QED
    BY <2>2 DEF res
<1>5. CASE /\ ~ early
           /\ \E j \in DOMAIN areas : /\ areas[j].kind = HugeMap /\ Covers(areas[j], lo)
                                      /\ ~ (j > 1 /\ Before(areas[j - 1], lo))
  <2>1. PICK j \in DOMAIN areas : /\ areas[j].kind = HugeMap /\ Covers(areas[j], lo)
                                  /\ ~ (j > 1 /\ Before(areas[j - 1], lo))
    BY <1>5
  <2>2. /\ Takes(areas[j], lo) /\ ~ Before(areas[j], lo)
        /\ i = j \/ (j > 1 /\ i = j - 1 /\ Before(areas[i], lo) /\ areas[j].start = lo)
    BY <1>1, <2>1, FirstTakes
  <2>3. i = j
    BY <2>1, <2>2
  <2>4. ~ none
    BY <2>2
  <2> HIDE DEF i, none, hi
  <2>5. res = Out(areas, - EVMAOCCUPIED)
    BY <1>2, <1>5, <2>1, <2>2, <2>3, <2>4
  <2> HIDE DEF res
  <2>6. Held(areas, res, Touched)
    BY <1>3, <2>5, KeepsRefl, HeldOut
  <2>7. QED
    BY <2>6 DEF res
<1>6. CASE ~ early /\ length % Huge = 0 /\ Whole(lo, lo + length, prot, force)
  <2>1. hi = lo + length /\ length > 0
    BY <1>6
  <2>2. hi \in Nat /\ hi % Huge = 0 /\ lo < hi
    <3>1. (lo + length) % Huge = 0
      BY <1>1, <1>6, VmAssumption, SumMultiple
    <3>2. QED
      BY <1>1, <2>1, <3>1
  <2>3. ~ Resident(lo, hi)
    BY <1>6, <2>1 DEF Whole
  <2>4. PICK i0, k0 \in DOMAIN areas : /\ Filling(areas, i0, k0, lo, hi, prot, force)
                                       /\ Unmerged(areas, k0, prot)
    BY <1>6, <2>1 DEF Whole, Filling, Unmerged
  <2>5. \A j \in DOMAIN areas : areas[j].kind = HugeMap /\ areas[j].end = lo
                                  => areas[j].prot = prot
    BY <1>6 DEF Whole
  <2>6. DOMAIN areas = 1 .. Len(areas) /\ Len(areas) \in Nat /\ areas[i0] \in GoodAreas
        /\ areas[k0] \in GoodAreas
    BY SortedFacts
  <2>7. areas[i0].start = lo /\ areas[i0].start < areas[i0].end /\ areas[i0].end \in Nat
        /\ areas[i0].kind = Normal /\ i0 <= k0 /\ areas[k0].end = hi
    <3>1. i0 \in i0 .. k0
      BY <2>4, <2>6 DEF Filling
    <3>2. QED
      BY <2>4, <2>6, <3>1, AreaFacts DEF Filling
  <2>8. Covers(areas[i0], lo)
    BY <1>1, <2>7 DEF Covers
  <2>9. /\ i \in DOMAIN areas /\ Takes(areas[i0], lo) /\ ~ Before(areas[i0], lo)
        /\ i = i0 \/ (i0 > 1 /\ i = i0 - 1 /\ Before(areas[i], lo) /\ areas[i0].start = lo)
    BY <1>1, <2>8, FirstTakes
  <2>10. ~ none
    BY <2>9
  <2> HIDE DEF i, hi, none
  <2>11. i0 \in Nat /\ k0 \in Nat /\ i \in Nat
    BY <2>6, <2>9
  <2>12. Held(areas, Taken(areas, i, k0, lo, hi, prot), Outside(lo, hi))
    <3>1. i = i0 \/ (i + 1 = i0 /\ Before(areas[i], lo) /\ areas[i].prot = prot)
      BY <2>5, <2>9, <2>11 DEF Before
    <3>2. QED
      BY <1>1, <2>2, <2>3, <2>4, <2>9, <3>1, TakenHeld
  <2>13. ASSUME i < k0, i = i0 \/ (i + 1 = i0 /\ areas[i].end = lo)
         PROVE  Absorb(areas, i, lo, hi, prot, force) = Taken(areas, i, k0, lo, hi, prot)
    <3>1. /\ StopAt(areas, i, lo, hi, prot, force) = k0
          /\ Inside(areas[k0], lo, hi) /\ Refusal(areas, k0, prot, force) = 0
      BY <1>1, <2>2, <2>4, <2>9, <2>13, StopsThere
    <3>2. ~ (k0 > Len(areas))
      BY <2>6
    <3>3. QED
      BY <3>1, <3>2 DEF Absorb
  <2>14. ASSUME i = i0 PROVE Held(areas, res, Outside(lo, hi))
    <3>1. Starts(areas[i], lo) /\ ~ Before(areas[i], lo) /\ ~ Holds(areas[i], lo)
      BY <1>1, <2>7, <2>9, <2>14 DEF Starts, Holds
    <3>2. areas[i].kind # HugeMap
      BY <2>7, <2>14 DEF Normal, HugeMap
    <3>3. res = IF areas[i].end = hi THEN Taken(areas, i, i, lo, hi, prot)
                ELSE Absorb(areas, i, lo, hi, prot, force)
      BY <1>2, <1>6, <2>10, <3>1, <3>2
    <3>4. areas[i].end = hi => i = k0
      <4>1. SUFFICES ASSUME areas[i].end = hi, i0 < k0 PROVE FALSE
        BY <2>7, <2>11, <2>14
      <4>2. areas[i0].end <= areas[k0].start
        BY <4>1, SortedFacts
      <4>3. areas[k0].start < areas[k0].end /\ areas[k0].start \in Nat /\ areas[k0].end \in Nat
        BY <2>6, AreaFacts
      <4>4. QED
        BY <2>7, <2>14, <4>1, <4>2, <4>3
    <3>5. areas[i].end # hi => i < k0
      BY <2>7, <2>11, <2>14
    <3>6. QED
      BY <2>12, <2>13, <2>14, <3>3, <3>4, <3>5
  <2>15. ASSUME i0 > 1 /\ i = i0 - 1 /\ Before(areas[i], lo) /\ areas[i0].start = lo
         PROVE  Held(areas, res, Outside(lo, hi))
    <3>1. i < Len(areas) /\ i + 1 = i0 /\ i < k0
      BY <2>6, <2>7, <2>11, <2>15
    <3>2. res = Absorb(areas, i, lo, hi, prot, force)
      BY <1>2, <1>6, <2>10, <2>15, <3>1
    <3>3. areas[i].end = lo
      BY <2>15 DEF Before
    <3>4. QED
      BY <2>12, <2>13, <3>1, <3>2, <3>3
  <2> HIDE DEF res
  <2>16. Held(areas, res, Outside(lo, hi))
    BY <2>9, <2>14, <2>15
  <2>17. Held(areas, res, Touched)
    BY <2>3, <2>16, TouchedOutside, HeldLess
  <2>18. QED
    BY <2>17 DEF res
<1>7. early \/ (length % Huge = 0 /\ Whole(lo, lo + length, prot, force))
      \/ \E j \in DOMAIN areas : /\ areas[j].kind = HugeMap /\ Covers(areas[j], lo)
                                 /\ ~ (j > 1 /\ Before(areas[j - 1], lo))
  <2>1. "make_any" \notin MakeUses(addr, length, prot, force)
    OBVIOUS
  <2>2. ~ (/\ length # 0 /\ START <= addr /\ addr + length <= END
           /\ ~ (length % Huge = 0 /\ Whole(lo, lo + length, prot, force))
           /\ \A j \in DOMAIN areas :
                 areas[j].kind = HugeMap /\ Covers(areas[j], lo) =>
                     j > 1 /\ Before(areas[j - 1], lo))
    BY <2>1 DEF MakeUses, lo
  <2>3. ~ early => length # 0 /\ START <= addr /\ addr + length <= END
    BY VmAssumption
  <2>4. QED
    BY <2>2, <2>3
<1>8. QED
  BY <1>4, <1>5, <1>6, <1>7
-----------------------------------------------------------------------------
(* break_hugepage.                                                          *)

LEMMA BreakPieces ==
    ASSUME NEW x \in GoodAreas, NEW lo \in Nat, NEW hi \in Nat, lo % Huge = 0,
           x.end <= hi, x.kind = HugeMap => lo < x.end /\ x.prot # DUMMY
    PROVE  /\ Pieces(x, BreakArea(x, lo, hi)) /\ KeptIn(x, BreakArea(x, lo, hi), Pages)
           /\ x.kind = Normal => BreakArea(x, lo, hi) = <<x>>
<1> DEFINE b == BreakArea(x, lo, hi)
<1>1. /\ x.start \in Nat /\ x.end \in Nat /\ START <= x.start /\ x.start < x.end
      /\ x.end <= END /\ x.start % Page = 0 /\ x.end % Page = 0
      /\ (x.kind = HugeMap => x.start % Huge = 0 /\ x.end % Huge = 0)
      /\ x \in AreaType /\ x.kind \in {Normal, HugeMap}
  BY AreaFacts DEF Aligned
<1>2. ~ (x.end > hi) /\ Normal # HugeMap /\ Normal # Unset /\ HugeMap # Unset
  BY <1>1 DEF Normal, HugeMap, Unset
<1>3. CASE x.kind = Normal
  <2>1. b = <<x>>
    BY <1>3 DEF BreakArea
  <2>2. QED
    BY <2>1, PieceSelf
<1>4. CASE x.kind = HugeMap /\ x.start >= lo
  <2> DEFINE y == [x EXCEPT !.kind = Normal]
             w == <<y>>
  <2>1. b = w
    BY <1>2, <1>4 DEF BreakArea
  <2>2. /\ y \in AreaType /\ y.start = x.start /\ y.end = x.end /\ y.prot = x.prot
        /\ y.kind = Normal
    BY <1>1 DEF AreaType
  <2> HIDE DEF y
  <2>3. y \in GoodAreas
    <3>1. START <= y.start /\ y.start < y.end /\ y.end <= END
      BY <1>1, <2>2
    <3>2. QED
      BY <1>1, <2>2, <3>1, NormalGood
  <2>4. PieceOf(x, y)
    BY <1>1, <2>2, <2>3 DEF PieceOf
  <2>5. 1 \in DOMAIN w /\ w[1] = y
    OBVIOUS
  <2>6. \A p \in Pages : Covers(x, p) => Covers(y, p)
    BY <2>2 DEF Covers
  <2> HIDE DEF w, b
  <2>7. KeptIn(x, b, Pages)
    BY <2>1, <2>5, <2>6 DEF KeptIn
  <2>8. Pieces(x, b)
    BY <2>1, <2>4, PieceOne DEF w
  <2>9. QED
    BY <1>2, <1>4, <2>7, <2>8 DEF b
<1>5. CASE x.kind = HugeMap /\ x.start < lo
  <2> DEFINE y == [x EXCEPT !.end = lo]
             z == [x EXCEPT !.start = lo, !.kind = Normal]
             w == <<y, z>>
  <2>1. b = w
    BY <1>1, <1>2, <1>5 DEF BreakArea
  <2>2. /\ y \in AreaType /\ y.start = x.start /\ y.end = lo /\ y.prot = x.prot
        /\ y.kind = HugeMap
    BY <1>1, <1>5 DEF AreaType
  <2>3. /\ z \in AreaType /\ z.start = lo /\ z.end = x.end /\ z.prot = x.prot
        /\ z.kind = Normal
    BY <1>1 DEF AreaType
  <2>4. lo < x.end /\ x.prot # DUMMY /\ lo % Page = 0
    BY <1>5, HugeIsPages
  <2> HIDE DEF y, z
  <2>5. z \in GoodAreas
    <3>1. START <= z.start /\ z.start < z.end /\ z.end <= END
      BY <1>1, <1>5, <2>3, <2>4, VmAssumption
    <3>2. QED
      BY <1>1, <2>3, <2>4, <3>1, NormalGood
  <2>6. y \in GoodAreas
    <3>1. START <= y.start /\ y.start < y.end /\ y.end <= END
      BY <1>1, <1>5, <2>2, <2>4, VmAssumption
    <3>2. y.kind # Unset /\ y.start % Huge = 0 /\ y.end % Huge = 0
      BY <1>1, <1>2, <1>5, <2>2
    <3>3. QED
      BY <1>1, <2>2, <2>4, <3>1, <3>2 DEF GoodAreas, Aligned
  <2>7. PieceOf(x, y) /\ PieceOf(x, z)
    BY <1>1, <1>5, <2>2, <2>3, <2>4, <2>5, <2>6 DEF PieceOf
  <2>8. <<y, z>> \in Apart
    BY <2>2, <2>3, <2>4, <2>5, <2>6 DEF Apart
  <2>9. w \in Seq(GoodAreas) /\ DOMAIN w = 1 .. 2 /\ w[1] = y /\ w[2] = z
    BY <2>5, <2>6
  <2> HIDE DEF w, b
  <2>10. \A m \in DOMAIN w : m = 1 \/ m = 2
    BY <2>9
  <2>11. \A m, k \in DOMAIN w : m < k => m = 1 /\ k = 2
    BY <2>9
  <2>12. Ordered(w, GoodAreas, Apart)
    BY <2>8, <2>9, <2>11 DEF Ordered
  <2>13. Pieces(x, w)
    BY <2>7, <2>9, <2>10, <2>12 DEF Pieces
  <2>14. KeptIn(x, w, Pages)
    <3>1. \A p \in Pages : Covers(x, p) => Covers(y, p) \/ Covers(z, p)
      BY <1>1, <2>2, <2>3, VmAssumption DEF Covers, Pages
    <3>2. QED
      BY <2>9, <3>1 DEF KeptIn
  <2>15. QED
    BY <1>2, <1>5, <2>1, <2>13, <2>14 DEF b
<1>6. QED
  <2> HIDE DEF b
  <2>1. x.kind = Normal \/ (x.kind = HugeMap /\ x.start >= lo)
        \/ (x.kind = HugeMap /\ x.start < lo)
    BY <1>1
  <2>2. QED
    BY <1>3, <1>4, <1>5, <2>1, Zenon DEF b

\* merger, step by step.
LEMMA MergerSteps ==
    ASSUME NEW list \in Seq(GoodAreas), list # <<>>
    PROVE  \E f : /\ f[1] = <<list[1]>> /\ f[Len(list)] = Merger(list)
                  /\ \A i \in 2 .. Len(list) : f[i] = Merge(f[i - 1], list[i])
<1> DEFINE n == Len(list)
           S == {s \in Seq(AreaType) : s # <<>>}
           first == <<list[1]>>
           step(i, t) == Merge(t, list[i])
           F == [x \in (2 .. n) \X S |-> step(x[1], x[2])]
           body(g) == [i \in 1 .. n |-> IF i = 1 THEN <<list[1]>> ELSE step(i, g[i - 1])]
           merged == CHOOSE g : g = body(g)
<1>1. n \in Nat \ {0} /\ \A i \in 1 .. n : list[i] \in AreaType
  BY LenProperties, ElementOfSeq, EmptySeq DEF GoodAreas
<1>2. Merger(list) = merged[n]
  BY <1>1 DEF Merger
<1>3. \A i \in 2 .. n, t \in S : step(i, t) \in S
  <2> SUFFICES ASSUME NEW i \in 2 .. n, NEW t \in S PROVE Merge(t, list[i]) \in S
    OBVIOUS
  <2> DEFINE area == list[i]
  <2>1. area \in AreaType
    BY <1>1
  <2>2. Len(t) \in Nat \ {0} /\ t \in Seq(AreaType) /\ Len(t) \in 1 .. Len(t)
    BY LenProperties, EmptySeq
  <2> HIDE DEF area
  <2>3. t[Len(t)] \in AreaType
    BY <2>2, ElementOfSeq
  <2> DEFINE x == [t[Len(t)] EXCEPT !.end = area.end]
             u == [t EXCEPT ![Len(t)] = x]
  <2>4. x \in AreaType
    BY <2>1, <2>3 DEF AreaType
  <2>5. [t EXCEPT ![Len(t)].end = area.end] = u
    BY <2>2
  <2> HIDE DEF x
  <2>6. u \in Seq(AreaType) /\ Len(u) = Len(t)
    BY <2>2, <2>4, ExceptSeq
  <2>7. u # <<>>
    BY <2>2, <2>6, EmptySeq
  <2>8. Append(t, area) \in S
    BY <2>1, <2>2, AppendProperties
  <2>9. Merge(t, area) \in {u, Append(t, area)}
    BY <2>5 DEF Merge
  <2> HIDE DEF u
  <2>10. QED
    BY <2>6, <2>7, <2>8, <2>9 DEF area
<1>4. first \in S
  <2>1. list[1] \in AreaType
    BY <1>1
  <2>2. first \in Seq(AreaType) /\ Len(first) = 1
    BY <2>1
  <2>3. Len(<<>>) = 0
    BY EmptySeq
  <2> HIDE DEF first
  <2>4. first = <<>> => Len(first) = 0
    BY <2>3, Zenon
  <2>5. QED
    BY <2>2, <2>4
<1> HIDE DEF n, step, S
<1>5. F \in [(2 .. n) \X S -> S]
  BY <1>1, <1>3
<1>6. \A i \in 2 .. n, t \in S : F[<<i, t>>] = step(i, t)
  OBVIOUS
<1>7. \A g : /\ DOMAIN body(g) = 1 .. n /\ body(g)[1] = first
             /\ \A i \in 2 .. n : body(g)[i] = step(i, g[i - 1])
  BY <1>1
<1> HIDE DEF F, first
<1>8. PICK f \in StepsBy(n, S, first, F) : TRUE
  BY <1>1, <1>4, <1>5, StepsExist
<1>9. f \in [1 .. n -> S] /\ f[1] = first /\ \A i \in 2 .. n : f[i] = F[<<i, f[i - 1]>>]
  BY <1>8 DEF StepsBy
<1>10. \A i \in 2 .. n : f[i] = step(i, f[i - 1])
  <2> TAKE i \in 2 .. n
  <2>1. i - 1 \in 1 .. n
    BY <1>1
  <2>2. QED
    BY <1>6, <1>9, <2>1
<1>11. f = body(f)
  <2>1. \A i \in 1 .. n : f[i] = IF i = 1 THEN first ELSE step(i, f[i - 1])
    <3> TAKE i \in 1 .. n
    <3>1. i # 1 => i \in 2 .. n
      BY <1>1
    <3>2. QED
      BY <1>9, <1>10, <3>1
  <2>2. f = [i \in 1 .. n |-> f[i]]
    BY <1>9
  <2>3. QED
    BY <2>1, <2>2 DEF first
<1> HIDE DEF body
<1>12. merged = body(merged)
  BY <1>11, Zenon
<1> HIDE DEF merged
<1>13. merged[1] = f[1]
  BY <1>7, <1>9, <1>12
<1>14. \A i \in 2 .. n : merged[i] = step(i, merged[i - 1])
  BY <1>7, <1>12
<1>15. SameSteps(merged, f, n)
  BY <1>10, <1>13, <1>14 DEF SameSteps
<1>16. f[n] = Merger(list)
  BY <1>1, <1>2, <1>15, StepsUnique
<1>17. \A i \in 2 .. n : f[i] = Merge(f[i - 1], list[i])
  BY <1>10 DEF step
<1>18. QED
  BY <1>9, <1>16, <1>17 DEF n, first

LEMMA AppendIsReplace ==
    ASSUME NEW E, NEW list \in Seq(E), NEW x \in E
    PROVE  Append(list, x) = Replace(list, Len(list) + 1, Len(list), <<x>>)
<1> DEFINE n == Len(list)
           a == Append(list, x)
           b == Replace(list, n + 1, n, <<x>>)
<1>1. n \in Nat
  BY LenProperties
<1>2. /\ a \in Seq(E) /\ Len(a) = n + 1 /\ \A m \in 1 .. n : a[m] = list[m]
      /\ a[n + 1] = x
  BY AppendProperties
<1>3. b \in Seq(E) /\ OneAt(b, list, n + 1, n, x)
  <2>1. n + 1 \in 1 .. Len(list) + 1 /\ n \in (n + 1) - 1 .. Len(list)
    BY <1>1
  <2>2. QED
    BY <2>1, ReplaceByOne
<1> HIDE DEF a, b
<1>4. Len(b) = n + 1
  BY <1>1, <1>3 DEF OneAt
<1>5. ASSUME NEW m \in 1 .. n + 1 PROVE a[m] = b[m]
  <2>1. m \in 1 .. Len(list) - n + (n + 1)
    BY <1>1
  <2>2. b[m] = IF m < n + 1 THEN list[m] ELSE IF m = n + 1 THEN x ELSE list[m + n - (n + 1)]
    BY <1>3, <2>1 DEF OneAt
  <2>3. CASE m < n + 1
    <3>1. m \in 1 .. n
      BY <1>1, <2>3
    <3>2. QED
      BY <1>2, <2>2, <2>3, <3>1
  <2>4. CASE m = n + 1
    BY <1>1, <1>2, <2>2, <2>4
  <2>5. m < n + 1 \/ m = n + 1
    BY <1>1
  <2>6. QED
    BY <2>3, <2>4, <2>5, Zenon
<1>6. a = b
  BY <1>2, <1>3, <1>4, <1>5, SeqEqual
<1>7. QED
  BY <1>6 DEF a, b
\* new has an area that covers what area covers.
Has(new, area) ==
    \E j \in DOMAIN new :
        new[j].start <= area.start /\ area.end <= new[j].end /\ new[j].prot = area.prot

MergedTo(done, area, new) ==
    /\ Grown(done, new) /\ new # <<>> /\ Has(new, area)
    /\ new[Len(new)].end = area.end

LEMMA MergeGrown ==
    ASSUME NEW done, Sorted(done), done # <<>>, NEW area \in GoodAreas, area.prot # DUMMY,
           done[Len(done)].end <= area.start
    PROVE  MergedTo(done, area, Merge(done, area))
<1> DEFINE L == Len(done)
           last == done[L]
           joins == last.end = area.start /\ last.kind = area.kind /\ last.prot = area.prot
           new == Merge(done, area)
<1>1. /\ done \in Seq(GoodAreas) /\ L \in Nat /\ DOMAIN done = 1 .. L
      /\ 1 \in DOMAIN done /\ done[1] = Dummy
      /\ \A i \in DOMAIN done : done[i] \in GoodAreas
      /\ \A i, j \in DOMAIN done : i < j => done[i].end <= done[j].start
  BY SortedFacts
<1>2. L \in DOMAIN done /\ last \in GoodAreas
  BY <1>1
<1>3. /\ last.start \in Nat /\ last.end \in Nat /\ START <= last.start /\ last.start < last.end
      /\ last.start % Page = 0 /\ (last.kind = HugeMap => last.start % Huge = 0)
      /\ last \in AreaType /\ last.kind # Unset
  BY <1>2, AreaFacts DEF Aligned, Unset, Normal, HugeMap
<1>4. /\ area.start \in Nat /\ area.end \in Nat /\ area.start < area.end /\ area.end <= END
      /\ area.end % Page = 0 /\ (area.kind = HugeMap => area.end % Huge = 0)
  BY AreaFacts DEF Aligned
<1>5. CASE joins
  <2> DEFINE x == [last EXCEPT !.end = area.end]
             u == [done EXCEPT ![L] = x]
  <2>1. L >= 2
    <3>1. L # 1
      BY <1>1, <1>5 DEF Dummy, Area
    <3>2. QED
      BY <1>1, <3>1
  <2>2. /\ x \in AreaType /\ x.start = last.start /\ x.end = area.end /\ x.prot = last.prot
        /\ x.kind = last.kind
    BY <1>3, <1>4 DEF AreaType
  <2>3. new = u
    BY <1>1, <1>5 DEF Merge
  <2> HIDE DEF x
  <2>4. x \in GoodAreas
    <3>1. START <= x.start /\ x.start < x.end /\ x.end <= END
      BY <1>3, <1>4, <1>5, <2>2
    <3>2. x.kind = HugeMap => x.start % Huge = 0 /\ x.end % Huge = 0
      BY <1>3, <1>4, <1>5, <2>2
    <3>3. QED
      BY <1>3, <1>4, <2>2, <3>1, <3>2 DEF GoodAreas, Aligned
  <2>5. u \in Seq(GoodAreas) /\ Len(u) = L
    BY <1>1, <1>2, <2>4, ExceptSeq
  <2>6. u = Replace(done, L, L, <<x>>)
    BY <1>1, <1>2, <2>4, ExceptIsReplace
  <2>7. done[L - 1].end <= x.start
    <3>1. L - 1 \in DOMAIN done /\ L - 1 < L
      BY <1>1, <2>1
    <3>2. QED
      BY <1>1, <1>2, <2>2, <3>1
  <2>8. OneFits(done, L, L, x)
    <3>1. L \in 2 .. Len(done) + 1 /\ L \in L - 1 .. Len(done) /\ ~ (L < Len(done))
      BY <1>1, <2>1
    <3>2. x.prot # DUMMY
      BY <1>5, <2>2
    <3>3. QED
      BY <2>4, <2>7, <3>1, <3>2 DEF OneFits
  <2>9. OneCovers(done, L, L, x)
    <3>1. \A j \in L .. L : j = L
      <4>1. L \in Nat
        BY <1>1
      <4> HIDE DEF L
      <4>2. QED
        BY <4>1
    <3>2. last.end <= x.end
      BY <1>3, <1>4, <1>5, <2>2
    <3>3. QED
      BY <1>3, <2>2, <3>1, <3>2 DEF OneCovers
  <2> HIDE DEF L
  <2>10. Grown(done, u) /\ L \in DOMAIN u /\ u[L] = x
    BY <2>6, <2>8, <2>9, OneGrown
  <2> HIDE DEF u
  <2>11. Has(u, area)
    <3>1. x.start <= area.start /\ area.end <= x.end /\ x.prot = area.prot
      BY <1>3, <1>4, <1>5, <2>2
    <3>2. QED
      BY <2>10, <3>1 DEF Has
  <2>12. u # <<>>
    BY <2>10, EmptySeq
  <2>13. u[Len(u)].end = area.end
    BY <2>2, <2>5, <2>10
  <2>14. QED
    BY <2>3, <2>10, <2>11, <2>12, <2>13 DEF MergedTo
<1>6. CASE ~ joins
  <2> DEFINE u == Append(done, area)
  <2>1. new = u
    BY <1>6 DEF Merge
  <2>2. u = Replace(done, L + 1, L, <<area>>)
    BY <1>1, AppendIsReplace
  <2>3. u # <<>> /\ Len(u) = L + 1
    BY <1>1, AppendProperties
  <2>4. OneFits(done, L + 1, L, area)
    <3>1. L + 1 \in 2 .. Len(done) + 1 /\ L \in (L + 1) - 1 .. Len(done) /\ ~ (L < Len(done))
          /\ (L + 1) - 1 = L
      BY <1>1
    <3>2. QED
      BY <3>1 DEF OneFits
  <2>5. OneCovers(done, L + 1, L, area)
    <3>1. L + 1 .. L = {}
      BY <1>1
    <3>2. QED
      BY <3>1 DEF OneCovers
  <2> HIDE DEF L
  <2>6. Grown(done, u) /\ L + 1 \in DOMAIN u /\ u[L + 1] = area
    BY <2>2, <2>4, <2>5, OneGrown
  <2> HIDE DEF u
  <2>7. Has(u, area)
    BY <1>4, <2>6 DEF Has
  <2>8. u[Len(u)].end = area.end
    BY <2>3, <2>6
  <2>9. QED
    BY <2>1, <2>3, <2>6, <2>7, <2>8 DEF MergedTo
<1>7. QED
  BY <1>5, <1>6

\* What new says of the areas 1 .. n of list.
KeepsFirst(list, n, new) ==
    \A p \in Pages : \A i \in 1 .. n : Covers(list[i], p) =>
        \E j \in DOMAIN new : Covers(new[j], p) /\ new[j].prot = list[i].prot

LEMMA MergerGrown ==
    ASSUME NEW list, Sorted(list), list # <<>>
    PROVE  Grown(list, Merger(list))
<1> DEFINE n == Len(list)
<1>1. /\ list \in Seq(GoodAreas) /\ n \in Nat \ {0} /\ DOMAIN list = 1 .. n
      /\ list[1] = Dummy /\ 1 \in DOMAIN list
      /\ \A i \in DOMAIN list : list[i] \in GoodAreas
      /\ \A i, j \in DOMAIN list : i < j => list[i].end <= list[j].start /\ list[j].prot # DUMMY
  BY SortedFacts, EmptySeq
<1>2. PICK f : /\ f[1] = <<list[1]>> /\ f[n] = Merger(list)
               /\ \A i \in 2 .. n : f[i] = Merge(f[i - 1], list[i])
  BY <1>1, MergerSteps
<1> HIDE DEF n
<1> DEFINE P(m) == /\ Sorted(f[m]) /\ f[m] # <<>>
                   /\ f[m][Len(f[m])].end = list[m].end
                   /\ KeepsFirst(list, m, f[m])
           Bad == {m \in 1 .. n : ~ P(m)}
<1>3. P(1)
  <2> DEFINE w == <<Dummy>>
  <2>1. f[1] = w
    BY <1>1, <1>2
  <2>2. Dummy \in GoodAreas
    BY DummyGood
  <2>3. Ordered(w, GoodAreas, Apart) /\ w[1] = Dummy /\ Len(w) = 1 /\ DOMAIN w = 1 .. 1
    BY <2>2, OneOrdered
  <2>4. w # <<>>
    <3>1. Len(<<>>) = 0
      BY EmptySeq
    <3>2. QED
      BY <2>3, <3>1
  <2> HIDE DEF w
  <2>5. KeepsFirst(list, 1, w)
    <3>1. \A i \in 1 .. 1 : i = 1
      OBVIOUS
    <3>2. QED
      BY <1>1, <2>3, <3>1 DEF KeepsFirst
  <2>6. QED
    BY <1>1, <2>1, <2>3, <2>4, <2>5 DEF Sorted
<1>4. ASSUME NEW m \in 2 .. n, P(m - 1) PROVE P(m)
  <2> DEFINE done == f[m - 1]
             area == list[m]
             new == Merge(done, area)
  <2>1. m \in DOMAIN list /\ m - 1 \in DOMAIN list /\ m - 1 < m /\ 1 < m /\ m \in Nat
    BY <1>1
  <2>2. f[m] = new
    BY <1>2
  <2>3. area \in GoodAreas /\ area.prot # DUMMY /\ list[m - 1].end <= area.start
    BY <1>1, <2>1
  <2>4. Sorted(done) /\ done # <<>> /\ done[Len(done)].end <= area.start
        /\ KeepsFirst(list, m - 1, done)
    BY <1>4, <2>3
  <2> HIDE DEF P, done
  <2>5. MergedTo(done, area, new)
    BY <2>3, <2>4, MergeGrown
  <2> HIDE DEF new
  <2>6. Sorted(new) /\ Keeps(done, new, Pages) /\ new # <<>> /\ Has(new, area)
        /\ new[Len(new)].end = area.end
    BY <2>5 DEF MergedTo, Grown
  <2>7. KeepsFirst(list, m, new)
    <3> SUFFICES ASSUME NEW p \in Pages, NEW i \in 1 .. m, Covers(list[i], p)
                 PROVE  \E j \in DOMAIN new : Covers(new[j], p) /\ new[j].prot = list[i].prot
      BY DEF KeepsFirst
    <3>1. CASE i = m
      <4>1. PICK j \in DOMAIN new : new[j].start <= area.start /\ area.end <= new[j].end
                                    /\ new[j].prot = area.prot
        BY <2>6 DEF Has
      <4>2. new[j] \in GoodAreas
        BY <2>6, <4>1, SortedFacts
      <4>3. new[j].start \in Nat /\ new[j].end \in Nat /\ area.start \in Nat /\ area.end \in Nat
            /\ p \in Nat
        BY <2>3, <4>2, AreaFacts, VmAssumption DEF Pages
      <4>4. area.start <= p /\ p < area.end
        BY <3>1 DEF Covers
      <4> HIDE DEF area
      <4>5. Covers(new[j], p)
        BY <4>1, <4>3, <4>4 DEF Covers
      <4>6. QED
        BY <3>1, <4>1, <4>5 DEF area
    <3>2. CASE i # m
      <4>1. i \in 1 .. m - 1
        BY <2>1, <3>2
      <4>2. PICK k \in DOMAIN done : Covers(done[k], p) /\ done[k].prot = list[i].prot
        BY <2>4, <4>1 DEF KeepsFirst
      <4>3. QED
        BY <2>6, <4>2 DEF Keeps
    <3>3. QED
      BY <3>1, <3>2
  <2>8. QED
    BY <2>2, <2>6, <2>7 DEF P
<1> HIDE DEF P
<1>5. Bad = {}
  <2> SUFFICES ASSUME Bad # {} PROVE FALSE
    OBVIOUS
  <2>1. Bad \in SUBSET Nat
    OBVIOUS
  <2>2. PICK m \in Bad : \A y \in Bad : m <= y
    BY <2>1, MinInSet
  <2>3. m \in 1 .. n /\ ~ P(m)
    OBVIOUS
  <2>4. m # 1
    BY <1>3, <2>3
  <2>5. m \in 2 .. n /\ m - 1 \in 1 .. n /\ ~ (m <= m - 1)
    BY <1>1, <2>3, <2>4
  <2>6. P(m - 1)
    BY <2>2, <2>5
  <2>7. QED
    BY <1>4, <2>3, <2>5, <2>6
<1>6. P(n)
  <2>1. n \in 1 .. n
    BY <1>1
  <2>2. QED
    BY <1>5, <2>1
<1>7. QED
  BY <1>1, <1>2, <1>6 DEF P, Grown, KeepsFirst, Keeps

LEMMA BreakHeld ==
    ASSUME Sorted(areas), NEW addr \in Nat, NEW length \in Nat,
           BreakUses(addr, addr + length) = {}
    PROVE  Held(areas, BreakResult(addr, length), Pages)
<1> DEFINE hi == addr + length
           res == BreakResult(addr, length)
           early == addr = 0 \/ length % Huge # 0 \/ addr % Huge # 0
           hangs == \E i \in DOMAIN areas : addr <= areas[i].start /\ hi < areas[i].end
           piece(i) == BreakArea(areas[i], addr, hi)
           seqs == [i \in DOMAIN areas |-> piece(i)]
<1>1. res = IF early THEN Out(areas, - EINVAL)
            ELSE IF areas = <<>> THEN Broken(areas, "null")
            ELSE IF hangs THEN Broken(areas, "hang")
            ELSE Out(Merger(FlattenSeq(seqs)), 0)
  BY DEF BreakResult
<1>2. - EINVAL \in Int /\ Keeps(areas, areas, Pages)
  BY KeepsRefl DEF EINVAL
<1> HIDE DEF seqs, hangs
<1>3. CASE early
  <2>1. res = Out(areas, - EINVAL)
    BY <1>1, <1>3
  <2> HIDE DEF res
  <2>2. Held(areas, res, Pages)
    BY <1>2, <2>1, HeldOut
  <2>3. QED
    BY <2>2 DEF res
<1>4. ASSUME ~ early, areas = <<>> \/ hangs PROVE FALSE
  <2>1. hi % Huge = 0 /\ addr % Huge = 0 /\ addr # 0
    BY <1>4, VmAssumption, SumMultiple
  <2>2. areas = <<>> \/ \E m \in DOMAIN areas : areas[m].end > hi
    <3>1. ASSUME NEW m \in DOMAIN areas, hi < areas[m].end PROVE areas[m].end > hi
      <4>1. areas[m].end \in Nat
        BY SortedFacts, AreaFacts
      <4>2. QED
        BY <3>1, <4>1
    <3>2. QED
      BY <1>4, <3>1 DEF hangs
  <2>3. "break_any" \in BreakUses(addr, addr + length)
    BY <2>1, <2>2 DEF BreakUses
  <2>4. QED
    BY <2>3
<1>6. CASE ~ early /\ areas # <<>> /\ ~ hangs
  <2>1. hi \in Nat /\ hi % Huge = 0 /\ addr % Huge = 0 /\ addr # 0
    <3>1. (addr + length) % Huge = 0
      BY <1>6, VmAssumption, SumMultiple
    <3>2. QED
      BY <1>6, <3>1
  <2>2. \A i \in DOMAIN areas : /\ ~ (areas[i].end > hi)
                                /\ ~ (areas[i].kind = HugeMap /\ areas[i].end <= addr)
    <3>1. "break_any" \notin BreakUses(addr, addr + length)
      OBVIOUS
    <3>2. QED
      BY <2>1, <3>1 DEF BreakUses
  <2>3. /\ \A i \in DOMAIN areas : areas[i] \in GoodAreas
        /\ 1 \in DOMAIN areas /\ areas[1] = Dummy /\ DOMAIN areas = 1 .. Len(areas)
        /\ Len(areas) \in Nat
        /\ \A i, j \in DOMAIN areas : i < j => areas[j].prot # DUMMY
    BY <1>6, SortedFacts
  <2>4. ASSUME NEW i \in DOMAIN areas
        PROVE  /\ Pieces(areas[i], piece(i)) /\ KeptIn(areas[i], piece(i), Pages)
               /\ i = 1 => piece(i) = <<Dummy>>
    <3>1. areas[i] \in GoodAreas /\ areas[i].end \in Nat
      BY <2>3, AreaFacts
    <3>2. i = 1 => areas[i].kind = Normal
      BY <2>3 DEF Dummy, Area
    <3>3. i # 1 => areas[i].prot # DUMMY
      <4>1. i # 1 => 1 < i
        BY <2>3
      <4>2. QED
        BY <2>3, <4>1
    <3>4. areas[i].end <= hi /\ (areas[i].kind = HugeMap => addr < areas[i].end)
      BY <2>1, <2>2, <3>1
    <3>5. Normal # HugeMap
      BY DEF Normal, HugeMap
    <3>6. areas[i].kind = HugeMap => addr < areas[i].end /\ areas[i].prot # DUMMY
      BY <3>2, <3>3, <3>4, <3>5
    <3> HIDE DEF hi
    <3>7. /\ Pieces(areas[i], piece(i)) /\ KeptIn(areas[i], piece(i), Pages)
          /\ areas[i].kind = Normal => piece(i) = <<areas[i]>>
      BY <2>1, <3>1, <3>4, <3>6, BreakPieces
    <3>8. QED
      BY <2>3, <3>2, <3>7
  <2> HIDE DEF piece
  <2>5. DOMAIN seqs = DOMAIN areas /\ \A i \in DOMAIN areas : seqs[i] = piece(i)
    BY DEF seqs
  <2>6. seqs = [i \in DOMAIN seqs |-> seqs[i]]
    BY DEF seqs
  <2>7. seqs[1] = <<Dummy>>
    BY <2>3, <2>4, <2>5, Zenon
  <2>8. \A i \in DOMAIN areas : Pieces(areas[i], seqs[i]) /\ KeptIn(areas[i], seqs[i], Pages)
    BY <2>4, <2>5
  <2> DEFINE flat == FlattenSeq(seqs)
  <2>9. Sorted(flat) /\ Keeps(areas, flat, Pages) /\ flat # <<>>
    BY <1>6, <2>5, <2>6, <2>7, <2>8, FlattenPieces
  <2> HIDE DEF flat
  <2>10. Sorted(Merger(flat)) /\ Keeps(flat, Merger(flat), Pages)
    BY <2>9, MergerGrown DEF Grown
  <2>11. Keeps(areas, Merger(flat), Pages)
    BY <2>9, <2>10, KeepsTrans
  <2>12. res = Out(Merger(flat), 0)
    BY <1>1, <1>6 DEF flat
  <2> HIDE DEF res
  <2>13. Held(areas, res, Pages)
    BY <2>10, <2>11, <2>12, HeldOut
  <2>14. QED
    BY <2>13 DEF res
<1>7. QED
  <2> HIDE DEF early
  <2>1. early \/ (~ early /\ (areas = <<>> \/ hangs))
        \/ (~ early /\ areas # <<>> /\ ~ hangs)
    OBVIOUS
  <2>2. QED
    BY <1>3, <1>4, <1>6, <2>1, Zenon
-----------------------------------------------------------------------------
(* The uses of the calls under which the list stays sound, and those under   *)
(* which the page table does too.                                           *)

ListBreakers ==
    {"map_nothing", "map_beyond", "unmap_start", "unmap_middle", "unmap_huge",
     "unmap_unaligned", "make_any", "break_any"}
TableBreakers == ListBreakers \cup {"unmap_resident", "touch_mixed"}

KeepsList == Usage \cap ListBreakers = {}
KeepsTables == Usage \cap TableBreakers = {}

LEMMA TablesThenList == KeepsTables => KeepsList
  BY DEF KeepsTables, KeepsList, TableBreakers

\* A careful mmap asks for something and leaves no area past the end.
LEMMA MapCareful ==
    ASSUME KeepsList, NEW addr, NEW length \in Nat, NEW prot, NEW fixed,
           MapUses(addr, length, prot, fixed) \subseteq Usage
    PROVE  length \in Nat \ {0} /\ Bounded(MapResult(addr, length, prot, fixed).areas)
<1>1. "map_nothing" \in Usages /\ "map_beyond" \in Usages
  BY DEF Usages
<1>2. "map_nothing" \notin Usage /\ "map_beyond" \notin Usage
  BY DEF KeepsList, ListBreakers
<1>3. length # 0
  <2>1. length = 0 => "map_nothing" \in MapUses(addr, length, prot, fixed)
    BY <1>1 DEF MapUses
  <2>2. QED
    BY <1>2, <2>1
<1>4. Bounded(MapResult(addr, length, prot, fixed).areas)
  <2> DEFINE list == MapResult(addr, length, prot, fixed).areas
  <2>1. (\E i \in DOMAIN list : list[i].end > END)
          => "map_beyond" \in MapUses(addr, length, prot, fixed)
    BY <1>1 DEF MapUses
  <2>2. QED
    BY <1>2, <2>1 DEF Bounded
<1>5. QED
  BY <1>3, <1>4

LEMMA UnmapIsCareful ==
    ASSUME KeepsList, NEW lo, NEW hi, UnmapUses(lo, hi) \subseteq Usage
    PROVE  /\ UnmapCareful(lo, hi)
           /\ "unmap_middle" \notin UnmapUses(lo, hi)
           /\ KeepsTables /\ areas # <<>> /\ Sorted(areas) => ~ Resident(lo, hi)
<1>1. /\ "unmap_start" \in Usages /\ "unmap_middle" \in Usages /\ "unmap_huge" \in Usages
      /\ "unmap_unaligned" \in Usages /\ "unmap_resident" \in Usages
  BY DEF Usages
<1>2. /\ "unmap_start" \notin Usage /\ "unmap_middle" \notin Usage /\ "unmap_huge" \notin Usage
      /\ "unmap_unaligned" \notin Usage
  BY DEF KeepsList, ListBreakers
<1>3. ASSUME NEW i \in DOMAIN areas
      PROVE  /\ ~ (i = 1 /\ Meets(areas[i], lo, hi))
             /\ ~ (areas[i].start < lo /\ hi < areas[i].end)
             /\ ~ (/\ areas[i].kind = HugeMap /\ Meets(areas[i], lo, hi)
                   /\ \/ areas[i].start < lo /\ lo % Huge # 0
                      \/ hi < areas[i].end /\ hi % Huge # 0)
             /\ ~ (lo % Page # 0 /\ lo % 2 = 0)
  <2>1. i = 1 /\ Meets(areas[i], lo, hi) => "unmap_start" \in UnmapUses(lo, hi)
    BY <1>1 DEF UnmapUses
  <2>2. areas[i].start < lo /\ hi < areas[i].end => "unmap_middle" \in UnmapUses(lo, hi)
    BY <1>1 DEF UnmapUses
  <2>3. /\ areas[i].kind = HugeMap /\ Meets(areas[i], lo, hi)
        /\ \/ areas[i].start < lo /\ lo % Huge # 0
           \/ hi < areas[i].end /\ hi % Huge # 0
        => "unmap_huge" \in UnmapUses(lo, hi)
    BY <1>1 DEF UnmapUses
  <2>4. lo % Page # 0 /\ lo % 2 = 0 => "unmap_unaligned" \in UnmapUses(lo, hi)
    BY <1>1 DEF UnmapUses
  <2>5. QED
    BY <1>2, <2>1, <2>2, <2>3, <2>4
<1>4. UnmapCareful(lo, hi)
  BY <1>3 DEF UnmapCareful
<1>5. ASSUME KeepsTables, areas # <<>>, Sorted(areas) PROVE ~ Resident(lo, hi)
  <2>1. "unmap_resident" \notin Usage
    BY <1>5 DEF KeepsTables, TableBreakers
  <2>2. 1 \in DOMAIN areas
    BY <1>5, SortedFacts
  <2>3. Resident(lo, hi) => "unmap_resident" \in UnmapUses(lo, hi)
    BY <1>1, <2>2 DEF UnmapUses
  <2>4. QED
    BY <2>1, <2>3
<1>6. QED
  BY <1>2, <1>4, <1>5

-----------------------------------------------------------------------------
(* The list: every step leaves it sorted.                                   *)

\* The parts of TypeOK about the page table, the reply and the fault.
TableTypes ==
    /\ pmd \in [Regions -> [kind : {"none", "table", "huge"}, w : BOOLEAN]]
    /\ pte \in [Pages -> [kind : {"none", "page"}, w : BOOLEAN]]
ReplyTypes ==
    /\ reply \in [call : {"none", "mmap", "munmap", "make_hugepage",
                          "break_hugepage", "read", "write"},
                  at : Nat, ret : Int]
    /\ fault \in {"none", "null", "freed", "hang"}

ListInv == Sorted(areas) /\ TableTypes /\ ReplyTypes /\ Tabled /\ NeverBreaks

LEMMA StepReply ==
    ASSUME NEW call \in {"mmap", "munmap", "make_hugepage", "break_hugepage"},
           NEW at \in Nat, NEW out, NEW S, Held(areas, out, S), Step(call, at, out)
    PROVE  Sorted(areas') /\ Keeps(areas, areas', S) /\ ReplyTypes' /\ NeverBreaks'
  BY DEF Step, Held, ReplyTypes, NeverBreaks

LEMMA FineHeld ==
    ASSUME NEW old, NEW out, Fine(old, out) PROVE Held(old, out, Pages)
  BY DEF Fine, Grown, Held

LEMMA MapStep ==
    ASSUME KeepsList, Sorted(areas), Map
    PROVE  /\ Sorted(areas') /\ Keeps(areas, areas', Pages) /\ ReplyTypes'
           /\ NeverBreaks' /\ UNCHANGED <<pmd, pte>>
<1>1. PICK addr \in Addrs, length \in Lengths, prot \in Prots, fixed \in BOOLEAN :
          /\ MapUses(addr, length, prot, fixed) \subseteq Usage
          /\ Step("mmap", addr, MapResult(addr, length, prot, fixed))
          /\ UNCHANGED <<pmd, pte>>
  BY DEF Map
<1>2. addr \in Nat /\ length \in Nat
  BY VmAssumption
<1>3. length \in Nat \ {0} /\ Bounded(MapResult(addr, length, prot, fixed).areas)
  BY <1>1, <1>2, MapCareful
<1>4. Held(areas, MapResult(addr, length, prot, fixed), Pages)
  BY <1>2, <1>3, MapFine, FineHeld
<1>5. QED
  BY <1>1, <1>2, <1>4, StepReply

LEMMA UnmapStep ==
    ASSUME KeepsList, Sorted(areas), TableTypes, Unmap
    PROVE  /\ Sorted(areas') /\ ReplyTypes' /\ NeverBreaks' /\ UNCHANGED pmd
           /\ KeepsTables => Keeps(areas, areas', Touched)
           /\ pte' = [p \in Pages |-> pte'[p]]
           /\ \A p \in Pages : pte'[p] = pte[p] \/ (pte'[p] = Absent /\ pte[p].kind = "none")
<1>1. PICK addr \in Addrs, length \in Lengths :
        LET hi == addr + RoundUp(length, Page)
            splits == "unmap_middle" \in UnmapUses(addr, hi)
            out(kind) == UnmapResult(addr, length, kind)
        IN  /\ UnmapUses(addr, hi) \subseteq Usage
            /\ \E kind \in IF splits THEN {Unset, Normal, HugeMap} ELSE {Normal} :
                  Step("munmap", addr, out(kind))
            /\ pte' = [p \in Pages |-> IF reply'.ret = 0 /\ addr < p + Page /\ p <= hi - Page
                                       THEN Cleared(p) ELSE pte[p]]
            /\ UNCHANGED pmd
  BY DEF Unmap
<1> DEFINE hi == addr + RoundUp(length, Page)
<1>2. addr \in Nat /\ length \in Nat
  BY VmAssumption
<1>3. UnmapUses(addr, hi) \subseteq Usage
  BY <1>1
<1>4. PICK kind : Step("munmap", addr, UnmapResult(addr, length, kind))
  BY <1>1
<1>5. /\ pte' = [p \in Pages |-> IF reply'.ret = 0 /\ addr < p + Page /\ p <= hi - Page
                                 THEN Cleared(p) ELSE pte[p]]
      /\ UNCHANGED pmd
  BY <1>1
<1> HIDE DEF hi
<1>6. UnmapCareful(addr, hi)
  BY <1>3, UnmapIsCareful
<1>7. Held(areas, UnmapResult(addr, length, kind), Outside(addr, hi))
  BY <1>2, <1>6, UnmapHeld DEF hi
<1>8. Sorted(areas') /\ Keeps(areas, areas', Outside(addr, hi)) /\ ReplyTypes' /\ NeverBreaks'
  BY <1>2, <1>4, <1>7, StepReply
<1>9. ASSUME KeepsTables PROVE Keeps(areas, areas', Touched)
  <2>1. CASE areas = <<>>
    <3>1. DOMAIN areas = {}
      BY <2>1, EmptySeq
    <3>2. QED
      BY <3>1 DEF Keeps
  <2>2. CASE areas # <<>>
    <3>1. ~ Resident(addr, hi)
      BY <1>3, <1>9, <2>2, UnmapIsCareful
    <3>2. Touched \subseteq Outside(addr, hi)
      BY <3>1, TouchedOutside
    <3>3. QED
      BY <1>8, <3>2, KeepsLess
  <2>3. QED
    BY <2>1, <2>2
<1>10. ASSUME NEW p \in Pages
       PROVE  pte'[p] = pte[p] \/ (pte'[p] = Absent /\ pte[p].kind = "none")
  <2>1. PageOf(p) = p
    BY VmAssumption DEF PageOf, Pages
  <2>2. Cleared(p) = pte[p] \/ (Cleared(p) = Absent /\ pte[p].kind = "none")
    BY <2>1 DEF Cleared, GetPte
  <2>3. pte'[p] = pte[p] \/ pte'[p] = Cleared(p)
    BY <1>5
  <2>4. QED
    BY <2>2, <2>3
<1>11. pte' = [p \in Pages |-> pte'[p]]
  BY <1>5
<1>12. QED
  BY <1>5, <1>8, <1>9, <1>10, <1>11

LEMMA MakeStep ==
    ASSUME KeepsList, Sorted(areas), Tabled, MakeHuge
    PROVE  /\ Sorted(areas') /\ Keeps(areas, areas', Touched) /\ ReplyTypes'
           /\ NeverBreaks' /\ UNCHANGED <<pmd, pte>>
<1>1. PICK addr \in Addrs, length \in Lengths, prot \in Prots, force \in BOOLEAN :
          /\ MakeUses(addr, length, prot, force) \subseteq Usage
          /\ Step("make_hugepage", addr, MakeResult(addr, length, prot, force))
          /\ UNCHANGED <<pmd, pte>>
  BY DEF MakeHuge
<1>2. addr \in Nat /\ length \in Nat
  BY VmAssumption
<1>3. MakeUses(addr, length, prot, force) = {}
  <2>1. MakeUses(addr, length, prot, force) \subseteq {"make_any"}
    BY DEF MakeUses
  <2>2. "make_any" \notin Usage
    BY DEF KeepsList, ListBreakers
  <2>3. QED
    BY <1>1, <2>1, <2>2
<1>4. Held(areas, MakeResult(addr, length, prot, force), Touched)
  BY <1>2, <1>3, MakeHeld
<1>5. QED
  BY <1>1, <1>2, <1>4, StepReply

LEMMA BreakStep ==
    ASSUME KeepsList, Sorted(areas), BreakHuge
    PROVE  /\ Sorted(areas') /\ Keeps(areas, areas', Pages) /\ ReplyTypes'
           /\ NeverBreaks' /\ UNCHANGED <<pmd, pte>>
<1>1. PICK addr \in Addrs, length \in Lengths :
          /\ BreakUses(addr, addr + length) \subseteq Usage
          /\ Step("break_hugepage", addr, BreakResult(addr, length))
          /\ UNCHANGED <<pmd, pte>>
  BY DEF BreakHuge
<1>2. addr \in Nat /\ length \in Nat
  BY VmAssumption
<1>3. BreakUses(addr, addr + length) = {}
  <2>1. BreakUses(addr, addr + length) \subseteq {"break_any"}
    BY DEF BreakUses
  <2>2. "break_any" \notin Usage
    BY DEF KeepsList, ListBreakers
  <2>3. QED
    BY <1>1, <2>1, <2>2
<1>4. Held(areas, BreakResult(addr, length), Pages)
  BY <1>2, <1>3, BreakHeld
<1>5. QED
  BY <1>1, <1>2, <1>4, StepReply

\* An access leaves the list alone and changes the page table in one place.
LEMMA TouchStep ==
    ASSUME TableTypes, ReplyTypes, Touch
    PROVE  /\ UNCHANGED <<areas, fault>> /\ ReplyTypes' /\ TableTypes'
           /\ \/ UNCHANGED <<pmd, pte>>
              \/ \E a \in Addrs : /\ START <= a /\ a < END /\ ~ Present(a) /\ Mapped(a)
                                  /\ MapPhysical(a, AreaOf(a))
                                  /\ TouchUses(a) \subseteq Usage
<1>1. PICK a \in Addrs, write \in BOOLEAN :
          /\ START <= a /\ a < END
          /\ Hit(a, write) \/ Served(a, write) \/ Refused(a, write)
  BY DEF Touch
<1>2. a \in Nat
  BY VmAssumption
<1>3. PICK ret \in Int : Access(a, write, ret)
  BY <1>1 DEF Hit, Served, Refused, OK, SIGSEGV
<1>4. UNCHANGED <<areas, fault>> /\ ReplyTypes' /\ TouchUses(a) \subseteq Usage
  BY <1>2, <1>3 DEF Access, ReplyTypes
<1>5. CASE Hit(a, write) \/ Refused(a, write)
  <2>1. UNCHANGED <<pmd, pte>>
    BY <1>5 DEF Hit, Refused
  <2>2. QED
    BY <1>4, <2>1 DEF TableTypes
<1>6. CASE Served(a, write)
  <2>1. ~ Present(a) /\ Mapped(a) /\ MapPhysical(a, AreaOf(a))
    BY <1>6 DEF Served, PageFault
  <2> DEFINE area == AreaOf(a)
             w == Writable(area.prot)
  <2>2. w \in BOOLEAN
    BY DEF Writable
  <2>3. /\ Entry("huge", w) \in [kind : {"none", "table", "huge"}, w : BOOLEAN]
        /\ Entry("table", w) \in [kind : {"none", "table", "huge"}, w : BOOLEAN]
        /\ Entry("page", w) \in [kind : {"none", "page"}, w : BOOLEAN]
        /\ Absent \in [kind : {"none", "page"}, w : BOOLEAN]
    BY <2>2 DEF Entry, Absent
  <2>4. CASE area.kind = HugeMap
    <3>1. /\ pmd' = [pmd EXCEPT ![RegionOf(a)] = Entry("huge", w)]
          /\ pte' = [p \in Pages |-> IF RegionOf(p) = RegionOf(a) THEN Absent ELSE pte[p]]
      BY <2>1, <2>4 DEF MapPhysical
    <3> HIDE DEF w
    <3>2. TableTypes'
      BY <2>3, <3>1 DEF TableTypes
    <3>3. QED
      BY <1>1, <1>4, <2>1, <3>2
  <2>5. CASE area.kind # HugeMap
    <3>1. /\ pmd' = IF pmd[RegionOf(a)].kind = "none"
                    THEN [pmd EXCEPT ![RegionOf(a)] = Entry("table", w)] ELSE pmd
          /\ pte' = [pte EXCEPT ![PageOf(a)] = Entry("page", w)]
      BY <2>1, <2>5 DEF MapPhysical
    <3> HIDE DEF w
    <3>2. TableTypes'
      BY <2>3, <3>1 DEF TableTypes
    <3>3. QED
      BY <1>1, <1>4, <2>1, <3>2
  <2>6. QED
    BY <2>4, <2>5
<1>7. QED
  BY <1>1, <1>5, <1>6

LEMMA ListInvInit == Init => ListInv
<1> SUFFICES ASSUME Init PROVE ListInv
  OBVIOUS
<1>1. Sorted(areas)
  BY SortedEmpty DEF Init
<1>2. TableTypes /\ Tabled
  BY DEF Init, TableTypes, Tabled, Absent
<1>3. ReplyTypes /\ NeverBreaks
  BY DEF Init, ReplyTypes, NeverBreaks
<1>4. QED
  BY <1>1, <1>2, <1>3 DEF ListInv

\* Clearing entries that are absent leaves the tables as full as they were.
Untouched(p) ==
    pte'[p] = pte[p] \/ (pte'[p] = Absent /\ pte[p].kind = "none")

LEMMA KeptTabled ==
    ASSUME Tabled, UNCHANGED pmd, \A p \in Pages : Untouched(p) PROVE Tabled'
<1> SUFFICES ASSUME NEW r \in Regions, pmd'[r].kind = "table"
             PROVE  \E p \in Pages : RegionOf(p) = r /\ pte'[p].kind = "page"
  BY DEF Tabled
<1>1. PICK p \in Pages : RegionOf(p) = r /\ pte[p].kind = "page"
  BY DEF Tabled
<1>2. pte'[p].kind = "page"
  BY <1>1 DEF Untouched
<1>3. QED
  BY <1>1, <1>2

\* The handler puts a page into a table it makes, and a huge page for a table.
LEMMA ServedTabled ==
    ASSUME TableTypes, Tabled, NEW a \in Nat, START <= a, a < END, NEW area,
           MapPhysical(a, area)
    PROVE  Tabled'
<1> DEFINE r == RegionOf(a)
           q == PageOf(a)
           w == Writable(area.prot)
<1>1. r \in Regions /\ q \in Pages /\ RegionOf(q) = r
  BY AddressFacts
<1>2. DOMAIN pmd = Regions /\ DOMAIN pte = Pages
  BY DEF TableTypes
<1>3. /\ area.kind = HugeMap =>
            /\ pmd' = [pmd EXCEPT ![r] = Entry("huge", w)]
            /\ pte' = [p \in Pages |-> IF RegionOf(p) = r THEN Absent ELSE pte[p]]
      /\ area.kind # HugeMap =>
            /\ pmd' = pmd \/ pmd' = [pmd EXCEPT ![r] = Entry("table", w)]
            /\ pte' = [pte EXCEPT ![q] = Entry("page", w)]
  BY DEF MapPhysical
<1> HIDE DEF r, q, w
<1>4. SUFFICES ASSUME NEW s \in Regions, pmd'[s].kind = "table"
               PROVE  \E p \in Pages : RegionOf(p) = s /\ pte'[p].kind = "page"
  BY DEF Tabled
<1>5. CASE s # r
  <2>1. pmd'[s] = pmd[s]
    BY <1>2, <1>3, <1>5
  <2>2. PICK p \in Pages : RegionOf(p) = s /\ pte[p].kind = "page"
    BY <1>4, <2>1 DEF Tabled
  <2>3. pte'[p] = pte[p]
    BY <1>1, <1>2, <1>3, <1>5, <2>2
  <2>4. QED
    BY <2>2, <2>3
<1>6. CASE s = r
  <2>1. area.kind # HugeMap
    BY <1>1, <1>2, <1>3, <1>4, <1>6 DEF Entry
  <2>2. pte'[q].kind = "page"
    BY <1>1, <1>2, <1>3, <2>1 DEF Entry
  <2>3. QED
    BY <1>1, <1>6, <2>2
<1>7. QED
  BY <1>5, <1>6

LEMMA ListInvNext == KeepsList /\ ListInv /\ [Next]_vars => ListInv'
<1> SUFFICES ASSUME KeepsList, ListInv, [Next]_vars PROVE ListInv'
  OBVIOUS
<1>1. Sorted(areas) /\ TableTypes /\ ReplyTypes /\ Tabled /\ NeverBreaks
  BY DEF ListInv
<1>2. ASSUME UNCHANGED <<pmd, pte>>, Sorted(areas') /\ ReplyTypes' /\ NeverBreaks'
      PROVE  ListInv'
  BY <1>1, <1>2 DEF TableTypes, Tabled, ListInv
<1>3. CASE Map
  BY <1>1, <1>2, <1>3, MapStep
<1>4. CASE Unmap
  <2>1. /\ Sorted(areas') /\ ReplyTypes' /\ NeverBreaks' /\ UNCHANGED pmd
        /\ pte' = [p \in Pages |-> pte'[p]]
        /\ \A p \in Pages : Untouched(p)
    BY <1>1, <1>4, UnmapStep DEF Untouched
  <2>2. ASSUME NEW p \in Pages PROVE pte'[p] \in [kind : {"none", "page"}, w : BOOLEAN]
    <3>1. Absent \in [kind : {"none", "page"}, w : BOOLEAN]
      BY DEF Absent
    <3>2. pte[p] \in [kind : {"none", "page"}, w : BOOLEAN]
      BY <1>1 DEF TableTypes
    <3>3. QED
      BY <2>1, <3>1, <3>2 DEF Untouched
  <2>3. TableTypes'
    BY <1>1, <2>1, <2>2 DEF TableTypes
  <2>4. Tabled'
    BY <1>1, <2>1, KeptTabled
  <2>5. QED
    BY <2>1, <2>3, <2>4 DEF ListInv
<1>5. CASE MakeHuge
  BY <1>1, <1>2, <1>5, MakeStep
<1>6. CASE BreakHuge
  BY <1>1, <1>2, <1>6, BreakStep
<1>7. CASE Touch
  <2>1. UNCHANGED <<areas, fault>> /\ ReplyTypes' /\ TableTypes'
    BY <1>1, <1>7, TouchStep
  <2>2. Tabled'
    <3>1. CASE UNCHANGED <<pmd, pte>>
      BY <1>1, <3>1 DEF Tabled
    <3>2. ASSUME NEW a \in Addrs, START <= a, a < END, MapPhysical(a, AreaOf(a))
          PROVE  Tabled'
      <4>1. a \in Nat
        BY VmAssumption
      <4>2. QED
        BY <1>1, <3>2, <4>1, ServedTabled
    <3>3. QED
      BY <1>1, <1>7, <3>1, <3>2, TouchStep
  <2>3. QED
    BY <1>1, <2>1, <2>2 DEF ListInv, NeverBreaks
<1>8. CASE UNCHANGED vars
  BY <1>1, <1>2, <1>8 DEF vars, ReplyTypes, NeverBreaks
<1>9. QED
  BY <1>3, <1>4, <1>5, <1>6, <1>7, <1>8 DEF Next
-----------------------------------------------------------------------------
(* The page table: a page with a translation belongs to the area that gave   *)
(* it its rights.                                                           *)

Agrees(p) ==
    \E i \in DOMAIN areas : Covers(areas[i], p) /\ (MayWrite(p) <=> Writable(areas[i].prot))

\* Without a table, a region has no entries of pages.
NoStale == \A p \in Pages : pmd[RegionOf(p)].kind # "table" => pte[p].kind = "none"

TablesInv == ListInv /\ NoStale /\ \A p \in Touched : Agrees(p)

\* The page of an address lies in the same area, and in a huge area so does
\* the whole region.
LEMMA PageInArea ==
    ASSUME NEW x \in GoodAreas, NEW a \in Nat, START <= a, a < END, Covers(x, a)
    PROVE  /\ Covers(x, PageOf(a))
           /\ x.kind = HugeMap =>
                 \A p \in Pages : RegionOf(p) = RegionOf(a) => Covers(x, p)
<1> DEFINE r == RegionOf(a)
           q == PageOf(a)
<1>1. /\ q \in Nat /\ q % Page = 0 /\ q <= a /\ a < q + Page
      /\ r \in Nat /\ r % Huge = 0 /\ r <= a /\ a < r + Huge
  BY AddressFacts, PageFacts
<1>2. /\ x.start \in Nat /\ x.end \in Nat /\ x.start % Page = 0
      /\ (x.kind = HugeMap => x.start % Huge = 0 /\ x.end % Huge = 0)
      /\ x.start <= a /\ a < x.end
  BY AreaFacts DEF Aligned, Covers
<1>3. Page \in Nat \ {0} /\ Huge \in Nat \ {0}
  BY VmAssumption
<1> HIDE DEF r, q
<1>4. x.start <= q
  <2>1. SUFFICES ASSUME q < x.start PROVE FALSE
    BY <1>1, <1>2
  <2>2. q + Page <= x.start
    BY <1>1, <1>2, <1>3, <2>1, GapMultiple
  <2>3. QED
    BY <1>1, <1>2, <1>3, <2>2
<1>5. Covers(x, q)
  BY <1>1, <1>2, <1>4 DEF Covers
<1>6. ASSUME x.kind = HugeMap, NEW p \in Pages, RegionOf(p) = r PROVE Covers(x, p)
  <2>1. p \in Nat /\ r <= p /\ p < r + Huge
    BY <1>6, PageFacts
  <2>2. x.start <= r
    <3>1. SUFFICES ASSUME r < x.start PROVE FALSE
      BY <1>1, <1>2
    <3>2. r + Huge <= x.start
      BY <1>1, <1>2, <1>3, <1>6, <3>1, GapMultiple
    <3>3. QED
      BY <1>1, <1>2, <1>3, <3>2
  <2>3. r + Huge <= x.end
    <3>1. r < x.end
      BY <1>1, <1>2
    <3>2. QED
      BY <1>1, <1>2, <1>3, <1>6, <3>1, GapMultiple
  <2>4. QED
    BY <1>1, <1>2, <1>3, <2>1, <2>2, <2>3 DEF Covers
<1>7. QED
  BY <1>5, <1>6 DEF r, q

\* The handler finds the one area that holds an address.
LEMMA AreaFound ==
    ASSUME Sorted(areas), NEW a \in Nat
    PROVE  /\ \A i \in DOMAIN areas : Covers(areas[i], a) => Mapped(a) /\ AreaOf(a) = areas[i]
           /\ Mapped(a) => \E i \in DOMAIN areas : Covers(areas[i], a) /\ AreaOf(a) = areas[i]
<1>1. ASSUME NEW i \in DOMAIN areas, Covers(areas[i], a) PROVE AreaOf(a) = areas[i]
  <2> DEFINE P(j) == Covers(areas[j], a)
  <2>1. DOMAIN areas = 1 .. Len(areas) /\ Len(areas) \in Nat
    BY SortedFacts
  <2>2. \A j \in DOMAIN areas : P(j) => j = i
    BY <1>1, Disjoint
  <2>3. \A j \in 1 .. i - 1 : j \in DOMAIN areas /\ j # i
    BY <2>1
  <2>4. AreaOf(a) = areas[CHOOSE j \in DOMAIN areas : P(j) /\ \A k \in 1 .. j - 1 : ~ P(k)]
    BY DEF AreaOf, First
  <2> HIDE DEF P
  <2>5. P(i) /\ \A k \in 1 .. i - 1 : ~ P(k)
    BY <1>1, <2>2, <2>3 DEF P
  <2>6. (CHOOSE j \in DOMAIN areas : P(j) /\ \A k \in 1 .. j - 1 : ~ P(k)) = i
    BY <2>2, <2>5
  <2>7. QED
    BY <2>4, <2>6
<1>2. QED
  BY <1>1 DEF Mapped
\* A call that leaves the page table alone, or clears only what was absent, and
\* keeps the pages that were touched, keeps the agreement.
LEMMA KeptAgrees ==
    ASSUME NoStale, \A p \in Touched : Agrees(p), Keeps(areas, areas', Touched),
           UNCHANGED pmd, \A p \in Pages : Untouched(p)
    PROVE  NoStale' /\ \A p \in Touched' : Agrees(p)'
<1>1. ASSUME NEW p \in Pages, pmd'[RegionOf(p)].kind # "table" PROVE pte'[p].kind = "none"
  <2>1. pte[p].kind = "none"
    BY <1>1 DEF NoStale
  <2>2. QED
    BY <2>1 DEF Untouched, Absent
<1>2. NoStale'
  BY <1>1 DEF NoStale
<1>3. ASSUME NEW p \in Touched' PROVE Agrees(p)'
  <2>1. p \in Pages /\ Present(p)'
    BY <1>3 DEF Touched
  <2>2. PageOf(p) = p
    BY <2>1, PageFacts
  <2>3. Present(p) /\ (MayWrite(p)' <=> MayWrite(p))
    <3>1. CASE pmd[RegionOf(p)].kind = "huge"
      BY <3>1 DEF Present, MayWrite
    <3>2. CASE pmd[RegionOf(p)].kind # "huge"
      <4>1. pmd[RegionOf(p)].kind = "table" /\ pte'[p].kind = "page"
        BY <2>1, <2>2, <3>2 DEF Present
      <4>2. pte'[p] = pte[p]
        BY <2>1, <4>1 DEF Untouched, Absent
      <4>3. QED
        BY <2>2, <4>1, <4>2 DEF Present, MayWrite
    <3>3. QED
      BY <3>1, <3>2
  <2>4. p \in Touched
    BY <2>1, <2>3 DEF Touched
  <2>5. PICK i \in DOMAIN areas :
           Covers(areas[i], p) /\ (MayWrite(p) <=> Writable(areas[i].prot))
    BY <2>4 DEF Agrees
  <2>6. PICK j \in DOMAIN areas' :
           Covers(areas'[j], p) /\ areas'[j].prot = areas[i].prot
    BY <2>4, <2>5 DEF Keeps
  <2>7. QED
    BY <2>3, <2>5, <2>6 DEF Agrees
<1>4. QED
  BY <1>2, <1>3

\* The fault handler brings in a huge page: every page of its region belongs to
\* the huge area, and has its rights.
LEMMA HugeServed ==
    ASSUME Sorted(areas), TableTypes, NoStale, \A p \in Touched : Agrees(p),
           NEW a \in Nat, START <= a, a < END, UNCHANGED areas,
           NEW i \in DOMAIN areas, Covers(areas[i], a), areas[i].kind = HugeMap,
           MapPhysical(a, areas[i])
    PROVE  NoStale' /\ \A p \in Touched' : Agrees(p)'
<1> DEFINE r == RegionOf(a)
           w == Writable(areas[i].prot)
<1>1. /\ pmd' = [pmd EXCEPT ![r] = Entry("huge", w)]
      /\ pte' = [p \in Pages |-> IF RegionOf(p) = r THEN Absent ELSE pte[p]]
  BY DEF MapPhysical
<1>2. r \in Regions
  BY AddressFacts
<1>3. /\ \A p \in Pages : RegionOf(p) \in Regions /\ PageOf(p) = p
      /\ DOMAIN pmd = Regions
  BY PageFacts DEF TableTypes
<1>4. \A p \in Pages : RegionOf(p) = r => Covers(areas[i], p)
  <2>1. areas[i] \in GoodAreas
    BY SortedFacts
  <2>2. QED
    BY <2>1, PageInArea
<1> HIDE DEF r, w
<1>5. pmd'[r].kind = "huge" /\ pmd'[r].w = w
  BY <1>1, <1>2, <1>3 DEF Entry
<1>6. \A s \in Regions : s # r => pmd'[s] = pmd[s]
  BY <1>1, <1>3
<1>7. ASSUME NEW p \in Pages, pmd'[RegionOf(p)].kind # "table" PROVE pte'[p].kind = "none"
  <2>1. CASE RegionOf(p) = r
    BY <1>1, <2>1 DEF Absent
  <2>2. CASE RegionOf(p) # r
    BY <1>1, <1>3, <1>6, <1>7, <2>2 DEF NoStale
  <2>3. QED
    BY <2>1, <2>2
<1>8. NoStale'
  BY <1>7 DEF NoStale
<1>9. ASSUME NEW p \in Touched' PROVE Agrees(p)'
  <2>1. p \in Pages /\ Present(p)'
    BY <1>9 DEF Touched
  <2>2. CASE RegionOf(p) = r
    <3>1. MayWrite(p)' <=> w
      BY <1>5, <2>2 DEF MayWrite
    <3>2. QED
      BY <1>4, <2>1, <2>2, <3>1 DEF Agrees, w
  <2>3. CASE RegionOf(p) # r
    <3>1. pmd'[RegionOf(p)] = pmd[RegionOf(p)] /\ pte'[p] = pte[p] /\ PageOf(p) = p
      BY <1>1, <1>3, <1>6, <2>1, <2>3
    <3>2. Present(p) /\ (MayWrite(p)' <=> MayWrite(p))
      BY <2>1, <3>1 DEF Present, MayWrite
    <3>3. Agrees(p)
      BY <2>1, <3>2 DEF Touched
    <3>4. QED
      BY <3>2, <3>3 DEF Agrees
  <2>4. QED
    BY <2>2, <2>3
<1>10. QED
  BY <1>8, <1>9

\* It brings in one page: the table above it was made for a writable area if
\* this one is, and a new table holds nothing else.
LEMMA PageServed ==
    ASSUME Sorted(areas), TableTypes, NoStale, \A p \in Touched : Agrees(p),
           NEW a \in Nat, START <= a, a < END, UNCHANGED areas, ~ Present(a),
           NEW i \in DOMAIN areas, Covers(areas[i], a), areas[i].kind # HugeMap,
           Writable(areas[i].prot) =>
               pmd[RegionOf(a)].kind = "none" \/ pmd[RegionOf(a)].w,
           MapPhysical(a, areas[i])
    PROVE  NoStale' /\ \A p \in Touched' : Agrees(p)'
<1> DEFINE r == RegionOf(a)
           q == PageOf(a)
           w == Writable(areas[i].prot)
<1>1. /\ pmd' = IF pmd[r].kind = "none" THEN [pmd EXCEPT ![r] = Entry("table", w)] ELSE pmd
      /\ pte' = [pte EXCEPT ![q] = Entry("page", w)]
  BY DEF MapPhysical
<1>2. r \in Regions /\ q \in Pages /\ RegionOf(q) = r
  BY AddressFacts
<1>3. /\ \A p \in Pages : RegionOf(p) \in Regions /\ PageOf(p) = p
      /\ DOMAIN pmd = Regions /\ DOMAIN pte = Pages
  BY PageFacts DEF TableTypes
<1>4. Covers(areas[i], q)
  <2>1. areas[i] \in GoodAreas
    BY SortedFacts
  <2>2. QED
    BY <2>1, PageInArea
<1>5. pmd[r].kind \in {"none", "table"}
  <2>1. pmd[r].kind \in {"none", "table", "huge"}
    BY <1>2 DEF TableTypes
  <2>2. pmd[r].kind # "huge"
    BY DEF Present
  <2>3. QED
    BY <2>1, <2>2
<1>6. w => pmd[r].kind = "none" \/ pmd[r].w
  OBVIOUS
<1> HIDE DEF r, q, w
<1>7. /\ pmd'[r].kind = "table"
      /\ pmd[r].kind = "none" => pmd'[r].w = w
      /\ pmd[r].kind # "none" => pmd'[r].w = pmd[r].w
  BY <1>1, <1>2, <1>3, <1>5 DEF Entry
<1>8. \A s \in Regions : s # r => pmd'[s] = pmd[s]
  BY <1>1, <1>3
<1>9. /\ pte'[q].kind = "page" /\ pte'[q].w = w
      /\ \A p \in Pages : p # q => pte'[p] = pte[p]
  BY <1>1, <1>2, <1>3 DEF Entry
<1>10. ASSUME NEW p \in Pages, pmd'[RegionOf(p)].kind # "table" PROVE pte'[p].kind = "none"
  <2>1. RegionOf(p) # r /\ p # q
    BY <1>2, <1>7, <1>10
  <2>2. QED
    BY <1>3, <1>8, <1>9, <1>10, <2>1 DEF NoStale
<1>11. NoStale'
  BY <1>10 DEF NoStale
<1>12. ASSUME NEW p \in Touched' PROVE Agrees(p)'
  <2>1. p \in Pages /\ Present(p)'
    BY <1>12 DEF Touched
  <2>2. CASE p = q
    <3>1. MayWrite(p)' <=> pmd'[r].w /\ pte'[q].w
      BY <1>2, <1>3, <1>7, <2>2 DEF MayWrite
    <3>2. MayWrite(p)' <=> w
      BY <1>6, <1>7, <1>9, <3>1
    <3>3. QED
      BY <1>4, <2>1, <2>2, <3>2 DEF Agrees, w
  <2>3. CASE p # q
    <3>1. pte'[p] = pte[p] /\ PageOf(p) = p /\ RegionOf(p) \in Regions
      BY <1>3, <1>9, <2>1, <2>3
    <3>2. pmd'[RegionOf(p)] = pmd[RegionOf(p)]
      <4>1. CASE RegionOf(p) # r
        BY <1>8, <3>1, <4>1
      <4>2. CASE RegionOf(p) = r
        <5>1. pte[p].kind = "page"
          BY <1>7, <2>1, <3>1, <4>2 DEF Present
        <5>2. pmd[r].kind = "table"
          BY <2>1, <4>2, <5>1 DEF NoStale
        <5>3. QED
          BY <1>1, <4>2, <5>2
      <4>3. QED
        BY <4>1, <4>2
    <3>3. Present(p) /\ (MayWrite(p)' <=> MayWrite(p))
      BY <2>1, <3>1, <3>2 DEF Present, MayWrite
    <3>4. Agrees(p)
      BY <2>1, <3>3 DEF Touched
    <3>5. QED
      BY <3>3, <3>4 DEF Agrees
  <2>4. QED
    BY <2>2, <2>3
<1>13. QED
  BY <1>11, <1>12

\* A careful access does not need more rights than the table above has.
LEMMA TouchCareful ==
    ASSUME KeepsTables, NEW a, TouchUses(a) \subseteq Usage,
           NEW i \in DOMAIN areas, Covers(areas[i], a), Writable(areas[i].prot)
    PROVE  pmd[RegionOf(a)].kind = "none" \/ pmd[RegionOf(a)].w
<1>1. "touch_mixed" \in Usages
  BY DEF Usages
<1>2. "touch_mixed" \notin Usage
  BY DEF KeepsTables, TableBreakers
<1>3. pmd[RegionOf(a)].kind # "none" /\ ~ pmd[RegionOf(a)].w
        => "touch_mixed" \in TouchUses(a)
  BY <1>1 DEF TouchUses
<1>4. QED
  BY <1>2, <1>3

LEMMA TablesInvInit == Init => TablesInv
<1> SUFFICES ASSUME Init PROVE TablesInv
  OBVIOUS
<1>1. ListInv
  BY ListInvInit
<1>2. NoStale
  BY DEF Init, NoStale, Absent
<1>3. Touched = {}
  <2>1. \A p \in Pages : ~ Present(p)
    BY PageFacts DEF Init, Present, Absent
  <2>2. QED
    BY <2>1 DEF Touched
<1>4. QED
  BY <1>1, <1>2, <1>3 DEF TablesInv

LEMMA TablesInvNext == KeepsTables /\ TablesInv /\ [Next]_vars => TablesInv'
<1> SUFFICES ASSUME KeepsTables, TablesInv, [Next]_vars
             PROVE  TablesInv'
  OBVIOUS
<1>1. KeepsList /\ Sorted(areas) /\ TableTypes /\ ReplyTypes /\ Tabled /\ NoStale
      /\ ListInv /\ \A p \in Touched : Agrees(p)
  BY TablesThenList DEF TablesInv, ListInv
<1>2. ListInv'
  BY <1>1, ListInvNext
<1>3. ASSUME UNCHANGED <<pmd, pte>>, Keeps(areas, areas', Touched)
      PROVE  NoStale' /\ \A p \in Touched' : Agrees(p)'
  <2>1. \A p \in Pages : Untouched(p)
    BY <1>3 DEF Untouched
  <2>2. QED
    BY <1>1, <1>3, <2>1, KeptAgrees
<1>4. Touched \subseteq Pages
  BY DEF Touched
<1>5. CASE Map
  <2>1. UNCHANGED <<pmd, pte>> /\ Keeps(areas, areas', Pages)
    BY <1>1, <1>5, MapStep
  <2>2. QED
    BY <1>2, <1>3, <1>4, <2>1, KeepsLess DEF TablesInv
<1>6. CASE Unmap
  <2>1. UNCHANGED pmd /\ Keeps(areas, areas', Touched) /\ \A p \in Pages : Untouched(p)
    BY <1>1, <1>6, UnmapStep DEF Untouched
  <2>2. QED
    BY <1>1, <1>2, <2>1, KeptAgrees DEF TablesInv
<1>7. CASE MakeHuge
  <2>1. UNCHANGED <<pmd, pte>> /\ Keeps(areas, areas', Touched)
    BY <1>1, <1>7, MakeStep
  <2>2. QED
    BY <1>2, <1>3, <2>1 DEF TablesInv
<1>8. CASE BreakHuge
  <2>1. UNCHANGED <<pmd, pte>> /\ Keeps(areas, areas', Pages)
    BY <1>1, <1>8, BreakStep
  <2>2. QED
    BY <1>2, <1>3, <1>4, <2>1, KeepsLess DEF TablesInv
<1>9. ASSUME UNCHANGED <<areas, pmd, pte>> PROVE TablesInv'
  <2>1. Keeps(areas, areas', Touched)
    BY <1>9 DEF Keeps
  <2>2. QED
    BY <1>2, <1>3, <1>9, <2>1 DEF TablesInv
<1>10. CASE Touch
  <2>1. UNCHANGED areas
    BY <1>1, <1>10, TouchStep
  <2>2. ASSUME NEW a \in Addrs, START <= a, a < END, ~ Present(a), Mapped(a),
               MapPhysical(a, AreaOf(a)), TouchUses(a) \subseteq Usage
        PROVE  TablesInv'
    <3>1. a \in Nat
      BY VmAssumption
    <3>2. PICK i \in DOMAIN areas : Covers(areas[i], a) /\ AreaOf(a) = areas[i]
      BY <1>1, <2>2, <3>1, AreaFound
    <3>3. MapPhysical(a, areas[i])
      BY <2>2, <3>2
    <3>4. NoStale' /\ \A p \in Touched' : Agrees(p)'
      <4>1. CASE areas[i].kind = HugeMap
        BY <1>1, <2>1, <2>2, <3>1, <3>2, <3>3, <4>1, HugeServed
      <4>2. CASE areas[i].kind # HugeMap
        <5>1. Writable(areas[i].prot) =>
                 pmd[RegionOf(a)].kind = "none" \/ pmd[RegionOf(a)].w
          BY <2>2, <3>2, TouchCareful
        <5>2. QED
          BY <1>1, <2>1, <2>2, <3>1, <3>2, <3>3, <4>2, <5>1, PageServed
      <4>3. QED
        BY <4>1, <4>2
    <3>5. QED
      BY <1>2, <3>4 DEF TablesInv
  <2>3. QED
    BY <1>1, <1>9, <1>10, <2>2, TouchStep
<1>11. CASE UNCHANGED vars
  BY <1>9, <1>11 DEF vars
<1>12. QED
  BY <1>5, <1>6, <1>7, <1>8, <1>10, <1>11 DEF Next
-----------------------------------------------------------------------------
(* The theorems.                                                            *)

\* What the invariant says in the words of the properties.
LEMMA ListInvTypes == ListInv => TypeOK
<1> SUFFICES ASSUME ListInv PROVE TypeOK
  OBVIOUS
<1>1. areas \in Seq(GoodAreas)
  BY SortedFacts DEF ListInv
<1>2. GoodAreas \subseteq [start : Nat, end : Nat, prot : Prots \cup {DUMMY},
                           kind : {Unset, Normal, HugeMap}]
  BY DEF GoodAreas, AreaType
<1>3. areas \in Seq([start : Nat, end : Nat, prot : Prots \cup {DUMMY},
                     kind : {Unset, Normal, HugeMap}])
  BY <1>1, <1>2, SeqMonotonic, Zenon
<1>4. QED
  BY <1>3 DEF ListInv, TableTypes, ReplyTypes, TypeOK

LEMMA ListInvSorted == ListInv => ListSorted
<1> SUFFICES ASSUME ListInv PROVE ListSorted
  OBVIOUS
<1>1. /\ DOMAIN areas = 1 .. Len(areas) /\ Len(areas) \in Nat
      /\ areas # <<>> => areas[1] = Dummy
      /\ \A i \in DOMAIN areas : areas[i] \in GoodAreas
      /\ \A i, j \in DOMAIN areas : i < j => areas[i].end <= areas[j].start
  BY SortedFacts DEF ListInv
<1>2. areas # <<>> => /\ areas[1].start = START /\ areas[1].prot = DUMMY
                      /\ areas[1].end = START + Page
  BY <1>1 DEF Dummy, Area
<1>3. ASSUME NEW i \in DOMAIN areas
      PROVE  /\ areas[i].start < areas[i].end /\ areas[i].end <= END
             /\ i > 1 => areas[i - 1].end <= areas[i].start
  <2>1. areas[i].start < areas[i].end /\ areas[i].end <= END
    BY <1>1, AreaFacts
  <2>2. i > 1 => i - 1 \in DOMAIN areas /\ i - 1 < i
    BY <1>1
  <2>3. QED
    BY <1>1, <2>1, <2>2
<1>4. QED
  BY <1>2, <1>3 DEF ListSorted

LEMMA ListInvAligned == ListInv => HugeAligned
  BY SortedFacts, AreaFacts DEF ListInv, HugeAligned, Aligned

LEMMA TablesInvAgree == TablesInv => TablesAgree
<1> SUFFICES ASSUME TablesInv, NEW p \in Pages, Present(p)
             PROVE  Mapped(p) /\ (MayWrite(p) <=> Writable(AreaOf(p).prot))
  BY DEF TablesAgree
<1>1. Sorted(areas) /\ p \in Nat
  BY PageFacts DEF TablesInv, ListInv
<1>2. PICK i \in DOMAIN areas :
         Covers(areas[i], p) /\ (MayWrite(p) <=> Writable(areas[i].prot))
  BY DEF TablesInv, Touched, Agrees
<1>3. Mapped(p) /\ AreaOf(p) = areas[i]
  BY <1>1, <1>2, AreaFound
<1>4. QED
  BY <1>2, <1>3

\* The list stays a list of areas and the page table one of entries, whatever
\* the sizes, the range and the arguments of the calls, in every process that
\* keeps to the uses of mmap.c that leave the list sound.
THEOREM MappingTyped ==
    ASSUME KeepsList
    PROVE  Spec => []TypeOK
<1>1. Spec => []ListInv
  BY ListInvInit, ListInvNext, PTL DEF Spec
<1>2. QED
  BY <1>1, ListInvTypes, PTL

\* In such a process the list of vm_areas starts with the dummy and its areas
\* are in order, apart and inside the mapping range after every call, and huge
\* ones are made of whole huge pages: what mmap, munmap, make_hugepage,
\* break_hugepage and the fault handler walk on.
THEOREM ListStaysSound ==
    ASSUME KeepsList
    PROVE  Spec => []ListSound
<1>1. Spec => []ListInv
  BY ListInvInit, ListInvNext, PTL DEF Spec
<1>2. ListInv => ListSound
  BY ListInvSorted, ListInvAligned DEF ListSound
<1>3. QED
  BY <1>1, <1>2, PTL

\* ... and no call follows NULL, uses an area it has freed or walks for ever.
THEOREM CarefulNeverBreaks ==
    ASSUME KeepsList
    PROVE  Spec => []NeverBreaks
<1>1. Spec => []ListInv
  BY ListInvInit, ListInvNext, PTL DEF Spec
<1>2. QED
  BY <1>1, PTL DEF ListInv

\* In a process that also unmaps only what it never touched, and does not touch
\* a writable area under a table made for a read-only one, every translation
\* belongs to an area and has exactly its rights.
THEOREM TablesFollowList ==
    ASSUME KeepsTables
    PROVE  Spec => []TablesAgree
<1>1. Spec => []TablesInv
  BY TablesInvInit, TablesInvNext, PTL DEF Spec
<1>2. QED
  BY <1>1, TablesInvAgree, PTL
=============================================================================
