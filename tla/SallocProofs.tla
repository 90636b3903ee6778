---------------------------- MODULE SallocProofs ----------------------------
(***************************************************************************)
(* Proofs about Salloc, for every size of slab, every set of array lengths *)
(* and every place and number of the slabs that SallocAssumption allows.   *)
(***************************************************************************)
EXTENDS Salloc, SetInduction, SequenceTheorems

\* The regions of the words A that can hold the two words of a link.
Holes(A) == {r \in [lo : Nat, hi : Nat] : r.lo + 2 <= r.hi /\ Words(r) \subseteq A}

Clear(r, S)    == \A s \in S : Apart(r, s)
Across(S, T)   == \A r \in S : Clear(r, T)
Disjoint(S)    == \A r, s \in S : r # s => Apart(r, s)
DisjointSeq(F) == \A i, j \in DOMAIN F : i # j => Apart(F[i], F[j])

\* Arrays, a ready list and a free list, in the words A.
Lists(A, arrays, ready, free) ==
  /\ arrays \subseteq Holes(A) /\ ready \subseteq Holes(A) /\ free \in Seq(Holes(A))
  /\ Disjoint(arrays) /\ Disjoint(ready) /\ DisjointSeq(free)
  /\ Across(arrays, ready) /\ Across(arrays, ToSet(free)) /\ Across(ready, ToSet(free))

\* The same with a window.
Laid(A, arrays, ready, free, w) ==
  /\ Lists(A, arrays, ready, free)
  /\ w \in Holes(A)
  /\ Clear(w, arrays) /\ Clear(w, ready) /\ Clear(w, ToSet(free))

-----------------------------------------------------------------------------
(* Regions *)

LEMMA ApartSymmetric ==
  ASSUME NEW r, NEW s, Apart(r, s)
  PROVE  Apart(s, r)
BY DEF Apart

\* Regions are apart when no word is in both.
LEMMA ApartByWords ==
  ASSUME NEW A, NEW B, NEW r \in Holes(A), NEW s \in Holes(B), Words(r) \cap Words(s) = {}
  PROVE  Apart(r, s)
<1>1. r.lo \in Nat /\ r.hi \in Nat /\ s.lo \in Nat /\ s.hi \in Nat /\ r.lo < r.hi /\ s.lo < s.hi
  BY DEF Holes
<1>2. CASE r.lo <= s.lo
  <2>1. s.lo \notin r.lo .. r.hi - 1
    BY <1>1 DEF Words
  <2> QED
    BY <1>1, <1>2, <2>1 DEF Apart
<1>3. CASE s.lo < r.lo
  <2>1. r.lo \notin s.lo .. s.hi - 1
    BY <1>1 DEF Words
  <2> QED
    BY <1>1, <1>3, <2>1 DEF Apart
<1> QED
  BY <1>1, <1>2, <1>3

LEMMA WordsOfApart ==
  ASSUME NEW A, NEW B, NEW r \in Holes(A), NEW s \in Holes(B), Apart(r, s)
  PROVE  Words(r) \cap Words(s) = {}
BY DEF Holes, Words, Apart

LEMMA HolesGrow ==
  ASSUME NEW A, NEW B, A \subseteq B
  PROVE  Holes(A) \subseteq Holes(B)
BY DEF Holes

\* What lies in a region is apart from what the region is apart from.
LEMMA PartApart ==
  ASSUME NEW A, NEW w \in Holes(A), NEW a \in Holes(A), NEW s \in Holes(A),
         w.lo <= a.lo, a.hi <= w.hi, Apart(w, s)
  PROVE  Apart(a, s)
BY DEF Holes, Apart

\* A region put together from two is apart from what both are apart from.
LEMMA JoinedApart ==
  ASSUME NEW A, NEW f \in Holes(A), NEW a \in Holes(A), NEW s \in Holes(A),
         f.hi = a.lo, Apart(f, s), Apart(a, s)
  PROVE  Apart(Region(f.lo, a.hi), s)
BY DEF Holes, Apart, Region

LEMMA JoinedHole ==
  ASSUME NEW A, NEW f \in Holes(A), NEW a \in Holes(A), f.hi = a.lo
  PROVE  Region(f.lo, a.hi) \in Holes(A)
BY DEF Holes, Region, Words

-----------------------------------------------------------------------------
(* The lists *)

LEMMA Pushed ==
  ASSUME NEW S, NEW F \in Seq(S), NEW x \in S
  PROVE  /\ <<x>> \o F \in Seq(S)
         /\ <<x>> \o F # <<>>
         /\ Len(<<x>> \o F) = Len(F) + 1
         /\ (<<x>> \o F)[1] = x
         /\ \A i \in DOMAIN F : i + 1 \in DOMAIN (<<x>> \o F) /\ (<<x>> \o F)[i + 1] = F[i]
         /\ \A i \in DOMAIN (<<x>> \o F) : i # 1 => i - 1 \in DOMAIN F /\ (<<x>> \o F)[i] = F[i - 1]
         /\ ToSet(<<x>> \o F) = {x} \cup ToSet(F)
<1> DEFINE G == <<x>> \o F
<1>1. <<x>> \in Seq(S) /\ Len(<<x>>) = 1 /\ <<x>>[1] = x
  OBVIOUS
<1>2. G \in Seq(S) /\ Len(G) = Len(F) + 1
      /\ \A i \in 1 .. 1 + Len(F) : G[i] = IF i <= 1 THEN x ELSE F[i - 1]
  BY <1>1, ConcatProperties
<1>3. Len(F) \in Nat /\ DOMAIN F = 1 .. Len(F) /\ DOMAIN G = 1 .. Len(F) + 1
  BY <1>2, LenProperties
<1>4. G[1] = x /\ 1 \in DOMAIN G
  BY <1>2, <1>3
<1>5. \A i \in DOMAIN F : i + 1 \in DOMAIN G /\ G[i + 1] = F[i]
  BY <1>2, <1>3
<1>6. \A i \in DOMAIN G : i # 1 => i - 1 \in DOMAIN F /\ G[i] = F[i - 1]
  BY <1>2, <1>3
<1>7. ToSet(G) = {x} \cup ToSet(F)
  <2>1. ASSUME NEW y \in ToSet(G) PROVE y \in {x} \cup ToSet(F)
    <3>1. PICK i \in DOMAIN G : y = G[i]
      BY DEF ToSet
    <3> QED
      BY <1>4, <1>6, <3>1 DEF ToSet
  <2>2. \A i \in DOMAIN F : F[i] \in ToSet(G)
    BY <1>5 DEF ToSet
  <2>3. x \in ToSet(G)
    BY <1>4 DEF ToSet
  <2> QED
    BY <2>1, <2>2, <2>3 DEF ToSet
<1>8. G # <<>>
  BY <1>2, <1>3
<1> HIDE DEF G
<1>9. QED
  BY <1>2, <1>4, <1>5, <1>6, <1>7, <1>8 DEF G

LEMMA PushDisjoint ==
  ASSUME NEW A, NEW F \in Seq(Holes(A)), NEW x \in Holes(A),
         DisjointSeq(F), Clear(x, ToSet(F))
  PROVE  DisjointSeq(<<x>> \o F)
<1> DEFINE G == <<x>> \o F
<1>1. G[1] = x /\ \A i \in DOMAIN G : i # 1 => i - 1 \in DOMAIN F /\ G[i] = F[i - 1]
  BY Pushed
<1>2. DOMAIN G \subseteq Nat
  BY Pushed, LenProperties
<1>3. \A i \in DOMAIN F : Apart(x, F[i])
  BY DEF Clear, ToSet
<1> HIDE DEF G
<1>4. SUFFICES ASSUME NEW i \in DOMAIN G, NEW j \in DOMAIN G, i # j PROVE Apart(G[i], G[j])
  BY DEF DisjointSeq, G
<1>5. CASE i = 1
  BY <1>1, <1>3, <1>4, <1>5
<1>6. CASE j = 1
  BY <1>1, <1>3, <1>4, <1>6, ApartSymmetric
<1>7. CASE i # 1 /\ j # 1
  BY <1>1, <1>2, <1>4, <1>7 DEF DisjointSeq
<1> QED
  BY <1>5, <1>6, <1>7

\* What is taken off a list leaves a list.
LEMMA TailDisjoint ==
  ASSUME NEW A, NEW F \in Seq(Holes(A)), F # <<>>, DisjointSeq(F)
  PROVE  /\ Head(F) \in Holes(A) /\ Head(F) \in ToSet(F)
         /\ Tail(F) \in Seq(Holes(A)) /\ DisjointSeq(Tail(F))
         /\ ToSet(Tail(F)) \subseteq ToSet(F)
         /\ Clear(Head(F), ToSet(Tail(F)))
         /\ ToSet(F) = {Head(F)} \cup ToSet(Tail(F))
<1>1. Head(F) = F[1] /\ 1 \in DOMAIN F
  BY EmptySeq, LenProperties
<1>2. /\ Head(F) \in Holes(A) /\ Tail(F) \in Seq(Holes(A))
      /\ Len(Tail(F)) = Len(F) - 1
      /\ \A i \in 1 .. Len(Tail(F)) : Tail(F)[i] = F[i + 1]
  BY HeadTailProperties
<1>3. DOMAIN F = 1 .. Len(F) /\ DOMAIN Tail(F) = 1 .. Len(F) - 1 /\ Len(F) \in Nat
  BY <1>2, LenProperties
<1>4. \A i \in DOMAIN Tail(F) : i + 1 \in DOMAIN F /\ i + 1 # 1 /\ Tail(F)[i] = F[i + 1]
  BY <1>2, <1>3
<1>5. \A i \in DOMAIN F : i # 1 => i - 1 \in DOMAIN Tail(F) /\ F[i] = Tail(F)[i - 1]
  BY <1>2, <1>3
<1>6. DisjointSeq(Tail(F))
  <2>1. SUFFICES ASSUME NEW i \in DOMAIN Tail(F), NEW j \in DOMAIN Tail(F), i # j
                 PROVE  Apart(Tail(F)[i], Tail(F)[j])
    BY DEF DisjointSeq
  <2>2. i + 1 # j + 1
    BY <1>3, <2>1
  <2> QED
    BY <1>4, <2>2 DEF DisjointSeq
<1>7. Clear(Head(F), ToSet(Tail(F)))
  BY <1>1, <1>4 DEF Clear, ToSet, DisjointSeq
<1>8. ToSet(F) = {Head(F)} \cup ToSet(Tail(F))
  <2>1. ASSUME NEW y \in ToSet(F) PROVE y \in {Head(F)} \cup ToSet(Tail(F))
    <3>1. PICK i \in DOMAIN F : y = F[i]
      BY DEF ToSet
    <3> QED
      BY <1>1, <1>5, <3>1 DEF ToSet
  <2>2. \A i \in DOMAIN Tail(F) : Tail(F)[i] \in ToSet(F)
    BY <1>4 DEF ToSet
  <2>3. Head(F) \in ToSet(F)
    BY <1>1 DEF ToSet
  <2> QED
    BY <2>1, <2>2, <2>3 DEF ToSet
<1> QED
  BY <1>1, <1>2, <1>6, <1>7, <1>8 DEF ToSet

-----------------------------------------------------------------------------
(* What moving a region does to the layout of memory *)

\* The regions of a list are regions.
LEMMA ListedHoles ==
  ASSUME NEW S, NEW F \in Seq(S)
  PROVE  ToSet(F) \subseteq S
BY LenProperties DEF ToSet

\* The window goes on the list of freed regions.
LEMMA WindowFreed ==
  ASSUME NEW A, NEW L, NEW N, NEW F, NEW w, Laid(A, L, N, F, w)
  PROVE  Lists(A, L, N, <<w>> \o F)
<1>1. Lists(A, L, N, F) /\ w \in Holes(A) /\ F \in Seq(Holes(A))
  BY DEF Laid, Lists
<1>2. <<w>> \o F \in Seq(Holes(A)) /\ ToSet(<<w>> \o F) = {w} \cup ToSet(F)
  BY <1>1, Pushed
<1>3. DisjointSeq(<<w>> \o F)
  BY <1>1, PushDisjoint DEF Laid, Lists
<1>4. Across(L, ToSet(<<w>> \o F)) /\ Across(N, ToSet(<<w>> \o F))
  BY <1>1, <1>2, ApartSymmetric DEF Laid, Lists, Across, Clear
<1> QED
  BY <1>1, <1>2, <1>3, <1>4 DEF Lists

\* A region of the ready list becomes the window.
LEMMA WindowOpened ==
  ASSUME NEW A, NEW L, NEW N, NEW F, NEW h \in N, Lists(A, L, N, F)
  PROVE  Laid(A, L, N \ {h}, F, h)
<1>1. h \in Holes(A)
  BY DEF Lists
<1>2. Lists(A, L, N \ {h}, F)
  BY DEF Lists, Disjoint, Across, Clear
<1>3. Clear(h, L) /\ Clear(h, N \ {h}) /\ Clear(h, ToSet(F))
  BY ApartSymmetric DEF Lists, Disjoint, Across, Clear
<1> QED
  BY <1>1, <1>2, <1>3 DEF Laid

\* A region apart from all others joins the arrays, or the list of freed regions.
LEMMA ArrayAdded ==
  ASSUME NEW A, NEW L, NEW N, NEW F, NEW w, NEW a \in Holes(A), Laid(A, L, N, F, w),
         Clear(a, L), Clear(a, N), Clear(a, ToSet(F)), Apart(a, w)
  PROVE  Laid(A, L \cup {a}, N, F, w)
<1>1. Disjoint(L \cup {a})
  BY ApartSymmetric DEF Laid, Lists, Disjoint, Clear
<1>2. Across(L \cup {a}, N) /\ Across(L \cup {a}, ToSet(F))
  BY DEF Laid, Lists, Across
<1>3. Clear(w, L \cup {a})
  BY ApartSymmetric DEF Laid, Clear
<1> QED
  BY <1>1, <1>2, <1>3 DEF Laid, Lists

LEMMA FreeAdded ==
  ASSUME NEW A, NEW L, NEW N, NEW F, NEW w, NEW a \in Holes(A), Laid(A, L, N, F, w),
         Clear(a, L), Clear(a, N), Clear(a, ToSet(F)), Apart(a, w)
  PROVE  Laid(A, L, N, <<a>> \o F, w)
<1>1. F \in Seq(Holes(A))
  BY DEF Laid, Lists
<1>2. <<a>> \o F \in Seq(Holes(A)) /\ ToSet(<<a>> \o F) = {a} \cup ToSet(F)
  BY <1>1, Pushed
<1>3. DisjointSeq(<<a>> \o F)
  BY <1>1, PushDisjoint DEF Laid, Lists
<1>4. Across(L, ToSet(<<a>> \o F)) /\ Across(N, ToSet(<<a>> \o F))
  BY <1>2, ApartSymmetric DEF Laid, Lists, Across, Clear
<1>5. Clear(w, ToSet(<<a>> \o F))
  BY <1>2, ApartSymmetric DEF Laid, Clear
<1> QED
  BY <1>2, <1>3, <1>4, <1>5 DEF Laid, Lists

\* The window shrinks.
LEMMA WindowCut ==
  ASSUME NEW A, NEW L, NEW N, NEW F, NEW w, NEW v \in Holes(A), Laid(A, L, N, F, w),
         w.lo <= v.lo, v.hi <= w.hi
  PROVE  /\ Laid(A, L, N, F, v)
         /\ Clear(v, L) /\ Clear(v, N) /\ Clear(v, ToSet(F))
<1>1. w \in Holes(A) /\ L \subseteq Holes(A) /\ N \subseteq Holes(A) /\ ToSet(F) \subseteq Holes(A)
  BY ListedHoles DEF Laid, Lists
<1>2. Clear(v, L) /\ Clear(v, N) /\ Clear(v, ToSet(F))
  BY <1>1, PartApart DEF Laid, Clear
<1> QED
  BY <1>2 DEF Laid

\* Memory grows.
LEMMA MoreMemory ==
  ASSUME NEW A, NEW B, NEW L, NEW N, NEW F, A \subseteq B, Lists(A, L, N, F)
  PROVE  Lists(B, L, N, F)
<1>1. F \in Seq(Holes(B))
  BY HolesGrow, SeqMonotonic DEF Lists
<1> QED
  BY <1>1, HolesGrow DEF Lists

\* A region of new memory is apart from all there was.
LEMMA NewIsClear ==
  ASSUME NEW A, NEW B, NEW a \in Holes(B), Words(a) \cap A = {}, NEW S \in SUBSET Holes(A)
  PROVE  Clear(a, S)
<1>1. SUFFICES ASSUME NEW s \in S PROVE Apart(a, s)
  BY DEF Clear
<1>2. Words(a) \cap Words(s) = {}
  BY DEF Holes
<1> QED
  BY <1>2, ApartByWords

\* An array is freed, onto the list or joined to its head.
LEMMA ArrayFreed ==
  ASSUME NEW A, NEW L, NEW N, NEW F, NEW w, NEW a \in L, Laid(A, L, N, F, w), F # <<>>
  PROVE  /\ Laid(A, L \ {a}, N, <<a>> \o F, w)
         /\ Head(F).hi = a.lo
              => Laid(A, L \ {a}, N, <<Region(Head(F).lo, a.hi)>> \o Tail(F), w)
<1> DEFINE M == L \ {a}
           f == Head(F)
<1>1. a \in Holes(A) /\ F \in Seq(Holes(A)) /\ DisjointSeq(F) /\ N \subseteq Holes(A)
      /\ L \subseteq Holes(A) /\ ToSet(F) \subseteq Holes(A) /\ w \in Holes(A)
  BY ListedHoles DEF Laid, Lists
<1>2. Laid(A, M, N, F, w)
  BY DEF Laid, Lists, Disjoint, Across, Clear
<1>3. Clear(a, M) /\ Clear(a, N) /\ Clear(a, ToSet(F)) /\ Apart(a, w)
  BY ApartSymmetric DEF Laid, Lists, Disjoint, Across, Clear
<1>4. Laid(A, M, N, <<a>> \o F, w)
  BY <1>1, <1>2, <1>3, FreeAdded
<1>5. ASSUME f.hi = a.lo
      PROVE  Laid(A, M, N, <<Region(f.lo, a.hi)>> \o Tail(F), w)
  <2> DEFINE j == Region(f.lo, a.hi)
             T == Tail(F)
  <2>1. /\ f \in Holes(A) /\ f \in ToSet(F)
        /\ T \in Seq(Holes(A)) /\ DisjointSeq(T)
        /\ ToSet(T) \subseteq ToSet(F) /\ Clear(f, ToSet(T))
    BY <1>1, TailDisjoint
  <2>2. j \in Holes(A)
    BY <1>1, <1>5, <2>1, JoinedHole
  <2>3. \A s \in Holes(A) : Apart(f, s) /\ Apart(a, s) => Apart(j, s)
    BY <1>1, <1>5, <2>1, JoinedApart
  <2>4. Clear(f, M) /\ Clear(f, N) /\ Apart(f, w)
    BY <1>2, <2>1, ApartSymmetric DEF Laid, Lists, Across, Clear
  <2>5. Laid(A, M, N, T, w)
    BY <1>2, <2>1 DEF Laid, Lists, Across, Clear
  <2>6. Clear(j, M) /\ Clear(j, N) /\ Clear(j, ToSet(T)) /\ Apart(j, w)
    BY <1>1, <1>3, <2>1, <2>3, <2>4 DEF Clear
  <2> QED
    BY <2>2, <2>5, <2>6, FreeAdded
<1> QED
  BY <1>4, <1>5

\* There is a last region, when memory ends.
LEMMA HighestExists ==
  ASSUME NEW A, NEW b \in Nat, A \subseteq 0 .. b, NEW N \in SUBSET Holes(A), N # {}
  PROVE  Highest(N) \in N
<1> DEFINE below == {d \in Nat : \E r \in N : d = b - r.lo}
<1>1. \A r \in N : r.lo \in Nat /\ r.lo <= b
  BY DEF Holes, Words
<1>2. PICK r \in N : TRUE
  OBVIOUS
<1>3. b - r.lo \in below
  BY <1>1
<1>4. PICK d \in below : \A e \in below : d <= e
  BY <1>3, LeastElement
<1>5. PICK h \in N : d = b - h.lo
  OBVIOUS
<1>6. \A s \in N : s.lo <= h.lo
  <2>1. SUFFICES ASSUME NEW s \in N PROVE s.lo <= h.lo
    OBVIOUS
  <2>2. b - s.lo \in below
    BY <1>1
  <2> QED
    BY <1>1, <1>4, <1>5, <2>2
<1> QED
  BY <1>6 DEF Highest

-----------------------------------------------------------------------------
(* Runs: what sort_and_stuff makes of the regions it is given *)

Starts(W) == {v \in W : v = 0 \/ v - 1 \notin W}
Ends(W)   == {v + 1 : v \in {u \in W : u + 1 \notin W}}
RunEnd(W, lo) == Min({hi \in Ends(W) : hi > lo})

LEMMA RunsAre ==
  ASSUME NEW W
  PROVE  Runs(W) = {Region(lo, RunEnd(W, lo)) : lo \in Starts(W)}
BY DEF Runs, Cut, Starts, Ends, RunEnd

\* The run from lo ends at the first word that is not one of W.
LEMMA RunEnds ==
  ASSUME NEW b \in Nat, NEW W \in SUBSET (0 .. b), NEW lo \in Starts(W)
  PROVE  /\ RunEnd(W, lo) \in Nat
         /\ RunEnd(W, lo) > lo
         /\ RunEnd(W, lo) \notin W
         /\ lo .. RunEnd(W, lo) - 1 \subseteq W
<1> DEFINE out == {v \in Nat : v > lo /\ v \notin W}
           above == {hi \in Ends(W) : hi > lo}
<1>1. lo \in Nat /\ lo \in W /\ W \subseteq Nat
  BY DEF Starts
<1>2. b + 1 \in out
  BY <1>1
<1>3. PICK m \in out : \A n \in out : m <= n
  BY <1>2, LeastElement
<1>4. m \in Nat /\ m > lo /\ m \notin W
  OBVIOUS
<1>5. \A v \in lo .. m - 1 : v \in W
  <2>1. SUFFICES ASSUME NEW v \in lo .. m - 1, v \notin W PROVE FALSE
    OBVIOUS
  <2>2. v \in Nat /\ v < m /\ v >= lo
    BY <1>1, <1>4
  <2>3. v \in out
    BY <1>1, <2>1, <2>2
  <2> QED
    BY <1>3, <1>4, <2>2, <2>3
<1>6. m - 1 \in W /\ (m - 1) + 1 = m
  BY <1>1, <1>4, <1>5
<1>7. m \in above
  BY <1>4, <1>6 DEF Ends
<1>8. \A hi \in above : hi \in Nat /\ m <= hi
  <2>1. SUFFICES ASSUME NEW hi \in above PROVE hi \in Nat /\ m <= hi
    OBVIOUS
  <2>2. hi \in Nat /\ hi > lo /\ hi \notin W
    BY <1>1 DEF Ends
  <2> QED
    BY <1>3, <2>2
<1>9. RunEnd(W, lo) = m
  <2>1. Min(above) \in above /\ \A y \in above : Min(above) <= y
    BY <1>7, <1>8 DEF Min
  <2>2. Min(above) <= m /\ m <= Min(above) /\ Min(above) \in Nat
    BY <1>7, <1>8, <2>1
  <2> QED
    BY <1>4, <2>2 DEF RunEnd
<1> QED
  BY <1>4, <1>5, <1>9

\* The runs of a set of regions are regions, apart, within the words of the set.
LEMMA RunsOfRegions ==
  ASSUME NEW A, NEW b \in Nat, A \subseteq 0 .. b, NEW S \in SUBSET Holes(A)
  PROVE  /\ Runs(AllWords(S)) \subseteq Holes(A)
         /\ Disjoint(Runs(AllWords(S)))
         /\ \A q \in Runs(AllWords(S)) : Words(q) \subseteq AllWords(S)
<1> DEFINE W == AllWords(S)
<1>1. W \subseteq A /\ W \in SUBSET (0 .. b)
  BY DEF AllWords, Holes
<1>2. \A s \in S : s.lo \in Nat /\ s.hi \in Nat /\ s.lo + 2 <= s.hi /\ Words(s) \subseteq W
  BY DEF Holes, AllWords
<1>3. \A v \in W : \E s \in S : v \in Words(s)
  BY DEF AllWords
<1> HIDE DEF W
<1>4. \A lo \in Starts(W) :
        /\ lo \in W /\ lo \in Nat /\ (lo = 0 \/ lo - 1 \notin W)
        /\ RunEnd(W, lo) \in Nat /\ RunEnd(W, lo) > lo /\ RunEnd(W, lo) \notin W
        /\ lo .. RunEnd(W, lo) - 1 \subseteq W
  <2>1. \A lo \in Starts(W) : lo \in W /\ lo \in Nat /\ (lo = 0 \/ lo - 1 \notin W)
    BY <1>1 DEF Starts
  <2>2. \A lo \in Starts(W) :
          /\ RunEnd(W, lo) \in Nat /\ RunEnd(W, lo) > lo /\ RunEnd(W, lo) \notin W
          /\ lo .. RunEnd(W, lo) - 1 \subseteq W
    BY <1>1, RunEnds
  <2> QED
    BY <2>1, <2>2
<1>5. \A lo \in Starts(W) : lo + 2 <= RunEnd(W, lo)
  <2>1. SUFFICES ASSUME NEW lo \in Starts(W) PROVE lo + 2 <= RunEnd(W, lo)
    OBVIOUS
  <2>2. PICK s \in S : lo \in Words(s)
    BY <1>3, <1>4
  <2>3. lo = s.lo
    <3>1. lo >= s.lo /\ lo <= s.hi - 1
      BY <1>2, <1>4, <2>2 DEF Words
    <3>2. lo > s.lo => lo - 1 \in Words(s) /\ lo # 0
      BY <1>2, <1>4, <3>1 DEF Words
    <3> QED
      BY <1>2, <1>4, <3>1, <3>2
  <2>4. lo + 1 \in Words(s)
    BY <1>2, <2>3 DEF Words
  <2>5. RunEnd(W, lo) # lo + 1
    BY <1>2, <1>4, <2>4
  <2> QED
    BY <1>4, <2>5
<1>6. \A lo \in Starts(W) : Region(lo, RunEnd(W, lo)) \in Holes(A)
  BY <1>1, <1>4, <1>5 DEF Holes, Region, Words
<1>7. \A j, k \in Starts(W) : j < k => RunEnd(W, j) <= k
  <2>1. SUFFICES ASSUME NEW j \in Starts(W), NEW k \in Starts(W), j < k, k < RunEnd(W, j)
                 PROVE  FALSE
    BY <1>4
  <2>2. k - 1 \in j .. RunEnd(W, j) - 1 /\ k # 0
    BY <1>4, <2>1
  <2> QED
    BY <1>4, <2>2
<1>8. Disjoint(Runs(W))
  <2>1. SUFFICES ASSUME NEW j \in Starts(W), NEW k \in Starts(W), j # k
                 PROVE  Apart(Region(j, RunEnd(W, j)), Region(k, RunEnd(W, k)))
    BY RunsAre DEF Disjoint
  <2>2. j < k \/ k < j
    BY <1>4, <2>1
  <2> QED
    BY <1>7, <2>2 DEF Apart, Region
<1>9. \A q \in Runs(W) : Words(q) \subseteq W
  BY <1>4, RunsAre DEF Region, Words
<1>10. Runs(W) \subseteq Holes(A)
  BY <1>6, RunsAre
<1> QED
  BY <1>8, <1>9, <1>10 DEF W

\* Every region is within one of the runs.
LEMMA RunsCover ==
  ASSUME NEW A, NEW b \in Nat, A \subseteq 0 .. b, NEW S \in SUBSET Holes(A), NEW s \in S
  PROVE  \E q \in Runs(AllWords(S)) : q.lo <= s.lo /\ s.hi <= q.hi
<1> DEFINE W == AllWords(S)
           down == {v \in Nat : v <= s.lo /\ v .. s.lo \subseteq W}
<1>1. W \in SUBSET (0 .. b)
  BY DEF AllWords, Holes
<1>2. s.lo \in Nat /\ s.hi \in Nat /\ s.lo < s.hi /\ Words(s) \subseteq W /\ s.lo \in W
  BY DEF Holes, AllWords, Words
<1> HIDE DEF W
<1>3. s.lo \in down
  BY <1>2
<1>4. PICK lo \in down : \A v \in down : lo <= v
  BY <1>3, LeastElement
<1>5. lo \in W /\ lo \in Nat /\ lo <= s.lo /\ lo .. s.lo \subseteq W
  BY <1>2
<1>6. lo = 0 \/ lo - 1 \notin W
  <2>1. SUFFICES ASSUME lo # 0, lo - 1 \in W PROVE FALSE
    OBVIOUS
  <2>2. lo - 1 \in Nat /\ lo - 1 <= s.lo /\ lo - 1 < lo
    BY <1>2, <1>5, <2>1
  <2>3. (lo - 1) .. s.lo \subseteq W
    BY <1>2, <1>5, <2>1
  <2>4. lo - 1 \in down
    BY <2>2, <2>3
  <2> QED
    BY <1>4, <1>5, <2>2, <2>4
<1>7. lo \in Starts(W)
  BY <1>5, <1>6 DEF Starts
<1>8. RunEnd(W, lo) \in Nat /\ RunEnd(W, lo) > lo /\ RunEnd(W, lo) \notin W
  BY <1>1, <1>7, RunEnds
<1>9. s.hi <= RunEnd(W, lo)
  <2>1. SUFFICES ASSUME RunEnd(W, lo) < s.hi PROVE FALSE
    BY <1>2, <1>8
  <2>2. CASE RunEnd(W, lo) <= s.lo
    BY <1>2, <1>5, <1>8, <2>2
  <2>3. CASE RunEnd(W, lo) > s.lo
    BY <1>2, <1>8, <2>1, <2>3 DEF Words
  <2> QED
    BY <1>2, <1>8, <2>2, <2>3
<1>10. Region(lo, RunEnd(W, lo)) \in Runs(W)
  BY <1>7, RunsAre
<1> QED
  BY <1>5, <1>9, <1>10 DEF W, Region

\* Sorted and joined, the freed regions make a ready list, and no word is lost.
LEMMA ListCycled ==
  ASSUME NEW A, NEW b \in Nat, A \subseteq 0 .. b, NEW L, NEW F, Lists(A, L, {}, F)
  PROVE  /\ Lists(A, L, Runs(AllWords(ToSet(F))), <<>>)
         /\ AllWords(Runs(AllWords(ToSet(F)))) = AllWords(ToSet(F))
<1> DEFINE S == ToSet(F)
           R == Runs(AllWords(S))
<1>1. S \in SUBSET Holes(A) /\ L \subseteq Holes(A)
  BY ListedHoles DEF Lists
<1>2. R \subseteq Holes(A) /\ Disjoint(R) /\ \A q \in R : Words(q) \subseteq AllWords(S)
  BY <1>1, RunsOfRegions
<1>3. Across(L, R)
  <2>1. SUFFICES ASSUME NEW a \in L, NEW q \in R PROVE Apart(a, q)
    BY DEF Across, Clear
  <2>2. \A s \in S : Words(a) \cap Words(s) = {}
    <3>1. SUFFICES ASSUME NEW s \in S PROVE Words(a) \cap Words(s) = {}
      OBVIOUS
    <3>2. Apart(a, s)
      BY DEF Lists, Across, Clear
    <3> QED
      BY <1>1, <3>2, WordsOfApart
  <2>3. Words(a) \cap Words(q) = {}
    BY <1>2, <2>2 DEF AllWords
  <2> QED
    BY <1>1, <1>2, <2>3, ApartByWords
<1>4. AllWords(R) = AllWords(S)
  <2>1. AllWords(R) \subseteq AllWords(S)
    BY <1>2 DEF AllWords
  <2>2. ASSUME NEW s \in S PROVE Words(s) \subseteq AllWords(R)
    <3>1. PICK q \in R : q.lo <= s.lo /\ s.hi <= q.hi
      BY <1>1, RunsCover
    <3>2. Words(s) \subseteq Words(q)
      BY <1>1, <1>2, <3>1 DEF Words, Holes
    <3> QED
      BY <3>2 DEF AllWords
  <2> QED
    BY <2>1, <2>2 DEF AllWords
<1>5. ToSet(<<>>) = {} /\ <<>> \in Seq(Holes(A)) /\ DOMAIN <<>> = {}
  BY DEF ToSet
<1> HIDE DEF R
<1>6. Lists(A, L, R, <<>>)
  BY <1>1, <1>2, <1>3, <1>5 DEF Lists, DisjointSeq, Across, Clear
<1> QED
  BY <1>4, <1>6 DEF R

-----------------------------------------------------------------------------
(* malloc *)

LastSlot == CHOOSE m \in Slots : \A i \in Slots : i <= m

\* Memory ends after the last slot.
End == Base(LastSlot + 1)

ChunkAt(c) ==
  /\ c \in [lo : Nat, hi : Nat, used : Nat]
  /\ c.lo < c.used /\ c.used <= c.hi /\ c.hi <= End
  /\ \E m \in Slots : c.lo = Base(m)

ChunksFit == \A c \in chunks : ChunkAt(c)

\* Of the words malloc has returned, those that are not at the unused end of an
\* array that has slabs of its own.
UsedWords == UNION {c.lo .. c.used - 1 : c \in chunks}

LEMMA Sizes ==
  /\ Slab \in Nat /\ Slab >= 4 /\ GrowDiv \in Nat \ {0} /\ Slots \subseteq Nat \ {0}
  /\ Lens \subseteq Nat /\ SubTwice \in Nat
  /\ LastSlot \in Slots /\ \A i \in Slots : i <= LastSlot
<1>1. \E m \in Slots : \A i \in Slots : i <= m
  BY SallocAssumption
<1> QED
  BY <1>1, SallocAssumption DEF LastSlot

\* Slots come in the order of their numbers.
LEMMA BaseOrder ==
  ASSUME NEW i \in Nat, NEW j \in Nat
  PROVE  /\ Base(i) \in Nat
         /\ i <= j => Base(i) <= Base(j)
         /\ i < j => Base(i) + Slab + 1 <= Base(j)
<1>1. Slab + 1 \in Nat
  BY Sizes
<1>2. \A x, y, n \in Nat : x * n \in Nat /\ (x <= y => x * n <= y * n)
  <2>1. SUFFICES ASSUME NEW x \in Nat, NEW y \in Nat, NEW n \in Nat
                 PROVE  x * n \in Nat /\ (x <= y => x * n <= y * n)
    OBVIOUS
  <2>2. \A d \in Nat : d * n \in Nat /\ (x + d) * n = x * n + d * n
    OBVIOUS
  <2>3. x <= y => \E d \in Nat : y = x + d
    <3>1. x <= y => y - x \in Nat /\ y = x + (y - x)
      OBVIOUS
    <3> QED
      BY <3>1
  <2> QED
    BY <2>2, <2>3
<1>3. (i + 1) * (Slab + 1) = i * (Slab + 1) + (Slab + 1)
  BY <1>1
<1>4. i < j => i + 1 <= j
  OBVIOUS
<1>5. i + 1 \in Nat
  OBVIOUS
<1>6. Base(i) \in Nat /\ Base(j) \in Nat
  BY <1>1, <1>2 DEF Base
<1>7. i <= j => Base(i) <= Base(j)
  BY <1>1, <1>2 DEF Base
<1>8. i + 1 <= j => (i + 1) * (Slab + 1) <= j * (Slab + 1)
  BY <1>1, <1>2, <1>5
<1>9. i < j => Base(i) + Slab + 1 <= Base(j)
  BY <1>1, <1>3, <1>4, <1>6, <1>8, Sizes DEF Base
<1> QED
  BY <1>6, <1>7, <1>9

\* k slabs at slot i end before the slot after them, and within memory.
LEMMA ChunkEnds ==
  ASSUME NEW k \in Nat \ {0}, NEW i \in Room(k)
  PROVE  /\ i \in Slots /\ Base(i) \in Nat /\ k * Slab \in Nat /\ Slab <= k * Slab
         /\ Base(i) + k * Slab < Base(i + k)
         /\ Base(i) + k * Slab <= End
<1>1. i \in Slots /\ i \in Nat /\ Slab \in Nat /\ i + k - 1 \in i .. i + k - 1
  BY Sizes DEF Room
<1>2. k * Slab \in Nat /\ (i + k) * (Slab + 1) = i * (Slab + 1) + (k * Slab + k)
      /\ Base(i) \in Nat
  BY <1>1, BaseOrder DEF Base
<1>3. Slab <= k * Slab
  <2>1. k - 1 \in Nat /\ (k - 1) * Slab \in Nat /\ k * Slab = (k - 1) * Slab + Slab
    BY <1>1
  <2> QED
    BY <1>1, <1>2, <2>1
<1>4. Base(i) + k * Slab < Base(i + k)
  BY <1>1, <1>2 DEF Base
<1>5. i + k - 1 \in Slots
  BY <1>1 DEF Room
<1>6. i + k <= LastSlot + 1 /\ LastSlot + 1 \in Nat /\ i + k \in Nat
  BY <1>1, <1>5, Sizes
<1>7. Base(i + k) <= End /\ Base(i + k) \in Nat /\ End \in Nat
  BY <1>6, BaseOrder DEF End
<1> QED
  BY <1>1, <1>2, <1>3, <1>4, <1>7

\* What malloc returns is new memory.
LEMMA ChunkIsNew ==
  ASSUME ChunksFit, NEW k \in Nat \ {0}, NEW i \in Room(k)
  PROVE  Base(i) .. Base(i) + k * Slab - 1 \cap Addresses = {}
<1>1. SUFFICES ASSUME NEW c \in chunks, NEW v \in c.lo .. c.hi - 1,
                      v \in Base(i) .. Base(i) + k * Slab - 1
               PROVE  FALSE
  BY DEF Addresses
<1>2. PICK m \in Slots : c.lo = Base(m)
  BY DEF ChunksFit, ChunkAt
<1>3. /\ i \in Slots /\ Base(i) \in Nat /\ k * Slab \in Nat
      /\ Base(i) + k * Slab < Base(i + k)
  BY ChunkEnds
<1>4. c.lo \in Nat /\ c.hi \in Nat /\ c.lo <= c.hi /\ i \in Nat /\ m \in Nat /\ i + k \in Nat
  BY <1>3, Sizes DEF ChunksFit, ChunkAt
<1>5. i \in i .. i + k - 1
  BY <1>4
<1>6. Base(i) \notin c.lo .. c.hi
  BY <1>5 DEF Room, Taken
<1>7. Base(i) < c.lo /\ c.lo < Base(i + k) /\ Base(i + k) \in Nat
  BY <1>1, <1>3, <1>4, <1>6, BaseOrder
<1>8. i < m
  <2>1. m <= i => Base(m) <= Base(i)
    BY <1>4, BaseOrder
  <2> QED
    BY <1>2, <1>3, <1>4, <1>7, <2>1
<1>9. m < i + k
  <2>1. i + k <= m => Base(i + k) <= Base(m)
    BY <1>4, BaseOrder
  <2> QED
    BY <1>2, <1>4, <1>7, <2>1
<1>10. m \in i .. i + k - 1
  BY <1>4, <1>8, <1>9
<1>11. Base(m) \in c.lo .. c.hi
  BY <1>2, <1>4
<1> QED
  BY <1>10, <1>11 DEF Room, Taken

-----------------------------------------------------------------------------
(* The invariant *)

\* The calls of salloc that the program has made.
Asking == {c \in [len : Nat, take : Nat, prime : {FALSE}] : 2 <= c.len /\ c.len + 2 <= c.take}

\* The program's call is the outermost, prime_lastfree's the innermost.
Nested(q) ==
  /\ q \in Seq(Asking \cup {Prime})
  /\ Len(q) <= 2
  /\ Len(q) = 2 => q[1] = Prime /\ q[2] \in Asking

Priming == calls # <<>> /\ Top.prime

\* The list of freed regions is empty only while prime_lastfree sees to it.
HasHead == lastfree = <<>> => Priming

\* The call that prime_lastfree makes is met without list_cycle or get_more_ram, so
\* that it does not lead to another.
PrimeFits == Priming => \E r \in nextready \cup {win} : 4 <= Size(r)

SallocInv ==
  /\ ChunksFit
  /\ totalmem \in Nat /\ panicked \in BOOLEAN
  /\ Nested(calls)
  /\ Laid(Addresses, live, nextready, lastfree, win)
  /\ HasHead
  /\ PrimeFits

LEMMA PrimeIs == Prime = [len |-> 2, take |-> 4, prime |-> TRUE]
BY DEF Prime, Call, Len0, Need

LEMMA TopIs ==
  ASSUME NEW q, Nested(q), q # <<>>
  PROVE  /\ q[1] \in [len : Nat, take : Nat, prime : BOOLEAN]
         /\ 2 <= q[1].len /\ q[1].len + 2 <= q[1].take
         /\ q[1].prime => q[1] = Prime
<1>1. q[1] \in Asking \cup {Prime}
  BY EmptySeq, LenProperties, ElementOfSeq DEF Nested
<1>2. CASE q[1] = Prime
  BY <1>2, PrimeIs
<1>3. CASE q[1] \in Asking
  BY <1>3 DEF Asking
<1> QED
  BY <1>1, <1>2, <1>3

\* Returning from a call, and making the one of prime_lastfree.
LEMMA NestedReturn ==
  ASSUME NEW q, Nested(q), q # <<>>
  PROVE  /\ Nested(Tail(q))
         /\ ~q[1].prime => Tail(q) = <<>>
         /\ Tail(q) # <<>> => ~Tail(q)[1].prime
<1>1. /\ Tail(q) \in Seq(Asking \cup {Prime}) /\ Len(Tail(q)) = Len(q) - 1
      /\ \A i \in 1 .. Len(Tail(q)) : Tail(q)[i] = q[i + 1]
      /\ Len(q) \in Nat \ {0} /\ Len(q) <= 2
  BY HeadTailProperties, EmptySeq DEF Nested
<1>2. Tail(q) # <<>> => Len(Tail(q)) = 1 /\ Len(q) = 2
  BY <1>1, EmptySeq
<1>3. ~q[1].prime => Tail(q) = <<>>
  BY <1>2, PrimeIs DEF Nested
<1>4. ASSUME Tail(q) # <<>> PROVE ~Tail(q)[1].prime
  <2>1. Len(Tail(q)) = 1 /\ Len(q) = 2 /\ 1 \in 1 .. Len(Tail(q))
    BY <1>2, <1>4
  <2>2. Tail(q)[1] = q[2] /\ q[2] \in Asking
    BY <1>1, <2>1 DEF Nested
  <2> QED
    BY <2>2 DEF Asking
<1> QED
  BY <1>1, <1>3, <1>4 DEF Nested

LEMMA NestedPrime ==
  ASSUME NEW q, Nested(q), q # <<>>, ~q[1].prime
  PROVE  Nested(<<Prime>> \o q) /\ (<<Prime>> \o q)[1] = Prime /\ <<Prime>> \o q # <<>>
<1> DEFINE S == Asking \cup {Prime}
<1>1. q \in Seq(S) /\ Prime \in S /\ Len(q) \in Nat \ {0} /\ q[1] \in S
  BY EmptySeq, ElementOfSeq DEF Nested
<1>2. Len(q) = 1 /\ q[1] \in Asking
  <2>1. q[1] # Prime
    BY PrimeIs
  <2>2. Len(q) <= 2 /\ Len(q) # 2
    BY <2>1 DEF Nested
  <2>3. Len(q) \in Nat /\ Len(q) # 0
    BY EmptySeq DEF Nested
  <2>4. \A n \in Nat : n <= 2 /\ n # 2 /\ n # 0 => n = 1
    OBVIOUS
  <2>5. Len(q) = 1
    BY <2>2, <2>3, <2>4
  <2>6. q[1] \in Asking
    BY <1>1, <2>1
  <2> QED
    BY <2>5, <2>6
<1>3. 1 \in DOMAIN q
  BY <1>1, LenProperties
<1>4. /\ <<Prime>> \o q \in Seq(S) /\ <<Prime>> \o q # <<>>
      /\ Len(<<Prime>> \o q) = 2 /\ (<<Prime>> \o q)[1] = Prime
      /\ (<<Prime>> \o q)[1 + 1] = q[1]
  BY <1>1, <1>2, <1>3, Pushed
<1> QED
  BY <1>2, <1>4 DEF Nested

LEMMA AddressesEnd ==
  ASSUME ChunksFit
  PROVE  /\ Addresses \subseteq 0 .. End /\ End \in Nat
         /\ Addresses \subseteq Nat
<1>1. End \in Nat
  BY Sizes, BaseOrder DEF End
<1> QED
  BY <1>1 DEF Addresses, ChunksFit, ChunkAt

-----------------------------------------------------------------------------
(* Taking memory *)

\* Making the window of a ready list.
LEMMA OpenKeeps ==
  ASSUME SallocInv, Busy, NEW ready, NEW free,
         Lists(Addresses', live, ready, free), ChunksFit', totalmem' \in Nat,
         ready # {}, Open(ready, free),
         free = <<>> => ~Top.prime,
         free = <<>> \/ Top.prime => \E r \in ready : 4 <= Size(r)
  PROVE  SallocInv'
<1> DEFINE h == Highest(ready)
<1>1. Addresses' \subseteq 0 .. End /\ End \in Nat
  <2>1. End \in Nat
    BY AddressesEnd DEF SallocInv
  <2> QED
    BY <2>1 DEF ChunksFit, ChunkAt, Addresses
<1>2. h \in ready
  BY <1>1, HighestExists DEF Lists
<1>3. Laid(Addresses', live, ready \ {h}, free, h)
  BY <1>2, WindowOpened
<1>4. /\ win' = h /\ nextready' = ready \ {h} /\ lastfree' = free
      /\ live' = live /\ panicked' = panicked
      /\ calls' = IF free = <<>> THEN <<Prime>> \o calls ELSE calls
  BY DEF Open
<1>5. nextready' \cup {win'} = ready
  BY <1>2, <1>4
<1>6. CASE free = <<>>
  <2>1. Nested(calls') /\ calls'[1] = Prime /\ calls' # <<>>
    BY <1>4, <1>6, NestedPrime DEF SallocInv, Busy, Top
  <2>2. HasHead'
    BY <2>1, PrimeIs DEF HasHead, Priming, Top
  <2>3. PrimeFits'
    BY <1>5, <1>6 DEF PrimeFits
  <2> QED
    BY <1>3, <1>4, <2>1, <2>2, <2>3 DEF SallocInv
<1>7. CASE free # <<>>
  <2>1. calls' = calls
    BY <1>4, <1>7
  <2>2. HasHead' /\ Nested(calls')
    BY <1>4, <1>7, <2>1 DEF HasHead, SallocInv
  <2>3. PrimeFits'
    BY <1>5, <1>7, <2>1 DEF PrimeFits, Priming, Top
  <2> QED
    BY <1>3, <1>4, <2>2, <2>3 DEF SallocInv
<1> QED
  BY <1>6, <1>7

\* malloc has returned k slabs, of which those from "end" on will not be used.
LEMMA MemoryGrows ==
  ASSUME ChunksFit, NEW k \in Nat \ {0}, NEW i \in Room(k), NEW end \in Nat,
         Base(i) < end, end <= Base(i) + k * Slab, chunks' = Grown(Chunk(i, k), end)
  PROVE  /\ ChunksFit'
         /\ Addresses' = Addresses \cup (Base(i) .. Base(i) + k * Slab - 1)
         /\ UsedWords' = UsedWords \cup (Base(i) .. end - 1)
<1> DEFINE c == [lo |-> Base(i), hi |-> Base(i) + k * Slab, used |-> end]
<1>1. chunks' = chunks \cup {c}
  BY DEF Grown, Chunk, Region
<1>2. /\ i \in Slots /\ Base(i) \in Nat /\ k * Slab \in Nat
      /\ Base(i) + k * Slab <= End
  BY ChunkEnds
<1>3. ChunkAt(c)
  BY <1>2 DEF ChunkAt
<1>4. \A d \in chunks : ChunkAt(d)
  BY DEF ChunksFit
<1>5. ChunksFit'
  BY <1>1, <1>3, <1>4 DEF ChunksFit, ChunkAt
<1>6. c.lo = Base(i) /\ c.hi = Base(i) + k * Slab /\ c.used = end
  OBVIOUS
<1> HIDE DEF c
<1>7. Addresses' = Addresses \cup (c.lo .. c.hi - 1)
  BY <1>1 DEF Addresses
<1>8. UsedWords' = UsedWords \cup (c.lo .. c.used - 1)
  BY <1>1 DEF UsedWords
<1>9. Addresses' = Addresses \cup (Base(i) .. Base(i) + k * Slab - 1)
  BY <1>2, <1>6, <1>7
<1>10. UsedWords' = UsedWords \cup (Base(i) .. end - 1)
  BY <1>6, <1>8
<1> QED
  BY <1>5, <1>9, <1>10

\* The allocator stays as it is when malloc fails, or when nothing happens.
LEMMA UnchangedKeeps ==
  ASSUME SallocInv, panicked' \in BOOLEAN,
         UNCHANGED <<chunks, totalmem, nextready, lastfree, win, live, calls>>
  PROVE  SallocInv'
BY DEF SallocInv, ChunksFit, ChunkAt, Addresses, HasHead, PrimeFits, Priming, Top

\* The array, or the region for the list, is cut from the window or from new memory.
LEMMA GiveKeeps ==
  ASSUME SallocInv, Busy, ChunksFit', totalmem' \in Nat, panicked' = panicked,
         nextready' = nextready, Laid(Addresses', live, nextready, lastfree, win'),
         NEW a, a \in Holes(Addresses'), Give(a), Apart(a, win'),
         Clear(a, live), Clear(a, nextready), Clear(a, ToSet(lastfree))
  PROVE  SallocInv'
<1>1. calls' = Tail(calls) /\ calls # <<>> /\ Nested(calls)
  BY DEF Give, Busy, SallocInv
<1>2. /\ Nested(calls')
      /\ ~Top.prime => calls' = <<>>
      /\ calls' # <<>> => ~calls'[1].prime
  BY <1>1, NestedReturn DEF Top
<1>3. PrimeFits' /\ ~Priming'
  BY <1>2 DEF PrimeFits, Priming, Top
<1>4. CASE Top.prime
  <2>1. live' = live /\ lastfree' = <<a>> \o lastfree /\ lastfree \in Seq(Holes(Addresses'))
    BY <1>4 DEF Give, Laid, Lists
  <2>2. Laid(Addresses', live, nextready, lastfree', win')
    BY <2>1, FreeAdded
  <2>3. lastfree' # <<>>
    BY <2>1, Pushed
  <2> QED
    BY <1>2, <1>3, <2>1, <2>2, <2>3 DEF SallocInv, HasHead
<1>5. CASE ~Top.prime
  <2>1. live' = live \cup {a} /\ lastfree' = lastfree
    BY <1>5 DEF Give
  <2>2. Laid(Addresses', live', nextready, lastfree, win')
    BY <2>1, ArrayAdded
  <2>3. lastfree # <<>>
    BY <1>5 DEF SallocInv, HasHead, Priming
  <2> QED
    BY <1>2, <1>3, <2>1, <2>2, <2>3 DEF SallocInv, HasHead
<1> QED
  BY <1>4, <1>5

\* What salloc cuts from the window.
LEMMA CutShape ==
  ASSUME Nested(calls), Busy, Fits, NEW A, win \in Holes(A)
  PROVE  /\ NewTop \in Nat /\ win.lo + 2 <= NewTop /\ NewTop + Top.len <= win.hi
         /\ Top.take = Top.len + 2 => NewTop + Top.len = win.hi
         /\ [win EXCEPT !.hi = NewTop] = Region(win.lo, NewTop)
         /\ Region(win.lo, NewTop) \in Holes(A)
         /\ Region(NewTop, NewTop + Top.len) \in Holes(A)
<1>1. Top.len \in Nat /\ Top.take \in Nat /\ 2 <= Top.len /\ Top.len + 2 <= Top.take
  BY TopIs DEF Busy, Top
<1>2. win \in [lo : Nat, hi : Nat] /\ win.lo \in Nat /\ win.hi \in Nat /\ Words(win) \subseteq A
  BY DEF Holes
<1>3. /\ NewTop \in Nat /\ win.lo + 2 <= NewTop /\ NewTop + Top.len <= win.hi
      /\ Top.take = Top.len + 2 => NewTop + Top.len = win.hi
  BY <1>1, <1>2 DEF NewTop, Fits
<1>4. [win EXCEPT !.hi = NewTop] = Region(win.lo, NewTop)
  BY <1>2 DEF Region
<1>5. Region(win.lo, NewTop) \in Holes(A)
  BY <1>1, <1>2, <1>3 DEF Holes, Region, Words
<1>6. Region(NewTop, NewTop + Top.len) \in Holes(A)
  BY <1>1, <1>2, <1>3 DEF Holes, Region, Words
<1> QED
  BY <1>3, <1>4, <1>5, <1>6

LEMMA TakeKeeps ==
  ASSUME SallocInv, Take
  PROVE  SallocInv'
<1> DEFINE a == Region(NewTop, NewTop + Top.len)
           v == Region(win.lo, NewTop)
<1>1. Busy /\ Fits /\ Give(a) /\ Nested(calls) /\ ChunksFit
  BY DEF Take, SallocInv
<1>2. Laid(Addresses, live, nextready, lastfree, win) /\ win \in Holes(Addresses)
  BY DEF SallocInv, Laid
<1>3. win' = v /\ v \in Holes(Addresses) /\ a \in Holes(Addresses)
      /\ NewTop \in Nat /\ NewTop + Top.len <= win.hi /\ win.lo + 2 <= NewTop
  BY <1>1, <1>2, CutShape DEF Take
<1>4. Addresses' = Addresses /\ ChunksFit' /\ totalmem' \in Nat
  BY <1>1 DEF Take, Addresses, ChunksFit, ChunkAt, SallocInv
<1>5. Top.len \in Nat /\ win.lo \in Nat /\ win.hi \in Nat
  BY <1>1, <1>2, TopIs DEF Busy, Top, Holes
<1>6. Laid(Addresses, live, nextready, lastfree, v)
  <2>1. win.lo <= v.lo /\ v.hi <= win.hi
    BY <1>3, <1>5 DEF Region
  <2> QED
    BY <1>2, <1>3, <2>1, WindowCut
<1>7. Clear(a, live) /\ Clear(a, nextready) /\ Clear(a, ToSet(lastfree))
  <2>1. win.lo <= a.lo /\ a.hi <= win.hi
    BY <1>3, <1>5 DEF Region
  <2> QED
    BY <1>2, <1>3, <2>1, WindowCut
<1>8. Apart(a, v)
  BY <1>3 DEF Apart, Region
<1>9. nextready' = nextready /\ panicked' = panicked
  BY DEF Take
<1> HIDE DEF a, v
<1> QED
  BY <1>1, <1>3, <1>4, <1>6, <1>7, <1>8, <1>9, GiveKeeps

\* salloc_special asks for enough slabs.
LEMMA SlabsHold ==
  ASSUME NEW len \in Nat, len > Slab
  PROVE  /\ (len + Slab - 1) \div Slab \in Nat \ {0}
         /\ len <= ((len + Slab - 1) \div Slab) * Slab
<1> DEFINE k == (len + Slab - 1) \div Slab
<1>1. Slab \in Nat /\ Slab >= 4
  BY Sizes
<1>2. \A x \in Nat, d \in Nat \ {0} : x \div d \in Nat /\ x < (x \div d) * d + d
  OBVIOUS
<1>3. len + Slab - 1 \in Nat /\ Slab \in Nat \ {0}
  BY <1>1
<1>4. k \in Nat /\ len + Slab - 1 < k * Slab + Slab
  BY <1>2, <1>3
<1>5. k * Slab \in Nat /\ (k = 0 => k * Slab = 0)
  BY <1>1, <1>4
<1> HIDE DEF k
<1>6. len <= k * Slab
  BY <1>1, <1>4, <1>5
<1>7. k # 0
  BY <1>1, <1>5, <1>6
<1> QED
  BY <1>4, <1>6, <1>7 DEF k

\* An array of more than a slab is cut from new memory.
LEMMA TakeSpecialKeeps ==
  ASSUME SallocInv, TakeSpecial
  PROVE  SallocInv'
<1> DEFINE k == (Top.len + Slab - 1) \div Slab
<1>1. Busy /\ Top.len > Slab /\ ChunksFit /\ Nested(calls)
  BY DEF TakeSpecial, Big, SallocInv
<1>2. Top.len \in Nat /\ Slab \in Nat /\ Slab >= 4
  BY <1>1, TopIs, Sizes DEF Busy, Top
<1>3. k \in Nat \ {0} /\ Top.len <= k * Slab
  BY <1>1, <1>2, SlabsHold
<1> HIDE DEF k
<1>4. CASE Panic
  BY <1>4, UnchangedKeeps DEF Panic
<1>5. ASSUME NEW i \in Room(k),
             chunks' = Grown(Chunk(i, k), Region(Base(i), Base(i) + Top.len).hi),
             totalmem' = totalmem + k, Give(Region(Base(i), Base(i) + Top.len)),
             UNCHANGED <<nextready, win, panicked>>
      PROVE  SallocInv'
  <2> DEFINE a == Region(Base(i), Base(i) + Top.len)
             new == Base(i) .. Base(i) + k * Slab - 1
  <2>1. Base(i) \in Nat /\ k * Slab \in Nat
    BY <1>3, ChunkEnds
  <2>2. /\ a.lo = Base(i) /\ a.hi = Base(i) + Top.len /\ a.hi \in Nat
        /\ Base(i) < a.hi /\ a.hi <= Base(i) + k * Slab
    BY <1>1, <1>2, <1>3, <2>1 DEF Region
  <2>3. ChunksFit' /\ Addresses' = Addresses \cup new
    BY <1>1, <1>3, <1>5, <2>2, MemoryGrows
  <2>4. Words(a) \subseteq new /\ a \in Holes(Addresses')
    BY <1>1, <1>2, <1>3, <2>1, <2>3 DEF Holes, Words, Region
  <2>5. Words(a) \cap Addresses = {}
    BY <1>1, <1>3, <2>4, ChunkIsNew
  <2>6. /\ live \subseteq Holes(Addresses) /\ nextready \subseteq Holes(Addresses)
        /\ ToSet(lastfree) \subseteq Holes(Addresses) /\ {win} \subseteq Holes(Addresses)
    BY ListedHoles DEF SallocInv, Laid, Lists
  <2>7. Clear(a, live) /\ Clear(a, nextready) /\ Clear(a, ToSet(lastfree)) /\ Clear(a, {win})
    BY <2>4, <2>5, <2>6, NewIsClear
  <2>8. Laid(Addresses', live, nextready, lastfree, win')
    <3>1. Lists(Addresses', live, nextready, lastfree)
      BY <2>3, MoreMemory DEF SallocInv, Laid
    <3>2. win \in Holes(Addresses')
      BY <2>3, <2>6, HolesGrow
    <3> QED
      BY <1>5, <3>1, <3>2 DEF SallocInv, Laid
  <2>9. Apart(a, win') /\ totalmem' \in Nat
    BY <1>3, <1>5, <2>7 DEF Clear, SallocInv
  <2> HIDE DEF a
  <2> QED
    BY <1>1, <1>5, <2>3, <2>4, <2>7, <2>8, <2>9, GiveKeeps DEF a
<1> QED
  BY <1>4, <1>5 DEF TakeSpecial, k

\* What a reload sees: a call that the window cannot meet, and the window on the list.
LEMMA ReloadSees ==
  ASSUME SallocInv, Reload
  PROVE  /\ Busy
         /\ Lists(Addresses, live, nextready, Kept)
         /\ Kept # <<>>
         /\ ToSet(Kept) = {win} \cup ToSet(lastfree)
         /\ Top.prime => Size(win) < 4
<1>1. Busy /\ ~Fits /\ Nested(calls) /\ Laid(Addresses, live, nextready, lastfree, win)
  BY DEF Reload, SallocInv
<1>2. win \in Holes(Addresses) /\ lastfree \in Seq(Holes(Addresses))
  BY <1>1 DEF Laid, Lists
<1>3. win.lo \in Nat /\ win.hi \in Nat /\ win.lo + 2 <= win.hi /\ Size(win) >= 2
  BY <1>2 DEF Holes, Size
<1>4. Kept = <<win>> \o lastfree
  BY <1>3 DEF Kept
<1>5. Lists(Addresses, live, nextready, Kept)
  BY <1>1, <1>4, WindowFreed
<1>6. Kept # <<>> /\ ToSet(Kept) = {win} \cup ToSet(lastfree)
  BY <1>2, <1>4, Pushed
<1>7. Top.prime => Size(win) < 4
  <2>1. Top.prime => Top.take = 4
    BY <1>1, TopIs, PrimeIs DEF Busy, Top
  <2> QED
    BY <1>1, <1>3, <2>1 DEF Fits, Size
<1> QED
  BY <1>1, <1>5, <1>6, <1>7

LEMMA SameMemory ==
  ASSUME SallocInv, UNCHANGED <<chunks, totalmem>>
  PROVE  ChunksFit' /\ totalmem' \in Nat /\ Addresses' = Addresses
BY DEF SallocInv, ChunksFit, ChunkAt, Addresses

LEMMA ReloadNextKeeps ==
  ASSUME SallocInv, ReloadNext
  PROVE  SallocInv'
<1>1. Reload /\ nextready # {} /\ Open(nextready, Kept) /\ UNCHANGED <<chunks, totalmem>>
  BY DEF ReloadNext
<1>2. /\ Busy /\ Lists(Addresses, live, nextready, Kept)
      /\ Kept # <<>> /\ (Top.prime => Size(win) < 4)
  BY <1>1, ReloadSees
<1>3. ChunksFit' /\ totalmem' \in Nat /\ Addresses' = Addresses
  BY <1>1, SameMemory
<1>4. Top.prime => \E r \in nextready : 4 <= Size(r)
  <2>1. win \in Holes(Addresses)
    BY DEF SallocInv, Laid
  <2>2. Size(win) \in Nat
    BY <2>1 DEF Holes, Size
  <2> QED
    BY <1>2, <2>2 DEF SallocInv, PrimeFits, Priming, Busy
<1> QED
  BY <1>1, <1>2, <1>3, <1>4, OpenKeeps

\* prime_lastfree's call does not come here: the window would meet it.
LEMMA NotPriming ==
  ASSUME SallocInv, Reload, nextready = {}
  PROVE  ~Top.prime
<1>1. Top.prime => Size(win) < 4
  BY ReloadSees
<1>2. win \in Holes(Addresses)
  BY DEF SallocInv, Laid
<1>3. Size(win) \in Nat
  BY <1>2 DEF Holes, Size
<1>4. Priming => 4 <= Size(win)
  BY DEF SallocInv, PrimeFits
<1> QED
  BY <1>1, <1>3, <1>4 DEF Priming, Reload, Busy

LEMMA ReloadCycleKeeps ==
  ASSUME SallocInv, ReloadCycle
  PROVE  SallocInv'
<1> DEFINE ready == Runs(AllWords(ToSet(Kept)))
<1>1. Reload /\ nextready = {} /\ Usable /\ Open(ready, <<>>) /\ UNCHANGED <<chunks, totalmem>>
  BY DEF ReloadCycle
<1>2. Busy /\ Lists(Addresses, live, {}, Kept)
  BY <1>1, ReloadSees
<1>3. ChunksFit' /\ totalmem' \in Nat /\ Addresses' = Addresses
  BY <1>1, SameMemory
<1>4. Addresses \subseteq 0 .. End /\ End \in Nat
  BY AddressesEnd DEF SallocInv
<1>5. Lists(Addresses, live, ready, <<>>)
  BY <1>2, <1>4, ListCycled
<1>6. ToSet(Kept) \in SUBSET Holes(Addresses)
  BY <1>2, ListedHoles DEF Lists
<1>7. \E q \in ready : 4 <= Size(q)
  <2>1. PICK r \in ToSet(Kept) : Size(r) >= Need(Top.len)
    BY <1>1 DEF Usable
  <2>2. PICK q \in ready : q.lo <= r.lo /\ r.hi <= q.hi
    BY <1>4, <1>6, RunsCover
  <2>3. Top.len \in Nat /\ 2 <= Top.len
    BY <1>2, TopIs DEF SallocInv, Busy, Top
  <2>4. 4 <= Size(r)
    BY <1>6, <2>1, <2>3 DEF Need, Size, Holes
  <2>5. q \in Holes(Addresses) /\ r \in Holes(Addresses)
    BY <1>5, <1>6 DEF Lists
  <2>6. Size(r) <= Size(q)
    BY <2>2, <2>5 DEF Size, Holes
  <2> QED
    BY <2>4, <2>5, <2>6 DEF Size, Holes
<1>8. ~Top.prime
  BY <1>1, NotPriming
<1> HIDE DEF ready
<1>9. ready # {}
  BY <1>7
<1> QED
  BY <1>1, <1>2, <1>3, <1>5, <1>7, <1>8, <1>9, OpenKeeps

\* get_more_ram is asked for a slab at least.
LEMMA GrowsBySlabs ==
  ASSUME NEW total \in Nat
  PROVE  total \div GrowDiv + 1 \in Nat \ {0}
<1>1. \A x \in Nat, d \in Nat \ {0} : x \div d \in Nat
  OBVIOUS
<1> QED
  BY <1>1, Sizes

LEMMA ReloadGrowKeeps ==
  ASSUME SallocInv, ReloadGrow
  PROVE  SallocInv'
<1> DEFINE k == totalmem \div GrowDiv + 1
<1>1. Reload /\ nextready = {}
  BY DEF ReloadGrow
<1>2. Busy /\ Kept # <<>> /\ Lists(Addresses, live, {}, Kept) /\ ChunksFit
  BY <1>1, ReloadSees DEF SallocInv
<1>3. k \in Nat \ {0}
  BY GrowsBySlabs DEF SallocInv
<1> HIDE DEF k
<1>4. CASE Panic
  BY <1>4, UnchangedKeeps DEF Panic
<1>5. ASSUME NEW i \in Room(k), Open({Chunk(i, k)}, Kept),
             chunks' = Grown(Chunk(i, k), Chunk(i, k).hi), totalmem' = totalmem + k
      PROVE  SallocInv'
  <2> DEFINE r == Chunk(i, k)
             new == Base(i) .. Base(i) + k * Slab - 1
  <2>1. Base(i) \in Nat /\ k * Slab \in Nat /\ Slab <= k * Slab /\ Slab \in Nat /\ Slab >= 4
    BY <1>3, ChunkEnds, Sizes
  <2>2. r = Region(Base(i), Base(i) + k * Slab) /\ Words(r) = new
        /\ r.hi = Base(i) + k * Slab
    BY <2>1 DEF Chunk, Region, Words
  <2>3. ChunksFit' /\ Addresses' = Addresses \cup new
    BY <1>2, <1>3, <1>5, <2>1, <2>2, MemoryGrows
  <2>4. r \in Holes(Addresses')
    BY <2>1, <2>2, <2>3 DEF Holes, Region
  <2>5. Words(r) \cap Addresses = {}
    BY <1>2, <1>3, <2>2, ChunkIsNew
  <2>6. live \subseteq Holes(Addresses) /\ ToSet(Kept) \subseteq Holes(Addresses)
    BY <1>2, ListedHoles DEF Lists
  <2>7. Clear(r, live) /\ Clear(r, ToSet(Kept))
    BY <2>4, <2>5, <2>6, NewIsClear
  <2>8. Lists(Addresses', live, {}, Kept)
    BY <1>2, <2>3, MoreMemory
  <2>9. Lists(Addresses', live, {r}, Kept)
    BY <2>4, <2>7, <2>8, ApartSymmetric DEF Lists, Disjoint, Across, Clear
  <2>10. 4 <= Size(r)
    BY <2>1, <2>2 DEF Size, Region
  <2>11. totalmem' \in Nat
    BY <1>3, <1>5 DEF SallocInv
  <2>12. ~Top.prime
    BY <1>1, NotPriming
  <2> HIDE DEF r
  <2> QED
    BY <1>2, <1>5, <2>3, <2>9, <2>10, <2>11, <2>12, OpenKeeps DEF r
<1> QED
  BY <1>4, <1>5 DEF ReloadGrow, k

-----------------------------------------------------------------------------
(* The program's own steps *)

LEMMA AskKeeps ==
  ASSUME SallocInv, May, NEW c \in Asking, calls' = <<c>>,
         UNCHANGED <<chunks, totalmem, nextready, lastfree, win, live, panicked>>
  PROVE  SallocInv'
<1>1. Nested(calls') /\ calls' # <<>> /\ ~calls'[1].prime
  <2>1. <<c>> \in Seq(Asking \cup {Prime}) /\ Len(<<c>>) = 1 /\ <<c>>[1] = c /\ <<c>> # <<>>
    OBVIOUS
  <2>2. Nested(<<c>>)
    BY <2>1 DEF Nested
  <2>3. ~c.prime
    BY DEF Asking
  <2> QED
    BY <2>1, <2>2, <2>3
<1>2. lastfree # <<>>
  BY DEF SallocInv, HasHead, Priming, May, Idle
<1>3. ChunksFit' /\ Addresses' = Addresses /\ totalmem' \in Nat
  BY SameMemory
<1>4. HasHead' /\ PrimeFits'
  BY <1>1, <1>2 DEF HasHead, PrimeFits, Priming, Top
<1> QED
  BY <1>1, <1>3, <1>4 DEF SallocInv

LEMMA AllocKeeps ==
  ASSUME SallocInv, Alloc \/ AllocInline
  PROVE  SallocInv'
<1>1. \A n \in Lens : Len0(n) \in Nat /\ 2 <= Len0(n)
  BY Sizes DEF Len0
<1>2. \A n \in Lens : Call(Len0(n), Need(Len0(n)), FALSE) \in Asking
  BY <1>1 DEF Asking, Call, Need
<1>3. \A n \in Lens : Call(Len0(n), InlineTake(Len0(n)), FALSE) \in Asking
  BY <1>1 DEF Asking, Call, Need, InlineTake
<1>4. /\ May /\ UNCHANGED <<chunks, totalmem, nextready, lastfree, win, live, panicked>>
      /\ \E c \in Asking : calls' = <<c>>
  BY <1>2, <1>3 DEF Alloc, AllocInline
<1> QED
  BY <1>4, AskKeeps

LEMMA FreeKeeps ==
  ASSUME SallocInv, Free
  PROVE  SallocInv'
<1>1. PICK a \in live :
        /\ live' = live \ {a}
        /\ lastfree' = IF Joins(a)
                       THEN <<Region(Head(lastfree).lo, a.hi)>> \o Tail(lastfree)
                       ELSE <<a>> \o lastfree
  BY DEF Free
<1>2. Idle /\ UNCHANGED <<chunks, totalmem, nextready, win, calls, panicked>>
  BY DEF Free
<1>3. lastfree # <<>> /\ Laid(Addresses, live, nextready, lastfree, win)
  BY <1>2 DEF Idle, SallocInv, HasHead, Priming
<1>4. Laid(Addresses, live', nextready, lastfree', win)
  BY <1>1, <1>3, ArrayFreed DEF Joins
<1>5. lastfree' # <<>>
  <2>1. /\ lastfree \in Seq(Holes(Addresses)) /\ a \in Holes(Addresses)
        /\ Head(lastfree) \in Holes(Addresses) /\ Tail(lastfree) \in Seq(Holes(Addresses))
    BY <1>3, HeadTailProperties DEF Laid, Lists
  <2>2. <<a>> \o lastfree # <<>>
    BY <2>1, Pushed
  <2>3. Joins(a) => <<Region(Head(lastfree).lo, a.hi)>> \o Tail(lastfree) # <<>>
    BY <2>1, JoinedHole, Pushed DEF Joins
  <2> QED
    BY <1>1, <2>2, <2>3
<1>6. ChunksFit' /\ Addresses' = Addresses /\ totalmem' \in Nat
  BY <1>2, SameMemory
<1>7. PrimeFits' /\ HasHead'
  BY <1>2, <1>5 DEF Idle, PrimeFits, HasHead, Priming
<1> QED
  BY <1>2, <1>4, <1>6, <1>7 DEF SallocInv

LEMMA InitHolds ==
  ASSUME Init
  PROVE  SallocInv
<1>1. PICK i \in Slots :
        /\ chunks = {[lo |-> Base(i), hi |-> Base(i) + Slab, used |-> Base(i) + Slab]}
        /\ win = Chunk(i, 1)
  BY DEF Init
<1>2. /\ nextready = {} /\ lastfree = <<>> /\ live = {} /\ calls = <<Prime>>
      /\ totalmem = 1 /\ panicked = FALSE
  BY DEF Init
<1>3. i \in Nat /\ Slab \in Nat /\ Slab >= 4 /\ i + 1 <= LastSlot + 1 /\ LastSlot + 1 \in Nat
  BY Sizes
<1>4. /\ Base(i) \in Nat /\ Base(i) + Slab + 1 <= Base(i + 1) /\ Base(i + 1) <= End
      /\ Base(i + 1) \in Nat /\ End \in Nat
  BY <1>3, BaseOrder DEF End
<1>5. win = Region(Base(i), Base(i) + Slab) /\ Words(win) \subseteq Addresses
  BY <1>1, <1>3, <1>4 DEF Chunk, Region, Words, Addresses
<1>6. win \in Holes(Addresses) /\ 4 <= Size(win)
  BY <1>3, <1>4, <1>5 DEF Holes, Region, Size
<1>7. ChunksFit
  BY <1>1, <1>3, <1>4 DEF ChunksFit, ChunkAt
<1>8. Laid(Addresses, live, nextready, lastfree, win)
  <2>1. ToSet(<<>>) = {} /\ <<>> \in Seq(Holes(Addresses)) /\ DOMAIN <<>> = {}
    BY DEF ToSet
  <2> QED
    BY <1>2, <1>6, <2>1 DEF Laid, Lists, Disjoint, DisjointSeq, Across, Clear
<1>9. Nested(calls) /\ Priming
  BY <1>2, PrimeIs DEF Nested, Priming, Top
<1>10. HasHead /\ PrimeFits
  BY <1>6, <1>9 DEF HasHead, PrimeFits
<1> QED
  BY <1>2, <1>7, <1>8, <1>9, <1>10 DEF SallocInv

THEOREM Invariance == Spec => []SallocInv
<1>1. Init => SallocInv
  BY InitHolds
<1>2. SallocInv /\ [Next]_vars => SallocInv'
  <2> SUFFICES ASSUME SallocInv, [Next]_vars PROVE SallocInv'
    OBVIOUS
  <2>1. CASE Alloc
    BY <2>1, AllocKeeps
  <2>2. CASE AllocInline
    BY <2>2, AllocKeeps
  <2>3. CASE Free
    BY <2>3, FreeKeeps
  <2>4. CASE Take
    BY <2>4, TakeKeeps
  <2>5. CASE TakeSpecial
    BY <2>5, TakeSpecialKeeps
  <2>6. CASE ReloadNext
    BY <2>6, ReloadNextKeeps
  <2>7. CASE ReloadCycle
    BY <2>7, ReloadCycleKeeps
  <2>8. CASE ReloadGrow
    BY <2>8, ReloadGrowKeeps
  <2>9. CASE UNCHANGED vars
    BY <2>9, UnchangedKeeps DEF vars, SallocInv
  <2> QED
    BY <2>1, <2>2, <2>3, <2>4, <2>5, <2>6, <2>7, <2>8, <2>9 DEF Next, Reloads
<1> QED
  BY <1>1, <1>2, PTL DEF Spec

-----------------------------------------------------------------------------
(* What follows from the invariant *)

\* A region that can hold a link is in memory.
LEMMA HoleInMemory ==
  ASSUME NEW A, A \subseteq Nat, NEW r \in Holes(A)
  PROVE  r \in RegionsOf(A)
<1>1. r \in [lo : Nat, hi : Nat] /\ r.lo \in Nat /\ r.hi \in Nat /\ r.lo < r.hi
  BY DEF Holes
<1>2. r.lo \in A /\ r.hi - 1 \in A
  BY <1>1 DEF Holes, Words
<1>3. r.hi = (r.hi - 1) + 1
  BY <1>1
<1>4. r.hi \in {w + 1 : w \in A}
  BY <1>2, <1>3
<1>5. r \in [lo : A, hi : {w + 1 : w \in A}]
  BY <1>1, <1>2, <1>4
<1> QED
  BY <1>1, <1>5 DEF RegionsOf

\* Types: every region, on whatever list of salloc.c, lies within memory.
THEOREM TypesHold == Spec => []TypeOK
<1>1. SallocInv => TypeOK
  <2> SUFFICES ASSUME SallocInv PROVE TypeOK
    OBVIOUS
  <2> DEFINE A == Addresses
  <2>1. A \subseteq Nat
    BY AddressesEnd DEF SallocInv
  <2>2. Holes(A) \subseteq RegionsOf(A)
    BY <2>1, HoleInMemory
  <2>3. lastfree \in Seq(RegionsOf(A))
    BY <2>2, SeqMonotonic DEF SallocInv, Laid, Lists
  <2>4. calls \in Seq([len : Nat, take : Nat, prime : BOOLEAN])
    <3>1. Asking \cup {Prime} \subseteq [len : Nat, take : Nat, prime : BOOLEAN]
      <4>1. Prime \in [len : Nat, take : Nat, prime : BOOLEAN]
        BY PrimeIs
      <4>2. Asking \subseteq [len : Nat, take : Nat, prime : BOOLEAN]
        BY DEF Asking
      <4> QED
        BY <4>1, <4>2
    <3> QED
      BY <3>1, SeqMonotonic DEF SallocInv, Nested
  <2> QED
    BY <2>2, <2>3, <2>4 DEF TypeOK, SallocInv, Laid, Lists
<1> QED
  BY <1>1, Invariance, PTL

\* No word of memory is in two places: not in two arrays, nor in an array and on a
\* list of free regions, nor in two regions of the lists or the window.
THEOREM NoWordTwice == Spec => []NoOverlap
<1>1. SallocInv => NoOverlap
  <2> SUFFICES ASSUME SallocInv, NEW p \in Pieces, NEW q \in Pieces, p # q
               PROVE  Apart(p[3], q[3])
    BY DEF NoOverlap
  <2>1. \A x \in Pieces :
          \/ x[1] = "array" /\ x[3] \in live /\ x = <<"array", 0, x[3]>>
          \/ x[1] = "ready" /\ x[3] \in nextready /\ x = <<"ready", 0, x[3]>>
          \/ x[1] = "free" /\ x[2] \in DOMAIN lastfree /\ x = <<"free", x[2], lastfree[x[2]]>>
             /\ x[3] = lastfree[x[2]]
          \/ x[1] = "window" /\ x = <<"window", 0, win>> /\ x[3] = win
    BY DEF Pieces
  <2>2. /\ Disjoint(live) /\ Disjoint(nextready) /\ DisjointSeq(lastfree)
        /\ Across(live, nextready) /\ Across(live, ToSet(lastfree))
        /\ Across(nextready, ToSet(lastfree))
        /\ Clear(win, live) /\ Clear(win, nextready) /\ Clear(win, ToSet(lastfree))
    BY DEF SallocInv, Laid, Lists
  <2>3. \A i \in DOMAIN lastfree : lastfree[i] \in ToSet(lastfree)
    BY DEF ToSet
  <2>4. CASE p[1] = q[1]
    <3>1. CASE p[1] = "array"
      BY <2>1, <2>2, <2>4, <3>1 DEF Disjoint
    <3>2. CASE p[1] = "ready"
      BY <2>1, <2>2, <2>4, <3>2 DEF Disjoint
    <3>3. CASE p[1] = "free"
      BY <2>1, <2>2, <2>4, <3>3 DEF DisjointSeq
    <3>4. CASE p[1] = "window"
      BY <2>1, <2>4, <3>4
    <3> QED
      BY <2>1, <3>1, <3>2, <3>3, <3>4
  <2>5. CASE p[1] # q[1]
    <3>1. CASE "window" \in {p[1], q[1]}
      BY <2>1, <2>2, <2>3, <2>5, <3>1, ApartSymmetric DEF Clear
    <3>2. CASE "window" \notin {p[1], q[1]} /\ "array" \in {p[1], q[1]}
      BY <2>1, <2>2, <2>3, <2>5, <3>2, ApartSymmetric DEF Across, Clear
    <3>3. CASE "window" \notin {p[1], q[1]} /\ "array" \notin {p[1], q[1]}
      BY <2>1, <2>2, <2>3, <2>5, <3>3, ApartSymmetric DEF Across, Clear
    <3> QED
      BY <3>1, <3>2, <3>3
  <2> QED
    BY <2>4, <2>5
<1> QED
  BY <1>1, Invariance, PTL

\* Every free region has room for the two words of SAF_END and SAF_NXT.
THEOREM LinksHaveRoom == Spec => []HoldsLinks
<1>1. SallocInv => HoldsLinks
  <2>1. SallocInv => nextready \cup ToSet(lastfree) \cup {win} \subseteq Holes(Addresses)
    BY ListedHoles DEF SallocInv, Laid, Lists
  <2> QED
    BY <2>1 DEF HoldsLinks, Holes, Size
<1> QED
  BY <1>1, Invariance, PTL

\* When the program runs, sfree has a head of the list to read, and prime_lastfree
\* has not called salloc while a call of its own was in progress.
THEOREM HeadIsThere == Spec => []Primed
<1>1. SallocInv => Primed
  BY DEF SallocInv, HasHead, Priming, Idle, Nested, Primed
<1> QED
  BY <1>1, Invariance, PTL

-----------------------------------------------------------------------------
(* Salloc implements Heap *)

AskedOf(q) == IF q = <<>> \/ Last(q).prime THEN 0 ELSE Last(q).len

\* What the program has asked for is what its own, outermost call asks for.
LEMMA AskedIs ==
  ASSUME NEW q, Nested(q), q # <<>>
  PROVE  /\ q[1].prime => AskedOf(Tail(q)) = AskedOf(q)
         /\ ~q[1].prime => AskedOf(q) = q[1].len /\ AskedOf(Tail(q)) = 0
         /\ ~q[1].prime => AskedOf(<<Prime>> \o q) = AskedOf(q)
<1> DEFINE S == Asking \cup {Prime}
<1>1. q \in Seq(S) /\ Len(q) \in Nat /\ Len(q) # 0 /\ Len(q) <= 2 /\ Prime \in S
  BY EmptySeq DEF Nested
<1>2. /\ Tail(q) \in Seq(S) /\ Len(Tail(q)) = Len(q) - 1
      /\ \A i \in 1 .. Len(Tail(q)) : Tail(q)[i] = q[i + 1]
  BY <1>1, HeadTailProperties
<1>3. \A n \in Nat : n # 0 /\ n <= 2 => n = 1 \/ n = 2
  OBVIOUS
<1>4. Len(q) = 1 \/ Len(q) = 2
  BY <1>1, <1>3
<1>5. CASE Len(q) = 1
  <2>1. Len(Tail(q)) = 0
    BY <1>2, <1>5
  <2>2. Tail(q) = <<>>
    BY <1>2, <2>1, EmptySeq
  <2>3. Last(q) = q[1]
    BY <1>5 DEF Last
  <2>4. 1 \in DOMAIN q
    BY <1>1, <1>5, LenProperties
  <2>5. /\ Len(<<Prime>> \o q) = 2 /\ (<<Prime>> \o q)[1 + 1] = q[1] /\ <<Prime>> \o q # <<>>
    BY <1>1, <1>5, <2>4, Pushed
  <2>6. Last(<<Prime>> \o q) = q[1]
    BY <2>5 DEF Last
  <2> QED
    BY <2>2, <2>3, <2>5, <2>6 DEF AskedOf
<1>6. CASE Len(q) = 2
  <2>1. Len(Tail(q)) = 2 - 1
    BY <1>2, <1>6
  <2>2. Len(Tail(q)) = 1 /\ 1 \in 1 .. 1
    BY <2>1
  <2>3. Tail(q)[1] = q[1 + 1] /\ Len(<<>>) = 0
    BY <1>2, <2>2
  <2>4. Tail(q)[1] = q[2] /\ Tail(q) # <<>>
    BY <2>2, <2>3
  <2>5. Last(Tail(q)) = q[2] /\ Last(q) = q[2]
    BY <1>6, <2>2, <2>4 DEF Last
  <2>6. q[1].prime
    BY <1>6, PrimeIs DEF Nested
  <2> QED
    BY <2>4, <2>5, <2>6 DEF AskedOf
<1> QED
  BY <1>4, <1>5, <1>6

LEMMA AskedIsAskedOf == Asked = AskedOf(calls) /\ Asked' = AskedOf(calls')
BY DEF Asked, AskedOf

\* The words that Heap has are those up to the end of memory.
LEMMA HeapWords == Base(Max(Slots) + 1) = End
<1>1. LastSlot \in Slots /\ (\A i \in Slots : i <= LastSlot) /\ Slots \subseteq Nat
  BY Sizes
<1>2. Max(Slots) \in Slots /\ \A i \in Slots : Max(Slots) >= i
  BY <1>1 DEF Max
<1>3. Max(Slots) = LastSlot
  <2>1. Max(Slots) <= LastSlot /\ Max(Slots) >= LastSlot
    BY <1>1, <1>2
  <2>2. Max(Slots) \in Nat /\ LastSlot \in Nat
    BY <1>1, <1>2
  <2> QED
    BY <2>1, <2>2
<1> QED
  BY <1>3 DEF End

\* Giving an array is Heap's Give; giving prime_lastfree its two words is no step of it.
LEMMA GiveIsGive ==
  ASSUME SallocInv, SallocInv', Busy, NEW p \in Nat,
         Give(Region(p, p + Top.len)), Region(p, p + Top.len) \in Holes(Addresses'),
         Clear(Region(p, p + Top.len), live)
  PROVE  [Arrays!Next]_(Arrays!vars)
<1> DEFINE a == Region(p, p + Top.len)
<1>1. calls # <<>> /\ Nested(calls) /\ calls' = Tail(calls)
  BY DEF SallocInv, Busy, Give
<1>2. CASE Top.prime
  <2>1. live' = live /\ Asked' = Asked
    BY <1>1, <1>2, AskedIs, AskedIsAskedOf DEF Give, Top
  <2> QED
    BY <2>1 DEF Arrays!vars
<1>3. CASE ~Top.prime
  <2>1. live' = live \cup {a}
    BY <1>3 DEF Give
  <2>2. Asked = Top.len /\ Asked' = 0 /\ Top.len \in Nat /\ Top.len # 0
    BY <1>1, <1>3, AskedIs, AskedIsAskedOf, TopIs DEF Top
  <2>3. Words(a) \subseteq 0 .. End /\ p \in 0 .. End
    <3>1. Addresses' \subseteq 0 .. End
      BY AddressesEnd DEF SallocInv, ChunksFit, ChunkAt, Addresses
    <3>2. Words(a) \subseteq Addresses'
      BY DEF Holes
    <3>3. p \in Words(a)
      BY <2>2 DEF Words, Region
    <3> QED
      BY <3>1, <3>2, <3>3
  <2>4. Words(a) \cap AllWords(live) = {}
    <3>1. live \subseteq Holes(Addresses)
      BY DEF SallocInv, Laid, Lists
    <3>2. \A s \in live : Words(a) \cap Words(s) = {}
      BY <3>1, WordsOfApart DEF Clear
    <3> QED
      BY <3>2 DEF AllWords
  <2>5. Arrays!Give
    <3>1. /\ p \in 0 .. Base(Max(Slots) + 1)
          /\ Arrays!Words(Arrays!Region(p, p + Asked)) \subseteq 0 .. Base(Max(Slots) + 1)
          /\ Arrays!Words(Arrays!Region(p, p + Asked)) \cap Arrays!AllWords(live) = {}
          /\ live' = live \cup {Arrays!Region(p, p + Asked)}
      BY <2>1, <2>2, <2>3, <2>4, HeapWords
         DEF Arrays!Words, Arrays!Region, Arrays!AllWords, Words, Region, AllWords
    <3> QED
      BY <2>2, <3>1 DEF Arrays!Give
  <2> QED
    BY <2>5 DEF Arrays!Next
<1> QED
  BY <1>2, <1>3

LEMMA TakeImplements ==
  ASSUME SallocInv, SallocInv', Take
  PROVE  [Arrays!Next]_(Arrays!vars)
<1> DEFINE a == Region(NewTop, NewTop + Top.len)
<1>1. Busy /\ Fits /\ Nested(calls) /\ ChunksFit /\ Give(a)
      /\ Laid(Addresses, live, nextready, lastfree, win) /\ win \in Holes(Addresses)
  BY DEF Take, SallocInv, Laid
<1>2. a \in Holes(Addresses) /\ NewTop \in Nat
      /\ NewTop + Top.len <= win.hi /\ win.lo + 2 <= NewTop
  BY <1>1, CutShape
<1>3. Top.len \in Nat /\ win.lo \in Nat /\ win.hi \in Nat
  BY <1>1, TopIs DEF Busy, Top, Holes
<1>4. win.lo <= a.lo /\ a.hi <= win.hi
  BY <1>2, <1>3 DEF Region
<1>5. Clear(a, live)
  BY <1>1, <1>2, <1>4, WindowCut
<1>6. Addresses' = Addresses
  BY DEF Take, Addresses
<1> QED
  BY <1>1, <1>2, <1>5, <1>6, GiveIsGive

LEMMA TakeSpecialImplements ==
  ASSUME SallocInv, SallocInv', TakeSpecial
  PROVE  [Arrays!Next]_(Arrays!vars)
<1> DEFINE k == (Top.len + Slab - 1) \div Slab
<1>1. Busy /\ ChunksFit /\ Nested(calls) /\ Top.len > Slab
  BY DEF TakeSpecial, SallocInv, Big
<1>2. CASE Panic
  BY <1>2 DEF Panic, Arrays!vars, Asked
<1>3. ASSUME NEW i \in Room(k), chunks' = Grown(Chunk(i, k), Region(Base(i), Base(i) + Top.len).hi),
             Give(Region(Base(i), Base(i) + Top.len))
      PROVE  [Arrays!Next]_(Arrays!vars)
  <2> DEFINE a == Region(Base(i), Base(i) + Top.len)
             new == Base(i) .. Base(i) + k * Slab - 1
  <2>1. k \in Nat \ {0} /\ Top.len <= k * Slab /\ Top.len \in Nat /\ 2 <= Top.len
    BY <1>1, SlabsHold, TopIs DEF Busy, Top
  <2> HIDE DEF k
  <2>2. Base(i) \in Nat /\ k * Slab \in Nat
    BY <2>1, ChunkEnds
  <2>3. a.hi = Base(i) + Top.len /\ Base(i) < a.hi /\ a.hi <= Base(i) + k * Slab /\ a.hi \in Nat
    BY <2>1, <2>2 DEF Region
  <2>4. Addresses' = Addresses \cup new
    BY <1>1, <1>3, <2>1, <2>3, MemoryGrows
  <2>5. Words(a) \subseteq new /\ a \in Holes(Addresses')
    BY <2>1, <2>2, <2>4 DEF Holes, Words, Region
  <2>6. Words(a) \cap Addresses = {}
    BY <1>1, <2>1, <2>5, ChunkIsNew
  <2>7. Clear(a, live)
    <3>1. live \subseteq Holes(Addresses)
      BY DEF SallocInv, Laid, Lists
    <3> QED
      BY <2>5, <2>6, <3>1, NewIsClear
  <2> QED
    BY <1>1, <1>3, <2>2, <2>5, <2>7, GiveIsGive
<1> QED
  BY <1>2, <1>3 DEF TakeSpecial

\* Only a call of the program's own makes prime_lastfree call.
LEMMA ReloadImplements ==
  ASSUME SallocInv, Reloads
  PROVE  [Arrays!Next]_(Arrays!vars)
<1>1. CASE Panic
  BY <1>1 DEF Panic, Arrays!vars, Asked
<1>2. ASSUME NEW ready, NEW free, Open(ready, free), Busy, free = <<>> => ~Top.prime
      PROVE  [Arrays!Next]_(Arrays!vars)
  <2>1. live' = live /\ Nested(calls) /\ calls # <<>>
        /\ calls' = IF free = <<>> THEN <<Prime>> \o calls ELSE calls
    BY <1>2 DEF Open, SallocInv, Busy
  <2>2. Asked' = Asked
    BY <1>2, <2>1, AskedIs, AskedIsAskedOf DEF Top
  <2> QED
    BY <2>1, <2>2 DEF Arrays!vars
<1>3. CASE ReloadNext
  BY <1>2, <1>3, ReloadSees DEF ReloadNext
<1>4. CASE ReloadCycle
  BY <1>2, <1>4, NotPriming, ReloadSees DEF ReloadCycle
<1>5. CASE ReloadGrow
  BY <1>1, <1>2, <1>5, ReloadSees DEF ReloadGrow
<1> QED
  BY <1>3, <1>4, <1>5 DEF Reloads

\* The allocator promises its caller what Heap does, whatever lists the regions go
\* through: an array of the length asked for, of words that no array has.
THEOREM HeapImplemented == Spec => ImplementsHeap
<1>1. Init => Arrays!Init
  <2>1. Init => live = {} /\ calls = <<Prime>>
    BY DEF Init
  <2>2. calls = <<Prime>> => Asked = 0
    <3>1. Len(<<Prime>>) = 1 /\ <<Prime>>[1] = Prime /\ Prime.prime
      BY PrimeIs
    <3> QED
      BY <3>1 DEF Asked, Last
  <2> QED
    BY <2>1, <2>2 DEF Arrays!Init
<1>2. SallocInv /\ SallocInv' /\ [Next]_vars => [Arrays!Next]_(Arrays!vars)
  <2> SUFFICES ASSUME SallocInv, SallocInv', [Next]_vars PROVE [Arrays!Next]_(Arrays!vars)
    OBVIOUS
  <2>1. CASE Alloc \/ AllocInline
    <3>1. \A n \in Lens : Len0(n) \in Nat \ {0}
      BY Sizes DEF Len0
    <3>2. PICK c : calls' = <<c>> /\ ~c.prime /\ c.len \in Nat \ {0}
      BY <2>1, <3>1 DEF Alloc, AllocInline, Call
    <3>3. Len(<<c>>) = 1 /\ <<c>>[1] = c /\ <<c>> # <<>>
      OBVIOUS
    <3>4. Asked = 0 /\ Asked' = c.len
      BY <2>1, <3>2, <3>3 DEF Alloc, AllocInline, May, Idle, Asked, Last
    <3> QED
      BY <2>1, <3>2, <3>4 DEF Alloc, AllocInline, Arrays!Next, Arrays!Ask
  <2>2. CASE Free
    <3>1. Asked = 0 /\ Asked' = 0
      BY <2>2 DEF Free, Idle, Asked
    <3> QED
      BY <2>2, <3>1 DEF Free, Arrays!Next, Arrays!Free
  <2>3. CASE Take
    BY <2>3, TakeImplements
  <2>4. CASE TakeSpecial
    BY <2>4, TakeSpecialImplements
  <2>5. CASE Reloads
    BY <2>5, ReloadImplements
  <2>6. CASE UNCHANGED vars
    BY <2>6 DEF vars, Arrays!vars, Asked
  <2> QED
    BY <2>1, <2>2, <2>3, <2>4, <2>5, <2>6 DEF Next
<1> QED
  BY <1>1, <1>2, Invariance, PTL DEF Spec, ImplementsHeap, Arrays!Spec

-----------------------------------------------------------------------------
(* No word is lost, but by the doubled subtraction of e_subri *)

\* The program never makes the compiler subtract 128 bytes from mtop.
NeverDoubles == \A n \in Lens : n <= Inlined => Need(Len0(n)) # SubTwice

Held(arrays, ready, free, w) ==
  AllWords(arrays) \cup AllWords(ready) \cup AllWords(ToSet(free)) \cup Words(w)

HeldInv ==
  /\ \A i \in DOMAIN calls : calls[i].take = calls[i].len + 2
  /\ UsedWords \subseteq Held(live, nextready, lastfree, win)

LEMMA GiveHolds ==
  ASSUME SallocInv, HeldInv, Busy, NEW a, Give(a), nextready' = nextready,
         UsedWords' \subseteq UsedWords \cup Words(a),
         Words(win) \subseteq Words(a) \cup Words(win'),
         a \in Holes(Addresses')
  PROVE  HeldInv'
<1>1. /\ calls' = Tail(calls) /\ calls # <<>> /\ calls \in Seq(Asking \cup {Prime})
      /\ lastfree \in Seq(Holes(Addresses))
  BY DEF Give, Busy, SallocInv, Nested, Laid, Lists
<1>2. \A i \in DOMAIN calls' : calls'[i].take = calls'[i].len + 2
  <2>1. /\ Tail(calls) \in Seq(Asking \cup {Prime}) /\ Len(Tail(calls)) = Len(calls) - 1
        /\ \A i \in 1 .. Len(Tail(calls)) : Tail(calls)[i] = calls[i + 1]
    BY <1>1, HeadTailProperties
  <2>2. DOMAIN Tail(calls) = 1 .. Len(calls) - 1 /\ DOMAIN calls = 1 .. Len(calls)
        /\ Len(calls) \in Nat
    BY <1>1, <2>1, LenProperties
  <2>3. \A i \in DOMAIN Tail(calls) : i + 1 \in DOMAIN calls /\ Tail(calls)[i] = calls[i + 1]
    BY <2>1, <2>2
  <2> QED
    BY <1>1, <2>3 DEF HeldInv
<1>3. ASSUME NEW arrays, NEW free, AllWords(arrays) \cup AllWords(ToSet(free))
               = AllWords(live) \cup AllWords(ToSet(lastfree)) \cup Words(a),
             live' = arrays, lastfree' = free
      PROVE  HeldInv'
  <2>1. UsedWords' \subseteq Held(arrays, nextready, free, win')
    BY <1>3 DEF HeldInv, Held
  <2> QED
    BY <1>2, <1>3, <2>1 DEF HeldInv
<1>4. CASE Top.prime
  <2>1. ToSet(<<a>> \o lastfree) = {a} \cup ToSet(lastfree)
    <3>1. lastfree \in Seq(Holes(Addresses) \cup {a})
      BY <1>1, SeqMonotonic
    <3> QED
      BY <3>1, Pushed
  <2>2. AllWords(live) \cup AllWords(ToSet(<<a>> \o lastfree))
          = AllWords(live) \cup AllWords(ToSet(lastfree)) \cup Words(a)
    BY <2>1 DEF AllWords
  <2> QED
    BY <1>3, <1>4, <2>2 DEF Give
<1>5. CASE ~Top.prime
  <2>1. AllWords(live \cup {a}) \cup AllWords(ToSet(lastfree))
          = AllWords(live) \cup AllWords(ToSet(lastfree)) \cup Words(a)
    BY DEF AllWords
  <2> QED
    BY <1>3, <1>5, <2>1 DEF Give
<1> QED
  BY <1>4, <1>5

LEMMA TakeHolds ==
  ASSUME SallocInv, HeldInv, Take
  PROVE  HeldInv'
<1> DEFINE a == Region(NewTop, NewTop + Top.len)
           v == Region(win.lo, NewTop)
<1>1. Busy /\ Fits /\ Nested(calls) /\ Give(a) /\ win \in Holes(Addresses)
  BY DEF Take, SallocInv, Laid
<1>2. 1 \in DOMAIN calls
  BY <1>1, EmptySeq, LenProperties DEF Busy, Nested
<1>3. Top.take = Top.len + 2
  BY <1>2 DEF HeldInv, Top
<1>4. /\ win' = v /\ a \in Holes(Addresses) /\ NewTop \in Nat
      /\ NewTop + Top.len = win.hi /\ win.lo + 2 <= NewTop
  BY <1>1, <1>3, CutShape DEF Take
<1>5. Words(win) \subseteq Words(a) \cup Words(v)
  <2>1. win.lo \in Nat /\ win.hi \in Nat
    BY <1>1 DEF Holes
  <2> QED
    BY <1>4, <2>1 DEF Words, Region
<1>6. Addresses' = Addresses /\ UsedWords' = UsedWords /\ nextready' = nextready
  BY DEF Take, Addresses, UsedWords
<1> HIDE DEF a, v
<1> QED
  BY <1>1, <1>4, <1>5, <1>6, GiveHolds

LEMMA TakeSpecialHolds ==
  ASSUME SallocInv, HeldInv, TakeSpecial
  PROVE  HeldInv'
<1> DEFINE k == (Top.len + Slab - 1) \div Slab
<1>1. Busy /\ ChunksFit /\ Nested(calls) /\ Top.len > Slab
  BY DEF TakeSpecial, SallocInv, Big
<1>2. CASE Panic
  BY <1>2 DEF Panic, HeldInv, UsedWords
<1>3. ASSUME NEW i \in Room(k), chunks' = Grown(Chunk(i, k), Region(Base(i), Base(i) + Top.len).hi),
             Give(Region(Base(i), Base(i) + Top.len)), UNCHANGED <<nextready, win>>
      PROVE  HeldInv'
  <2> DEFINE a == Region(Base(i), Base(i) + Top.len)
             new == Base(i) .. Base(i) + k * Slab - 1
  <2>1. k \in Nat \ {0} /\ Top.len <= k * Slab /\ Top.len \in Nat /\ 2 <= Top.len
    BY <1>1, SlabsHold, TopIs DEF Busy, Top
  <2> HIDE DEF k
  <2>2. Base(i) \in Nat /\ k * Slab \in Nat
    BY <2>1, ChunkEnds
  <2>3. a.hi = Base(i) + Top.len /\ Base(i) < a.hi /\ a.hi <= Base(i) + k * Slab /\ a.hi \in Nat
        /\ a.lo = Base(i)
    BY <2>1, <2>2 DEF Region
  <2>4. Addresses' = Addresses \cup new /\ UsedWords' = UsedWords \cup (Base(i) .. a.hi - 1)
    BY <1>1, <1>3, <2>1, <2>3, MemoryGrows
  <2>5. Words(a) = Base(i) .. a.hi - 1
    BY <2>3 DEF Words
  <2>6. a \in Holes(Addresses')
    <3>1. a \in [lo : Nat, hi : Nat] /\ a.lo + 2 <= a.hi
      BY <2>1, <2>2, <2>3 DEF Region
    <3>2. Words(a) \subseteq new
      BY SMTT(30), <2>1, <2>2, <2>3, <2>5
    <3> QED
      BY <2>4, <3>1, <3>2 DEF Holes
  <2> HIDE DEF a
  <2> QED
    BY <1>1, <1>3, <2>4, <2>5, <2>6, GiveHolds DEF a
<1> QED
  BY <1>2, <1>3 DEF TakeSpecial

\* The words on the new lists, and in the new window, are those there were.
LEMMA OpenHolds ==
  ASSUME SallocInv, HeldInv, SallocInv', Busy, NEW ready, NEW free, Open(ready, free),
         Highest(ready) \in ready,
         UsedWords' \subseteq AllWords(live) \cup AllWords(ready) \cup AllWords(ToSet(free))
  PROVE  HeldInv'
<1> DEFINE h == Highest(ready)
<1>1. /\ win' = h /\ nextready' = ready \ {h} /\ lastfree' = free /\ live' = live
      /\ calls' = IF free = <<>> THEN <<Prime>> \o calls ELSE calls
  BY DEF Open
<1>2. AllWords(ready) = AllWords(ready \ {h}) \cup Words(h)
  BY DEF AllWords
<1>3. UsedWords' \subseteq Held(live, ready \ {h}, free, h)
  BY <1>2 DEF Held
<1>4. UsedWords' \subseteq Held(live', nextready', lastfree', win')
  BY <1>1, <1>3
<1>5. \A i \in DOMAIN calls' : calls'[i].take = calls'[i].len + 2
  <2>1. calls \in Seq(Asking \cup {Prime}) /\ Prime \in Asking \cup {Prime}
    BY DEF SallocInv, Nested
  <2>2. \A i \in DOMAIN (<<Prime>> \o calls) :
          (<<Prime>> \o calls)[i] = Prime \/ \E j \in DOMAIN calls : (<<Prime>> \o calls)[i] = calls[j]
    BY <2>1, Pushed
  <2> QED
    BY <1>1, <2>2, PrimeIs DEF HeldInv
<1> QED
  BY <1>4, <1>5 DEF HeldInv

LEMMA ReloadHolds ==
  ASSUME SallocInv, HeldInv, SallocInv', Reloads
  PROVE  HeldInv'
<1>1. Reload /\ ChunksFit
  BY DEF Reloads, ReloadNext, ReloadCycle, ReloadGrow, SallocInv
<1>2. /\ Busy /\ Lists(Addresses, live, nextready, Kept)
      /\ ToSet(Kept) = {win} \cup ToSet(lastfree)
  BY <1>1, ReloadSees
<1>3. AllWords(ToSet(Kept)) = AllWords(ToSet(lastfree)) \cup Words(win)
  BY <1>2 DEF AllWords
<1>4. UsedWords \subseteq AllWords(live) \cup AllWords(nextready) \cup AllWords(ToSet(Kept))
  BY <1>3 DEF HeldInv, Held
<1>5. Addresses \subseteq 0 .. End /\ End \in Nat
  BY <1>1, AddressesEnd
<1>6. AllWords({}) = {}
  BY DEF AllWords
<1>7. CASE ReloadNext
  <2>1. nextready # {} /\ Open(nextready, Kept) /\ UsedWords' = UsedWords
    BY <1>7 DEF ReloadNext, UsedWords
  <2>2. Highest(nextready) \in nextready
    BY <1>2, <1>5, <2>1, HighestExists DEF Lists
  <2> QED
    BY <1>2, <1>4, <2>1, <2>2, OpenHolds
<1>8. CASE ReloadCycle
  <2> DEFINE ready == Runs(AllWords(ToSet(Kept)))
  <2>1. nextready = {} /\ Open(ready, <<>>) /\ UsedWords' = UsedWords /\ Usable
    BY <1>8 DEF ReloadCycle, UsedWords
  <2>2. Lists(Addresses, live, ready, <<>>) /\ AllWords(ready) = AllWords(ToSet(Kept))
    BY <1>2, <1>5, <2>1, ListCycled
  <2>3. ready # {}
    <3>1. ToSet(Kept) \in SUBSET Holes(Addresses)
      BY <1>2, ListedHoles DEF Lists
    <3>2. PICK r \in ToSet(Kept) : TRUE
      BY <1>2
    <3> QED
      BY <1>5, <3>1, <3>2, RunsCover
  <2> HIDE DEF ready
  <2>4. Highest(ready) \in ready
    BY <1>5, <2>2, <2>3, HighestExists DEF Lists
  <2>5. UsedWords' \subseteq AllWords(live) \cup AllWords(ready) \cup AllWords(ToSet(<<>>))
    BY <1>4, <1>6, <2>1, <2>2
  <2> QED
    BY <1>2, <2>1, <2>4, <2>5, OpenHolds
<1>9. CASE ReloadGrow
  <2> DEFINE k == totalmem \div GrowDiv + 1
  <2>1. CASE Panic
    BY <2>1 DEF Panic, HeldInv, UsedWords
  <2>2. ASSUME NEW i \in Room(k), Open({Chunk(i, k)}, Kept),
               chunks' = Grown(Chunk(i, k), Chunk(i, k).hi), nextready = {}
        PROVE  HeldInv'
    <3> DEFINE r == Chunk(i, k)
    <3>1. k \in Nat \ {0}
      BY GrowsBySlabs DEF SallocInv
    <3> HIDE DEF k
    <3>2. Base(i) \in Nat /\ k * Slab \in Nat /\ Slab <= k * Slab /\ Slab >= 4 /\ Slab \in Nat
      BY <3>1, ChunkEnds, Sizes
    <3>3. r.lo = Base(i) /\ r.hi = Base(i) + k * Slab
      BY DEF Chunk, Region
    <3>4. UsedWords' = UsedWords \cup (Base(i) .. r.hi - 1)
      BY <1>1, <2>2, <3>1, <3>2, <3>3, MemoryGrows
    <3>5. Words(r) = Base(i) .. r.hi - 1
      BY <3>3 DEF Words
    <3>6. Highest({r}) \in {r}
      BY <3>2, <3>3 DEF Highest
    <3>7. UsedWords' \subseteq AllWords(live) \cup AllWords({r}) \cup AllWords(ToSet(Kept))
      BY <1>4, <1>6, <2>2, <3>4, <3>5 DEF AllWords
    <3> HIDE DEF r
    <3> QED
      BY <1>2, <2>2, <3>6, <3>7, OpenHolds DEF r
  <2> QED
    BY <1>9, <2>1, <2>2 DEF ReloadGrow
<1> QED
  BY <1>7, <1>8, <1>9 DEF Reloads

LEMMA FreeHolds ==
  ASSUME SallocInv, HeldInv, Free
  PROVE  HeldInv'
<1>1. PICK a \in live :
        /\ live' = live \ {a}
        /\ lastfree' = IF Joins(a)
                       THEN <<Region(Head(lastfree).lo, a.hi)>> \o Tail(lastfree)
                       ELSE <<a>> \o lastfree
  BY DEF Free
<1>2. Idle /\ UNCHANGED <<chunks, nextready, win, calls>>
  BY DEF Free
<1>3. lastfree # <<>> /\ Laid(Addresses, live, nextready, lastfree, win)
  BY <1>2 DEF Idle, SallocInv, HasHead, Priming
<1>4. a \in Holes(Addresses) /\ lastfree \in Seq(Holes(Addresses)) /\ DisjointSeq(lastfree)
  BY <1>3 DEF Laid, Lists
<1>5. AllWords(live) \subseteq AllWords(live') \cup Words(a)
  BY <1>1 DEF AllWords
<1>6. AllWords(ToSet(lastfree)) \cup Words(a) \subseteq AllWords(ToSet(lastfree'))
  <2>1. CASE ~Joins(a)
    <3>1. ToSet(lastfree') = {a} \cup ToSet(lastfree)
      BY <1>1, <1>4, <2>1, Pushed
    <3> QED
      BY <3>1 DEF AllWords
  <2>2. CASE Joins(a)
    <3> DEFINE f == Head(lastfree)
               j == Region(f.lo, a.hi)
    <3>1. f \in Holes(Addresses) /\ Tail(lastfree) \in Seq(Holes(Addresses))
          /\ ToSet(lastfree) = {f} \cup ToSet(Tail(lastfree)) /\ f.hi = a.lo
      BY <1>3, <1>4, <2>2, TailDisjoint DEF Joins
    <3>2. j \in Holes(Addresses)
      BY <1>4, <3>1, JoinedHole
    <3>3. ToSet(lastfree') = {j} \cup ToSet(Tail(lastfree))
      <4>1. lastfree' = <<j>> \o Tail(lastfree)
        BY <1>1, <2>2
      <4> HIDE DEF j
      <4>2. ToSet(<<j>> \o Tail(lastfree)) = {j} \cup ToSet(Tail(lastfree))
        BY ZenonT(60), <3>1, <3>2, Pushed
      <4> QED
        BY <4>1, <4>2
    <3>4. Words(f) \cup Words(a) \subseteq Words(j)
      <4>1. /\ f.lo \in Nat /\ f.hi \in Nat /\ a.lo \in Nat /\ a.hi \in Nat
            /\ f.lo <= f.hi /\ a.lo <= a.hi /\ f.hi = a.lo
        BY <1>4, <3>1 DEF Holes
      <4>2. j.lo = f.lo /\ j.hi = a.hi
        BY DEF Region
      <4> HIDE DEF f, j
      <4>. QED
        BY <4>1, <4>2 DEF Words
    <3> QED
      BY <3>1, <3>3, <3>4 DEF AllWords
  <2> QED
    BY <2>1, <2>2
<1>7. UsedWords' = UsedWords
  BY <1>2 DEF UsedWords
<1> QED
  BY <1>2, <1>5, <1>6, <1>7 DEF HeldInv, Held

LEMMA AllocHolds ==
  ASSUME NeverDoubles, HeldInv, Alloc \/ AllocInline
  PROVE  HeldInv'
<1>1. \A n \in Lens : n <= Inlined => InlineTake(Len0(n)) = Need(Len0(n))
  BY DEF NeverDoubles, InlineTake
<1>2. PICK n \in Lens : calls' = <<Call(Len0(n), Need(Len0(n)), FALSE)>>
  BY <1>1 DEF Alloc, AllocInline
<1>3. \A i \in DOMAIN calls' : calls'[i].take = calls'[i].len + 2
  BY <1>2 DEF Call, Need
<1>4. UNCHANGED <<live, nextready, lastfree, win, chunks>>
  BY DEF Alloc, AllocInline
<1> QED
  BY <1>3, <1>4 DEF HeldInv, UsedWords

\* Every word the allocator has taken from malloc for use is in an array, on a list or
\* in the window, if the program never makes the compiler subtract 128 bytes from mtop,
\* which e_subri emits twice: nothing else loses memory.
THEOREM NothingLost ==
  ASSUME NeverDoubles
  PROVE  Spec => []NoLeak
<1>1. Init => HeldInv
  <2> SUFFICES ASSUME Init PROVE HeldInv
    OBVIOUS
  <2>1. PICK i \in Slots :
          /\ chunks = {[lo |-> Base(i), hi |-> Base(i) + Slab, used |-> Base(i) + Slab]}
          /\ win = Chunk(i, 1)
    BY DEF Init
  <2>2. Words(win) = Base(i) .. Base(i) + Slab - 1
    <3>1. i \in Nat /\ Slab \in Nat /\ Base(i) \in Nat
      BY Sizes, BaseOrder
    <3> QED
      BY <2>1, <3>1 DEF Chunk, Region, Words
  <2>3. UsedWords = Base(i) .. Base(i) + Slab - 1
    <3>1. \A c \in chunks : c.lo = Base(i) /\ c.used = Base(i) + Slab
      BY <2>1
    <3>2. PICK c : chunks = {c}
      BY <2>1
    <3>3. UsedWords = c.lo .. c.used - 1
      BY <3>2 DEF UsedWords
    <3>4. Base(i) \in Nat /\ Slab \in Nat
      BY Sizes, BaseOrder
    <3> QED
      BY <3>1, <3>2, <3>3, <3>4
  <2>4. \A j \in DOMAIN calls : calls[j].take = calls[j].len + 2
    <3>1. calls = <<Prime>> /\ Prime.take = Prime.len + 2
      BY PrimeIs DEF Init
    <3> QED
      BY <3>1
  <2> QED
    BY <2>2, <2>3, <2>4 DEF HeldInv, Held
<1>2. SallocInv /\ SallocInv' /\ HeldInv /\ [Next]_vars => HeldInv'
  <2> SUFFICES ASSUME SallocInv, SallocInv', HeldInv, [Next]_vars PROVE HeldInv'
    OBVIOUS
  <2>1. CASE Alloc \/ AllocInline
    BY <2>1, AllocHolds
  <2>2. CASE Free
    BY <2>2, FreeHolds
  <2>3. CASE Take
    BY <2>3, TakeHolds
  <2>4. CASE TakeSpecial
    BY <2>4, TakeSpecialHolds
  <2>5. CASE Reloads
    BY <2>5, ReloadHolds
  <2>6. CASE UNCHANGED vars
    BY <2>6 DEF vars, HeldInv, UsedWords
  <2> QED
    BY <2>1, <2>2, <2>3, <2>4, <2>5, <2>6 DEF Next
<1>3. HeldInv => NoLeak
  <2> SUFFICES ASSUME HeldInv, NEW c \in chunks
               PROVE  c.lo .. c.used - 1 \subseteq AllWords({p[3] : p \in Pieces})
    BY DEF NoLeak
  <2> DEFINE P == {p[3] : p \in Pieces}
  <2>1. \A a \in live : a \in P
    <3>1. \A a \in live : <<"array", 0, a>> \in Pieces /\ <<"array", 0, a>>[3] = a
      BY DEF Pieces
    <3> QED
      BY <3>1
  <2>2. \A r \in nextready : r \in P
    <3>1. \A r \in nextready : <<"ready", 0, r>> \in Pieces /\ <<"ready", 0, r>>[3] = r
      BY DEF Pieces
    <3> QED
      BY <3>1
  <2>3. \A r \in ToSet(lastfree) : r \in P
    <3>1. \A i \in DOMAIN lastfree :
            <<"free", i, lastfree[i]>> \in Pieces /\ <<"free", i, lastfree[i]>>[3] = lastfree[i]
      BY DEF Pieces
    <3> QED
      BY <3>1 DEF ToSet
  <2>4. win \in P
    <3>1. <<"window", 0, win>> \in Pieces /\ <<"window", 0, win>>[3] = win
      BY DEF Pieces
    <3> QED
      BY <3>1
  <2> HIDE DEF P
  <2>5. Held(live, nextready, lastfree, win) \subseteq AllWords(P)
    BY <2>1, <2>2, <2>3, <2>4 DEF Held, AllWords
  <2>6. c.lo .. c.used - 1 \subseteq UsedWords
    BY DEF UsedWords
  <2> QED
    BY <2>5, <2>6 DEF HeldInv, P
<1> QED
  BY <1>1, <1>2, <1>3, Invariance, PTL DEF Spec

=============================================================================
