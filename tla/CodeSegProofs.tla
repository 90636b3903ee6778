--------------------------- MODULE CodeSegProofs ---------------------------
(***************************************************************************)
(* Proofs about CodeSeg, for every number, place and size of segments, and *)
(* every set of lengths that CodeSegAssumption allows.                     *)
(***************************************************************************)
EXTENDS CodeSeg, TLAPS

Older   == [base : Nat, next : Nat, link : Nat]
Segment == [base : Nat, next : Nat, cdr : Seq(Older)]

SegTypeOK ==
  /\ cod \in [Chains -> Segment]
  /\ mapped \subseteq Bases
  /\ flow \in [from : Nat, to : Nat]
  /\ mode \in Up \cup Dead \cup {"off"}

\* What may still be emitted before getcod is next asked for room, by mode, and the
\* jump getcod then writes.
Need ==
  CASE mode = "more"               -> LinkLen + MaxFlush + 2 * MaxBad
    [] mode = "fell"               -> LinkLen + 2 * MaxBad
    [] mode \in {"idle", "entered"} -> LinkLen + MaxBad
    [] OTHER                       -> LinkLen

Fits(s, n) == s.base <= s.next /\ s.next + n <= s.base + COD_SEG

EnoughRoom == mode \in Up => Fits(cod.inl, Need) /\ Fits(cod.outl, LinkLen)

OlderFit(s) == \A k \in DOMAIN s.cdr : s.cdr[k].next <= s.cdr[k].base + COD_SEG
LinksFit == mode \in Up => OlderFit(cod.inl) /\ OlderFit(cod.outl)

\* The bases of a chain are all different.
Distinct(s) ==
  \A j, k \in DOMAIN s.cdr :
    s.cdr[k].base # s.base /\ (s.cdr[j].base = s.cdr[k].base => j = k)

OffIsEmpty == mode = "off" => mapped = {}

SegInv == SegTypeOK /\ EnoughRoom /\ LinksFit /\ FlowsOn /\ SegmentsHeld /\ OffIsEmpty

-----------------------------------------------------------------------------
\* The lengths are numbers, and what is asked for has room for a link.
LEMMA LengthsAre ==
  /\ COD_SEG \in Nat /\ Ahead \in Nat /\ LinkLen \in Nat /\ EnterLen \in Nat
  /\ MaxPlatter \in Nat /\ MaxFlush \in Nat /\ MaxBad \in Nat
  /\ LinkLen <= Ahead /\ LinkLen <= COD_SEG /\ Ahead <= COD_SEG
<1>1. /\ COD_SEG \in Nat /\ Ahead \in Nat /\ LinkLen \in Nat /\ EnterLen \in Nat
      /\ MaxPlatter \in Nat /\ MaxFlush \in Nat /\ MaxBad \in Nat
  BY CodeSegAssumption
<1>2. MaxPlatter + MaxFlush + 2 * MaxBad + LinkLen <= Ahead /\ EnterLen + Ahead <= COD_SEG
  BY CodeSegAssumption
<1> QED
  BY <1>1, <1>2

-----------------------------------------------------------------------------
(* What the operations make of a segment *)

\* A segment that has grown: what is at its front, and what is behind.
LEMMA GrownShape ==
  ASSUME NEW s \in Segment, NEW b \in Nat
  PROVE  LET g == Grown(s, b) IN
         /\ g \in Segment
         /\ g.base = b /\ g.next = b
         /\ DOMAIN g.cdr = 1 .. Len(s.cdr) + 1
         /\ g.cdr[1] = Closed(s.base, s.next + LinkLen, b)
         /\ \A k \in 1 .. Len(s.cdr) : g.cdr[k + 1] = s.cdr[k]
<1> DEFINE old == Closed(s.base, s.next + LinkLen, b)
           g == Grown(s, b)
<1>1. old \in Older
  BY SMTT(30), CodeSegAssumption DEF Older, Segment, Closed
<1>2. s.cdr \in Seq(Older) /\ <<old>> \in Seq(Older) /\ Len(<<old>>) = 1 /\ <<old>>[1] = old
  BY <1>1 DEF Segment
<1>3. g = [base |-> b, next |-> b, cdr |-> <<old>> \o s.cdr]
  BY DEF Grown, Open
<1>4. <<old>> \o s.cdr \in Seq(Older) /\ Len(<<old>> \o s.cdr) = Len(s.cdr) + 1
  BY <1>2
<1>5. (<<old>> \o s.cdr)[1] = old
  BY <1>2
<1>6. \A k \in 1 .. Len(s.cdr) : (<<old>> \o s.cdr)[k + 1] = s.cdr[k]
  BY <1>2
<1>7. DOMAIN g.cdr = 1 .. Len(s.cdr) + 1
  BY <1>3, <1>4
<1> QED
  BY <1>3, <1>4, <1>5, <1>6, <1>7 DEF Segment

LEMMA DomainIsRange ==
  ASSUME NEW s \in Segment
  PROVE  DOMAIN s.cdr = 1 .. Len(s.cdr) /\ Len(s.cdr) \in Nat
BY DEF Segment

\* A segment that has grown holds what it held before, and one base more.
LEMMA GrownHolds ==
  ASSUME NEW s \in Segment, NEW b \in Nat
  PROVE  Held(Grown(s, b)) = Held(s) \cup {b}
<1> DEFINE g == Grown(s, b)
<1>1. /\ g.base = b
      /\ DOMAIN g.cdr = 1 .. Len(s.cdr) + 1
      /\ g.cdr[1].base = s.base
      /\ \A k \in 1 .. Len(s.cdr) : g.cdr[k + 1] = s.cdr[k]
  <2>1. Closed(s.base, s.next + LinkLen, b).base = s.base
    BY DEF Closed
  <2> QED
    BY <2>1, GrownShape
<1>2. DOMAIN s.cdr = 1 .. Len(s.cdr) /\ Len(s.cdr) \in Nat
  BY DomainIsRange
<1> HIDE DEF g
<1>3. ASSUME NEW x \in Held(g) PROVE x \in Held(s) \cup {b}
  <2>1. CASE x = g.base
    BY <1>1, <2>1
  <2>2. CASE \E k \in DOMAIN g.cdr : x = g.cdr[k].base
    <3>1. PICK k \in 1 .. Len(s.cdr) + 1 : x = g.cdr[k].base
      BY <1>1, <2>2
    <3>2. CASE k = 1
      BY <1>1, <3>1, <3>2 DEF Held
    <3>3. CASE k # 1
      <4>1. k - 1 \in 1 .. Len(s.cdr) /\ (k - 1) + 1 = k
        BY <1>2, <3>3
      <4>2. g.cdr[k] = s.cdr[k - 1]
        BY <1>1, <4>1
      <4> QED
        BY <1>2, <3>1, <4>1, <4>2 DEF Held
    <3> QED
      BY <3>2, <3>3
  <2> QED
    BY <1>3, <2>1, <2>2 DEF Held
<1>4. ASSUME NEW x \in Held(s) \cup {b} PROVE x \in Held(g)
  <2>1. CASE x = b
    BY <1>1, <2>1 DEF Held
  <2>2. CASE x = s.base
    <3>1. 1 \in DOMAIN g.cdr
      BY <1>1, <1>2
    <3> QED
      BY <1>1, <2>2, <3>1 DEF Held
  <2>3. CASE \E k \in DOMAIN s.cdr : x = s.cdr[k].base
    <3>1. PICK k \in 1 .. Len(s.cdr) : x = s.cdr[k].base
      BY <1>2, <2>3
    <3>2. k + 1 \in DOMAIN g.cdr /\ g.cdr[k + 1].base = x
      BY <1>1, <1>2, <3>1
    <3> QED
      BY <3>2 DEF Held
  <2> QED
    BY <1>4, <2>1, <2>2, <2>3 DEF Held
<1> QED
  BY <1>3, <1>4 DEF g

\* The bases of a segment that has grown are different, if the new one is new.
LEMMA GrownDistinct ==
  ASSUME NEW s \in Segment, NEW b \in Nat, b \notin Held(s), Distinct(s)
  PROVE  Distinct(Grown(s, b))
<1> DEFINE g == Grown(s, b)
<1>1. /\ g.base = b
      /\ DOMAIN g.cdr = 1 .. Len(s.cdr) + 1
      /\ g.cdr[1].base = s.base
      /\ \A k \in 1 .. Len(s.cdr) : g.cdr[k + 1] = s.cdr[k]
  <2>1. Closed(s.base, s.next + LinkLen, b).base = s.base
    BY DEF Closed
  <2> QED
    BY <2>1, GrownShape
<1>2. DOMAIN s.cdr = 1 .. Len(s.cdr) /\ Len(s.cdr) \in Nat
  BY DomainIsRange
<1> HIDE DEF g
<1>3. \A k \in DOMAIN g.cdr :
        \/ k = 1 /\ g.cdr[k].base = s.base
        \/ k # 1 /\ k - 1 \in DOMAIN s.cdr /\ g.cdr[k].base = s.cdr[k - 1].base
  <2> TAKE k \in DOMAIN g.cdr
  <2>1. CASE k = 1
    BY <1>1, <2>1
  <2>2. CASE k # 1
    <3>1. k - 1 \in 1 .. Len(s.cdr) /\ (k - 1) + 1 = k
      BY <1>1, <1>2, <2>2
    <3> QED
      BY <1>1, <1>2, <2>2, <3>1
  <2> QED
    BY <2>1, <2>2
<1>4. s.base # b /\ \A k \in DOMAIN s.cdr : s.cdr[k].base # b
  BY DEF Held
<1>5. SUFFICES ASSUME NEW j \in DOMAIN g.cdr, NEW k \in DOMAIN g.cdr
               PROVE  g.cdr[k].base # g.base /\ (g.cdr[j].base = g.cdr[k].base => j = k)
  BY DEF Distinct, g
<1>6. g.cdr[k].base # g.base
  BY <1>1, <1>3, <1>4
<1>7. ASSUME g.cdr[j].base = g.cdr[k].base PROVE j = k
  <2>1. CASE j = 1 /\ k = 1
    BY <2>1
  <2>2. CASE j = 1 /\ k # 1
    BY <1>3, <1>7, <2>2 DEF Distinct
  <2>3. CASE j # 1 /\ k = 1
    BY <1>3, <1>7, <2>3 DEF Distinct
  <2>4. CASE j # 1 /\ k # 1
    <3>1. j - 1 = k - 1
      BY <1>3, <1>7, <2>4 DEF Distinct
    <3> QED
      BY <1>1, <1>2, <3>1
  <2> QED
    BY <2>1, <2>2, <2>3, <2>4
<1> QED
  BY <1>6, <1>7

\* What getcod leaves has the room that was asked for, and has used a segment that
\* was free if it needed one.
LEMMA GetcodGives ==
  ASSUME NEW s \in Segment, NEW used \in SUBSET Bases, NEW i \in getcod(s, used),
         Fits(s, LinkLen), OlderFit(s), Distinct(s), Held(s) \subseteq used
  PROVE  /\ i \in Segment /\ Fits(i, Ahead) /\ OlderFit(i) /\ Distinct(i)
         /\ \/ i = s
            \/ /\ i = Grown(s, i.base) /\ i.base \in Bases \ used
               /\ Held(i) = Held(s) \cup {i.base}
<1> USE CodeSegAssumption
<1>1. CASE Roomy(s)
  BY SMTT(30), <1>1 DEF getcod, Roomy, Room, Fits, Segment
<1>2. CASE ~Roomy(s)
  <2>1. PICK b \in Bases \ used : i = Grown(s, b)
    BY <1>2 DEF getcod
  <2>2. b \in Nat /\ b \notin Held(s)
    BY <2>1
  <2>3. /\ i \in Segment /\ i.base = b /\ i.next = b
        /\ DOMAIN i.cdr = 1 .. Len(s.cdr) + 1
        /\ i.cdr[1] = Closed(s.base, s.next + LinkLen, b)
        /\ \A k \in 1 .. Len(s.cdr) : i.cdr[k + 1] = s.cdr[k]
    BY ZenonT(60), <2>1, <2>2, GrownShape
  <2>4. Fits(i, Ahead)
    BY SMTT(30), <2>2, <2>3 DEF Fits
  <2>5. OlderFit(i)
    <3> SUFFICES ASSUME NEW k \in DOMAIN i.cdr
                 PROVE  i.cdr[k].next <= i.cdr[k].base + COD_SEG
      BY DEF OlderFit
    <3>1. CASE k = 1
      BY SMTT(30), <2>3, <3>1 DEF Fits, Closed
    <3>2. CASE k # 1
      <4>1. DOMAIN s.cdr = 1 .. Len(s.cdr) /\ Len(s.cdr) \in Nat
        BY DomainIsRange
      <4>2. k - 1 \in 1 .. Len(s.cdr) /\ (k - 1) + 1 = k
        <5>1. k \in 1 .. Len(s.cdr) + 1
          BY <2>3
        <5>2. Len(s.cdr) \in Nat
          BY <4>1
        <5> HIDE CodeSegAssumption
        <5> QED
          BY <3>2, <5>1, <5>2
      <4>3. i.cdr[k] = s.cdr[k - 1]
        BY <2>3, <4>2
      <4> QED
        BY <4>1, <4>2, <4>3 DEF OlderFit
    <3> QED
      BY <3>1, <3>2
  <2>6. Distinct(i) /\ Held(i) = Held(s) \cup {b}
    BY <2>1, <2>2, GrownDistinct, GrownHolds
  <2> QED
    BY <2>1, <2>3, <2>4, <2>5, <2>6
<1> QED
  BY <1>1, <1>2

\* Emitting n bytes.
LEMMA AdvanceKeeps ==
  ASSUME NEW s \in Segment, NEW n \in Nat
  PROVE  LET t == Advance(s, n) IN
         /\ t \in Segment /\ t.base = s.base /\ t.next = s.next + n /\ t.cdr = s.cdr
         /\ Held(t) = Held(s) /\ (Distinct(s) => Distinct(t)) /\ (OlderFit(s) => OlderFit(t))
<1> DEFINE t == Advance(s, n)
<1>1. t \in Segment /\ t.base = s.base /\ t.next = s.next + n /\ t.cdr = s.cdr
  BY DEF Advance, Segment
<1> QED
  BY <1>1 DEF Held, Distinct, OlderFit

-----------------------------------------------------------------------------
(* The invariant *)

\* What the modes promise.
LEMMA NeedIs ==
  /\ mode = "more" => Need = LinkLen + MaxFlush + 2 * MaxBad
  /\ mode = "fell" => Need = LinkLen + 2 * MaxBad
  /\ mode \in {"idle", "entered"} => Need = LinkLen + MaxBad
  /\ mode = "doomed" => Need = LinkLen
BY DEF Need

\* The segments are well formed, have room for a link, and are what is mapped.
LEMMA UpHas ==
  ASSUME SegInv, mode \in Up
  PROVE  /\ cod.inl \in Segment /\ cod.outl \in Segment
         /\ cod.inl.base \in Nat /\ cod.inl.next \in Nat
         /\ Need \in Nat /\ Need >= LinkLen
         /\ Fits(cod.inl, Need) /\ Fits(cod.inl, LinkLen) /\ Fits(cod.outl, LinkLen)
         /\ OlderFit(cod.inl) /\ OlderFit(cod.outl)
         /\ Distinct(cod.inl) /\ Distinct(cod.outl)
         /\ mapped = Held(cod.inl) \cup Held(cod.outl) /\ mapped \subseteq Bases
         /\ Held(cod.inl) \cap Held(cod.outl) = {}
<1> USE CodeSegAssumption
<1>1. cod.inl \in Segment /\ cod.outl \in Segment
  BY DEF SegInv, SegTypeOK, Chains
<1>2. Need \in Nat /\ Need >= LinkLen
  BY NeedIs DEF Up
<1>3. Fits(cod.inl, Need) /\ Fits(cod.outl, LinkLen)
  BY DEF SegInv, EnoughRoom
<1>4. cod.inl.base \in Nat /\ cod.inl.next \in Nat
  BY <1>1 DEF Segment
<1>5. Fits(cod.inl, LinkLen)
  BY <1>2, <1>3, <1>4 DEF Fits
<1>6. OlderFit(cod.inl) /\ OlderFit(cod.outl)
  BY DEF SegInv, LinksFit
<1>7. Distinct(cod.inl) /\ Distinct(cod.outl)
  BY DEF SegInv, SegmentsHeld, Distinct, Chains
<1>8. /\ mapped = Held(cod.inl) \cup Held(cod.outl) /\ mapped \subseteq Bases
      /\ Held(cod.inl) \cap Held(cod.outl) = {}
  BY DEF SegInv, SegTypeOK, SegmentsHeld
<1> QED
  BY <1>1, <1>2, <1>3, <1>4, <1>5, <1>6, <1>7, <1>8

LEMMA InitInv == SegInit => SegInv
<1> SUFFICES ASSUME SegInit PROVE SegInv
  OBVIOUS
<1>1. NoSegment \in Segment
  BY DEF NoSegment, Open, Segment
<1>2. SegTypeOK
  BY <1>1 DEF SegInit, SegTypeOK
<1>3. mode \notin Up
  BY DEF SegInit, Up
<1> QED
  BY <1>2, <1>3
  DEF SegInit, SegInv, EnoughRoom, LinksFit, FlowsOn, SegmentsHeld, OffIsEmpty

\* A process that is not up any more has nothing to keep but its type.
LEMMA DownInv ==
  ASSUME SegTypeOK', mode' \in Dead
  PROVE  SegInv'
<1>1. mode' \notin Up /\ mode' # "off"
  BY DEF Up, Dead
<1> QED
  BY <1>1 DEF SegInv, EnoughRoom, LinksFit, FlowsOn, SegmentsHeld, OffIsEmpty

\* Of n bytes emitted, when p are needed and q were.
LEMMA Emitted ==
  ASSUME NEW base \in Nat, NEW next \in Nat, NEW size \in Nat, NEW n \in Nat,
         NEW p \in Nat, NEW q \in Nat, base <= next, next + q <= base + size, p + n <= q
  PROVE  base <= next + n /\ (next + n) + p <= base + size
OBVIOUS

LEMMA EndInv ==
  ASSUME SegInv, End \/ CompileNoMap
  PROVE  SegInv'
<1>1. NoSegment \in Segment
  BY DEF NoSegment, Open, Segment
<1>2. NoSegments /\ mode' = "ended"
  BY DEF End, CompileNoMap
<1>3. SegTypeOK'
  BY <1>1, <1>2 DEF NoSegments, SegTypeOK, Dead
<1> QED
  BY <1>2, <1>3, DownInv DEF Dead

LEMMA BotchInv ==
  ASSUME SegInv, Botch
  PROVE  SegInv'
<1>1. SegTypeOK'
  BY DEF Botch, SegInv, SegTypeOK, Dead
<1>2. mode' \in Dead
  BY DEF Botch, Dead
<1> QED
  BY <1>1, <1>2, DownInv

\* Two new chains of one segment each, the first with n bytes of code.
LEMMA FreshInv ==
  ASSUME NEW i \in Bases, NEW o \in Bases, i # o, NEW n \in Nat, n + Ahead <= COD_SEG,
         cod' = [inl |-> Advance(newcod(i), n), outl |-> newcod(o)], mapped' = {i, o},
         flow' = [from |-> i, to |-> i], mode' = "entered"
  PROVE  SegInv'
<1> USE CodeSegAssumption
<1> DEFINE a == Advance(newcod(i), n)
           b == newcod(o)
<1>1. a = [base |-> i, next |-> i + n, cdr |-> <<>>] /\ b = [base |-> o, next |-> o, cdr |-> <<>>]
  <2>1. newcod(i) = [base |-> i, next |-> i, cdr |-> <<>>] /\ b = [base |-> o, next |-> o, cdr |-> <<>>]
    BY DEF newcod, Open
  <2>2. a = [[base |-> i, next |-> i, cdr |-> <<>>] EXCEPT !.next = i + n]
    BY <2>1 DEF Advance
  <2> QED
    BY <2>1, <2>2
<1>2. a \in Segment /\ b \in Segment /\ Held(a) = {i} /\ Held(b) = {o}
  BY <1>1 DEF Segment, Held
<1>3. cod'.inl = a /\ cod'.outl = b
  OBVIOUS
<1>4. SegTypeOK'
  BY <1>2 DEF SegTypeOK, Chains, Up
<1>5. Need' = LinkLen + MaxBad
  BY DEF Need
<1>6. EnoughRoom'
  <2>1. Fits(a, LinkLen + MaxBad)
    <3>1. a.base = i /\ a.next = i + n
      BY <1>1
    <3>2. i + n + (LinkLen + MaxBad) <= i + COD_SEG /\ i <= i + n
      OBVIOUS
    <3> HIDE DEF a
    <3> QED
      BY <3>1, <3>2 DEF Fits
  <2>2. Fits(b, LinkLen)
    <3>1. b.base = o /\ b.next = o
      BY <1>1
    <3>2. o + LinkLen <= o + COD_SEG /\ o <= o
      <4>1. o \in Nat
        OBVIOUS
      <4> HIDE CodeSegAssumption
      <4> QED
        BY <4>1, LengthsAre
    <3> HIDE DEF b
    <3> QED
      BY <3>1, <3>2 DEF Fits
  <2> HIDE DEF a, b
  <2>3. Fits(cod.inl, Need)' /\ Fits(cod.outl, LinkLen)'
    BY <1>3, <1>5, <2>1, <2>2 DEF Fits
  <2> QED
    BY <2>3 DEF EnoughRoom
<1>7. LinksFit'
  BY <1>1, <1>3 DEF LinksFit, OlderFit
<1>8. FlowsOn'
  BY DEF FlowsOn
<1>9. SegmentsHeld'
  BY SMTT(30), <1>1, <1>2, <1>3 DEF SegmentsHeld, Chains
<1> QED
  BY <1>4, <1>6, <1>7, <1>8, <1>9 DEF SegInv, OffIsEmpty

LEMMA StartInv ==
  ASSUME SegInv, Start
  PROVE  SegInv'
<1>1. PICK i \in Bases, o \in Bases :
        /\ i # o
        /\ cod' = [inl |-> Advance(newcod(i), EnterLen), outl |-> newcod(o)]
        /\ mapped' = mapped \cup {i, o}
        /\ flow' = [from |-> i, to |-> i]
        /\ mode' = "entered"
  BY DEF Start
<1>2. mapped = {}
  BY DEF Start, SegInv, OffIsEmpty
<1> QED
  BY <1>1, <1>2, FreshInv, CodeSegAssumption

LEMMA RenewInv ==
  ASSUME SegInv, Renew
  PROVE  SegInv'
<1>1. mode \in Up
  BY DEF Renew, Up
<1>2. Held(cod.inl) = {cod.inl.base} /\ Held(cod.outl) = {cod.outl.base}
  BY DEF Renew, Short, Held
<1>3. mapped \ Bounced = {}
  BY <1>1, <1>2, UpHas DEF Bounced
<1>4. PICK i \in Bases, o \in Bases :
        /\ i # o
        /\ cod' = [inl |-> newcod(i), outl |-> newcod(o)]
        /\ mapped' = {i, o}
        /\ flow' = [from |-> i, to |-> i]
        /\ mode' = "entered"
  BY <1>3 DEF Renew, umc_init
<1>5. newcod(i) = Advance(newcod(i), 0)
  <2>1. newcod(i) = [base |-> i, next |-> i, cdr |-> <<>>]
    BY DEF newcod, Open
  <2>2. i + 0 = i
    BY CodeSegAssumption
  <2> QED
    BY <2>1, <2>2 DEF Advance
<1> QED
  BY <1>4, <1>5, FreshInv, CodeSegAssumption

\* Code emitted to the first chain without asking for room, n bytes of it, when there
\* is that much more room than the next mode needs.
LEMMA InlineInv ==
  ASSUME SegInv, mode \in Up, NEW n \in Nat, Inline(n), mode' \in Up, Need' \in Nat,
         Need' + n <= Need
  PROVE  SegInv'
<1> DEFINE s == cod.inl
           t == Advance(cod.inl, n)
<1>1. /\ s \in Segment /\ cod.outl \in Segment /\ s.base \in Nat /\ s.next \in Nat
      /\ Need \in Nat /\ Fits(s, Need) /\ Fits(cod.outl, LinkLen)
      /\ OlderFit(s) /\ OlderFit(cod.outl) /\ Distinct(s) /\ Distinct(cod.outl)
      /\ mapped = Held(s) \cup Held(cod.outl) /\ mapped \subseteq Bases
      /\ Held(s) \cap Held(cod.outl) = {}
  BY UpHas
<1>2. /\ t \in Segment /\ t.base = s.base /\ t.next = s.next + n /\ t.cdr = s.cdr
      /\ Held(t) = Held(s) /\ Distinct(t) /\ OlderFit(t)
  BY <1>1, AdvanceKeeps
<1>3. cod' = [cod EXCEPT !.inl = t] /\ mapped' = mapped
      /\ flow' = [from |-> s.next, to |-> s.next]
  BY DEF Inline
<1>4. cod'.inl = t /\ cod'.outl = cod.outl /\ cod' \in [Chains -> Segment]
  BY <1>1, <1>2, <1>3 DEF SegInv, SegTypeOK, Chains
<1> HIDE DEF s, t
<1>5. SegTypeOK'
  BY <1>1, <1>3, <1>4 DEF SegTypeOK
<1>6. EnoughRoom'
  <2>1. Fits(t, Need')
    <3>1. s.base <= s.next + n /\ (s.next + n) + Need' <= s.base + COD_SEG
      <4>1. s.base \in Nat /\ s.next \in Nat /\ Need \in Nat /\ COD_SEG \in Nat
            /\ s.base <= s.next /\ s.next + Need <= s.base + COD_SEG
        BY <1>1, LengthsAre DEF Fits
      <4> QED
        BY <4>1, Emitted
    <3> QED
      BY <1>2, <3>1 DEF Fits
  <2> QED
    BY <1>1, <1>4, <2>1 DEF EnoughRoom, Fits
<1>7. LinksFit'
  BY <1>1, <1>2, <1>4 DEF LinksFit, OlderFit
<1>8. FlowsOn'
  BY <1>3 DEF FlowsOn
<1>9. SegmentsHeld'
  <2>1. /\ Distinct(cod'.inl) /\ Distinct(cod'.outl)
        /\ mapped' = Held(cod'.inl) \cup Held(cod'.outl)
        /\ Held(cod'.inl) \cap Held(cod'.outl) = {}
    BY <1>1, <1>2, <1>3, <1>4
  <2> QED
    BY <2>1 DEF SegmentsHeld, Distinct, Chains, Held
<1>10. mode' # "off"
  BY DEF Up
<1> QED
  BY <1>5, <1>6, <1>7, <1>8, <1>9, <1>10 DEF SegInv, OffIsEmpty

LEMMA BadInv ==
  ASSUME SegInv, CompileBad
  PROVE  SegInv'
<1> USE CodeSegAssumption
<1>1. mode \in {"entered", "more", "fell"} /\ mode \in Up
  BY DEF CompileBad, Compiling, Up
<1>2. PICK f \in (IF mode = "more" THEN FlushLens ELSE {0}), n \in BadLens : Inline(f + n)
  BY DEF CompileBad
<1>3. n \in Nat /\ n <= MaxBad /\ f \in Nat /\ (mode = "more" => f <= MaxFlush) /\ (mode # "more" => f = 0)
  BY <1>2
<1>4. mode' = IF mode = "entered" THEN "doomed" ELSE "idle"
  BY DEF CompileBad
<1>5. CASE mode = "entered"
  <2>1. mode' = "doomed" /\ Need' = LinkLen /\ Need = LinkLen + MaxBad
    BY <1>4, <1>5 DEF Need
  <2>2. Need' \in Nat /\ Need' + (f + n) <= Need /\ f + n \in Nat
    BY <1>3, <1>5, <2>1
  <2> QED
    BY <1>1, <1>2, <2>1, <2>2, InlineInv DEF Up
<1>6. CASE mode # "entered"
  <2>1. mode' = "idle" /\ Need' = LinkLen + MaxBad
    BY <1>4, <1>6 DEF Need
  <2>2. Need' + (f + n) <= Need
    <3>1. CASE mode = "more"
      <4>1. Need = LinkLen + MaxFlush + 2 * MaxBad
        BY <3>1, NeedIs
      <4> QED
        BY <1>3, <2>1, <3>1, <4>1
    <3>2. CASE mode = "fell"
      <4>1. Need = LinkLen + 2 * MaxBad
        BY <3>2, NeedIs
      <4> QED
        BY <1>3, <2>1, <3>2, <4>1
    <3> QED
      BY <1>1, <1>6, <3>1, <3>2
  <2>3. Need' \in Nat /\ f + n \in Nat
    BY <1>3, <2>1
  <2> QED
    BY <1>1, <1>2, <2>1, <2>2, <2>3, InlineInv DEF Up
<1> QED
  BY <1>5, <1>6

LEMMA FallInv ==
  ASSUME SegInv, CompileFall
  PROVE  SegInv'
<1> USE CodeSegAssumption
<1>1. mode = "more" /\ mode' = "fell" /\ mode \in Up /\ mode' \in Up
  BY DEF CompileFall, Up
<1>2. PICK f \in FlushLens : Inline(f)
  BY DEF CompileFall
<1>3. Need = LinkLen + MaxFlush + 2 * MaxBad /\ Need' = LinkLen + 2 * MaxBad
  BY <1>1 DEF Need
<1>4. f \in Nat /\ f <= MaxFlush
  BY <1>2
<1>5. Need' \in Nat /\ Need' + f <= Need
  BY <1>3, <1>4
<1> QED
  BY <1>1, <1>2, <1>4, <1>5, InlineInv

LEMMA EnterInv ==
  ASSUME SegInv, Enter
  PROVE  SegInv'
<1>1. mode = "idle" /\ mode' = "entered" /\ mode \in Up /\ mode' \in Up
  BY DEF Enter, Up
<1>2. Need' = Need
  BY <1>1 DEF Need
<1>3. cod' = cod /\ mapped' = mapped /\ flow' = [from |-> cod.inl.next, to |-> cod.inl.next]
  BY DEF Enter
<1>4. SegTypeOK'
  BY <1>1, <1>3, UpHas DEF SegInv, SegTypeOK
<1>5. FlowsOn'
  BY <1>3 DEF FlowsOn
<1>6. EnoughRoom'
  BY <1>1, <1>2, <1>3 DEF SegInv, EnoughRoom, Fits
<1>7. LinksFit'
  BY <1>1, <1>3 DEF SegInv, LinksFit, OlderFit
<1>8. SegmentsHeld'
  <2>1. /\ Distinct(cod'.inl) /\ Distinct(cod'.outl)
        /\ mapped' = Held(cod'.inl) \cup Held(cod'.outl)
        /\ Held(cod'.inl) \cap Held(cod'.outl) = {}
    BY <1>1, <1>3, UpHas
  <2> QED
    BY <2>1 DEF SegmentsHeld, Distinct, Chains, Held
<1> QED
  BY <1>1, <1>4, <1>5, <1>6, <1>7, <1>8 DEF SegInv, OffIsEmpty

LEMMA PlatterInv ==
  ASSUME SegInv, CompilePlatter
  PROVE  SegInv'
<1>1. mode \in Up /\ mode' \in {"more", "idle"}
  BY DEF CompilePlatter, Compiling, Up
<1>0. PICK i \in getcod(cod.inl, mapped) : \E o \in getcod(cod.outl, mapped \cup {i.base}) :
        \E n, m \in PlatterLens :
          /\ cod' = [inl |-> Advance(i, n), outl |-> Advance(o, m)]
          /\ mapped' = mapped \cup {i.base, o.base}
          /\ flow' = [from |-> cod.inl.next, to |-> i.next]
  BY DEF CompilePlatter
<1>2. PICK o \in getcod(cod.outl, mapped \cup {i.base}), n \in PlatterLens, m \in PlatterLens :
        /\ cod' = [inl |-> Advance(i, n), outl |-> Advance(o, m)]
        /\ mapped' = mapped \cup {i.base, o.base}
        /\ flow' = [from |-> cod.inl.next, to |-> i.next]
  BY <1>0
<1> DEFINE s == cod.inl
           t == cod.outl
           x == Advance(i, n)
           y == Advance(o, m)
<1>3. /\ s \in Segment /\ t \in Segment /\ s.base \in Nat /\ s.next \in Nat
      /\ Fits(s, LinkLen) /\ Fits(t, LinkLen)
      /\ OlderFit(s) /\ OlderFit(t) /\ Distinct(s) /\ Distinct(t)
      /\ mapped = Held(s) \cup Held(t) /\ mapped \subseteq Bases
      /\ Held(s) \cap Held(t) = {}
  BY <1>1, UpHas
<1>4. n \in Nat /\ m \in Nat /\ n <= MaxPlatter /\ m <= MaxPlatter
  BY CodeSegAssumption
<1> HIDE DEF s, t, x, y
<1>5. /\ i \in Segment /\ Fits(i, Ahead) /\ OlderFit(i) /\ Distinct(i)
      /\ \/ i = s
         \/ i = Grown(s, i.base) /\ i.base \in Bases \ mapped /\ Held(i) = Held(s) \cup {i.base}
  BY <1>2, <1>3, GetcodGives DEF s
<1>6. i.base \in Bases /\ i.base \in Held(i)
  <2>1. i.base \in Held(i)
    BY DEF Held
  <2> QED
    BY <1>3, <1>5, <2>1
<1>7. /\ o \in Segment /\ Fits(o, Ahead) /\ OlderFit(o) /\ Distinct(o)
      /\ \/ o = t
         \/ o.base \in Bases \ (mapped \cup {i.base}) /\ Held(o) = Held(t) \cup {o.base}
  <2>1. mapped \cup {i.base} \in SUBSET Bases /\ Held(t) \subseteq mapped \cup {i.base}
    BY <1>3, <1>6
  <2> QED
    BY <1>2, <1>3, <2>1, GetcodGives DEF t
<1>8. o.base \in Bases /\ o.base \in Held(o)
  <2>1. o.base \in Held(o)
    BY DEF Held
  <2> QED
    BY <1>3, <1>7, <2>1
<1>9. /\ x \in Segment /\ x.base = i.base /\ x.next = i.next + n /\ x.cdr = i.cdr
      /\ Held(x) = Held(i) /\ Distinct(x) /\ OlderFit(x)
  BY <1>4, <1>5, AdvanceKeeps DEF x
<1>10. /\ y \in Segment /\ y.base = o.base /\ y.next = o.next + m /\ y.cdr = o.cdr
       /\ Held(y) = Held(o) /\ Distinct(y) /\ OlderFit(y)
  BY <1>4, <1>7, AdvanceKeeps DEF y
<1>11. cod'.inl = x /\ cod'.outl = y /\ cod' \in [Chains -> Segment]
  BY <1>2, <1>9, <1>10 DEF x, y, Chains
<1>12. i.base \in Nat /\ i.next \in Nat /\ o.base \in Nat /\ o.next \in Nat
  BY <1>5, <1>7 DEF Segment
<1>13. mapped' = Held(x) \cup Held(y) /\ Held(x) \cap Held(y) = {}
  BY <1>2, <1>3, <1>5, <1>6, <1>7, <1>8, <1>9, <1>10
<1>14. SegTypeOK'
  <2>1. mapped' \subseteq Bases
    BY <1>2, <1>3, <1>6, <1>8
  <2>2. flow' \in [from : Nat, to : Nat]
    BY <1>2, <1>3, <1>12 DEF s
  <2> QED
    BY <1>1, <1>11, <2>1, <2>2 DEF SegTypeOK, Up
<1>15. EnoughRoom'
  <2>1. \A k \in 0 .. MaxPlatter :
          k + (LinkLen + MaxFlush + 2 * MaxBad) <= Ahead
    BY LengthsAre, CodeSegAssumption
  <2>2. Fits(x, LinkLen + MaxFlush + 2 * MaxBad)
    <3>1. n + (LinkLen + MaxFlush + 2 * MaxBad) <= Ahead
      BY <1>4, <2>1, LengthsAre
    <3>2. i.base <= i.next /\ i.next + Ahead <= i.base + COD_SEG
      BY <1>5 DEF Fits
    <3>3. LinkLen + MaxFlush + 2 * MaxBad \in Nat
      BY LengthsAre
    <3>4. i.base <= i.next + n
          /\ (i.next + n) + (LinkLen + MaxFlush + 2 * MaxBad) <= i.base + COD_SEG
      BY <1>4, <1>12, <3>1, <3>2, <3>3, LengthsAre
    <3> QED
      BY <1>9, <3>4 DEF Fits
  <2>3. Fits(y, LinkLen)
    <3>1. m + LinkLen <= Ahead
      BY <1>4, <2>1, LengthsAre
    <3>2. o.base <= o.next /\ o.next + Ahead <= o.base + COD_SEG
      BY <1>7 DEF Fits
    <3>3. o.base <= o.next + m /\ (o.next + m) + LinkLen <= o.base + COD_SEG
      BY <1>4, <1>12, <3>1, <3>2, LengthsAre
    <3> QED
      BY <1>10, <3>3 DEF Fits
  <2>4. Fits(x, Need')
    <3>1. CASE mode' = "more"
      <4>1. Need' = LinkLen + MaxFlush + 2 * MaxBad
        BY <3>1 DEF Need
      <4> QED
        BY <2>2, <4>1
    <3>2. CASE mode' = "idle"
      <4>1. Need' = LinkLen + MaxBad
        BY <3>2 DEF Need
      <4>2. x.base \in Nat /\ x.next \in Nat
        BY <1>4, <1>9, <1>12
      <4>3. x.next + (LinkLen + MaxBad) <= x.base + COD_SEG
        BY <2>2, <4>2, LengthsAre DEF Fits
      <4> QED
        BY <2>2, <4>1, <4>3 DEF Fits
    <3> QED
      BY <1>1, <3>1, <3>2
  <2> QED
    BY <1>11, <2>3, <2>4 DEF EnoughRoom, Fits
<1>16. LinksFit'
  BY <1>9, <1>10, <1>11 DEF LinksFit, OlderFit
<1>17. FlowsOn'
  <2>1. flow'.from = s.next /\ flow'.to = i.next
    BY <1>2 DEF s
  <2>2. CASE i = s
    BY <2>1, <2>2 DEF FlowsOn
  <2>3. CASE i # s
    <3>1. i = Grown(s, i.base) /\ i.base \in Nat
      BY <1>5, <1>12, <2>3
    <3>2. i.next = i.base /\ 1 \in DOMAIN i.cdr /\ i.cdr[1] = Closed(s.base, s.next + LinkLen, i.base)
      <4>1. \A b \in Nat :
              LET g == Grown(s, b) IN
              /\ g.next = b /\ g.cdr[1] = Closed(s.base, s.next + LinkLen, b)
              /\ DOMAIN g.cdr = 1 .. Len(s.cdr) + 1
        BY <1>3, GrownShape
      <4> QED
        BY <1>3, <3>1, <4>1, DomainIsRange
    <3>3. i.cdr[1].next = s.next + LinkLen /\ i.cdr[1].link = i.base
      BY <3>2 DEF Closed
    <3> QED
      BY <1>9, <1>11, <2>1, <3>2, <3>3 DEF FlowsOn
  <2> QED
    BY <2>2, <2>3
<1>18. SegmentsHeld'
  <2>1. Distinct(cod'.inl) /\ Distinct(cod'.outl)
        /\ mapped' = Held(cod'.inl) \cup Held(cod'.outl)
        /\ Held(cod'.inl) \cap Held(cod'.outl) = {}
    BY <1>9, <1>10, <1>11, <1>13
  <2> QED
    BY <2>1 DEF SegmentsHeld, Distinct, Chains, Held
<1>19. mode' # "off"
  BY <1>1
<1> QED
  BY <1>14, <1>15, <1>16, <1>17, <1>18, <1>19 DEF SegInv, OffIsEmpty

LEMMA NextInv ==
  ASSUME SegInv, [SegNext]_segvars
  PROVE  SegInv'
<1>1. CASE SegNext
  BY <1>1, PlatterInv, EndInv, BadInv, FallInv, EnterInv, StartInv, RenewInv, BotchInv
  DEF SegNext
<1>2. CASE UNCHANGED segvars
  <2>1. cod' = cod /\ mapped' = mapped /\ flow' = flow /\ mode' = mode
    BY <1>2 DEF segvars
  <2>2. Need' = Need
    BY <2>1 DEF Need
  <2>3. EnoughRoom'
    BY <2>1, <2>2 DEF SegInv, EnoughRoom, Fits
  <2>4. SegTypeOK' /\ LinksFit' /\ OffIsEmpty'
    BY <2>1 DEF SegInv, SegTypeOK, LinksFit, OffIsEmpty, OlderFit
  <2>5. FlowsOn'
    BY <2>1 DEF SegInv, FlowsOn
  <2>6. SegmentsHeld'
    BY <2>1 DEF SegInv, SegmentsHeld
  <2> QED
    BY <2>3, <2>4, <2>5, <2>6 DEF SegInv
<1> QED
  BY <1>1, <1>2

\* The inductive invariant.
THEOREM SegInvariance == SegSpec => []SegInv
BY InitInv, NextInv, PTL DEF SegSpec

-----------------------------------------------------------------------------
(* Theorems *)

\* The room that umc_mkblk asks for before a platter is enough for the platter, for
\* whatever ends the block, for the beginning of the next, and for the jump that
\* getcod writes: nothing is written past the end of a segment.
THEOREM RoomForAll == SegSpec => []NeverOverruns
<1>1. SegInv => NeverOverruns
  <2> SUFFICES ASSUME SegInv, mode \in Up
               PROVE  /\ \A c \in Chains : cod[c].next <= cod[c].base + COD_SEG
                      /\ \A c \in Chains : OlderFit(cod[c])
    BY DEF NeverOverruns, OlderFit
  <2>1. \A s \in Segment : Fits(s, LinkLen) => s.next <= s.base + COD_SEG
    BY LengthsAre DEF Fits, Segment
  <2> QED
    BY <2>1, UpHas DEF Chains
<1> QED
  BY <1>1, SegInvariance, PTL

\* Control reaches the code of each platter, across a change of segment too.
THEOREM FlowContinues == SegSpec => []FlowsOn
<1>1. SegInv => FlowsOn
  BY DEF SegInv
<1> QED
  BY <1>1, SegInvariance, PTL

\* No segment is used twice, and none is forgotten while the process lives.
THEOREM SegmentsAreHeld == SegSpec => []SegmentsHeld
<1>1. SegInv => SegmentsHeld
  BY DEF SegInv
<1> QED
  BY <1>1, SegInvariance, PTL

=============================================================================
