-------------------------- MODULE CodeCacheSafety --------------------------
(***************************************************************************)
(* Proofs about CodeCache, continued: that umx keeps compiled code and     *)
(* array 0 together, for every set of programs and every size.  It does so *)
(* but for two flaws of the compiler, which runs of TLC show; what has to  *)
(* be supposed of a behaviour to leave them out is stated here and is all  *)
(* that is supposed.                                                       *)
(***************************************************************************)
EXTENDS CodeCacheProofs

-----------------------------------------------------------------------------
(* What is supposed *)

\* The instruction at g.time is one that the next may be taken in with.
Fuses ==
  \/ prog[g.time] = "nand" /\ Peek("nand")
  \/ prog[g.time] = "cmov" /\ Peek("load")

\* The platters that the block being compiled has taken in.
Own == IF mode = "compile" THEN g.begin .. (g.time - 1) ELSE {}

\* umc.c:156 and umc.c:235 take in a platter they have looked ahead at without
\* the test of prognoex that every other is put to (umc.c:105), and leave it out
\* of prognowr until the block ends.  Here that does no harm: the platter is not
\* execute-protected, and the block does not store to it.
LookaheadSafe ==
  /\ Compilable /\ Fuses => g.time + 1 \notin prognoex
  /\ mode = "compile" =>
       \A n \in DOMAIN g.ops : g.ops[n].k = "store" => g.ops[n].t \notin Own

\* um_enterdep does not mark a block it has to compile as depended on.  Here that
\* does no harm: no block is shot down alone while a link leads to it.
LinkedStay ==
  mode = "shoot" /\ Hit # 0 /\ ~Needed(Hit) =>
    \A id \in 1 .. Len(code) : \A a \in DOMAIN code[id].exit.arms :
      code[id].exit.arms[a].link # Hit

\* The same, by never letting it happen: what a stub asks for has been compiled.
StubsFind == mode = "compile" => g.caller.id = 0

-----------------------------------------------------------------------------
(* The inductive invariant *)

Enders == {"stop", "load", "loadc"}

\* A block ends at the limit, where it falls through, or behind the first
\* instruction that leaves it, or at the end of the program, or before an
\* execute-protected platter; and nowhere else.
EndsRight(b, len, noex) ==
  /\ b.end <= b.begin + MaxBlk
  /\ \A x \in Span(b) : x + 1 < b.end => b.src[x] \notin Enders
  /\ \/ b.end = b.begin + MaxBlk /\ b.exit.k = "fall"
     \/ b.begin < b.end /\ b.src[b.end - 1] \in Enders
     \/ b.end = len
     \/ b.end \in noex

StoresIn(ops, noex) == \A n \in DOMAIN ops : ops[n].k = "store" => ops[n].t \in noex

\* The blocks of a table, and the platters they were compiled from.
Listed(tbl)  == UNION {ToSet(tbl[x]) : x \in Addr}
Covered(tbl) == UNION {Span(code[id]) : id \in Listed(tbl)}

\* The platter that has changed though code compiled from it may be there yet.
Shot == IF mode = "shoot" THEN {pw.target} ELSE {}

BlocksOK ==
  \A id \in 1 .. Len(code) : /\ EndsRight(code[id], proglen, prognoex)
                             /\ StoresIn(code[id].ops, prognoex)

OwnOK ==
  mode = "compile" =>
    /\ g.time <= Limit
    /\ \A x \in Own : prog[x] \notin Enders /\ x \notin prognoex
    /\ StoresIn(g.ops, prognoex)

\* No platter is protected both ways.
Disjoint == prognowr \cap prognoex = {}

Exact ==
  /\ Covered(progblks) \subseteq prognowr
  /\ prognowr \subseteq Covered(progblks) \cup Own

Fresh ==
  \A id \in Listed(progblks) : \A x \in Span(code[id]) :
    x \notin Shot => code[id].src[x] = prog[x]

\* Blocks of the table were compiled from the same.
Agree ==
  \A i, j \in Listed(progblks) : \A x \in Span(code[i]) \cap Span(code[j]) :
    code[i].src[x] = code[j].src[x]

SInv ==
  /\ BlocksOK /\ OwnOK
  /\ Disjoint /\ Exact
  /\ Fresh /\ Agree
  /\ NeverAborts

\* A link leads to the beginning of a block of the table, but for that of a block
\* whose successor is being compiled; the compilation goes back to a block of
\* the table; and a block that ends at the limit has such a link.
Pending(link) == mode = "compile" /\ link = Len(code) + 1

LinkOK(arm) ==
  arm.link # 0 => \/ Pending(arm.link) /\ arm.dst = g.begin
                  \/ arm.link \in Listed(progblks) /\ code[arm.link].begin = arm.dst

LinkInv ==
  /\ \A id \in 1 .. Len(code) :
       /\ \A a \in DOMAIN code[id].exit.arms : LinkOK(code[id].exit.arms[a])
       /\ code[id].exit.k = "fall" =>
            /\ DOMAIN code[id].exit.arms = {1}
            /\ code[id].exit.arms[1].dst = code[id].end
            /\ code[id].exit.arms[1].link # 0
  /\ mode = "compile" => g.first = 0 \/ g.first \in Listed(progblks)
  /\ mode = "compile" /\ g.caller.id # 0 =>
       code[g.caller.id].exit.arms[g.caller.arm].dst =
         IF g.first = 0 THEN g.begin ELSE code[g.first].begin

\* What is left of the block that runs is protected, and is what array 0 says.
RestOK ==
  /\ mode = "run" =>
       \A x \in cur.pos .. (Here.end - 1) : x \in prognowr /\ Here.src[x] = prog[x]
  /\ mode = "shoot" /\ cur.id # 0 =>
       /\ cur.pos = pw.source
       /\ \A x \in cur.pos .. (Here.end - 1) :
            x \notin prognoex /\ (x # pw.target => Here.src[x] = prog[x])

\* A link leads to a block that is marked as depended on.
DepInv ==
  \A id \in 1 .. Len(code) : \A a \in DOMAIN code[id].exit.arms :
    LET link == code[id].exit.arms[a].link
    IN  link # 0 => IF Pending(link) THEN g.dep ELSE code[link].dep

-----------------------------------------------------------------------------
(* Tables *)

\* The blocks of a table are numbered, and filed under their beginnings.
LEMMA ListedType ==
  ASSUME NEW cd, NEW tbl \in Tables(cd)
  PROVE  /\ Listed(tbl) \subseteq 1 .. Len(cd)
         /\ \A x \in Addr : \A id \in ToSet(tbl[x]) : id \in 1 .. Len(cd) /\ cd[id].begin = x
<1>1. ASSUME NEW x \in Addr, NEW id \in ToSet(tbl[x])
      PROVE  id \in 1 .. Len(cd) /\ cd[id].begin = x
  <2>1. tbl[x] \in Seq(Ids(cd, x))
    BY DEF Tables
  <2>2. PICK k \in DOMAIN tbl[x] : id = tbl[x][k]
    BY DEF ToSet
  <2>3. id \in Ids(cd, x)
    BY <2>1, <2>2, ElementOfSeq, LenProperties
  <2>. QED
    BY <2>3 DEF Ids
<1>. QED
  BY <1>1 DEF Listed

\* The table is what its lists hold.
LEMMA TableListed ==
  ASSUME IInv
  PROVE  Table = Listed(progblks) /\ DOMAIN code = 1 .. Len(code) /\ Len(code) \in Nat
<1>1. progblks \in Tables(code) /\ code \in Seq(Blocks)
  BY DEF IInv, StoreOK, GoodCode
<1>2. DOMAIN code = 1 .. Len(code) /\ Len(code) \in Nat
  BY <1>1, LenProperties
<1>. QED
  BY <1>1, <1>2, ListedType DEF Table, Listed

\* Moving a member of a sequence to its front keeps its members.
LEMMA ToFrontSet ==
  ASSUME NEW S, NEW s \in Seq(S), NEW k \in 1 .. Len(s)
  PROVE  ToSet(ToFront(s, k)) = ToSet(s)
<1> DEFINE u == SubSeq(s, 1, k - 1)
           v == SubSeq(s, k + 1, Len(s))
           r == u \o v
           t == <<s[k]>> \o r
<1>1. Len(s) \in Nat /\ DOMAIN s = 1 .. Len(s) /\ k \in Nat
  BY LenProperties
<1>2. \A i \in 1 .. Len(s) : s[i] \in S
  BY ElementOfSeq
<1>3. /\ u \in Seq(S) /\ Len(u) = k - 1 /\ \A i \in 1 .. k - 1 : u[i] = s[i]
  <2>1. \A i \in 1 .. k - 1 : s[i] \in S
    BY <1>1, <1>2
  <2>. QED
    BY <1>1, <2>1, SubSeqProperties
<1>4. /\ v \in Seq(S) /\ Len(v) = Len(s) - k /\ \A i \in 1 .. Len(s) - k : v[i] = s[k + i]
  <2>1. \A i \in k + 1 .. Len(s) : s[i] \in S
    BY <1>1, <1>2
  <2>2. v \in Seq(S) /\ Len(v) = (IF k + 1 <= Len(s) THEN Len(s) - (k + 1) + 1 ELSE 0)
    <3>1. k + 1 \in Int /\ Len(s) \in Int
      BY <1>1
    <3>. QED
      BY <2>1, <3>1, SubSeqProperties
  <2>3. \A i \in 1 .. Len(s) - k : v[i] = s[k + 1 + i - 1]
    BY <1>1, <2>1, SubSeqProperties
  <2>4. \A i \in 1 .. Len(s) - k : k + 1 + i - 1 = k + i
    BY <1>1
  <2>5. Len(v) = Len(s) - k
    <3>1. \A n \in Nat : \A j \in 1 .. n :
            (IF j + 1 <= n THEN n - (j + 1) + 1 ELSE 0) = n - j
      OBVIOUS
    <3> HIDE DEF v
    <3>. QED
      BY <1>1, <2>2, <3>1
  <2>. QED
    BY <2>2, <2>3, <2>4, <2>5
<1> HIDE DEF u, v
<1>5. /\ r \in Seq(S) /\ Len(r) = Len(s) - 1
      /\ \A i \in 1 .. Len(s) - 1 : r[i] = IF i < k THEN s[i] ELSE s[i + 1]
  <2>1. r \in Seq(S) /\ Len(r) = Len(u) + Len(v)
    BY <1>3, <1>4, ConcatProperties
  <2>2. \A i \in 1 .. Len(u) + Len(v) : r[i] = IF i <= Len(u) THEN u[i] ELSE v[i - Len(u)]
    BY <1>3, <1>4, ConcatProperties
  <2>3. Len(u) + Len(v) = Len(s) - 1
    BY <1>1, <1>3, <1>4
  <2>4. ASSUME NEW i \in 1 .. Len(s) - 1, i < k PROVE r[i] = s[i]
    <3>1. i \in 1 .. k - 1 /\ i <= Len(u)
      BY <1>1, <1>3, <2>4
    <3>2. r[i] = u[i]
      BY <2>2, <2>3, <3>1
    <3>. QED
      BY <1>3, <3>1, <3>2
  <2>5. ASSUME NEW i \in 1 .. Len(s) - 1, ~(i < k) PROVE r[i] = s[i + 1]
    <3>1. i - Len(u) \in 1 .. Len(s) - k /\ k + (i - Len(u)) = i + 1 /\ ~(i <= Len(u))
      BY <1>1, <1>3, <2>5
    <3>2. r[i] = v[i - Len(u)]
      BY <2>2, <2>3, <3>1
    <3>. QED
      BY <1>4, <3>1, <3>2
  <2>. QED
    BY <2>1, <2>3, <2>4, <2>5
<1> HIDE DEF r
<1>6. /\ t \in Seq(S) /\ Len(t) = Len(s) /\ t[1] = s[k]
      /\ \A i \in 2 .. Len(s) : t[i] = r[i - 1]
  <2> DEFINE o == <<s[k]>>
  <2>1. o \in Seq(S) /\ Len(o) = 1 /\ o[1] = s[k]
    BY <1>2
  <2> HIDE DEF o
  <2>2. t \in Seq(S) /\ Len(t) = 1 + Len(r)
    BY <1>5, <2>1, ConcatProperties DEF o
  <2>3. \A i \in 1 .. 1 + Len(r) : t[i] = IF i <= 1 THEN o[i] ELSE r[i - 1]
    BY <1>5, <2>1, ConcatProperties DEF o
  <2>4. 1 + Len(r) = Len(s)
    BY <1>1, <1>5
  <2>5. t[1] = s[k]
    BY <1>1, <2>1, <2>3, <2>4
  <2>6. \A i \in 2 .. Len(s) : t[i] = r[i - 1]
    BY <1>1, <2>3, <2>4
  <2>. QED
    BY <2>2, <2>4, <2>5, <2>6
<1>7. ToFront(s, k) = t
  BY DEF ToFront, RemoveAt, r, u, v
<1> HIDE DEF t
<1>8. DOMAIN t = 1 .. Len(s)
  BY <1>6, LenProperties
<1>9. ASSUME NEW i \in 1 .. Len(s) PROVE t[i] \in ToSet(s)
  <2>1. CASE i = 1
    BY <1>1, <1>6, <2>1 DEF ToSet
  <2>2. CASE i # 1
    <3>1. i \in 2 .. Len(s) /\ i - 1 \in 1 .. Len(s) - 1 /\ (i - 1) + 1 \in 1 .. Len(s)
      BY <1>1, <2>2
    <3>2. i - 1 \in 1 .. Len(s)
      BY <1>1, <3>1
    <3>3. t[i] = s[i - 1] \/ t[i] = s[(i - 1) + 1]
      BY <1>5, <1>6, <3>1
    <3>. QED
      BY <1>1, <3>1, <3>2, <3>3 DEF ToSet
  <2>. QED
    BY <2>1, <2>2
<1>10. ASSUME NEW i \in 1 .. Len(s) PROVE \E j \in 1 .. Len(s) : s[i] = t[j]
  <2>1. CASE i = k
    BY <1>1, <1>6, <2>1
  <2>2. CASE i < k
    <3>1. i + 1 \in 2 .. Len(s) /\ i \in 1 .. Len(s) - 1 /\ (i + 1) - 1 = i
      BY <1>1, <2>2
    <3>2. t[i + 1] = s[i]
      BY <1>5, <1>6, <2>2, <3>1
    <3>3. i + 1 \in 1 .. Len(s)
      BY <1>1, <3>1
    <3>. QED
      BY <3>2, <3>3
  <2>3. CASE i > k
    <3>1. i \in 2 .. Len(s) /\ i - 1 \in 1 .. Len(s) - 1 /\ (i - 1) + 1 = i /\ ~(i - 1 < k)
      BY <1>1, <2>3
    <3>2. t[i] = s[i]
      BY <1>5, <1>6, <3>1
    <3>. QED
      BY <3>2
  <2>. QED
    BY <1>1, <2>1, <2>2, <2>3
<1>11. ToSet(t) \subseteq ToSet(s)
  BY <1>8, <1>9 DEF ToSet
<1>12. ToSet(s) \subseteq ToSet(t)
  BY SMTT(30), <1>1, <1>8, <1>10 DEF ToSet
<1>. QED
  BY <1>7, <1>11, <1>12

\* A hit is a member of its list.
LEMMA HitIn ==
  ASSUME NEW cd, NEW tbl \in Tables(cd), NEW x \in Addr, NEW z, Hits(tbl, x, z) # {}
  PROVE  Min(Hits(tbl, x, z)) \in 1 .. Len(tbl[x]) /\ DOMAIN tbl[x] = 1 .. Len(tbl[x])
<1>1. tbl[x] \in Seq(Ids(cd, x))
  BY DEF Tables
<1>2. DOMAIN tbl[x] = 1 .. Len(tbl[x]) /\ Len(tbl[x]) \in Nat
  BY <1>1, LenProperties
<1>3. Hits(tbl, x, z) \subseteq 1 .. Len(tbl[x])
  BY <1>2 DEF Hits
<1>4. Hits(tbl, x, z) \in SUBSET Nat
  BY <1>2, <1>3
<1>. QED
  BY <1>2, <1>3, <1>4, MinIn

\* Looking a block up changes the order of the table only.
LEMMA TouchListed ==
  ASSUME NEW cd, NEW tbl \in Tables(cd), NEW x \in Addr, NEW z
  PROVE  Listed(Touch(tbl, x, z)) = Listed(tbl)
<1>1. CASE Hits(tbl, x, z) = {}
  BY <1>1 DEF Touch
<1>2. CASE Hits(tbl, x, z) # {}
  <2> DEFINE k == Min(Hits(tbl, x, z))
             s == tbl[x]
             t == ToFront(s, k)
  <2>1. s \in Seq(Ids(cd, x)) /\ k \in 1 .. Len(s)
    BY <1>2, HitIn DEF Tables
  <2> HIDE DEF k, s
  <2>2. ToSet(t) = ToSet(s)
    BY <2>1, ToFrontSet
  <2>3. Touch(tbl, x, z) = [tbl EXCEPT ![x] = t]
    BY <1>2 DEF Touch, k, s
  <2> HIDE DEF t
  <2>4. DOMAIN tbl = Addr
    BY DEF Tables
  <2>5. \A y \in Addr : ToSet(Touch(tbl, x, z)[y]) = ToSet(tbl[y])
    BY <2>2, <2>3, <2>4 DEF s
  <2>. QED
    BY <2>5 DEF Listed
<1>. QED
  BY <1>1, <1>2

\* What a lookup finds is in the table and begins where it was asked for.
LEMMA FoundListed ==
  ASSUME NEW tbl \in Tables(code), NEW x \in Addr, NEW z, Getblkx(tbl, x, z) # 0
  PROVE  Getblkx(tbl, x, z) \in Listed(tbl) /\ code[Getblkx(tbl, x, z)].begin = x
<1> DEFINE k == Min(Hits(tbl, x, z))
<1>1. Hits(tbl, x, z) # {} /\ Getblkx(tbl, x, z) = tbl[x][k]
  BY DEF Getblkx
<1>2. k \in DOMAIN tbl[x]
  BY <1>1, HitIn
<1>3. tbl[x][k] \in ToSet(tbl[x])
  BY <1>2 DEF ToSet
<1>. QED
  BY <1>1, <1>3, ListedType DEF Listed

\* Entering a block in the table adds it and nothing else.
LEMMA UseblkListed ==
  ASSUME NEW cd, NEW tbl \in Tables(cd), NEW id, NEW end, Useblk(tbl, id, end), g.begin \in Addr
  PROVE  /\ Listed(progblks') = Listed(tbl) \cup {id}
         /\ prognowr' = prognowr \cup g.begin .. (end - 1)
<1> DEFINE s == tbl[g.begin]
           t == <<id>> \o s
<1>1. progblks' = [tbl EXCEPT ![g.begin] = t] /\ prognowr' = prognowr \cup g.begin .. (end - 1)
  BY DEF Useblk
<1>2. s \in Seq(Ids(cd, g.begin))
  BY DEF Tables
<1> HIDE DEF s
<1>3. ToSet(t) = ToSet(s) \cup {id}
  <2> DEFINE S == Ids(cd, g.begin) \cup {id}
             o == <<id>>
  <2>1. s \in Seq(S) /\ o \in Seq(S) /\ Len(o) = 1 /\ o[1] = id
    BY <1>2, SeqMonotonic
  <2>2. Len(s) \in Nat /\ DOMAIN s = 1 .. Len(s)
    BY <2>1, LenProperties
  <2> HIDE DEF o
  <2>3. /\ t \in Seq(S) /\ Len(t) = 1 + Len(s)
        /\ \A i \in 1 .. 1 + Len(s) : t[i] = IF i <= 1 THEN o[i] ELSE s[i - 1]
    <3>1. t = o \o s
      BY DEF o
    <3>. QED
      BY <2>1, <3>1, ConcatProperties
  <2> HIDE DEF t
  <2>4. DOMAIN t = 1 .. 1 + Len(s)
    BY <2>3, LenProperties
  <2>5. t[1] = id /\ 1 \in DOMAIN t
    BY <2>1, <2>2, <2>3, <2>4
  <2>6. \A i \in 1 .. Len(s) : i + 1 \in DOMAIN t /\ t[i + 1] = s[i]
    BY <2>2, <2>3, <2>4
  <2>7. \A i \in DOMAIN t : i = 1 \/ (i - 1 \in 1 .. Len(s) /\ t[i] = s[i - 1])
    BY <2>2, <2>3, <2>4
  <2>8. ToSet(t) \subseteq ToSet(s) \cup {id}
    BY <2>2, <2>5, <2>7 DEF ToSet
  <2>9. ToSet(s) \cup {id} \subseteq ToSet(t)
    BY <2>2, <2>5, <2>6 DEF ToSet
  <2>. QED
    BY <2>8, <2>9
<1> HIDE DEF t
<1>4. /\ DOMAIN tbl = Addr /\ ToSet(progblks'[g.begin]) = ToSet(tbl[g.begin]) \cup {id}
      /\ \A y \in Addr \ {g.begin} : progblks'[y] = tbl[y]
  BY <1>1, <1>3 DEF Tables, s
<1>5. Listed(progblks') \subseteq Listed(tbl) \cup {id}
  BY <1>4 DEF Listed
<1>6. Listed(tbl) \cup {id} \subseteq Listed(progblks')
  BY <1>4 DEF Listed
<1>. QED
  BY <1>1, <1>5, <1>6

\* Shooting a block takes at most it from the table.
LEMMA RemblkListed ==
  ASSUME IInv, mode = "shoot", Hit # 0
  PROVE  /\ Remblk(Hit) \in Tables(code)
         /\ Listed(Remblk(Hit)) \subseteq Listed(progblks)
         /\ Listed(progblks) \subseteq Listed(Remblk(Hit)) \cup {Hit}
<1> DEFINE x == code[Hit].begin
           s == progblks[x]
           t == Tail(s)
<1>1. x \in Addr /\ s # <<>> /\ Hit = Head(s)
  BY HitLeads
<1>2. Remblk(Hit) = [progblks EXCEPT ![x] = t]
  BY DEF Remblk
<1>3. progblks \in Tables(code)
  BY DEF IInv, StoreOK
<1> HIDE DEF x
<1>4. s \in Seq(Ids(code, x)) /\ DOMAIN progblks = Addr
  BY <1>1, <1>3 DEF Tables
<1> HIDE DEF s
<1>5. /\ t \in Seq(Ids(code, x)) /\ Len(t) = Len(s) - 1 /\ Head(s) = s[1]
      /\ \A i \in 1 .. Len(s) - 1 : t[i] = s[i + 1]
      /\ Len(s) \in Nat /\ DOMAIN s = 1 .. Len(s) /\ DOMAIN t = 1 .. Len(s) - 1
  BY <1>1, <1>4, HeadTailProperties, LenProperties
<1> HIDE DEF t
<1>6. \A i \in 1 .. Len(s) - 1 : i + 1 \in 1 .. Len(s)
  BY <1>5
<1>7. ToSet(t) \subseteq ToSet(s)
  BY <1>5, <1>6 DEF ToSet
<1>8. ToSet(s) \subseteq ToSet(t) \cup {Hit}
  <2>1. SUFFICES ASSUME NEW i \in 1 .. Len(s), i # 1 PROVE s[i] \in ToSet(t)
    BY <1>1, <1>5 DEF ToSet
  <2>2. i - 1 \in 1 .. Len(s) - 1 /\ (i - 1) + 1 = i
    BY <1>5, <2>1
  <2>3. t[i - 1] = s[i]
    BY <1>5, <2>2
  <2>. QED
    BY <1>5, <2>2, <2>3 DEF ToSet
<1>9. t \in Seq(1 .. Len(code))
  BY <1>5, SeqMonotonic DEF Ids
<1>10. Remblk(Hit) \in Tables(code)
  BY <1>1, <1>2, <1>3, <1>5, <1>9 DEF Tables
<1>11. /\ ToSet(Remblk(Hit)[x]) = ToSet(t) /\ ToSet(progblks[x]) = ToSet(s)
       /\ \A y \in Addr \ {x} : Remblk(Hit)[y] = progblks[y]
  BY <1>1, <1>2, <1>4 DEF s
<1>. QED
  BY <1>1, <1>7, <1>8, <1>10, <1>11 DEF Listed

-----------------------------------------------------------------------------
(* What blocks cover *)

\* What two blocks of code that differ in their marks and links have in common.
Same(b, c) ==
  /\ b.begin = c.begin /\ b.end = c.end /\ b.src = c.src /\ b.ops = c.ops
  /\ b.exit.k = c.exit.k /\ b.exit.at = c.exit.at

\* Two blocks of one beginning, compiled from the same, end at one place: the
\* reasons for the one to end are reasons for the other to go no further.
LEMMA SameEnd ==
  ASSUME NEW len, NEW noex, NEW b \in Blocks, NEW c \in Blocks, b.begin = c.begin,
         EndsRight(b, len, noex), EndsRight(c, len, noex), b.end <= len, c.end <= len,
         Span(b) \cap noex = {}, Span(c) \cap noex = {},
         \A x \in Span(b) \cap Span(c) : b.src[x] = c.src[x],
         b.end < c.end, b.begin <= b.end, len \in Nat
  PROVE  FALSE
<1>1. b.begin \in Nat /\ b.end \in Nat /\ c.end \in Nat /\ c.begin \in Nat
  BY BlockParts
<1>2. b.end # b.begin + MaxBlk
  BY <1>1, CodeCacheAssumption DEF EndsRight
<1>3. b.end # len
  BY <1>1
<1>4. b.end \in Span(c)
  BY <1>1 DEF Span
<1>5. b.end \notin noex
  BY <1>4
<1>6. b.begin < b.end /\ b.src[b.end - 1] \in Enders
  BY <1>2, <1>3, <1>5 DEF EndsRight
<1>7. b.end - 1 \in Span(b) /\ b.end - 1 \in Span(c) /\ (b.end - 1) + 1 < c.end
  BY <1>1, <1>6 DEF Span
<1>. QED
  BY <1>6, <1>7 DEF EndsRight

\* The types of a block of the table.
LEMMA BlockFacts ==
  ASSUME IInv, NEW id \in 1 .. Len(code)
  PROVE  /\ code[id] \in Blocks /\ WellFormed(code[id])
         /\ code[id].begin \in Nat /\ code[id].begin \in Addr /\ code[id].end \in Nat
         /\ code[id].begin <= code[id].end /\ code[id].end <= proglen
         /\ code[id].exit.at \in Nat
         /\ proglen \in Nat /\ proglen \in 1 .. MaxLen
         /\ Span(code[id]) \subseteq 0 .. proglen - 1
<1>1. code[id] \in Blocks /\ Good(code[id], LastLink, proglen)
  BY ElementOfSeq DEF IInv, GoodCode
<1>2. code[id].begin \in Nat /\ code[id].end \in Nat /\ code[id].exit.at \in Nat
      /\ Len(code[id].ops) \in Nat
  BY <1>1, BlockParts
<1>3. code[id].begin \in Addr
  BY <1>1 DEF Blocks
<1>4. proglen \in 1 .. MaxLen /\ proglen \in Nat
  BY CodeCacheAssumption DEF IInv, StoreOK
<1>5. WellFormed(code[id]) /\ code[id].end <= proglen
  BY <1>1 DEF Good
<1>6. code[id].begin <= code[id].end
  BY <1>2, <1>5 DEF WellFormed
<1>7. Span(code[id]) \subseteq 0 .. proglen - 1
  BY <1>2, <1>4, <1>5 DEF Span
<1>. QED
  BY <1>1, <1>2, <1>3, <1>4, <1>5, <1>6, <1>7

\* No block of the table is hidden from getblk, whatever blocks have been taken
\* from the table.
LEMMA NoneHidden ==
  ASSUME IInv, SInv, NEW tbl \in Tables(code), Listed(tbl) \subseteq Listed(progblks),
         NEW x \in Covered(tbl)
  PROVE  Getblk(tbl, x) # 0
<1> DEFINE at == {i \in Window(x) : tbl[i] # <<>> /\ Covers(code[Head(tbl[i])], x)}
<1>0. PICK y \in Addr : \E id \in ToSet(tbl[y]) : x \in Span(code[id])
  BY DEF Covered, Listed
<1>1. PICK id \in ToSet(tbl[y]) : x \in Span(code[id])
  BY <1>0
<1>2. id \in 1 .. Len(code) /\ code[id].begin = y /\ id \in Listed(progblks)
  BY <1>1, ListedType DEF Listed
<1>3. tbl[y] \in Seq(Ids(code, y)) /\ tbl[y] # <<>>
  <2>1. tbl[y] \in Seq(Ids(code, y))
    BY DEF Tables
  <2>. QED
    BY <1>1, <2>1 DEF ToSet
<1> DEFINE h == Head(tbl[y])
<1>4. h \in ToSet(tbl[y])
  <2>1. DOMAIN tbl[y] = 1 .. Len(tbl[y]) /\ Len(tbl[y]) \in Nat /\ Len(tbl[y]) # 0
    BY <1>3, LenProperties, EmptySeq
  <2>2. h = tbl[y][1] /\ 1 \in DOMAIN tbl[y]
    BY <1>3, <2>1
  <2>. QED
    BY <2>2 DEF ToSet
<1> HIDE DEF h
<1>5. h \in 1 .. Len(code) /\ code[h].begin = y /\ h \in Listed(progblks)
  <2>1. h \in Listed(tbl)
    BY <1>4 DEF Listed
  <2>. QED
    BY <1>4, <2>1, ListedType
<1> DEFINE b == code[id]
           c == code[h]
<1>6. /\ b \in Blocks /\ c \in Blocks /\ b.begin = c.begin
      /\ b.begin <= b.end /\ c.begin <= c.end /\ b.end <= proglen /\ c.end <= proglen
      /\ proglen \in Nat /\ b.begin \in Nat /\ b.end \in Nat /\ c.end \in Nat
  BY <1>2, <1>5, BlockFacts
<1>7. EndsRight(b, proglen, prognoex) /\ EndsRight(c, proglen, prognoex)
  BY <1>2, <1>5 DEF SInv, BlocksOK
<1>8. Span(b) \cap prognoex = {} /\ Span(c) \cap prognoex = {}
  BY <1>2, <1>5 DEF SInv, Disjoint, Exact, Covered
<1>9. /\ \A e \in Span(b) \cap Span(c) : b.src[e] = c.src[e]
      /\ \A e \in Span(c) \cap Span(b) : c.src[e] = b.src[e]
  BY <1>2, <1>5 DEF SInv, Agree
<1> HIDE DEF b, c
<1>10. b.end = c.end
  <2>1. ~(b.end < c.end)
    BY <1>6, <1>7, <1>8, <1>9, SameEnd
  <2>2. ~(c.end < b.end)
    BY <1>6, <1>7, <1>8, <1>9, SameEnd
  <2>. QED
    BY <1>6, <2>1, <2>2
<1>11. x \in Span(c) /\ Covers(c, x)
  BY <1>1, <1>6, <1>10 DEF Span, Covers, b
<1>12. y \in Window(x)
  <2>1. b.end <= b.begin + MaxBlk
    BY <1>7 DEF EndsRight
  <2>2. y = b.begin /\ x \in Nat /\ y <= x /\ x < y + MaxBlk
    BY <1>1, <1>2, <1>6, <2>1, CodeCacheAssumption DEF Span, b
  <2>. QED
    BY <1>6, <2>2, CodeCacheAssumption DEF Window
<1>13. at # {} /\ at \in SUBSET Addr
  <2>1. y \in at
    BY <1>3, <1>11, <1>12 DEF c, h
  <2>2. x \in 0 .. MaxLen
    <3>1. x \in 0 .. proglen - 1 /\ proglen \in 1 .. MaxLen
      BY <1>1, <1>2, BlockFacts
    <3>. QED
      BY <3>1, CodeCacheAssumption
  <2>3. Window(x) \subseteq Addr
    BY <2>2, CodeCacheAssumption DEF Window, Addr
  <2>. QED
    BY <2>1, <2>3
<1>14. Min(at) \in at /\ Min(at) \in Addr
  <2>1. at \in SUBSET Nat
    BY <1>13, Sizes
  <2> HIDE DEF at
  <2>. QED
    BY <1>13, <2>1, MinIn
<1>15. Head(tbl[Min(at)]) \in 1 .. Len(code)
  <2>1. tbl[Min(at)] \in Seq(1 .. Len(code)) /\ tbl[Min(at)] # <<>>
    BY <1>14 DEF Tables
  <2> HIDE DEF at
  <2>. QED
    BY <2>1, HeadTailProperties
<1>. QED
  BY <1>13, <1>15 DEF Getblk

\* What getblk finds a block for is covered.
LEMMA FoundCovers ==
  ASSUME IInv, NEW tbl \in Tables(code), NEW x \in Addr, Getblk(tbl, x) # 0
  PROVE  x \in Covered(tbl)
<1> DEFINE at == {i \in Window(x) : tbl[i] # <<>> /\ Covers(code[Head(tbl[i])], x)}
           m == Min(at)
           h == Head(tbl[m])
<1>1. at # {} /\ Window(x) \subseteq Addr
  BY CodeCacheAssumption DEF Getblk, Window, Addr
<1>2. m \in at
  <2>1. at \in SUBSET Nat
    BY <1>1, Sizes
  <2> HIDE DEF at
  <2>. QED
    BY <1>1, <2>1, MinIn
<1>3. m \in Addr /\ tbl[m] # <<>> /\ Covers(code[h], x)
  BY <1>1, <1>2
<1> HIDE DEF m
<1>4. h \in ToSet(tbl[m])
  <2>1. tbl[m] \in Seq(Ids(code, m))
    BY <1>3 DEF Tables
  <2>2. DOMAIN tbl[m] = 1 .. Len(tbl[m]) /\ Len(tbl[m]) \in Nat /\ Len(tbl[m]) # 0
    BY <1>3, <2>1, LenProperties, EmptySeq
  <2>3. h = tbl[m][1] /\ 1 \in DOMAIN tbl[m]
    BY <1>3, <2>1, <2>2
  <2>. QED
    BY <2>3 DEF ToSet
<1>5. h \in 1 .. Len(code) /\ h \in Listed(tbl)
  BY <1>3, <1>4, ListedType DEF Listed
<1>6. x \in Span(code[h])
  BY <1>3, <1>5, BlockFacts, Sizes DEF Covers, Span
<1>. QED
  BY <1>5, <1>6 DEF Covered


-----------------------------------------------------------------------------
(* Steps that keep the world, add to it or end it *)

\* Nothing has been compiled yet of the block to be compiled.
Starting == mode = "compile" => g.time = g.begin /\ g.ops = <<>>

LEMMA StartOwn ==
  ASSUME IInv', Starting'
  PROVE  Own' = {} /\ OwnOK'
<1>1. CASE mode' = "compile"
  <2>1. g' \in Compilations
    BY DEF IInv, ControlOK
  <2>2. g'.begin \in Nat /\ g'.time = g'.begin /\ g'.ops = <<>>
    BY <1>1, <2>1, Sizes DEF Compilations, Starting
  <2>3. Own' = {}
    BY <1>1, <2>2 DEF Own
  <2>4. g'.time <= Limit'
    BY <2>2, CodeCacheAssumption DEF Limit
  <2>5. StoresIn(g'.ops, prognoex')
    BY <2>2 DEF StoresIn
  <2>. QED
    BY <2>3, <2>4, <2>5 DEF OwnOK
<1>2. CASE mode' # "compile"
  BY <1>2 DEF Own, OwnOK
<1>. QED
  BY <1>1, <1>2

\* The blocks of the table stay what they are while code is marked and patched.
LEMMA SameSpans ==
  ASSUME IInv, \A i \in 1 .. Len(code) : Same(code'[i], code[i])
  PROVE  \A id \in Listed(progblks) :
           /\ id \in 1 .. Len(code)
           /\ Span(code'[id]) = Span(code[id])
           /\ code'[id].src = code[id].src
<1>1. Listed(progblks) \subseteq 1 .. Len(code)
  BY ListedType DEF IInv, StoreOK
<1>. QED
  BY <1>1 DEF Same, Span

\* A step that compiles nothing, and writes to no platter that code in the table
\* was compiled from, except the one that is shot, preserves the invariant.
LEMMA KeptWorld ==
  ASSUME IInv, IInv', SInv, mode # "compile", mode' # "aborted",
         Len(code') = Len(code), \A i \in 1 .. Len(code) : Same(code'[i], code[i]),
         Listed(progblks') = Listed(progblks),
         UNCHANGED <<proglen, prognowr, prognoex>>, Starting',
         \A x \in Covered(progblks) : x \notin Shot' => x \notin Shot /\ prog'[x] = prog[x]
  PROVE  SInv'
<1>1. Own' = {} /\ OwnOK' /\ Own = {}
  BY StartOwn DEF Own
<1>2. BlocksOK'
  <2>1. SUFFICES ASSUME NEW id \in 1 .. Len(code)
                 PROVE  /\ EndsRight(code'[id], proglen, prognoex)
                        /\ StoresIn(code'[id].ops, prognoex)
    BY DEF BlocksOK
  <2>2. EndsRight(code[id], proglen, prognoex) /\ StoresIn(code[id].ops, prognoex)
    BY DEF SInv, BlocksOK
  <2>. QED
    BY <2>2 DEF Same, EndsRight, Span
<1>3. Covered(progblks)' = Covered(progblks)
  BY SameSpans DEF Covered
<1>4. Disjoint' /\ Exact'
  BY <1>1, <1>3 DEF SInv, Disjoint, Exact
<1>5. Fresh'
  <2>1. SUFFICES ASSUME NEW id \in Listed(progblks), NEW x \in Span(code[id]), x \notin Shot'
                 PROVE  code[id].src[x] = prog'[x]
    BY SameSpans DEF Fresh
  <2>2. x \notin Shot /\ prog'[x] = prog[x]
    BY <2>1 DEF Covered
  <2>. QED
    BY <2>2 DEF SInv, Fresh
<1>6. Agree'
  BY SameSpans DEF SInv, Agree
<1>. QED
  BY <1>1, <1>2, <1>4, <1>5, <1>6 DEF SInv, NeverAborts

\* A new block that ends right, was compiled from what array 0 holds, and has no
\* execute-protected platter is entered in the table.
LEMMA GrownWorld ==
  ASSUME IInv, IInv', SInv, mode = "compile", mode' \in {"run", "compile"}, Starting',
         Len(code') = Len(code) + 1, \A i \in 1 .. Len(code) : Same(code'[i], code[i]),
         Listed(progblks') = Listed(progblks) \cup {Len(code) + 1},
         NEW b, Same(code'[Len(code) + 1], b), EndsRight(b, proglen, prognoex),
         StoresIn(b.ops, prognoex), Span(b) \cap prognoex = {}, Own \subseteq Span(b),
         \A x \in Span(b) : b.src[x] = prog[x],
         prognowr' = prognowr \cup Span(b), UNCHANGED <<prog, proglen, prognoex>>
  PROVE  SInv'
<1> DEFINE n == Len(code) + 1
<1>1. Own' = {} /\ OwnOK' /\ Shot = {} /\ Shot' = {}
  BY StartOwn DEF Shot
<1>2. /\ n \in Nat /\ \A id \in 1 .. n : id = n \/ id \in 1 .. Len(code)
      /\ Span(code'[n]) = Span(b) /\ code'[n].src = b.src
  BY TableListed DEF Same, Span
<1>3. BlocksOK'
  <2>1. SUFFICES ASSUME NEW id \in 1 .. n
                 PROVE  /\ EndsRight(code'[id], proglen, prognoex)
                        /\ StoresIn(code'[id].ops, prognoex)
    BY DEF BlocksOK
  <2>2. CASE id = n
    BY <2>2 DEF Same, EndsRight, Span
  <2>3. CASE id \in 1 .. Len(code)
    <3>1. EndsRight(code[id], proglen, prognoex) /\ StoresIn(code[id].ops, prognoex)
      BY <2>3 DEF SInv, BlocksOK
    <3>. QED
      BY <2>3, <3>1 DEF Same, EndsRight, Span
  <2>. QED
    BY <1>2, <2>2, <2>3
<1>4. Covered(progblks)' = Covered(progblks) \cup Span(b)
  BY <1>2, SameSpans DEF Covered
<1>5. Disjoint' /\ Exact'
  BY <1>1, <1>4 DEF SInv, Disjoint, Exact
<1>6. Fresh'
  <2>1. SUFFICES ASSUME NEW id \in Listed(progblks'), NEW x \in Span(code'[id])
                 PROVE  code'[id].src[x] = prog[x]
    BY DEF Fresh
  <2>2. CASE id = n
    BY <1>2, <2>2
  <2>3. CASE id \in Listed(progblks)
    BY <1>1, <2>3, SameSpans DEF SInv, Fresh
  <2>. QED
    BY <2>2, <2>3
<1>7. Agree'
  BY <1>1, <1>6 DEF Fresh, Agree
<1>. QED
  BY <1>1, <1>3, <1>5, <1>6, <1>7 DEF SInv, NeverAborts

\* In a new world there is nothing to go wrong.
LEMMA NewWorldSafe ==
  ASSUME IInv', NewWorld, mode' # "aborted", Starting'
  PROVE  SInv'
<1>1. code' = <<>> /\ prognowr' = {} /\ prognoex' = {} /\ Len(code') = 0
  BY NewWorldFacts
<1>2. Listed(progblks') = {}
  <2>1. Listed(progblks') \subseteq 1 .. Len(code')
    BY ListedType DEF IInv, StoreOK
  <2>. QED
    BY <1>1, <2>1
<1>3. BlocksOK' /\ Covered(progblks)' = {}
  BY <1>1, <1>2 DEF BlocksOK, Covered
<1>4. Disjoint' /\ Exact' /\ Fresh' /\ Agree'
  BY <1>1, <1>2, <1>3 DEF Disjoint, Exact, Fresh, Agree
<1>. QED
  BY <1>3, <1>4, StartOwn DEF SInv, NeverAborts

\* Whoever resumes code, or enters the compiler, starts.
LEMMA ControlStarts ==
  ASSUME (\E cd, id : Resume(cd, id)) \/ (\E x, z, caller : UmcEnter(x, z, caller))
  PROVE  Starting' /\ mode' # "aborted" /\ Shot' = {}
  BY DEF Resume, UmcEnter, Compiling, Starting, Shot

-----------------------------------------------------------------------------
(* The compiler *)

\* The next turn of the loop: what it takes in is not execute-protected, does not
\* end the block, and is not what it execute-protects.
LEMMA EmitSafe ==
  ASSUME IInv, IInv', SInv, LookaheadSafe', Compilable,
         NEW ops \in Seq(Ops), NEW noex, Emit(ops, noex), Len(ops) \in {1, 2},
         prog[g.time] \notin Enders,
         Len(ops) = 2 => /\ g.time + 1 < Limit /\ g.time + 1 \notin prognoex
                         /\ prog[g.time + 1] \notin Enders,
         StoresIn(ops, noex),
         \A t \in noex : t \in prognoex \/ /\ t \notin prognowr \cup {g.time}
                                           /\ \E n \in DOMAIN ops : ops[n] = Op("store", t),
         prognoex \subseteq noex
  PROVE  SInv'
<1>1. /\ mode = "compile" /\ g.time < Limit /\ g.time \notin prognoex
      /\ g' = [g EXCEPT !.ops = @ \o ops, !.time = @ + Len(ops)]
      /\ prognowr' = prognowr \cup {g.time} /\ prognoex' = noex
      /\ UNCHANGED <<prog, proglen, code, progblks, mode, cur, pw>>
  BY DEF Emit, Compilable
<1>2. g.begin \in Nat /\ g.time \in Nat /\ g.ops \in Seq(Ops) /\ g.begin <= g.time
  BY <1>1, CompilationFacts
<1> DEFINE l == Len(ops)
<1>l. l \in Nat /\ (l = 1 \/ l = 2)
  OBVIOUS
<1>3. g'.begin = g.begin /\ g'.time = g.time + Len(ops) /\ g'.ops = g.ops \o ops
  BY <1>1 DEF IInv, ControlOK, Compilations
<1>4. /\ Own = g.begin .. g.time - 1 /\ Own' = g.begin .. (g.time + l) - 1
      /\ \A x \in Own' : x \in Own \/ x = g.time \/ (l = 2 /\ x = g.time + 1)
      /\ Own \cup {g.time} \subseteq Own'
  <2>0. mode' = "compile"
    BY <1>1
  <2>1. Own = g.begin .. g.time - 1 /\ Own' = g'.begin .. g'.time - 1
    BY <1>1, <2>0 DEF Own
  <2>2. Own' = g.begin .. (g.time + l) - 1
    BY <1>3, <2>1
  <2> HIDE DEF l
  <2>3. ASSUME NEW x \in Own'
        PROVE  x \in Own \/ x = g.time \/ (l = 2 /\ x = g.time + 1)
    <3>1. x \in Int /\ g.begin <= x /\ x <= (g.time + l) - 1
      BY <1>2, <1>l, <2>2
    <3>2. x < g.time \/ x = g.time \/ (l = 2 /\ x = g.time + 1)
      BY <1>2, <1>l, <3>1
    <3>3. x < g.time => x \in g.begin .. g.time - 1
      BY <1>2, <3>1
    <3>. QED
      BY <2>1, <3>2, <3>3
  <2>4. ASSUME NEW x \in Own \cup {g.time}
        PROVE  x \in Own'
    <3>1. x \in Int /\ g.begin <= x /\ x <= g.time
      BY <1>2, <2>1
    <3>. QED
      BY <1>2, <1>l, <2>2, <3>1
  <2>. QED
    BY <2>1, <2>2, <2>3, <2>4
<1>5. /\ DOMAIN (g.ops \o ops) = 1 .. Len(g.ops) + Len(ops)
      /\ \A n \in DOMAIN g.ops : n \in 1 .. Len(g.ops) + Len(ops) /\ (g.ops \o ops)[n] = g.ops[n]
      /\ \A n \in DOMAIN ops : /\ Len(g.ops) + n \in 1 .. Len(g.ops) + Len(ops)
                               /\ (g.ops \o ops)[Len(g.ops) + n] = ops[n]
      /\ \A n \in 1 .. Len(g.ops) + Len(ops) :
           n \in DOMAIN g.ops \/ \E m \in DOMAIN ops : n = Len(g.ops) + m
  <2>1. /\ Len(g.ops) \in Nat /\ Len(ops) \in Nat
        /\ DOMAIN g.ops = 1 .. Len(g.ops) /\ DOMAIN ops = 1 .. Len(ops)
    BY <1>2, LenProperties
  <2>2. /\ g.ops \o ops \in Seq(Ops) /\ Len(g.ops \o ops) = Len(g.ops) + Len(ops)
        /\ \A i \in 1 .. Len(g.ops) + Len(ops) :
             (g.ops \o ops)[i] = IF i <= Len(g.ops) THEN g.ops[i] ELSE ops[i - Len(g.ops)]
    BY <1>2, ConcatProperties
  <2>3. DOMAIN (g.ops \o ops) = 1 .. Len(g.ops) + Len(ops)
    BY <2>2, LenProperties
  <2>4. \A n \in DOMAIN g.ops : n \in 1 .. Len(g.ops) + Len(ops) /\ (g.ops \o ops)[n] = g.ops[n]
    BY <2>1, <2>2
  <2>5. ASSUME NEW n \in DOMAIN ops
        PROVE  /\ Len(g.ops) + n \in 1 .. Len(g.ops) + Len(ops)
               /\ (g.ops \o ops)[Len(g.ops) + n] = ops[n]
    <3>1. \A p, q \in Nat : \A k \in 1 .. q : /\ p + k \in 1 .. p + q /\ ~(p + k <= p)
                                              /\ (p + k) - p = k
      OBVIOUS
    <3>2. /\ Len(g.ops) + n \in 1 .. Len(g.ops) + Len(ops) /\ ~(Len(g.ops) + n <= Len(g.ops))
          /\ (Len(g.ops) + n) - Len(g.ops) = n
      BY <2>1, <3>1
    <3>. QED
      BY <2>2, <3>2
  <2>6. ASSUME NEW n \in 1 .. Len(g.ops) + Len(ops), n \notin DOMAIN g.ops
        PROVE  \E m \in DOMAIN ops : n = Len(g.ops) + m
    <3>1. n - Len(g.ops) \in DOMAIN ops /\ n = Len(g.ops) + (n - Len(g.ops))
      BY SMTT(30), <2>1, <2>6
    <3>. QED
      BY <3>1
  <2>. QED
    BY <2>3, <2>4, <2>5, <2>6
<1>6. StoresIn(g'.ops, noex)
  <2>1. StoresIn(g.ops, noex)
    BY <1>1 DEF SInv, OwnOK, StoresIn
  <2>. QED
    BY SMTT(30), <1>3, <1>5, <2>1 DEF StoresIn
<1>7. \A t \in noex : t \in prognoex \/ (t \notin prognowr \cup {g.time} /\ t \notin Own')
  <2>1. SUFFICES ASSUME NEW t \in noex, t \notin prognoex PROVE t \notin Own'
    OBVIOUS
  <2>2. PICK n \in DOMAIN ops : ops[n] = Op("store", t)
    BY <2>1
  <2>3. Len(g.ops) + n \in DOMAIN g'.ops /\ g'.ops[Len(g.ops) + n] = Op("store", t)
    BY <1>3, <1>5, <2>2
  <2>. QED
    BY SMTT(30), <1>1, <2>3 DEF LookaheadSafe, Op
<1>8. OwnOK'
  <2>1. g.begin + MaxBlk \in Nat
    BY <1>2, CodeCacheAssumption
  <2>2. g'.time <= Limit'
    BY <1>1, <1>2, <1>3, <2>1 DEF Limit
  <2>3. \A x \in Own' : prog[x] \notin Enders /\ x \notin noex
    BY <1>1, <1>4, <1>7 DEF SInv, OwnOK
  <2>. QED
    BY <1>1, <1>6, <2>2, <2>3 DEF OwnOK
<1>9. Disjoint' /\ Exact'
  <2>1. Covered(progblks)' = Covered(progblks)
    BY <1>1 DEF Covered
  <2>2. Disjoint'
    BY <1>1, <1>7 DEF SInv, Disjoint
  <2>. QED
    BY <1>1, <1>4, <2>1, <2>2 DEF SInv, Exact
<1>10. BlocksOK'
  <2>1. SUFFICES ASSUME NEW id \in 1 .. Len(code)
                 PROVE  EndsRight(code[id], proglen, noex) /\ StoresIn(code[id].ops, noex)
    BY <1>1 DEF BlocksOK
  <2>2. EndsRight(code[id], proglen, prognoex) /\ StoresIn(code[id].ops, prognoex)
    BY DEF SInv, BlocksOK
  <2>. QED
    BY <2>2 DEF EndsRight, StoresIn
<1>11. Fresh' /\ Agree' /\ NeverAborts'
  BY <1>1 DEF SInv, Fresh, Agree, NeverAborts, Shot
<1>. QED
  BY <1>8, <1>9, <1>10, <1>11 DEF SInv


\* Marking a block as depended on changes nothing but its mark.
LEMMA DependSame ==
  ASSUME NEW cd \in Seq(Blocks), NEW id \in 0 .. Len(cd)
  PROVE  /\ Depend(cd, id) \in Seq(Blocks) /\ Len(Depend(cd, id)) = Len(cd)
         /\ \A i \in 1 .. Len(cd) :
              /\ Same(Depend(cd, id)[i], cd[i]) /\ Depend(cd, id)[i].exit = cd[i].exit
              /\ cd[i].dep => Depend(cd, id)[i].dep
         /\ id # 0 => Depend(cd, id)[id].dep
<1>1. CASE id = 0
  BY <1>1 DEF Depend, Same
<1>2. CASE id # 0
  <2> DEFINE b == [cd[id] EXCEPT !.dep = TRUE]
             d == [cd EXCEPT ![id] = b]
  <2>1. id \in 1 .. Len(cd) /\ cd[id] \in Blocks
    BY <1>2, ElementOfSeq
  <2>2. b \in Blocks /\ Same(b, cd[id]) /\ b.exit = cd[id].exit /\ b.dep
    BY <2>1 DEF Blocks, Same
  <2>3. /\ d \in Seq(Blocks) /\ Len(d) = Len(cd)
        /\ \A i \in 1 .. Len(cd) : d[i] = IF i = id THEN b ELSE cd[i]
    BY <2>1, <2>2, ExceptSeq
  <2>4. Depend(cd, id) = d
    BY <1>2 DEF Depend
  <2> HIDE DEF b, d
  <2>5. \A i \in 1 .. Len(cd) : Same(cd[i], cd[i])
    BY DEF Same
  <2>. QED
    BY <2>1, <2>2, <2>3, <2>4, <2>5
<1>. QED
  BY <1>1, <1>2

\* Patching a stub changes nothing but where one exit of one block leads.
LEMMA PatchSame ==
  ASSUME NEW cd \in Seq(Blocks), NEW caller \in Callers, GoodCaller(caller, cd),
         NEW id \in Nat
  PROVE  /\ Patch(cd, caller, id) \in Seq(Blocks) /\ Len(Patch(cd, caller, id)) = Len(cd)
         /\ \A i \in 1 .. Len(cd) :
              LET p == Patch(cd, caller, id)[i]
              IN  /\ Same(p, cd[i]) /\ p.dep = cd[i].dep
                  /\ DOMAIN p.exit.arms = DOMAIN cd[i].exit.arms
                  /\ i # caller.id => p = cd[i]
                  /\ i = caller.id => \A a \in DOMAIN cd[i].exit.arms :
                       /\ p.exit.arms[a].dst = cd[i].exit.arms[a].dst
                       /\ a # caller.arm => p.exit.arms[a] = cd[i].exit.arms[a]
                       /\ a = caller.arm => p.exit.arms[a].link = id
<1>1. CASE caller.id = 0
  BY <1>1 DEF Patch, Same
<1>2. CASE caller.id # 0
  <2> DEFINE c == caller.id
             a == caller.arm
             b == cd[c]
             arm == [b.exit.arms[a] EXCEPT !.link = id]
             arms == [b.exit.arms EXCEPT ![a] = arm]
             e == [b.exit EXCEPT !.arms = arms]
             nb == [b EXCEPT !.exit = e]
             d == [cd EXCEPT ![c] = nb]
  <2>1. c \in 1 .. Len(cd) /\ b \in Blocks
    BY <1>2, ElementOfSeq DEF GoodCaller
  <2>2. /\ b.exit.arms \in Seq(Arms) /\ a \in DOMAIN b.exit.arms
        /\ b.exit.arms[a] \in Arms /\ b.exit \in Exits
    BY <1>2, <2>1, BlockParts DEF GoodCaller, Blocks
  <2>3. arm \in Arms /\ arm.dst = b.exit.arms[a].dst /\ arm.link = id
    <3> DEFINE old == b.exit.arms[a]
    <3>1. old \in Arms /\ id \in Nat
      BY <2>2
    <3>2. arm = [old EXCEPT !.link = id]
      OBVIOUS
    <3> HIDE DEF old, arm
    <3>3. arm \in Arms /\ arm.dst = old.dst /\ arm.link = id
      BY <3>1, <3>2 DEF Arms
    <3>. QED
      BY <3>3 DEF old
  <2>4. /\ arms \in Seq(Arms) /\ DOMAIN arms = DOMAIN b.exit.arms
        /\ \A i \in DOMAIN arms : arms[i] = IF i = a THEN arm ELSE b.exit.arms[i]
    <3>1. a \in 1 .. Len(b.exit.arms)
      BY <2>2, LenProperties
    <3>2. arms \in Seq(Arms)
      BY <2>2, <2>3, <3>1, ExceptSeq
    <3>. QED
      BY <3>2
  <2> HIDE DEF arm, arms
  <2>5. e \in Exits /\ e.arms = arms /\ e.at = b.exit.at /\ e.k = b.exit.k
    BY <2>2, <2>4 DEF Exits
  <2> HIDE DEF e
  <2>6. nb \in Blocks /\ nb.exit = e /\ nb.dep = b.dep /\ Same(nb, b)
    BY <2>1, <2>5 DEF Blocks, Same
  <2> HIDE DEF nb
  <2>7. /\ d \in Seq(Blocks) /\ Len(d) = Len(cd)
        /\ \A i \in 1 .. Len(cd) : d[i] = IF i = c THEN nb ELSE cd[i]
    BY <2>1, <2>6, ExceptSeq
  <2>8. Patch(cd, caller, id) = d
    BY <1>2 DEF Patch, nb, e, arms, arm
  <2> HIDE DEF d
  <2>9. \A i \in 1 .. Len(cd) : Same(cd[i], cd[i])
    BY DEF Same
  <2>10. SUFFICES ASSUME NEW i \in 1 .. Len(cd)
                  PROVE  /\ Same(d[i], cd[i]) /\ d[i].dep = cd[i].dep
                         /\ DOMAIN d[i].exit.arms = DOMAIN cd[i].exit.arms
                         /\ i # c => d[i] = cd[i]
                         /\ i = c => \A x \in DOMAIN cd[i].exit.arms :
                              /\ d[i].exit.arms[x].dst = cd[i].exit.arms[x].dst
                              /\ x # a => d[i].exit.arms[x] = cd[i].exit.arms[x]
                              /\ x = a => d[i].exit.arms[x].link = id
    BY <2>7, <2>8
  <2>11. CASE i = c
    <3>1. d[i] = nb /\ cd[i] = b /\ d[i].exit.arms = arms
      BY <2>5, <2>6, <2>7, <2>11
    <3>2. Same(d[i], cd[i]) /\ d[i].dep = cd[i].dep
      BY <2>6, <3>1
    <3>3. DOMAIN d[i].exit.arms = DOMAIN cd[i].exit.arms
      BY <2>4, <3>1
    <3>4. \A x \in DOMAIN b.exit.arms :
            /\ arms[x].dst = b.exit.arms[x].dst
            /\ x # a => arms[x] = b.exit.arms[x]
            /\ x = a => arms[x].link = id
      BY <2>3, <2>4
    <3>. QED
      BY <2>11, <3>1, <3>2, <3>3, <3>4
  <2>12. CASE i # c
    BY <2>7, <2>9, <2>12
  <2>. QED
    BY <2>11, <2>12
<1>. QED
  BY <1>1, <1>2

\* Code with the same blocks, of which some may have been marked.
Marked(cd) ==
  /\ cd \in Seq(Blocks) /\ Len(cd) = Len(code)
  /\ \A i \in 1 .. Len(code) : /\ Same(cd[i], code[i]) /\ cd[i].exit = code[i].exit
                               /\ code[i].dep => cd[i].dep

\* The exits the compiler makes lead to blocks of the table, which it marks.
Linked(exit, cd) ==
  \A a \in DOMAIN exit.arms :
    LET arm == exit.arms[a]
    IN  /\ arm.dst \in 0 .. proglen /\ arm.link \in 0 .. Len(code)
        /\ arm.link # 0 => /\ arm.link \in Listed(progblks)
                           /\ code[arm.link].begin = arm.dst
                           /\ cd[arm.link].dep

\* The platter that an exit of each kind stands for.
ExitAt(k) == CASE k = "loadc" -> {"loadc"} [] k \in {"load", "branch"} -> {"load"}
               [] k = "stop" -> {"stop"} [] OTHER -> {}

\* What the end of a block looks like, whichever instruction or place it is.
Ending(ops, end, exit, tbl, cd) ==
  /\ mode = "compile"
  /\ ops = <<>> \/ (ops = <<Plain>> /\ prog[g.time] = "cmov" /\ g.time + 1 < end)
  /\ end \in g.time .. proglen /\ end <= Limit /\ end <= g.time + 2
  /\ exit \in Exits /\ exit.at = g.time + Len(ops) /\ exit.at <= end
  /\ \/ exit.at < end /\ prog[exit.at] \in ExitAt(exit.k) /\ end = exit.at + 1
     \/ exit.at = end /\ exit.k = "stop" /\ end = proglen
     \/ exit.at = end /\ exit.k = "noex" /\ end \in prognoex
  /\ exit.k = "branch" => prog[g.time] = "cmov"
  /\ g.time < end => g.time \notin prognoex
  /\ g.time + 1 < end => Compilable /\ Fuses
  /\ tbl \in Tables(code) /\ Listed(tbl) = Listed(progblks)
  /\ Marked(cd) /\ Linked(exit, cd)
  /\ Finish(ops, end, exit, tbl, cd)

\* The code itself has the blocks it has.
LEMMA MarkedSelf == ASSUME IInv PROVE Marked(code)
  BY DEF IInv, GoodCode, Marked, Same

\* A place of the table that is marked and led to.
LEMMA LookupMarks ==
  ASSUME IInv, NEW tbl \in Tables(code), Listed(tbl) = Listed(progblks),
         NEW cd, Marked(cd), NEW x \in 0 .. proglen, NEW z \in SUBSET Facts
  PROVE  LET d == Getblkx(tbl, x, z)
         IN  /\ d \in 0 .. Len(code)
             /\ Touch(tbl, x, z) \in Tables(code)
             /\ Listed(Touch(tbl, x, z)) = Listed(progblks)
             /\ d # 0 => d \in Listed(progblks) /\ code[d].begin = x
             /\ Marked(Depend(cd, d)) /\ (d # 0 => Depend(cd, d)[d].dep)
             /\ \A i \in 1 .. Len(code) : cd[i].dep => Depend(cd, d)[i].dep
<1> DEFINE d == Getblkx(tbl, x, z)
<1>1. d \in 0 .. Len(code) /\ Touch(tbl, x, z) \in Tables(code)
  BY LookupFacts
<1>2. x \in Addr
  <2>1. proglen \in 1 .. MaxLen
    BY DEF IInv, StoreOK
  <2>. QED
    BY <2>1, CodeCacheAssumption DEF Addr
<1>3. Listed(Touch(tbl, x, z)) = Listed(progblks)
  BY <1>2, TouchListed
<1>4. d # 0 => d \in Listed(progblks) /\ code[d].begin = x
  BY <1>2, FoundListed
<1> HIDE DEF d
<1>5. /\ Depend(cd, d) \in Seq(Blocks) /\ Len(Depend(cd, d)) = Len(cd)
      /\ \A i \in 1 .. Len(cd) :
           /\ Same(Depend(cd, d)[i], cd[i]) /\ Depend(cd, d)[i].exit = cd[i].exit
           /\ cd[i].dep => Depend(cd, d)[i].dep
      /\ d # 0 => Depend(cd, d)[d].dep
  BY <1>1, DependSame DEF Marked
<1>6. Marked(Depend(cd, d))
  BY <1>5 DEF Marked, Same
<1>. QED
  BY <1>1, <1>3, <1>4, <1>5, <1>6 DEF Marked, d

\* The block ends at an instruction or a place that takes it nowhere known.
LEMMA PlainEnding ==
  ASSUME IInv, CompileStop \/ CompileEnd \/ CompileNoex \/ CompileLoad
  PROVE  \E end, exit : Ending(<<>>, end, exit, progblks, code)
<1>1. mode = "compile" /\ g.time < Limit
  BY DEF CompileStop, CompileEnd, CompileNoex, CompileLoad, Compilable
<1>2. /\ g.time \in Nat /\ g.time \in Addr /\ g.begin \in Nat /\ g.time <= proglen
      /\ proglen \in Nat /\ Limit \in Nat
  BY <1>1, CompilationFacts, CodeCacheAssumption DEF Limit
<1>3. progblks \in Tables(code) /\ Marked(code)
  BY MarkedSelf DEF IInv, StoreOK
<1>4. ASSUME NEW k \in {"stop", "noex", "load"}
      PROVE  LET exit == Exit(k, g.time, <<>>)
             IN  /\ exit \in Exits /\ exit.at = g.time + Len(<<>>) /\ exit.k = k
                 /\ exit.at = g.time /\ Linked(exit, code)
  <2> DEFINE arms == <<>>
  <2>1. arms \in Seq(Arms) /\ Len(arms) = 0 /\ DOMAIN arms = {}
    BY EmptySeq
  <2>2. g.time + 0 = g.time
    BY <1>2
  <2> HIDE DEF arms
  <2>3. LET exit == Exit(k, g.time, arms)
        IN  /\ exit \in Exits /\ exit.k = k /\ exit.at = g.time /\ exit.arms = arms
    BY <1>2, <2>1 DEF Exit, Exits
  <2>. QED
    BY <2>1, <2>2, <2>3 DEF arms, Linked
<1>5. ASSUME NEW k \in {"stop", "load"}, Compilable, prog[g.time] = k,
             Finish(<<>>, g.time + 1, Exit(k, g.time, <<>>), progblks, code)
      PROVE  Ending(<<>>, g.time + 1, Exit(k, g.time, <<>>), progblks, code)
  <2>1. g.time < proglen /\ g.time \notin prognoex /\ prog[g.time] \in ExitAt(k)
    BY <1>5 DEF Compilable, ExitAt
  <2>2. /\ g.time + 1 \in g.time .. proglen /\ g.time + 1 <= Limit /\ g.time + 1 <= g.time + 2
        /\ g.time < g.time + 1 /\ g.time <= g.time + 1 /\ ~(g.time + 1 < g.time + 1)
    BY <1>1, <1>2, <2>1
  <2>. QED
    BY <1>1, <1>3, <1>4, <1>5, <2>1, <2>2 DEF Ending
<1>6. ASSUME NEW k \in {"stop", "noex"}, k = "stop" => g.time = proglen,
             k = "noex" => g.time \in prognoex,
             Finish(<<>>, g.time, Exit(k, g.time, <<>>), progblks, code)
      PROVE  Ending(<<>>, g.time, Exit(k, g.time, <<>>), progblks, code)
  <2>2. /\ g.time \in g.time .. proglen /\ g.time <= Limit /\ g.time <= g.time + 2
        /\ ~(g.time < g.time) /\ g.time <= g.time /\ ~(g.time + 1 < g.time)
    BY <1>1, <1>2
  <2>. QED
    BY <1>1, <1>3, <1>4, <1>6, <2>2 DEF Ending
<1>7. CASE CompileStop
  BY <1>5, <1>7 DEF CompileStop
<1>8. CASE CompileEnd
  <2>1. g.time = proglen
    BY <1>2, <1>8 DEF CompileEnd
  <2>. QED
    BY <1>6, <1>8, <2>1 DEF CompileEnd
<1>9. CASE CompileNoex
  BY <1>6, <1>9 DEF CompileNoex
<1>10. CASE CompileLoad
  BY <1>5, <1>10 DEF CompileLoad
<1>. QED
  BY <1>7, <1>8, <1>9, <1>10

\* The block ends with a load program that leads to a place it knows.
LEMMA LoadCEnding ==
  ASSUME IInv, CompileLoadC
  PROVE  \E end, exit, tbl, cd : Ending(<<>>, end, exit, tbl, cd)
<1>1. Compilable /\ mode = "compile" /\ prog[g.time] = "loadc" /\ g.time < Limit
      /\ g.time < proglen /\ g.time \notin prognoex
  BY DEF CompileLoadC, Compilable
<1>2. /\ g.time \in Nat /\ g.time \in Addr /\ g.begin \in Nat /\ g.time <= proglen
      /\ proglen \in Nat /\ proglen \in 1 .. MaxLen /\ Limit \in Nat
  BY <1>1, CompilationFacts, CodeCacheAssumption DEF Limit
<1>3. PICK dst \in 0 .. proglen, z \in SUBSET Facts :
        Finish(<<>>, g.time + 1,
               Exit("loadc", g.time, <<Arm(dst, z, Getblkx(progblks, dst, z))>>),
               Touch(progblks, dst, z), Depend(code, Getblkx(progblks, dst, z)))
  BY DEF CompileLoadC
<1> DEFINE d == Getblkx(progblks, dst, z)
           arm == Arm(dst, z, d)
           arms == <<arm>>
           exit == Exit("loadc", g.time, arms)
           cd == Depend(code, d)
           tbl == Touch(progblks, dst, z)
<1>4. progblks \in Tables(code) /\ Marked(code)
  BY MarkedSelf DEF IInv, StoreOK
<1>5. /\ d \in 0 .. Len(code) /\ tbl \in Tables(code)
      /\ Listed(tbl) = Listed(progblks)
      /\ d # 0 => d \in Listed(progblks) /\ code[d].begin = dst
      /\ Marked(cd) /\ (d # 0 => cd[d].dep)
  BY <1>4, LookupMarks
<1>6. Finish(<<>>, g.time + 1, exit, tbl, cd)
  BY <1>3
<1>7. arm \in Arms /\ arm.dst = dst /\ arm.link = d
  <2>1. d \in Nat
    BY <1>5, TableListed
  <2>2. dst \in Addr
    BY <1>2, CodeCacheAssumption DEF Addr
  <2> HIDE DEF d
  <2>. QED
    BY <2>1, <2>2 DEF Arm, Arms
<1> HIDE DEF d, arm, cd, tbl
<1>8. arms \in Seq(Arms) /\ DOMAIN arms = {1} /\ arms[1] = arm
  BY <1>7
<1> HIDE DEF arms
<1>9. exit \in Exits /\ exit.at = g.time /\ exit.k = "loadc" /\ exit.arms = arms
  BY <1>2, <1>8 DEF Exit, Exits
<1> HIDE DEF exit
<1>10. Linked(exit, cd)
  BY <1>5, <1>7, <1>8, <1>9 DEF Linked
<1>11. prog[exit.at] \in ExitAt(exit.k)
  BY <1>1, <1>9 DEF ExitAt
<1>12. /\ g.time + 1 \in g.time .. proglen /\ g.time + 1 <= Limit /\ g.time + 1 <= g.time + 2
       /\ g.time < g.time + 1 /\ g.time <= g.time + 1 /\ ~(g.time + 1 < g.time + 1)
       /\ g.time + 0 = g.time
  BY <1>1, <1>2
<1>13. exit.at = g.time + Len(<<>>)
  BY <1>9, <1>12
<1>. QED
  BY <1>1, <1>5, <1>6, <1>9, <1>10, <1>11, <1>12, <1>13 DEF Ending

\* The block ends with the branch idiom.
LEMMA CondEnding ==
  ASSUME IInv, CompileCond
  PROVE  \E end, exit, tbl, cd : Ending(<<Plain>>, end, exit, tbl, cd)
<1>1. /\ Compilable /\ mode = "compile" /\ prog[g.time] = "cmov" /\ Peek("load")
      /\ g.time \notin prognoex /\ prog[g.time + 1] = "load"
      /\ g.time + 1 < Limit /\ g.time + 1 < proglen
  BY DEF CompileCond, Compilable, Peek, Next2
<1>2. /\ g.time \in Nat /\ g.time \in Addr /\ g.begin \in Nat /\ g.time <= proglen
      /\ proglen \in Nat /\ proglen \in 1 .. MaxLen /\ Limit \in Nat
  BY <1>1, CompilationFacts, CodeCacheAssumption DEF Limit
<1>3. PICK ct \in 0 .. proglen, cf \in 0 .. proglen,
           zt \in SUBSET Facts, zf \in SUBSET Facts :
        LET dt == Getblkx(progblks, ct, zt)
            tb == Touch(progblks, ct, zt)
            df == Getblkx(tb, cf, zf)
        IN  Finish(<<Plain>>, g.time + 2,
                   Exit("branch", g.time + 1, <<Arm(ct, zt, dt), Arm(cf, zf, df)>>),
                   Touch(tb, cf, zf), Depend(Depend(code, dt), df))
  BY DEF CompileCond
<1> DEFINE dt == Getblkx(progblks, ct, zt)
           tb == Touch(progblks, ct, zt)
           c1 == Depend(code, dt)
           df == Getblkx(tb, cf, zf)
           cd == Depend(c1, df)
           tbl == Touch(tb, cf, zf)
           armt == Arm(ct, zt, dt)
           armf == Arm(cf, zf, df)
           arms == <<armt, armf>>
           exit == Exit("branch", g.time + 1, arms)
<1>4. progblks \in Tables(code) /\ Marked(code)
  BY MarkedSelf DEF IInv, StoreOK
<1>5. /\ dt \in 0 .. Len(code) /\ tb \in Tables(code)
      /\ Listed(tb) = Listed(progblks)
      /\ dt # 0 => dt \in Listed(progblks) /\ code[dt].begin = ct
      /\ Marked(c1) /\ (dt # 0 => c1[dt].dep)
  BY <1>4, LookupMarks
<1>f. Finish(<<Plain>>, g.time + 2, exit, tbl, cd)
  BY <1>3
<1> HIDE DEF dt, tb, c1
<1>6. /\ df \in 0 .. Len(code) /\ tbl \in Tables(code)
      /\ Listed(tbl) = Listed(progblks)
      /\ df # 0 => df \in Listed(progblks) /\ code[df].begin = cf
      /\ Marked(cd) /\ (df # 0 => cd[df].dep)
      /\ \A i \in 1 .. Len(code) : c1[i].dep => cd[i].dep
  BY <1>5, LookupMarks
<1>7. /\ armt \in Arms /\ armt.dst = ct /\ armt.link = dt
      /\ armf \in Arms /\ armf.dst = cf /\ armf.link = df
  <2>1. dt \in Nat /\ df \in Nat
    BY <1>5, <1>6, TableListed
  <2>2. ct \in Addr /\ cf \in Addr
    BY <1>2, CodeCacheAssumption DEF Addr
  <2> HIDE DEF df
  <2>. QED
    BY <2>1, <2>2 DEF Arm, Arms
<1> HIDE DEF df, armt, armf, cd, tbl
<1>8. arms \in Seq(Arms) /\ DOMAIN arms = {1, 2} /\ arms[1] = armt /\ arms[2] = armf
  BY <1>7
<1> HIDE DEF arms
<1>9. exit \in Exits /\ exit.at = g.time + 1 /\ exit.k = "branch" /\ exit.arms = arms
  <2>1. g.time + 1 \in Addr
    BY <1>1, <1>2, CodeCacheAssumption DEF Addr
  <2>. QED
    BY <1>8, <2>1 DEF Exit, Exits
<1> HIDE DEF exit
<1>10. Linked(exit, cd)
  <2>1. dt # 0 => cd[dt].dep
    BY <1>5, <1>6
  <2>. QED
    BY <1>5, <1>6, <1>7, <1>8, <1>9, <2>1 DEF Linked
<1>11. prog[exit.at] \in ExitAt(exit.k)
  BY <1>1, <1>9 DEF ExitAt
<1>12. /\ g.time + 2 \in g.time .. proglen /\ g.time + 2 <= Limit /\ g.time + 2 <= g.time + 2
       /\ g.time + 1 < g.time + 2 /\ g.time + 1 <= g.time + 2 /\ g.time + 2 = (g.time + 1) + 1
  BY <1>1, <1>2
<1>13. exit.at = g.time + Len(<<Plain>>)
  BY <1>9, PlainOps
<1>14. Fuses
  BY <1>1 DEF Fuses
<1>. QED
  BY <1>1, <1>6, <1>f, <1>9, <1>10, <1>11, <1>12, <1>13, <1>14 DEF Ending

\* What a step that ends the compilation does: one block is added, blocks there
\* are marked, and the stub that asked for the block is patched.
LEMMA EndingStep ==
  ASSUME IInv, NEW ops, NEW end, NEW exit, NEW tbl, NEW cd, Ending(ops, end, exit, tbl, cd)
  PROVE  LET n == Len(code) + 1
             b == NewBlock(ops, end, exit)
         IN  /\ b \in Blocks /\ Len(code') = n /\ n \in Nat
             /\ First(n) \in 1 .. n /\ Resume(code', First(n))
             /\ UNCHANGED <<prog, proglen, prognoex, pw>>
             /\ prognowr' = prognowr \cup Span(b)
             /\ Listed(progblks') = Listed(progblks) \cup {n}
             /\ \A i \in 1 .. n :
                  LET old == IF i = n THEN b ELSE cd[i]
                  IN  /\ Same(code'[i], old) /\ code'[i].dep = old.dep
                      /\ DOMAIN code'[i].exit.arms = DOMAIN old.exit.arms
                      /\ i # g.caller.id => code'[i] = old
                      /\ i = g.caller.id => \A a \in DOMAIN old.exit.arms :
                           /\ code'[i].exit.arms[a].dst = old.exit.arms[a].dst
                           /\ a # g.caller.arm => code'[i].exit.arms[a] = old.exit.arms[a]
                           /\ a = g.caller.arm => code'[i].exit.arms[a].link = First(n)
<1> DEFINE n == Len(code) + 1
           b == NewBlock(ops, end, exit)
           cd0 == Append(cd, b)
<1>1. /\ mode = "compile" /\ exit \in Exits /\ end \in g.time .. proglen
      /\ exit.at = g.time + Len(ops) /\ exit.at <= end
      /\ tbl \in Tables(code) /\ Listed(tbl) = Listed(progblks)
      /\ Marked(cd) /\ Linked(exit, cd) /\ Finish(ops, end, exit, tbl, cd)
      /\ ops \in {<<>>, <<Plain>>}
  BY DEF Ending
<1>2. /\ g.time \in Nat /\ g.begin \in Nat /\ g.begin \in Addr /\ proglen \in Nat
      /\ Len(code) \in Nat /\ Len(g.ops) = g.time - g.begin /\ g.begin <= g.time
      /\ g.ops \in Seq(Ops) /\ g.first \in Nat /\ g.first <= Len(code)
      /\ g.caller \in Callers /\ GoodCaller(g.caller, code)
  BY <1>1, CompilationFacts
<1>3. ops \in Seq(Ops) /\ Len(ops) \in Nat
  BY <1>1, PlainOps
<1>4. exit.at = g.begin + Len(g.ops \o ops)
  <2>1. Len(g.ops \o ops) = Len(g.ops) + Len(ops)
    BY <1>2, <1>3, ConcatProperties
  <2>2. \A l \in Nat : g.begin + ((g.time - g.begin) + l) = g.time + l
    BY <1>2
  <2>. QED
    BY <1>1, <1>2, <1>3, <2>1, <2>2
<1>5. b \in Blocks
  <2>1. \A a \in DOMAIN exit.arms : exit.arms[a].dst <= proglen /\ exit.arms[a].link <= Len(code)
    BY <1>1, <1>2 DEF Linked
  <2>2. end \in 0 .. proglen
    BY <1>1, <1>2
  <2>. QED
    BY <1>1, <1>2, <1>3, <1>4, <2>1, <2>2, NewBlockGood
<1>6. b.begin = g.begin /\ b.end = end
  BY DEF NewBlock
<1>7. /\ code' = Patch(cd0, g.caller, First(Len(cd) + 1))
      /\ Useblk(tbl, Len(cd) + 1, end)
      /\ Resume(code', First(Len(cd) + 1))
      /\ UNCHANGED <<prog, proglen, prognoex, pw>>
  BY <1>1 DEF Finish
<1>8. cd \in Seq(Blocks) /\ Len(cd) = Len(code) /\ Len(cd) + 1 = n
      /\ \A i \in 1 .. Len(code) : cd[i].exit = code[i].exit
  BY <1>1 DEF Marked
<1> HIDE DEF b
<1>9. /\ cd0 \in Seq(Blocks) /\ Len(cd0) = n
      /\ \A i \in 1 .. Len(code) : cd0[i] = cd[i]
      /\ cd0[n] = b
  BY <1>5, <1>8, AppendProperties
<1> HIDE DEF cd0
<1>10. GoodCaller(g.caller, cd0)
  <2>1. 1 .. Len(code) \subseteq 1 .. Len(cd0)
    BY <1>2, <1>9
  <2>. QED
    BY <1>2, <1>8, <1>9, <2>1 DEF GoodCaller
<1>11. n \in Nat /\ First(n) \in 1 .. n
  BY <1>2 DEF First
<1>12. /\ Len(code') = n
       /\ \A i \in 1 .. n :
            /\ Same(code'[i], cd0[i]) /\ code'[i].dep = cd0[i].dep
            /\ DOMAIN code'[i].exit.arms = DOMAIN cd0[i].exit.arms
            /\ i # g.caller.id => code'[i] = cd0[i]
            /\ i = g.caller.id => \A a \in DOMAIN cd0[i].exit.arms :
                 /\ code'[i].exit.arms[a].dst = cd0[i].exit.arms[a].dst
                 /\ a # g.caller.arm => code'[i].exit.arms[a] = cd0[i].exit.arms[a]
                 /\ a = g.caller.arm => code'[i].exit.arms[a].link = First(n)
  <2>1. First(n) \in Nat /\ code' = Patch(cd0, g.caller, First(n))
    BY <1>7, <1>8, <1>11
  <2>. QED
    BY SMTT(30), <1>2, <1>9, <1>10, <2>1, PatchSame
<1>13. \A i \in 1 .. n : cd0[i] = IF i = n THEN b ELSE cd[i]
  BY <1>2, <1>9
<1>14. /\ Listed(progblks') = Listed(progblks) \cup {n}
       /\ prognowr' = prognowr \cup Span(b)
  BY <1>1, <1>2, <1>6, <1>7, <1>8, UseblkListed DEF Span
<1> HIDE DEF n
<1>. QED
  BY SMTT(30), <1>5, <1>7, <1>8, <1>11, <1>12, <1>13, <1>14 DEF b, n

\* A block that has come to its end is what is to be entered in the table.
LEMMA EndingBlock ==
  ASSUME IInv, SInv, LookaheadSafe,
         NEW ops, NEW end, NEW exit, NEW tbl, NEW cd, Ending(ops, end, exit, tbl, cd)
  PROVE  LET b == NewBlock(ops, end, exit)
         IN  /\ EndsRight(b, proglen, prognoex) /\ StoresIn(b.ops, prognoex)
             /\ Span(b) \cap prognoex = {} /\ Own \subseteq Span(b)
             /\ \A x \in Span(b) : b.src[x] = prog[x]
<1> DEFINE b == NewBlock(ops, end, exit)
<1>1. /\ mode = "compile"
      /\ ops = <<>> \/ (ops = <<Plain>> /\ prog[g.time] = "cmov" /\ g.time + 1 < end)
      /\ end \in g.time .. proglen /\ end <= Limit /\ end <= g.time + 2
      /\ exit \in Exits /\ exit.at = g.time + Len(ops) /\ exit.at <= end
      /\ \/ exit.at < end /\ prog[exit.at] \in ExitAt(exit.k) /\ end = exit.at + 1
         \/ exit.at = end /\ exit.k = "stop" /\ end = proglen
         \/ exit.at = end /\ exit.k = "noex" /\ end \in prognoex
      /\ g.time < end => g.time \notin prognoex
      /\ g.time + 1 < end => Compilable /\ Fuses
  BY DEF Ending
<1>2. /\ g.time \in Nat /\ g.begin \in Nat /\ proglen \in Nat /\ g.begin <= g.time
      /\ g.ops \in Seq(Ops) /\ ops \in Seq(Ops) /\ end \in Nat /\ Len(ops) \in Nat
  <2>1. /\ g.time \in Nat /\ g.begin \in Nat /\ proglen \in Nat /\ g.begin <= g.time
        /\ g.ops \in Seq(Ops)
    BY <1>1, CompilationFacts
  <2>2. ops \in Seq(Ops) /\ Len(ops) \in Nat
    BY <1>1, PlainOps
  <2>3. end \in Nat
    BY <1>1, <2>1
  <2>. QED
    BY <2>1, <2>2, <2>3
<1>3. /\ b.begin = g.begin /\ b.end = end /\ b.ops = g.ops \o ops /\ b.exit = exit
      /\ Span(b) = g.begin .. end - 1
      /\ \A x \in Span(b) : b.src[x] = prog[x]
  BY DEF NewBlock, Span
<1> HIDE DEF b
<1>4. Own = g.begin .. g.time - 1
  BY <1>1 DEF Own
<1>5. \A x \in Span(b) : \/ x \in Own
                         \/ x = g.time /\ g.time < end
                         \/ x = g.time + 1 /\ g.time + 1 < end
  BY SMTT(30), <1>1, <1>2, <1>3, <1>4
<1>6. Own \subseteq Span(b)
  BY <1>1, <1>2, <1>3, <1>4
<1>7. \A x \in Own : prog[x] \notin Enders /\ x \notin prognoex
  BY <1>1 DEF SInv, OwnOK
<1>8. Span(b) \cap prognoex = {}
  BY <1>1, <1>5, <1>7 DEF LookaheadSafe
<1>9. ASSUME NEW x \in Span(b), x + 1 < end
      PROVE  prog[x] \notin Enders
  <2>1. CASE x \in Own
    BY <1>7, <2>1
  <2>2. CASE x = g.time /\ g.time + 1 < end
    BY <1>1, <2>2 DEF Fuses, Enders
  <2>3. x # g.time + 1
    BY <1>1, <1>2, <1>9
  <2>. QED
    BY <1>5, <1>9, <2>1, <2>2, <2>3
<1>10. EndsRight(b, proglen, prognoex)
  <2>1. end <= g.begin + MaxBlk
    BY <1>1 DEF Limit
  <2>2. CASE exit.at < end /\ prog[exit.at] \in ExitAt(exit.k) /\ end = exit.at + 1
    <3>1. g.begin < end /\ end - 1 = exit.at /\ end - 1 \in Span(b)
      BY SMTT(30), <1>1, <1>2, <1>3, <2>2
    <3>2. prog[exit.at] \in Enders
      BY <2>2 DEF ExitAt, Enders
    <3>. QED
      BY <1>3, <1>9, <2>1, <3>1, <3>2 DEF EndsRight
  <2>3. CASE end = proglen \/ end \in prognoex
    BY <1>3, <1>9, <2>1, <2>3 DEF EndsRight
  <2>. QED
    BY <1>1, <2>2, <2>3
<1>11. StoresIn(b.ops, prognoex)
  <2>1. StoresIn(g.ops, prognoex)
    BY <1>1 DEF SInv, OwnOK
  <2>2. /\ Len(g.ops \o ops) = Len(g.ops) + Len(ops) /\ g.ops \o ops \in Seq(Ops)
        /\ \A i \in 1 .. Len(g.ops) + Len(ops) :
             (g.ops \o ops)[i] = IF i <= Len(g.ops) THEN g.ops[i] ELSE ops[i - Len(g.ops)]
    BY <1>2, ConcatProperties
  <2>3. /\ DOMAIN (g.ops \o ops) = 1 .. Len(g.ops) + Len(ops) /\ Len(g.ops) \in Nat
        /\ DOMAIN g.ops = 1 .. Len(g.ops) /\ DOMAIN ops = 1 .. Len(ops)
    BY <1>2, <2>2, LenProperties
  <2>4. \A m \in DOMAIN ops : ops[m].k # "store"
    BY <1>1 DEF Plain, Op
  <2>5. ASSUME NEW i \in DOMAIN (g.ops \o ops), (g.ops \o ops)[i].k = "store"
        PROVE  (g.ops \o ops)[i].t \in prognoex
    <3>1. CASE i <= Len(g.ops)
      <4>1. i \in DOMAIN g.ops /\ (g.ops \o ops)[i] = g.ops[i]
        BY <2>2, <2>3, <3>1
      <4>. QED
        BY <2>1, <2>5, <4>1 DEF StoresIn
    <3>2. CASE ~(i <= Len(g.ops))
      <4>1. i - Len(g.ops) \in DOMAIN ops
        BY <1>2, <2>3, <3>2
      <4>2. (g.ops \o ops)[i] = ops[i - Len(g.ops)]
        BY <2>2, <2>3, <3>2
      <4>. QED
        BY <2>4, <2>5, <4>1, <4>2
    <3>. QED
      BY <3>1, <3>2
  <2>. QED
    BY <1>3, <2>5 DEF StoresIn
<1>. QED
  BY <1>3, <1>6, <1>8, <1>10, <1>11 DEF b

\* The end of the compilation preserves the invariant.
LEMMA EndingSafe ==
  ASSUME IInv, IInv', SInv, LookaheadSafe,
         NEW ops, NEW end, NEW exit, NEW tbl, NEW cd, Ending(ops, end, exit, tbl, cd)
  PROVE  SInv'
<1> DEFINE n == Len(code) + 1
           b == NewBlock(ops, end, exit)
<1>1. /\ Len(code') = n /\ n \in Nat /\ Resume(code', First(n))
      /\ UNCHANGED <<prog, proglen, prognoex, pw>>
      /\ prognowr' = prognowr \cup Span(b)
      /\ Listed(progblks') = Listed(progblks) \cup {n}
      /\ \A i \in 1 .. n : Same(code'[i], IF i = n THEN b ELSE cd[i])
  BY EndingStep
<1>2. /\ EndsRight(b, proglen, prognoex) /\ StoresIn(b.ops, prognoex)
      /\ Span(b) \cap prognoex = {} /\ Own \subseteq Span(b)
      /\ \A x \in Span(b) : b.src[x] = prog[x]
  BY EndingBlock
<1>3. mode = "compile" /\ Marked(cd) /\ Len(code) \in Nat
  BY TableListed DEF Ending
<1> HIDE DEF b
<1>4. Same(code'[n], b) /\ \A i \in 1 .. Len(code) : Same(code'[i], code[i])
  <2>1. n \in 1 .. n /\ \A i \in 1 .. Len(code) : i \in 1 .. n /\ i # n
    BY <1>3
  <2>2. \A i \in 1 .. Len(code) : Same(code'[i], cd[i]) /\ Same(cd[i], code[i])
    BY <1>1, <1>3, <2>1 DEF Marked
  <2>3. \A i \in 1 .. Len(code) : Same(code'[i], code[i])
    BY <2>2 DEF Same
  <2>. QED
    BY <1>1, <2>1, <2>3
<1>5. Starting' /\ mode' = "run"
  BY <1>1 DEF Resume, Starting
<1>. QED
  BY <1>1, <1>2, <1>3, <1>4, <1>5, GrownWorld

\* The instructions that do not end the block preserve the invariant.
LEMMA InsnSafe ==
  ASSUME IInv, IInv', SInv, LookaheadSafe, LookaheadSafe',
         CompileOp \/ CompileNand \/ CompileAmend
  PROVE  SInv'
<1>1. Compilable /\ prog[g.time] \in {"op", "cmov", "nand", "amend"}
  BY DEF CompileOp, CompileNand, CompileAmend
<1>2. prog[g.time] \notin Enders
  BY <1>1 DEF Enders
<1>3. DOMAIN <<Plain>> = {1} /\ DOMAIN <<Plain, Plain>> = {1, 2} /\ Plain.k = "op"
  BY DEF Plain, Op
<1>4. CASE Emit(<<Plain>>, prognoex)
  <2>1. StoresIn(<<Plain>>, prognoex)
    BY <1>3 DEF StoresIn
  <2>2. <<Plain>> \in Seq(Ops) /\ Len(<<Plain>>) \in {1, 2} /\ ~(Len(<<Plain>>) = 2)
    BY PlainOps
  <2>. QED
    BY <1>1, <1>2, <1>4, <2>1, <2>2, EmitSafe
<1>5. CASE Peek("nand") /\ prog[g.time] = "nand" /\ Emit(<<Plain, Plain>>, prognoex)
  <2>1. StoresIn(<<Plain, Plain>>, prognoex)
    BY <1>3 DEF StoresIn
  <2>2. /\ g.time + 1 < Limit /\ g.time + 1 \notin prognoex
        /\ prog[g.time + 1] \notin Enders
    BY <1>1, <1>5 DEF Peek, Next2, LookaheadSafe, Fuses, Enders
  <2>3. 2 \in {1, 2} /\ Len(<<Plain, Plain>>) = 2 /\ <<Plain, Plain>> \in Seq(Ops)
    BY PlainOps
  <2>. QED
    BY <1>1, <1>2, <1>5, <2>1, <2>2, <2>3, EmitSafe
<1>6. ASSUME NEW t \in 0 .. proglen - 1, Bare(t), Emit(<<Op("store", t)>>, prognoex \cup {t})
      PROVE  SInv'
  <2> DEFINE ops == <<Op("store", t)>>
  <2>1. ops \in Seq(Ops) /\ Len(ops) = 1 /\ DOMAIN ops = {1} /\ ops[1] = Op("store", t)
    <3>1. proglen \in 1 .. MaxLen
      BY DEF IInv, StoreOK
    <3>2. t \in Addr
      BY <3>1, CodeCacheAssumption DEF Addr
    <3>. QED
      BY <3>2 DEF Op, Ops
  <2> HIDE DEF ops
  <2>2. StoresIn(ops, prognoex \cup {t})
    BY <2>1 DEF StoresIn, Op
  <2>3. \A x \in prognoex \cup {t} :
          x \in prognoex \/ /\ x \notin prognowr \cup {g.time}
                            /\ \E n \in DOMAIN ops : ops[n] = Op("store", x)
    BY <1>6, <2>1 DEF Bare
  <2>4. Emit(ops, prognoex \cup {t}) /\ prognoex \subseteq prognoex \cup {t}
    BY <1>6 DEF ops
  <2>5. Len(ops) \in {1, 2} /\ ~(Len(ops) = 2)
    BY <2>1
  <2>. QED
    BY <1>1, <1>2, <2>1, <2>2, <2>3, <2>4, <2>5, EmitSafe
<1>7. CASE Emit(<<Op("postwrite", 0)>>, prognoex)
  <2> DEFINE ops == <<Op("postwrite", 0)>>
  <2>1. ops \in Seq(Ops) /\ Len(ops) = 1 /\ DOMAIN ops = {1} /\ ops[1].k = "postwrite"
    BY Sizes DEF Op, Ops
  <2>4. Emit(ops, prognoex)
    BY <1>7
  <2> HIDE DEF ops
  <2>2. StoresIn(ops, prognoex)
    BY <2>1 DEF StoresIn
  <2>5. Len(ops) \in {1, 2} /\ ~(Len(ops) = 2)
    BY <2>1
  <2>. QED
    BY <1>1, <1>2, <2>1, <2>2, <2>4, <2>5, EmitSafe
<1>. QED
  BY <1>4, <1>5, <1>6, <1>7 DEF CompileOp, CompileNand, CompileAmend

\* What a step that ends a block at the limit does.
LEMMA FallStep ==
  ASSUME IInv, CompileFall
  PROVE  LET n == Len(code) + 1
             fall == Exit("fall", g.time, <<Arm(g.time, {}, n + 1)>>)
             b == NewBlock(<<>>, g.time, fall)
         IN  /\ b \in Blocks /\ Len(code') = n /\ n \in Nat /\ First(n) \in 1 .. n
             /\ g.time >= Limit /\ b.exit = fall /\ mode = "compile"
             /\ \E z \in SUBSET Facts : g' = Compiling(g.time, z, TRUE, First(n), g.caller)
             /\ UNCHANGED <<prog, proglen, prognoex, mode, cur, pw>>
             /\ prognowr' = prognowr \cup Span(b)
             /\ Listed(progblks') = Listed(progblks) \cup {n}
             /\ \A i \in 1 .. Len(code) : code'[i] = code[i]
             /\ code'[n] = b
<1> DEFINE n == Len(code) + 1
           arm == Arm(g.time, {}, n + 1)
           fall == Exit("fall", g.time, <<arm>>)
           b == NewBlock(<<>>, g.time, fall)
<1>1. /\ mode = "compile" /\ g.time >= Limit
      /\ code' = Append(code, b) /\ Useblk(progblks, n, g.time)
      /\ \E z \in SUBSET Facts : g' = Compiling(g.time, z, TRUE, First(n), g.caller)
      /\ UNCHANGED <<prog, proglen, prognoex, mode, cur, pw>>
  BY DEF CompileFall
<1>2. /\ g.time \in Nat /\ g.time \in Addr /\ g.begin \in Nat /\ g.begin \in Addr
      /\ proglen \in Nat /\ g.time <= proglen /\ Limit \in Nat
      /\ Len(code) \in Nat /\ Len(g.ops) = g.time - g.begin /\ g.begin <= g.time
      /\ g.ops \in Seq(Ops) /\ g.first \in Nat /\ g.first <= Len(code)
  BY <1>1, CompilationFacts, CodeCacheAssumption DEF Limit
<1>4. n \in Nat /\ First(n) \in 1 .. n
  BY <1>2 DEF First
<1>5. arm \in Arms /\ arm.dst = g.time /\ arm.link = n + 1
  BY <1>2, <1>4 DEF Arm, Arms
<1> HIDE DEF arm
<1>6. fall \in Exits /\ fall.at = g.time /\ DOMAIN fall.arms = {1} /\ fall.arms[1] = arm
  BY <1>2, <1>5 DEF Exit, Exits
<1> HIDE DEF fall
<1>7. b \in Blocks
  <2>1. \A a \in DOMAIN fall.arms : fall.arms[a].dst <= proglen /\ fall.arms[a].link <= n + 1
    BY <1>2, <1>4, <1>5, <1>6
  <2>2. fall.at = g.begin + Len(g.ops \o <<>>)
    <3>1. g.ops \o <<>> = g.ops
      BY <1>2, ConcatEmptySeq
    <3>2. g.begin + (g.time - g.begin) = g.time
      BY <1>2
    <3>. QED
      BY <1>2, <1>6, <3>1, <3>2
  <2>3. g.time \in 0 .. proglen /\ n + 1 \in Nat /\ fall.at <= g.time
    BY <1>2, <1>4, <1>6
  <2>. QED
    BY <1>1, <1>6, <2>1, <2>2, <2>3, PlainOps, NewBlockGood
<1>8. b.begin = g.begin /\ b.end = g.time /\ b.exit = fall
  BY DEF NewBlock
<1> HIDE DEF b
<1>9. Len(code') = n /\ (\A i \in 1 .. Len(code) : code'[i] = code[i]) /\ code'[n] = b
  <2>1. code \in Seq(Blocks)
    BY DEF IInv, GoodCode
  <2>. QED
    BY <1>1, <1>7, <2>1, AppendProperties
<1>10. Listed(progblks') = Listed(progblks) \cup {n} /\ prognowr' = prognowr \cup Span(b)
  <2>1. progblks \in Tables(code)
    BY DEF IInv, StoreOK
  <2> HIDE DEF n
  <2>. QED
    BY <1>1, <1>2, <1>8, <2>1, UseblkListed DEF Span
<1>. QED
  BY <1>1, <1>4, <1>7, <1>8, <1>9, <1>10 DEF b, fall, arm

\* Falling through at the limit preserves the invariant.
LEMMA FallSafe ==
  ASSUME IInv, IInv', SInv, CompileFall
  PROVE  SInv'
<1> DEFINE n == Len(code) + 1
           fall == Exit("fall", g.time, <<Arm(g.time, {}, n + 1)>>)
           b == NewBlock(<<>>, g.time, fall)
<1>1. /\ b \in Blocks /\ Len(code') = n /\ n \in Nat
      /\ g.time >= Limit /\ b.exit = fall /\ mode = "compile"
      /\ \E z \in SUBSET Facts : g' = Compiling(g.time, z, TRUE, First(n), g.caller)
      /\ UNCHANGED <<prog, proglen, prognoex, mode, cur, pw>>
      /\ prognowr' = prognowr \cup Span(b)
      /\ Listed(progblks') = Listed(progblks) \cup {n}
      /\ \A i \in 1 .. Len(code) : code'[i] = code[i]
      /\ code'[n] = b
  BY FallStep
<1>2. /\ g.begin \in Nat /\ g.time \in Nat /\ g.ops \in Seq(Ops) /\ g.begin <= g.time
  BY <1>1, CompilationFacts
<1>3. /\ b.begin = g.begin /\ b.end = g.time /\ b.ops = g.ops /\ b.exit.k = "fall"
      /\ Span(b) = g.begin .. g.time - 1
      /\ \A x \in Span(b) : b.src[x] = prog[x]
  <2>1. g.ops \o <<>> = g.ops
    BY <1>2, ConcatEmptySeq
  <2>. QED
    BY <2>1 DEF NewBlock, Span, Exit
<1> HIDE DEF b
<1>4. Own = Span(b)
  BY <1>1, <1>3 DEF Own
<1>5. /\ \A x \in Own : prog[x] \notin Enders /\ x \notin prognoex
      /\ StoresIn(g.ops, prognoex) /\ g.time <= Limit
  BY <1>1 DEF SInv, OwnOK
<1>6. EndsRight(b, proglen, prognoex)
  <2>1. b.end = b.begin + MaxBlk /\ b.end <= b.begin + MaxBlk
    <3>1. g.begin + MaxBlk \in Nat
      BY <1>2, CodeCacheAssumption
    <3>2. g.time >= g.begin + MaxBlk /\ g.time <= g.begin + MaxBlk
      BY <1>1, <1>5 DEF Limit
    <3>. QED
      BY <1>2, <1>3, <3>1, <3>2
  <2>. QED
    BY <1>3, <1>4, <1>5, <2>1 DEF EndsRight
<1>7. Starting'
  BY <1>1 DEF Compiling, Starting
<1>8. /\ Same(code'[n], b) /\ \A i \in 1 .. Len(code) : Same(code'[i], code[i])
  BY <1>1 DEF Same
<1>9. StoresIn(b.ops, prognoex) /\ Span(b) \cap prognoex = {} /\ Own \subseteq Span(b)
  BY <1>3, <1>4, <1>5
<1>. QED
  BY <1>1, <1>3, <1>6, <1>7, <1>8, <1>9, GrownWorld

\* Every turn of the compiler preserves the invariant.
LEMMA CompileSafe ==
  ASSUME IInv, IInv', SInv, LookaheadSafe, LookaheadSafe', Compile
  PROVE  SInv'
<1>1. CASE CompileStop \/ CompileEnd \/ CompileNoex \/ CompileLoad
  BY <1>1, PlainEnding, EndingSafe
<1>2. CASE CompileLoadC
  BY <1>2, LoadCEnding, EndingSafe
<1>3. CASE CompileCond
  BY <1>3, CondEnding, EndingSafe
<1>. QED
  BY <1>1, <1>2, <1>3, InsnSafe, FallSafe DEF Compile

-----------------------------------------------------------------------------
(* Compiled code *)

\* Going on in the code that runs preserves the invariant.
LEMMA AdvanceSafe ==
  ASSUME IInv, IInv', SInv, mode = "run", mode' = "run",
         UNCHANGED <<proglen, code, progblks, prognowr, prognoex>>,
         \A x \in prognowr : prog'[x] = prog[x]
  PROVE  SInv'
<1>1. Shot = {} /\ Shot' = {} /\ Starting'
  BY DEF Shot, Starting
<1>2. \A x \in Covered(progblks) : prog'[x] = prog[x]
  BY DEF SInv, Exact
<1>3. \A i \in 1 .. Len(code) : Same(code'[i], code[i])
  BY DEF Same
<1>. QED
  BY <1>1, <1>2, <1>3, KeptWorld

\* A bare store is to an execute-protected platter.
LEMMA StoreTarget == ASSUME IInv, SInv, RunStore PROVE OpAt(Here, cur.pos).t \in prognoex
<1>1. mode = "run" /\ ~AtExit /\ OpAt(Here, cur.pos).k = "store"
  BY DEF RunStore, Running
<1>2. /\ cur.id \in 1 .. Len(code) /\ Here \in Blocks /\ Good(Here, Len(code), proglen)
      /\ cur.pos \in Here.begin .. Here.exit.at
  BY <1>1, RunFacts
<1>3. /\ Here.begin \in Nat /\ Here.exit.at \in Nat /\ Len(Here.ops) \in Nat
      /\ Here.exit.at = Here.begin + Len(Here.ops)
  BY <1>2, BlockParts DEF Good, WellFormed
<1>4. DOMAIN Here.ops = 1 .. Len(Here.ops)
  BY <1>2, LenProperties DEF Blocks
<1>5. (cur.pos - Here.begin) + 1 \in DOMAIN Here.ops
  <2>1. cur.pos # Here.exit.at
    BY <1>1 DEF AtExit
  <2>2. \A l \in Nat : \A p \in Here.begin .. Here.begin + l :
          p # Here.begin + l => (p - Here.begin) + 1 \in 1 .. l
    BY SMTT(30), <1>3
  <2>. QED
    BY <1>2, <1>3, <1>4, <2>1, <2>2
<1>6. StoresIn(Here.ops, prognoex)
  BY <1>2 DEF SInv, BlocksOK, Here
<1>. QED
  BY <1>1, <1>5, <1>6 DEF StoresIn, OpAt

\* It is not to a platter that has been compiled.
LEMMA StoreSafe == ASSUME IInv, IInv', SInv, RunStore PROVE SInv'
<1> DEFINE op == OpAt(Here, cur.pos)
<1>1. /\ mode = "run" /\ mode' = "run"
      /\ UNCHANGED <<proglen, code, progblks, prognowr, prognoex>>
      /\ \E v \in Insns : prog' = [prog EXCEPT ![op.t] = v]
  BY DEF RunStore, Running
<1>2. op.t \notin prognowr
  BY StoreTarget DEF SInv, Disjoint
<1> HIDE DEF op
<1>3. \A x \in prognowr : prog'[x] = prog[x]
  <2>1. prognowr \subseteq DOMAIN prog
    BY DEF IInv, StoreOK
  <2>. QED
    BY <1>1, <1>2, <2>1
<1>. QED
  BY <1>1, <1>3, AdvanceSafe

\* After a store to a platter that has been compiled the shootdown begins.
LEMMA PostwriteSafe == ASSUME IInv, IInv', SInv, RunPostwrite PROVE SInv'
<1>1. mode = "run" /\ UNCHANGED <<proglen, code, progblks, prognowr, prognoex, g>>
  BY DEF RunPostwrite, Running
<1>2. PICK t \in 0 .. proglen - 1, v \in Insns :
        /\ prog' = [prog EXCEPT ![t] = v]
        /\ IF t \notin prognowr
           THEN Advance(1) /\ UNCHANGED <<mode, pw>>
           ELSE /\ mode' = "shoot"
                /\ pw' = [target |-> t, source |-> cur.pos]
                /\ UNCHANGED cur
  BY DEF RunPostwrite
<1>3. prognowr \subseteq DOMAIN prog /\ Covered(progblks) \subseteq prognowr
  BY DEF IInv, StoreOK, SInv, Exact
<1>4. CASE t \notin prognowr
  <2>1. \A x \in prognowr : prog'[x] = prog[x]
    BY <1>2, <1>3, <1>4
  <2>. QED
    BY <1>1, <1>2, <1>4, <2>1, AdvanceSafe
<1>5. CASE t \in prognowr
  <2>1. mode' = "shoot" /\ Shot = {} /\ Shot' = {t} /\ Starting'
    BY <1>1, <1>2, <1>5 DEF Shot, Starting
  <2>2. \A x \in Covered(progblks) : x \notin Shot' => x \notin Shot /\ prog'[x] = prog[x]
    BY <1>2, <1>3, <2>1
  <2>3. \A i \in 1 .. Len(code) : Same(code'[i], code[i])
    BY <1>1 DEF Same
  <2>. QED
    BY <1>1, <2>1, <2>2, <2>3, KeptWorld
<1>. QED
  BY <1>4, <1>5

\* What a stub that asks for a block does to code and table: where it finds none
\* it has one compiled, otherwise it marks the block and is patched to jump to it.
LEMMA EnterdepStep ==
  ASSUME IInv, RunEnterdep
  PROVE  \E a \in DOMAIN Here.exit.arms, d \in 0 .. Len(code) :
           LET arm == Here.exit.arms[a]
           IN  /\ mode = "run" /\ cur.id \in 1 .. Len(code) /\ Here.exit.k \in {"loadc", "branch"}
               /\ arm.dst \in 0 .. proglen
               /\ UNCHANGED <<prog, proglen, prognowr, prognoex, pw>>
               /\ Listed(progblks') = Listed(progblks) /\ Len(code') = Len(code)
               /\ \A i \in 1 .. Len(code) :
                    /\ Same(code'[i], code[i]) /\ (code[i].dep => code'[i].dep)
                    /\ DOMAIN code'[i].exit.arms = DOMAIN code[i].exit.arms
                    /\ \A x \in DOMAIN code[i].exit.arms :
                         /\ code'[i].exit.arms[x].dst = code[i].exit.arms[x].dst
                         /\ \/ code'[i].exit.arms[x].link = code[i].exit.arms[x].link
                            \/ d # 0 /\ Here.exit.arms[a] = code[i].exit.arms[x]
                                     /\ code'[i].exit.arms[x].link = d
               /\ \/ d = 0 /\ code' = code
                           /\ UmcEnter(arm.dst, arm.znz, [id |-> cur.id, arm |-> a])
                  \/ /\ d # 0 /\ d \in Listed(progblks) /\ code[d].begin = arm.dst
                     /\ code'[d].dep /\ Resume(code', d)
<1>1. mode = "run" /\ Here.exit.k \in {"loadc", "branch"}
      /\ UNCHANGED <<prog, proglen, prognowr, prognoex, pw>>
  BY DEF RunEnterdep, Exiting
<1>2. PICK a \in DOMAIN Here.exit.arms :
        LET arm == Here.exit.arms[a]
            stub == [id |-> cur.id, arm |-> a]
            d == Getblkx(progblks, arm.dst, arm.znz)
        IN  /\ \/ /\ d # 0
                  /\ code' = Patch(Depend(code, d), stub, d)
                  /\ Resume(code, d)
               \/ d = 0 /\ UmcEnter(arm.dst, arm.znz, stub) /\ UNCHANGED code
            /\ progblks' = Touch(progblks, arm.dst, arm.znz)
  BY DEF RunEnterdep
<1> DEFINE arm == Here.exit.arms[a]
           stub == [id |-> cur.id, arm |-> a]
           d == Getblkx(progblks, arm.dst, arm.znz)
           cd == Depend(code, d)
<1>3. /\ cur.id \in 1 .. Len(code) /\ cur.id \in Nat /\ Here \in Blocks
      /\ Len(code) \in Nat /\ progblks \in Tables(code) /\ code \in Seq(Blocks)
      /\ proglen \in Nat /\ Good(Here, Len(code), proglen)
  BY <1>1, RunFacts DEF IInv, GoodCode
<1>4. arm \in Arms /\ arm.dst \in 0 .. proglen /\ arm.dst \in Addr /\ a \in Nat
  <2>1. arm \in Arms /\ arm.dst \in Nat /\ Here.exit.arms \in Seq(Arms)
    BY <1>3, BlockParts
  <2>2. arm.dst <= proglen
    BY <1>3 DEF Good
  <2>3. a \in Nat
    BY <2>1, LenProperties
  <2>. QED
    BY <1>3, <2>1, <2>2, <2>3 DEF Arms
<1>5. Listed(progblks') = Listed(progblks)
  BY <1>2, <1>3, <1>4, TouchListed
<1>6. d \in 0 .. Len(code) /\ (d # 0 => d \in Listed(progblks) /\ code[d].begin = arm.dst)
  <2>1. d \in 0 .. Len(code)
    BY <1>3, <1>4, LookupFacts DEF Arms
  <2>. QED
    BY <1>3, <1>4, <2>1, FoundListed
<1>7. CASE d = 0
  <2>1. UmcEnter(arm.dst, arm.znz, stub) /\ code' = code
    BY <1>2, <1>7
  <2>2. \A i \in 1 .. Len(code) : Same(code'[i], code[i])
    BY <2>1 DEF Same
  <2> HIDE DEF d
  <2>. QED
    BY <1>1, <1>3, <1>4, <1>5, <1>6, <1>7, <2>1, <2>2
<1>8. CASE d # 0
  <2>1. code' = Patch(cd, stub, d) /\ Resume(code, d)
    BY <1>2, <1>8
  <2> HIDE DEF d
  <2>2. d \in 1 .. Len(code) /\ d \in Nat
    BY <1>3, <1>6, <1>8
  <2>3. /\ cd \in Seq(Blocks) /\ Len(cd) = Len(code) /\ cd[d].dep
        /\ \A i \in 1 .. Len(code) : /\ Same(cd[i], code[i]) /\ cd[i].exit = code[i].exit
                                     /\ code[i].dep => cd[i].dep
    BY <1>3, <1>6, <1>8, DependSame
  <2> HIDE DEF cd
  <2>4. stub \in Callers /\ GoodCaller(stub, cd)
    BY <1>3, <1>4, <2>3 DEF Callers, GoodCaller, Here
  <2>5. stub.id = cur.id /\ stub.arm = a
    OBVIOUS
  <2> HIDE DEF stub
  <2>6. /\ Len(code') = Len(code)
        /\ \A i \in 1 .. Len(code) :
             /\ Same(code'[i], cd[i]) /\ code'[i].dep = cd[i].dep
             /\ DOMAIN code'[i].exit.arms = DOMAIN cd[i].exit.arms
             /\ i # stub.id => code'[i] = cd[i]
             /\ i = stub.id => \A x \in DOMAIN cd[i].exit.arms :
                  /\ code'[i].exit.arms[x].dst = cd[i].exit.arms[x].dst
                  /\ x # stub.arm => code'[i].exit.arms[x] = cd[i].exit.arms[x]
                  /\ x = stub.arm => code'[i].exit.arms[x].link = d
    BY <2>1, <2>2, <2>3, <2>4, PatchSame
  <2>7. ASSUME NEW i \in 1 .. Len(code)
        PROVE  /\ Same(code'[i], code[i]) /\ (code[i].dep => code'[i].dep)
               /\ DOMAIN code'[i].exit.arms = DOMAIN code[i].exit.arms
    BY <2>3, <2>6 DEF Same
  <2>8. ASSUME NEW i \in 1 .. Len(code), NEW x \in DOMAIN code[i].exit.arms
        PROVE  /\ code'[i].exit.arms[x].dst = code[i].exit.arms[x].dst
               /\ \/ code'[i].exit.arms[x].link = code[i].exit.arms[x].link
                  \/ Here.exit.arms[a] = code[i].exit.arms[x] /\ code'[i].exit.arms[x].link = d
    <3>1. cd[i].exit = code[i].exit /\ x \in DOMAIN cd[i].exit.arms
      BY <2>3
    <3>2. CASE i = stub.id /\ x = stub.arm
      <4>1. code'[i].exit.arms[x].link = d /\ code'[i].exit.arms[x].dst = cd[i].exit.arms[x].dst
        BY <2>6, <3>1, <3>2
      <4>2. code[i].exit.arms[x] = Here.exit.arms[a]
        BY <2>5, <3>2 DEF Here
      <4>. QED
        BY <3>1, <4>1, <4>2
    <3>3. CASE ~(i = stub.id /\ x = stub.arm)
      <4>1. code'[i].exit.arms[x] = cd[i].exit.arms[x]
        BY <2>6, <3>1, <3>3
      <4>. QED
        BY <3>1, <4>1
    <3>. QED
      BY <3>2, <3>3
  <2>9. code'[d].dep /\ Resume(code', d)
    <3>1. code'[d].begin = code[d].begin
      BY <2>2, <2>7 DEF Same
    <3>. QED
      BY <2>1, <2>2, <2>3, <2>6, <3>1 DEF Resume
  <2>. QED
    BY ZenonT(60), <1>1, <1>3, <1>4, <1>5, <1>6, <1>8, <2>6, <2>7, <2>8, <2>9
<1>. QED
  BY <1>7, <1>8

\* Passing from block to block preserves the invariant.
LEMMA ControlSafe ==
  ASSUME IInv, IInv', SInv, RunLink \/ RunEnterdep \/ RunEnter
  PROVE  SInv'
<1>1. mode = "run" /\ UNCHANGED <<prog, proglen, prognowr, prognoex, pw>>
  BY DEF RunLink, RunEnterdep, RunEnter, Exiting
<1>2. Starting' /\ mode' # "aborted" /\ Shot' = {}
  <2>1. (\E cd, id : Resume(cd, id)) \/ (\E x, z, caller : UmcEnter(x, z, caller))
    BY DEF RunLink, RunEnterdep, RunEnter
  <2>. QED
    BY <2>1, ControlStarts
<1>3. Shot = {}
  BY <1>1 DEF Shot
<1>4. /\ proglen \in 1 .. MaxLen /\ progblks \in Tables(code) /\ code \in Seq(Blocks)
      /\ Len(code) \in Nat /\ 0 .. proglen \subseteq Addr
  BY TableListed, CodeCacheAssumption DEF IInv, StoreOK, GoodCode, Addr
<1>5. ASSUME Listed(progblks') = Listed(progblks), Len(code') = Len(code),
             \A i \in 1 .. Len(code) : Same(code'[i], code[i])
      PROVE  SInv'
  BY <1>1, <1>2, <1>3, <1>5, KeptWorld
<1>6. code' = code => Len(code') = Len(code) /\ \A i \in 1 .. Len(code) : Same(code'[i], code[i])
  BY DEF Same
<1>7. CASE RunLink
  BY <1>5, <1>6, <1>7 DEF RunLink
<1>8. CASE RunEnterdep
  <2>1. /\ Listed(progblks') = Listed(progblks) /\ Len(code') = Len(code)
        /\ \A i \in 1 .. Len(code) : Same(code'[i], code[i])
    BY <1>8, EnterdepStep
  <2>. QED
    BY <1>5, <2>1
<1>9. CASE RunEnter
  <2>1. PICK x \in 0 .. proglen, z \in SUBSET Facts : progblks' = Touch(progblks, x, z)
    BY <1>9 DEF RunEnter
  <2>2. Listed(progblks') = Listed(progblks)
    BY <1>4, <2>1, TouchListed
  <2>. QED
    BY <1>5, <1>6, <1>9, <2>2 DEF RunEnter
<1>. QED
  BY <1>7, <1>8, <1>9

\* Every step of compiled code preserves the invariant.
LEMMA RunSafe == ASSUME IInv, IInv', SInv, Run PROVE SInv'
<1>1. CASE RunOp
  BY <1>1, AdvanceSafe DEF RunOp, Running
<1>2. CASE RunStop
  <2>1. /\ mode = "run" /\ mode' = "stopped" /\ Shot = {} /\ Starting'
        /\ UNCHANGED <<prog, proglen, code, progblks, prognowr, prognoex>>
    BY <1>2 DEF RunStop, Exiting, Shot, Starting
  <2>2. \A i \in 1 .. Len(code) : Same(code'[i], code[i])
    BY <2>1 DEF Same
  <2>. QED
    BY <2>1, <2>2, KeptWorld
<1>3. CASE RunLoadfar \/ RunNoex
  <2>1. NewWorld /\ \E x, z, caller : UmcEnter(x, z, caller)
    BY <1>3 DEF RunLoadfar, RunNoex
  <2>. QED
    BY <2>1, ControlStarts, NewWorldSafe
<1>. QED
  BY <1>1, <1>2, <1>3, StoreSafe, PostwriteSafe, ControlSafe DEF Run

-----------------------------------------------------------------------------
(* The shootdown *)

\* Shooting one block down unprotects the platters no other block covers.
LEMMA ShootBlockSafe == ASSUME IInv, IInv', SInv, ShootBlock PROVE SInv'
<1> DEFINE tbl == Remblk(Hit)
<1>1. /\ mode = "shoot" /\ Hit # 0
      /\ progblks' = tbl /\ prognowr' = Unprotect(Hit, tbl)
      /\ UNCHANGED <<prog, proglen, code, prognoex, mode, cur, g, pw>>
  BY DEF ShootBlock
<1>2. /\ tbl \in Tables(code) /\ Listed(tbl) \subseteq Listed(progblks)
      /\ Listed(progblks) \subseteq Listed(tbl) \cup {Hit}
  BY <1>1, RemblkListed
<1> HIDE DEF tbl
<1>3. prognowr' = prognowr \ {x \in Span(code[Hit]) : Getblk(tbl, x) = 0}
  BY <1>1 DEF Unprotect
<1>4. Own = {} /\ Own' = {} /\ Covered(progblks)' = Covered(tbl)
  BY <1>1 DEF Own, Covered
<1>5. Covered(tbl) \subseteq Covered(progblks)
  BY <1>2 DEF Covered
<1>6. Covered(tbl) \subseteq prognowr'
  <2>1. \A x \in Covered(tbl) : Getblk(tbl, x) # 0
    BY <1>2, NoneHidden
  <2>. QED
    BY <1>3, <1>5, <2>1 DEF SInv, Exact
<1>7. prognowr' \subseteq Covered(tbl)
  <2>1. SUFFICES ASSUME NEW x \in prognowr' PROVE x \in Covered(tbl)
    OBVIOUS
  <2>2. x \in Covered(progblks) /\ x \in Addr
    <3>1. prognowr \subseteq 0 .. proglen - 1 /\ proglen \in 1 .. MaxLen
      BY DEF IInv, StoreOK
    <3>. QED
      BY <1>3, <1>4, <3>1, CodeCacheAssumption DEF SInv, Exact, Addr
  <2>3. PICK id \in Listed(progblks) : x \in Span(code[id])
    BY <2>2 DEF Covered
  <2>4. CASE id \in Listed(tbl)
    BY <2>3, <2>4 DEF Covered
  <2>5. CASE id = Hit
    BY <1>2, <1>3, <2>2, <2>3, <2>5, FoundCovers
  <2>. QED
    BY <1>2, <2>4, <2>5
<1>8. Disjoint' /\ Exact'
  BY <1>1, <1>3, <1>4, <1>6, <1>7 DEF SInv, Disjoint, Exact
<1>9. BlocksOK' /\ OwnOK'
  BY <1>1 DEF SInv, BlocksOK, OwnOK
<1>10. Fresh' /\ Agree' /\ NeverAborts'
  BY <1>1, <1>2 DEF SInv, Fresh, Agree, NeverAborts, Shot
<1>. QED
  BY <1>8, <1>9, <1>10 DEF SInv

\* When getblk finds nothing nothing is left.
LEMMA NothingLeft ==
  ASSUME IInv, SInv, mode = "shoot", Hit = 0
  PROVE  pw.target \notin prognowr /\ pw.target \notin Covered(progblks)
<1>1. progblks \in Tables(code) /\ Own = {}
  BY DEF IInv, StoreOK, Own
<1>2. pw.target \notin Covered(progblks)
  BY <1>1, NoneHidden DEF Hit
<1>. QED
  BY <1>1, <1>2 DEF SInv, Exact

\* Every step of the shootdown preserves the invariant; its assertion holds.
LEMMA ShootSafe == ASSUME IInv, IInv', SInv, Shoot PROVE SInv'
<1>1. CASE ShootWorld
  <2>1. NewWorld /\ Starting' /\ mode' # "aborted"
    BY <1>1 DEF ShootWorld, Starting
  <2>. QED
    BY <2>1, NewWorldSafe
<1>2. CASE ShootDone
  <2>1. /\ mode = "shoot" /\ Hit = 0
        /\ UNCHANGED <<prog, proglen, code, progblks, prognowr, prognoex>>
    BY <1>2 DEF ShootDone
  <2>2. pw.target \notin prognowr /\ pw.target \notin Covered(progblks)
    BY <2>1, NothingLeft
  <2>3. Starting' /\ mode' # "aborted"
    BY <1>2, <2>2 DEF ShootDone, UmcEnter, Compiling, Starting
  <2>4. \A x \in Covered(progblks) : x \notin Shot' => x \notin Shot /\ prog'[x] = prog[x]
    BY <2>1, <2>2 DEF Shot
  <2>5. \A i \in 1 .. Len(code) : Same(code'[i], code[i])
    BY <2>1 DEF Same
  <2>. QED
    BY <2>1, <2>3, <2>4, <2>5, KeptWorld
<1>. QED
  BY <1>1, <1>2, ShootBlockSafe DEF Shoot

-----------------------------------------------------------------------------
(* What follows of the first flaw *)

\* The invariant holds at the start.
LEMMA InitSafe == Init => SInv
<1>1. SUFFICES ASSUME Init PROVE SInv
  OBVIOUS
<1>2. IInv
  BY <1>1, InitInv
<1>3. /\ code = <<>> /\ prognowr = {} /\ prognoex = {} /\ mode = "compile"
      /\ g = Compiling(0, Facts, FALSE, 0, NoCaller)
  BY <1>1 DEF Init
<1>4. Len(code) = 0 /\ 1 .. 0 = {}
  BY <1>3
<1>5. Listed(progblks) = {}
  BY <1>2, <1>4, ListedType DEF IInv, StoreOK
<1>6. Own = {} /\ Covered(progblks) = {}
  BY <1>3, <1>5 DEF Own, Compiling, Covered
<1>7. BlocksOK /\ Disjoint /\ Exact /\ Fresh /\ Agree
  BY <1>3, <1>4, <1>5, <1>6 DEF BlocksOK, Disjoint, Exact, Fresh, Agree
<1>8. OwnOK /\ NeverAborts
  BY <1>3, <1>6, CodeCacheAssumption
     DEF OwnOK, Compiling, Limit, StoresIn, NeverAborts
<1>. QED
  BY <1>7, <1>8 DEF SInv

\* The inductive invariant, as long as look-ahead is safe.
LEMMA SafeStep ==
  ASSUME IInv, IInv', SInv, LookaheadSafe, LookaheadSafe', [Next]_vars
  PROVE  SInv'
<1>1. CASE UNCHANGED vars
  BY <1>1 DEF vars, SInv, BlocksOK, OwnOK, Limit, Own, Disjoint, Exact, Covered, Listed, Fresh,
     Shot, Agree, NeverAborts
<1>. QED
  BY <1>1, CompileSafe, RunSafe, ShootSafe DEF Next

THEOREM CacheInvariance == Spec /\ []LookaheadSafe => []SInv
<1>1. Init => SInv
  BY InitSafe
<1>2. SInv /\ IInv /\ IInv' /\ LookaheadSafe /\ LookaheadSafe' /\ [Next]_vars => SInv'
  BY SafeStep
<1>. QED
  BY <1>1, <1>2, Invariance, PTL DEF Spec

\* What the invariant says of each of the properties.
LEMMA SafeProperties ==
  ASSUME IInv, SInv
  PROVE  /\ NeverAborts /\ WriteProtectExact /\ NoHiddenBlock /\ BareStoresSafe /\ TableFresh
<1>1. /\ Table = Listed(progblks) /\ DOMAIN code = 1 .. Len(code)
      /\ progblks \in Tables(code)
  BY TableListed DEF IInv, StoreOK
<1>2. Covered(progblks) = UNION {Span(code[id]) : id \in Table}
  BY <1>1 DEF Covered
<1>3. WriteProtectExact
  <2>1. mode \in {"run", "shoot"} => Own = {}
    BY DEF Own
  <2>. QED
    BY <1>2, <2>1 DEF WriteProtectExact, SInv, Exact
<1>4. NoHiddenBlock
  BY <1>1, NoneHidden DEF NoHiddenBlock, Covered
<1>5. BareStoresSafe
  BY <1>1 DEF BareStoresSafe, SInv, BlocksOK, StoresIn, Disjoint
<1>6. TableFresh
  BY <1>1 DEF TableFresh, SInv, Fresh, Shot
<1>. QED
  BY <1>3, <1>4, <1>5, <1>6 DEF SInv

\* For every set of programs and every size, as long as look-ahead takes in no
\* execute-protected platter: the assertion at crt.c:161 holds, that nothing
\* protects the target when the shootdown loop of um_postwrite ends.
THEOREM AssertionHolds == Spec /\ []LookaheadSafe => []NeverAborts
  BY CacheInvariance, Invariance, SafeProperties, PTL

\* A platter is write-protected just if a block of the table was compiled from it.
THEOREM ProtectionExact == Spec /\ []LookaheadSafe => []WriteProtectExact
  BY CacheInvariance, Invariance, SafeProperties, PTL

\* getblk, which looks at the first block of each beginning only, finds a block
\* for every platter there is one for: blocks of one beginning end at one place.
THEOREM NoneIsHidden == Spec /\ []LookaheadSafe => []NoHiddenBlock
  BY CacheInvariance, Invariance, SafeProperties, PTL

\* A store compiled without a test reaches no platter code was compiled from.
THEOREM StoresAreSafe == Spec /\ []LookaheadSafe => []BareStoresSafe
  BY CacheInvariance, Invariance, SafeProperties, PTL

\* Whatever code may be entered was compiled from what array 0 now holds.
THEOREM TableIsFresh == Spec /\ []LookaheadSafe => []TableFresh
  BY CacheInvariance, Invariance, SafeProperties, PTL

-----------------------------------------------------------------------------
(* What follows of the second flaw: marks *)

\* Where the exits of a block may lead.
LEMMA LinkRange ==
  ASSUME IInv, NEW i \in 1 .. Len(code), NEW a \in DOMAIN code[i].exit.arms
  PROVE  LET arm == code[i].exit.arms[a]
         IN  /\ arm.link \in Nat /\ arm.dst \in 0 .. proglen /\ Len(code) \in Nat
             /\ mode = "compile" /\ ~Pending(arm.link) => arm.link <= Len(code)
             /\ mode # "compile" => arm.link <= Len(code)
<1>1. code[i] \in Blocks /\ Good(code[i], LastLink, proglen) /\ Len(code) \in Nat
  BY LenProperties, ElementOfSeq DEF IInv, GoodCode
<1>2. /\ code[i].exit.arms[a].link \in Nat /\ code[i].exit.arms[a].dst \in Nat
  BY <1>1, BlockParts DEF Arms
<1>3. code[i].exit.arms[a].link <= LastLink /\ code[i].exit.arms[a].dst <= proglen
  BY <1>1 DEF Good
<1>4. proglen \in Nat
  BY CodeCacheAssumption DEF IInv, StoreOK
<1>5. code[i].exit.arms[a].dst \in 0 .. proglen
  BY <1>2, <1>3, <1>4
<1>. QED
  BY <1>1, <1>2, <1>3, <1>5 DEF LastLink, Pending

\* Where code is not changed, and the compiler not run, the marks are as before.
LEMMA DepKept ==
  ASSUME IInv, DepInv, mode # "compile", UNCHANGED code
  PROVE  DepInv'
<1>1. SUFFICES ASSUME NEW i \in 1 .. Len(code), NEW a \in DOMAIN code[i].exit.arms,
                      code[i].exit.arms[a].link # 0
               PROVE  ~Pending(code[i].exit.arms[a].link)' /\ code[code[i].exit.arms[a].link].dep
  BY DEF DepInv
<1>2. code[i].exit.arms[a].link <= Len(code) /\ Len(code) \in Nat
      /\ code[i].exit.arms[a].link \in Nat
  BY LinkRange
<1>. QED
  BY <1>1, <1>2 DEF DepInv, Pending

\* The end of the compilation preserves the marks, if no stub asked for it.
LEMMA DepEnding ==
  ASSUME IInv, DepInv, StubsFind,
         NEW ops, NEW end, NEW exit, NEW tbl, NEW cd, Ending(ops, end, exit, tbl, cd)
  PROVE  DepInv'
<1> DEFINE n == Len(code) + 1
           b == NewBlock(ops, end, exit)
<1>1. mode = "compile" /\ Marked(cd) /\ Linked(exit, cd) /\ g.caller.id = 0
  BY DEF Ending, StubsFind
<1>2. /\ Len(code') = n /\ n \in Nat /\ Resume(code', First(n))
      /\ \A i \in 1 .. n : i # g.caller.id => code'[i] = IF i = n THEN b ELSE cd[i]
  BY EndingStep
<1>3. mode' = "run" /\ \A l : ~Pending(l)'
  BY <1>2 DEF Resume, Pending
<1>4. b.dep = g.dep /\ b.exit = exit
  BY DEF NewBlock
<1> HIDE DEF b
<1>5. Len(code) \in Nat /\ n \in 1 .. n /\ \A i \in 1 .. Len(code) : i \in 1 .. n /\ i # n
  BY TableListed
<1>6. /\ \A i \in 1 .. Len(code) : code'[i] = cd[i]
      /\ code'[n] = b
  BY <1>1, <1>2, <1>5
<1>7. SUFFICES ASSUME NEW i \in 1 .. n, NEW a \in DOMAIN code'[i].exit.arms,
                      code'[i].exit.arms[a].link # 0
               PROVE  code'[code'[i].exit.arms[a].link].dep
  BY <1>2, <1>3 DEF DepInv
<1> DEFINE link == code'[i].exit.arms[a].link
<1>8. CASE i = n
  <2>1. link \in 1 .. Len(code) /\ cd[link].dep
    BY <1>1, <1>4, <1>5, <1>6, <1>7, <1>8 DEF Linked
  <2>. QED
    BY <1>6, <2>1
<1>9. CASE i # n
  <2>1. i \in 1 .. Len(code) /\ code'[i].exit = code[i].exit
    BY <1>1, <1>2, <1>5, <1>6, <1>9 DEF Marked
  <2>2. link # 0 /\ a \in DOMAIN code[i].exit.arms /\ link = code[i].exit.arms[a].link
    BY <1>7, <2>1
  <2>3. CASE Pending(link)
    <3>1. g.dep /\ link = n
      BY <2>1, <2>2, <2>3 DEF DepInv, Pending
    <3>. QED
      BY <1>4, <1>6, <3>1
  <2>4. CASE ~Pending(link)
    <3>1. code[link].dep
      BY <2>1, <2>2, <2>4 DEF DepInv
    <3>2. link \in 1 .. Len(code)
      BY <1>1, <1>7, <2>1, <2>2, <2>4, LinkRange
    <3>. QED
      BY <1>1, <1>6, <3>1, <3>2 DEF Marked
  <2>. QED
    BY <2>3, <2>4
<1>. QED
  BY <1>8, <1>9

\* A stub that finds what it asks for marks it.
LEMMA DepEnterdep ==
  ASSUME IInv, DepInv, StubsFind', RunEnterdep
  PROVE  DepInv'
<1>1. PICK a \in DOMAIN Here.exit.arms, d \in 0 .. Len(code) :
        LET arm == Here.exit.arms[a]
        IN  /\ mode = "run" /\ cur.id \in 1 .. Len(code) /\ Len(code') = Len(code)
            /\ \A i \in 1 .. Len(code) :
                 /\ code[i].dep => code'[i].dep
                 /\ DOMAIN code'[i].exit.arms = DOMAIN code[i].exit.arms
                 /\ \A x \in DOMAIN code[i].exit.arms :
                      \/ code'[i].exit.arms[x].link = code[i].exit.arms[x].link
                      \/ d # 0 /\ code'[i].exit.arms[x].link = d
            /\ \/ d = 0 /\ UmcEnter(arm.dst, arm.znz, [id |-> cur.id, arm |-> a])
               \/ d # 0 /\ code'[d].dep /\ Resume(code', d)
  BY ZenonT(60), EnterdepStep
<1>2. cur.id # 0
  BY <1>1, TableListed
<1>3. d # 0 /\ code'[d].dep /\ mode' = "run"
  BY <1>1, <1>2 DEF UmcEnter, Compiling, StubsFind, Resume
<1>4. SUFFICES ASSUME NEW i \in 1 .. Len(code), NEW x \in DOMAIN code'[i].exit.arms,
                      code'[i].exit.arms[x].link # 0
               PROVE  code'[code'[i].exit.arms[x].link].dep
  BY <1>1, <1>3 DEF DepInv, Pending
<1>5. x \in DOMAIN code[i].exit.arms
  BY <1>1
<1>6. CASE code'[i].exit.arms[x].link = d
  BY <1>3, <1>6
<1>7. CASE code'[i].exit.arms[x].link = code[i].exit.arms[x].link
  <2> DEFINE link == code[i].exit.arms[x].link
  <2>1. link \in 1 .. Len(code) /\ ~Pending(link)
    <3>1. link # 0
      BY <1>4, <1>7
    <3>2. link \in Nat /\ Len(code) \in Nat /\ link <= Len(code) /\ mode # "compile"
      BY <1>1, <1>5, LinkRange
    <3> HIDE DEF link
    <3>. QED
      BY <3>1, <3>2 DEF Pending
  <2>2. code[link].dep
    BY <1>4, <1>5, <1>7, <2>1 DEF DepInv
  <2>. QED
    BY <1>1, <1>7, <2>1, <2>2
<1>. QED
  BY <1>1, <1>5, <1>6, <1>7

\* Falling through preserves the marks: the next block is marked from the start.
LEMMA DepFall ==
  ASSUME IInv, DepInv, CompileFall
  PROVE  DepInv'
<1> DEFINE n == Len(code) + 1
           arm == Arm(g.time, {}, n + 1)
           fall == Exit("fall", g.time, <<arm>>)
           b == NewBlock(<<>>, g.time, fall)
<1>1. /\ Len(code') = n /\ n \in Nat /\ b.exit = fall /\ mode = "compile"
      /\ \E z \in SUBSET Facts : g' = Compiling(g.time, z, TRUE, First(n), g.caller)
      /\ UNCHANGED <<prog, proglen, prognoex, mode, cur, pw>>
      /\ \A i \in 1 .. Len(code) : code'[i] = code[i]
      /\ code'[n] = b
  BY FallStep
<1>2. g'.dep /\ mode' = "compile"
  BY <1>1 DEF Compiling
<1>3. DOMAIN b.exit.arms = {1} /\ b.exit.arms[1].link = n + 1 /\ b.dep = g.dep
  BY <1>1 DEF Exit, Arm, NewBlock
<1> HIDE DEF b
<1>4. Len(code) \in Nat /\ \A i \in 1 .. n : i = n \/ i \in 1 .. Len(code)
  BY TableListed
<1>5. SUFFICES ASSUME NEW i \in 1 .. n, NEW a \in DOMAIN code'[i].exit.arms,
                      code'[i].exit.arms[a].link # 0
               PROVE  LET link == code'[i].exit.arms[a].link
                      IN  IF link = n + 1 THEN g'.dep ELSE code'[link].dep
  BY <1>1, <1>2 DEF DepInv, Pending
<1>6. CASE i = n
  BY <1>1, <1>2, <1>3, <1>5, <1>6
<1>7. CASE i \in 1 .. Len(code)
  <2>1. code'[i] = code[i]
    BY <1>1, <1>7
  <2> DEFINE link == code[i].exit.arms[a].link
  <2>2. CASE Pending(link)
    <3>1. g.dep /\ link = n
      BY <1>5, <1>7, <2>1, <2>2 DEF DepInv, Pending
    <3>2. n # n + 1
      BY <1>1
    <3>. QED
      BY <1>1, <1>3, <2>1, <3>1, <3>2
  <2>3. CASE ~Pending(link)
    <3>1. code[link].dep /\ link \in 1 .. Len(code)
      <4>1. a \in DOMAIN code[i].exit.arms /\ link # 0
        BY <1>5, <2>1
      <4>2. link \in Nat /\ Len(code) \in Nat /\ link <= Len(code)
        BY <1>1, <1>7, <2>3, <4>1, LinkRange
      <4>3. code[link].dep
        BY <1>7, <2>3, <4>1 DEF DepInv
      <4> HIDE DEF link
      <4>. QED
        BY <4>1, <4>2, <4>3
    <3>2. link # n + 1
      BY <1>4, <3>1
    <3>. QED
      BY <1>1, <2>1, <3>1, <3>2
  <2>. QED
    BY <2>2, <2>3
<1>. QED
  BY <1>4, <1>6, <1>7

\* As long as stubs find what they ask for every step preserves the marks.
LEMMA DepStep ==
  ASSUME IInv, IInv', DepInv, StubsFind, StubsFind', [Next]_vars
  PROVE  DepInv'
<1>1. CASE CompileOp \/ CompileNand \/ CompileAmend
  <2>1. UNCHANGED <<code, mode>> /\ g'.dep = g.dep
    BY <1>1 DEF CompileOp, CompileNand, CompileAmend, Emit, IInv, ControlOK, Compilations
  <2>. QED
    BY <2>1 DEF DepInv, Pending
<1>2. CASE CompileStop \/ CompileEnd \/ CompileNoex \/ CompileLoad
  BY <1>2, PlainEnding, DepEnding
<1>3. CASE CompileLoadC
  BY <1>3, LoadCEnding, DepEnding
<1>4. CASE CompileCond
  BY <1>4, CondEnding, DepEnding
<1>5. CASE RunLoadfar \/ RunNoex \/ ShootWorld
  <2>1. code' = <<>> /\ Len(code') = 0
    BY <1>5, NewWorldFacts DEF RunLoadfar, RunNoex, ShootWorld
  <2>. QED
    BY <2>1 DEF DepInv
<1>6. CASE RunOp \/ RunStore \/ RunPostwrite \/ RunStop \/ RunLink \/ RunEnter
  BY <1>6, DepKept
     DEF RunOp, RunStore, RunPostwrite, RunStop, RunLink, RunEnter, Running, Exiting
<1>7. CASE ShootBlock \/ ShootDone
  BY <1>7, DepKept DEF ShootBlock, ShootDone
<1>8. CASE UNCHANGED vars
  BY <1>8 DEF vars, DepInv, Pending
<1>. QED
  BY <1>1, <1>2, <1>3, <1>4, <1>5, <1>6, <1>7, <1>8, DepFall, DepEnterdep
     DEF Next, Compile, Run, Shoot

-----------------------------------------------------------------------------
(* What follows of the second flaw: links *)

\* A step of running code leaves links that lead to the table as they are, while
\* what they lead to stays there, or makes such links.
LEMMA LinkKept ==
  ASSUME IInv, LinkInv, mode # "compile", Len(code') = Len(code),
         \A i \in 1 .. Len(code) :
           /\ Same(code'[i], code[i])
           /\ DOMAIN code'[i].exit.arms = DOMAIN code[i].exit.arms
           /\ \A a \in DOMAIN code[i].exit.arms :
                LET new == code'[i].exit.arms[a]
                    old == code[i].exit.arms[a]
                IN  /\ new.dst = old.dst
                    /\ \/ /\ new.link = old.link
                          /\ old.link \in Listed(progblks) => old.link \in Listed(progblks')
                       \/ /\ new.link \in Listed(progblks') /\ new.link \in 1 .. Len(code)
                          /\ code[new.link].begin = old.dst,
         mode' = "compile" =>
           /\ g'.first = 0
           /\ g'.caller.id # 0 =>
                code'[g'.caller.id].exit.arms[g'.caller.arm].dst = g'.begin
  PROVE  LinkInv'
<1>1. ASSUME NEW i \in 1 .. Len(code), NEW a \in DOMAIN code'[i].exit.arms,
             code'[i].exit.arms[a].link # 0
      PROVE  /\ code'[i].exit.arms[a].link \in Listed(progblks')
             /\ code'[code'[i].exit.arms[a].link].begin = code'[i].exit.arms[a].dst
  <2> DEFINE new == code'[i].exit.arms[a]
             old == code[i].exit.arms[a]
  <2>1. /\ a \in DOMAIN code[i].exit.arms /\ new.dst = old.dst
        /\ \/ /\ new.link = old.link
              /\ old.link \in Listed(progblks) => old.link \in Listed(progblks')
           \/ /\ new.link \in Listed(progblks') /\ new.link \in 1 .. Len(code)
              /\ code[new.link].begin = old.dst
    OBVIOUS
  <2>2. CASE /\ new.link = old.link
             /\ old.link \in Listed(progblks) => old.link \in Listed(progblks')
    <3>1. LinkOK(old) /\ ~Pending(old.link) /\ old.link # 0
      BY <1>1, <2>1, <2>2 DEF LinkInv, Pending
    <3>2. old.link \in Listed(progblks) /\ code[old.link].begin = old.dst
      BY <3>1 DEF LinkOK
    <3>3. old.link \in 1 .. Len(code)
      BY <3>2, ListedType DEF IInv, StoreOK
    <3>4. code'[old.link].begin = code[old.link].begin
      BY <3>3 DEF Same
    <3>. QED
      BY <2>1, <2>2, <3>2, <3>4
  <2>3. CASE /\ new.link \in Listed(progblks') /\ new.link \in 1 .. Len(code)
             /\ code[new.link].begin = old.dst
    <3>1. code'[new.link].begin = code[new.link].begin
      BY <2>3 DEF Same
    <3>. QED
      BY <2>1, <2>3, <3>1
  <2>. QED
    BY <2>1, <2>2, <2>3
<1>2. ASSUME NEW i \in 1 .. Len(code), code'[i].exit.k = "fall"
      PROVE  /\ DOMAIN code'[i].exit.arms = {1}
             /\ code'[i].exit.arms[1].dst = code'[i].end
             /\ code'[i].exit.arms[1].link # 0
  <2>1. /\ code[i].exit.k = "fall" /\ code'[i].end = code[i].end
    BY <1>2 DEF Same
  <2>2. /\ DOMAIN code[i].exit.arms = {1} /\ code[i].exit.arms[1].dst = code[i].end
        /\ code[i].exit.arms[1].link # 0
    BY <2>1 DEF LinkInv
  <2>3. 1 \in DOMAIN code[i].exit.arms
    BY <2>2
  <2>4. code'[i].exit.arms[1].dst = code[i].exit.arms[1].dst
    BY <2>3
  <2>5. \/ code'[i].exit.arms[1].link = code[i].exit.arms[1].link
        \/ code'[i].exit.arms[1].link \in 1 .. Len(code)
    BY <2>3
  <2>6. 0 \notin 1 .. Len(code)
    <3>1. Len(code) \in Nat
      BY TableListed
    <3>2. \A n \in Nat : 0 \notin 1 .. n
      OBVIOUS
    <3>. QED
      BY <3>1, <3>2
  <2>. QED
    BY <2>1, <2>2, <2>4, <2>5, <2>6
<1>3. \A i \in 1 .. Len(code') : \A a \in DOMAIN code'[i].exit.arms :
        LinkOK(code[i].exit.arms[a])'
  BY <1>1 DEF LinkOK
<1>4. mode' = "compile" => g'.first = 0
  OBVIOUS
<1>. QED
  BY <1>2, <1>3, <1>4 DEF LinkInv

\* The end of the compilation preserves the links.
LEMMA LinkEnding ==
  ASSUME IInv, LinkInv,
         NEW ops, NEW end, NEW exit, NEW tbl, NEW cd, Ending(ops, end, exit, tbl, cd)
  PROVE  LinkInv'
<1> DEFINE n == Len(code) + 1
           b == NewBlock(ops, end, exit)
<1>1. mode = "compile" /\ Marked(cd) /\ Linked(exit, cd) /\ exit.k # "fall"
  BY DEF Ending, ExitAt
<1>2. /\ Len(code') = n /\ n \in Nat /\ Resume(code', First(n))
      /\ Listed(progblks') = Listed(progblks) \cup {n}
      /\ \A i \in 1 .. n :
           LET old == IF i = n THEN b ELSE cd[i]
           IN  /\ Same(code'[i], old)
               /\ DOMAIN code'[i].exit.arms = DOMAIN old.exit.arms
               /\ i # g.caller.id => code'[i] = old
               /\ i = g.caller.id => \A a \in DOMAIN old.exit.arms :
                    /\ code'[i].exit.arms[a].dst = old.exit.arms[a].dst
                    /\ a # g.caller.arm => code'[i].exit.arms[a] = old.exit.arms[a]
                    /\ a = g.caller.arm => code'[i].exit.arms[a].link = First(n)
  BY EndingStep
<1>3. mode' = "run" /\ \A l : ~Pending(l)'
  BY <1>2 DEF Resume, Pending
<1>4. b.begin = g.begin /\ b.end = end /\ b.exit = exit
  BY DEF NewBlock
<1> HIDE DEF b
<1>5. /\ Len(code) \in Nat /\ n \in 1 .. n
      /\ \A i \in 1 .. n : i = n \/ i \in 1 .. Len(code)
      /\ \A i \in 1 .. Len(code) : i \in 1 .. n /\ i # n
      /\ Listed(progblks) \subseteq 1 .. Len(code)
  <2>1. Listed(progblks) \subseteq 1 .. Len(code)
    BY ListedType DEF IInv, StoreOK
  <2>. QED
    BY <2>1, TableListed
<1>6. GoodCaller(g.caller, code) /\ g.first <= Len(code) /\ g.first \in Nat
  BY <1>1, CompilationFacts
<1>7. code'[n].begin = g.begin /\ \A i \in 1 .. Len(code) : code'[i].begin = code[i].begin
  <2>1. \A i \in 1 .. Len(code) : Same(code'[i], cd[i]) /\ Same(cd[i], code[i])
    BY <1>1, <1>2, <1>5 DEF Marked
  <2>. QED
    BY <1>2, <1>4, <1>5, <2>1 DEF Same
<1>8. /\ First(n) \in Listed(progblks') /\ First(n) # 0
      /\ code'[First(n)].begin = IF g.first = 0 THEN g.begin ELSE code[g.first].begin
  <2>1. CASE g.first = 0
    BY <1>2, <1>5, <1>7, <2>1 DEF First
  <2>2. CASE g.first # 0
    <3>1. g.first \in Listed(progblks)
      BY <1>1, <2>2 DEF LinkInv
    <3>. QED
      BY <1>2, <1>5, <1>7, <2>2, <3>1 DEF First
  <2>. QED
    BY <2>1, <2>2
<1>9. ASSUME NEW i \in 1 .. Len(code), NEW a \in DOMAIN code'[i].exit.arms
      PROVE  /\ a \in DOMAIN code[i].exit.arms
             /\ code'[i].exit.arms[a].dst = code[i].exit.arms[a].dst
             /\ \/ code'[i].exit.arms[a].link = code[i].exit.arms[a].link
                \/ /\ i = g.caller.id /\ a = g.caller.arm
                   /\ code'[i].exit.arms[a].link = First(n)
  <2>1. cd[i].exit = code[i].exit /\ i \in 1 .. n /\ i # n
    BY <1>1, <1>5 DEF Marked
  <2>2. a \in DOMAIN cd[i].exit.arms
    BY <1>2, <2>1
  <2>3. CASE i # g.caller.id
    BY <1>2, <2>1, <2>2, <2>3
  <2>4. CASE i = g.caller.id
    <3>1. /\ code'[i].exit.arms[a].dst = cd[i].exit.arms[a].dst
          /\ a # g.caller.arm => code'[i].exit.arms[a] = cd[i].exit.arms[a]
          /\ a = g.caller.arm => code'[i].exit.arms[a].link = First(n)
      BY <1>2, <2>1, <2>2, <2>4
    <3>. QED
      BY <2>1, <2>2, <2>4, <3>1
  <2>. QED
    BY <2>3, <2>4
<1>10. ASSUME NEW i \in 1 .. Len(code), NEW a \in DOMAIN code'[i].exit.arms,
              code'[i].exit.arms[a].link # 0
       PROVE  LET arm == code'[i].exit.arms[a]
              IN  arm.link \in Listed(progblks') /\ code'[arm.link].begin = arm.dst
  <2> DEFINE arm == code'[i].exit.arms[a]
             old == code[i].exit.arms[a]
  <2>1. CASE arm.link = old.link
    <3>1. LinkOK(old) /\ old.link # 0 /\ arm.dst = old.dst
      BY <1>9, <1>10, <2>1 DEF LinkInv
    <3>2. CASE Pending(old.link) /\ old.dst = g.begin
      BY <1>2, <1>7, <2>1, <3>1, <3>2 DEF Pending
    <3>3. CASE old.link \in Listed(progblks) /\ code[old.link].begin = old.dst
      <4>1. old.link \in 1 .. Len(code)
        BY <1>5, <3>3
      <4>2. code'[old.link].begin = code[old.link].begin
        BY <1>7, <4>1
      <4>. QED
        BY <1>2, <2>1, <3>1, <3>3, <4>2
    <3>. QED
      BY <3>1, <3>2, <3>3 DEF LinkOK
  <2>2. CASE i = g.caller.id /\ a = g.caller.arm /\ arm.link = First(n)
    <3>1. g.caller.id # 0
      BY <1>5, <2>2
    <3>2. old.dst = IF g.first = 0 THEN g.begin ELSE code[g.first].begin
      BY <1>1, <2>2, <3>1 DEF LinkInv
    <3>. QED
      BY <1>8, <1>9, <2>2, <3>2
  <2>. QED
    BY <1>9, <2>1, <2>2
<1>11. ASSUME NEW a \in DOMAIN code'[n].exit.arms, code'[n].exit.arms[a].link # 0
       PROVE  LET arm == code'[n].exit.arms[a]
              IN  arm.link \in Listed(progblks') /\ code'[arm.link].begin = arm.dst
  <2>1. n # g.caller.id
    BY <1>5, <1>6 DEF GoodCaller
  <2>2. code'[n].exit.arms = exit.arms
    BY <1>2, <1>4, <1>5, <2>1
  <2>. QED
    BY <1>1, <1>2, <1>5, <1>7, <1>11, <2>2 DEF Linked
<1>12. ASSUME NEW i \in 1 .. n, code'[i].exit.k = "fall"
       PROVE  /\ DOMAIN code'[i].exit.arms = {1}
              /\ code'[i].exit.arms[1].dst = code'[i].end
              /\ code'[i].exit.arms[1].link # 0
  <2>1. i # n
    BY <1>1, <1>2, <1>4, <1>5, <1>12 DEF Same
  <2>2. i \in 1 .. Len(code)
    BY <1>5, <2>1
  <2>3. Same(code'[i], cd[i]) /\ Same(cd[i], code[i]) /\ cd[i].exit = code[i].exit
        /\ DOMAIN code'[i].exit.arms = DOMAIN cd[i].exit.arms
    BY <1>1, <1>2, <2>1, <2>2 DEF Marked
  <2>4. code[i].exit.k = "fall" /\ code'[i].end = code[i].end
    BY <1>12, <2>3 DEF Same
  <2>5. /\ DOMAIN code[i].exit.arms = {1} /\ code[i].exit.arms[1].dst = code[i].end
        /\ code[i].exit.arms[1].link # 0
    BY <2>2, <2>4 DEF LinkInv
  <2>. QED
    BY <1>8, <1>9, <2>2, <2>3, <2>4, <2>5
<1>13. \A i \in 1 .. Len(code') : \A a \in DOMAIN code'[i].exit.arms :
         LinkOK(code[i].exit.arms[a])'
  BY ZenonT(60), <1>2, <1>5, <1>10, <1>11 DEF LinkOK
<1>. QED
  BY <1>2, <1>3, <1>12, <1>13 DEF LinkInv

\* Falling through preserves the links: the next block will be where the exit of
\* this one leads.
LEMMA LinkFall ==
  ASSUME IInv, LinkInv, CompileFall
  PROVE  LinkInv'
<1> DEFINE n == Len(code) + 1
           arm == Arm(g.time, {}, n + 1)
           fall == Exit("fall", g.time, <<arm>>)
           b == NewBlock(<<>>, g.time, fall)
<1>1. /\ Len(code') = n /\ n \in Nat /\ b.exit = fall /\ mode = "compile" /\ mode' = mode
      /\ \E z \in SUBSET Facts : g' = Compiling(g.time, z, TRUE, First(n), g.caller)
      /\ Listed(progblks') = Listed(progblks) \cup {n}
      /\ \A i \in 1 .. Len(code) : code'[i] = code[i]
      /\ code'[n] = b
  BY FallStep
<1>2. /\ mode' = "compile" /\ g'.begin = g.time /\ g'.first = First(n)
      /\ g'.caller = g.caller
  BY <1>1 DEF Compiling
<1>3. /\ DOMAIN b.exit.arms = {1} /\ b.exit.arms[1] = arm /\ b.exit.k = "fall"
      /\ arm.link = n + 1 /\ arm.dst = g.time /\ b.end = g.time /\ b.begin = g.begin
  <2>1. b.exit = fall /\ b.end = g.time /\ b.begin = g.begin
    BY DEF NewBlock
  <2>2. arm.link = n + 1 /\ arm.dst = g.time
    BY DEF Arm
  <2> HIDE DEF b, arm
  <2>3. DOMAIN fall.arms = {1} /\ fall.arms[1] = arm /\ fall.k = "fall"
    BY DEF Exit
  <2>. QED
    BY <2>1, <2>2, <2>3
<1> HIDE DEF b, arm, fall
<1>4. /\ Len(code) \in Nat /\ n \in 1 .. n /\ n + 1 # 0
      /\ \A i \in 1 .. n : i = n \/ i \in 1 .. Len(code)
      /\ \A i \in 1 .. Len(code) : i \in 1 .. n /\ i # n
      /\ Listed(progblks) \subseteq 1 .. Len(code)
  <2>1. Listed(progblks) \subseteq 1 .. Len(code)
    BY ListedType DEF IInv, StoreOK
  <2>. QED
    BY <2>1, TableListed
<1>5. GoodCaller(g.caller, code) /\ g.first <= Len(code) /\ g.first \in Nat
  BY <1>1, CompilationFacts
<1>6. ASSUME NEW i \in 1 .. n, NEW a \in DOMAIN code'[i].exit.arms
      PROVE  LinkOK(code[i].exit.arms[a])'
  <2>1. CASE i = n
    <3>1. code'[i].exit.arms[a] = arm
      BY <1>1, <1>3, <1>6, <2>1
    <3>. QED
      BY <1>1, <1>2, <1>3, <3>1 DEF LinkOK, Pending
  <2>2. CASE i \in 1 .. Len(code)
    <3> DEFINE old == code[i].exit.arms[a]
    <3>1. a \in DOMAIN code[i].exit.arms /\ code'[i].exit.arms[a] = old
      BY <1>1, <1>6, <2>2
    <3>2. LinkOK(old)
      BY <2>2, <3>1 DEF LinkInv
    <3>3. CASE old.link = 0
      BY <3>1, <3>3 DEF LinkOK
    <3>4. CASE Pending(old.link) /\ old.dst = g.begin
      <4>1. old.link = n /\ code'[n].begin = g.begin
        BY <1>1, <1>3, <3>4 DEF Pending
      <4>. QED
        BY <1>1, <3>1, <3>4, <4>1 DEF LinkOK
    <3>5. CASE old.link \in Listed(progblks) /\ code[old.link].begin = old.dst
      <4>1. code'[old.link].begin = code[old.link].begin
        BY <1>1, <1>4, <3>5
      <4>. QED
        BY <1>1, <3>1, <3>5, <4>1 DEF LinkOK
    <3>. QED
      BY <3>2, <3>3, <3>4, <3>5 DEF LinkOK
  <2>. QED
    BY <1>4, <2>1, <2>2
<1>7. ASSUME NEW i \in 1 .. n, code'[i].exit.k = "fall"
      PROVE  /\ DOMAIN code'[i].exit.arms = {1}
             /\ code'[i].exit.arms[1].dst = code'[i].end
             /\ code'[i].exit.arms[1].link # 0
  <2>1. CASE i = n
    BY <1>1, <1>3, <1>4, <2>1
  <2>2. CASE i \in 1 .. Len(code)
    BY <1>1, <1>7, <2>2 DEF LinkInv
  <2>. QED
    BY <1>4, <2>1, <2>2
<1>8. /\ First(n) # 0 /\ First(n) \in Listed(progblks')
      /\ code'[First(n)].begin = IF g.first = 0 THEN g.begin ELSE code[g.first].begin
  <2>1. CASE g.first = 0
    BY <1>1, <1>3, <1>4, <2>1 DEF First
  <2>2. CASE g.first # 0
    <3>1. g.first \in Listed(progblks)
      BY <1>1, <2>2 DEF LinkInv
    <3>. QED
      BY <1>1, <1>4, <2>2, <3>1 DEF First
  <2>. QED
    BY <2>1, <2>2
<1>9. ASSUME g.caller.id # 0
      PROVE  code'[g.caller.id].exit.arms[g.caller.arm].dst = code'[First(n)].begin
  <2>1. code'[g.caller.id] = code[g.caller.id]
    BY <1>1, <1>5, <1>9 DEF GoodCaller
  <2>2. code[g.caller.id].exit.arms[g.caller.arm].dst =
          IF g.first = 0 THEN g.begin ELSE code[g.first].begin
    BY <1>1, <1>9 DEF LinkInv
  <2>. QED
    BY <1>8, <2>1, <2>2
<1>10. \A i \in 1 .. Len(code') :
         /\ \A a \in DOMAIN code'[i].exit.arms : LinkOK(code[i].exit.arms[a])'
         /\ code'[i].exit.k = "fall" =>
              /\ DOMAIN code'[i].exit.arms = {1}
              /\ code'[i].exit.arms[1].dst = code'[i].end
              /\ code'[i].exit.arms[1].link # 0
  BY <1>1, <1>6, <1>7
<1>. QED
  BY <1>2, <1>8, <1>9, <1>10 DEF LinkInv

\* Where code and what leads to it are not changed the links are as before.
LEMMA LinkSame ==
  ASSUME IInv, LinkInv, mode # "compile", UNCHANGED code,
         \A i \in 1 .. Len(code) : \A a \in DOMAIN code[i].exit.arms :
           code[i].exit.arms[a].link \in Listed(progblks) =>
             code[i].exit.arms[a].link \in Listed(progblks'),
         mode' = "compile" => g'.first = 0 /\ g'.caller.id = 0
  PROVE  LinkInv'
<1>1. \A i \in 1 .. Len(code) : Same(code'[i], code[i])
  BY DEF Same
<1>. QED
  BY <1>1, LinkKept

\* A stub is patched with the block that begins where it leads.
LEMMA LinkEnterdep == ASSUME IInv, LinkInv, RunEnterdep PROVE LinkInv'
<1>1. PICK a \in DOMAIN Here.exit.arms, d \in 0 .. Len(code) :
        LET arm == Here.exit.arms[a]
        IN  /\ mode = "run" /\ Listed(progblks') = Listed(progblks) /\ Len(code') = Len(code)
            /\ \A i \in 1 .. Len(code) :
                 /\ Same(code'[i], code[i])
                 /\ DOMAIN code'[i].exit.arms = DOMAIN code[i].exit.arms
                 /\ \A x \in DOMAIN code[i].exit.arms :
                      /\ code'[i].exit.arms[x].dst = code[i].exit.arms[x].dst
                      /\ \/ code'[i].exit.arms[x].link = code[i].exit.arms[x].link
                         \/ d # 0 /\ Here.exit.arms[a] = code[i].exit.arms[x]
                                  /\ code'[i].exit.arms[x].link = d
            /\ \/ d = 0 /\ code' = code
                        /\ UmcEnter(arm.dst, arm.znz, [id |-> cur.id, arm |-> a])
               \/ /\ d # 0 /\ d \in Listed(progblks) /\ code[d].begin = arm.dst
                  /\ Resume(code', d)
  BY EnterdepStep
<1>2. mode' = "compile" =>
        /\ g'.first = 0
        /\ code'[g'.caller.id].exit.arms[g'.caller.arm].dst = g'.begin
  BY <1>1 DEF Resume, UmcEnter, Compiling, Here
<1>3. d # 0 => d \in 1 .. Len(code)
  BY <1>1, ListedType DEF IInv, StoreOK
<1>4. ASSUME NEW i \in 1 .. Len(code), NEW x \in DOMAIN code[i].exit.arms
      PROVE  LET new == code'[i].exit.arms[x]
                 old == code[i].exit.arms[x]
             IN  /\ new.dst = old.dst
                 /\ \/ /\ new.link = old.link
                       /\ old.link \in Listed(progblks) => old.link \in Listed(progblks')
                    \/ /\ new.link \in Listed(progblks') /\ new.link \in 1 .. Len(code)
                       /\ code[new.link].begin = old.dst
  BY <1>1, <1>3
<1>. QED
  BY <1>1, <1>2, <1>4, LinkKept

\* As long as no block that is linked to goes alone every step preserves the links.
LEMMA LinkStep ==
  ASSUME IInv, IInv', LinkInv, LinkedStay, [Next]_vars
  PROVE  LinkInv'
<1>1. CASE CompileOp \/ CompileNand \/ CompileAmend
  <2>1. /\ UNCHANGED <<code, mode, progblks>>
        /\ g'.begin = g.begin /\ g'.first = g.first /\ g'.caller = g.caller
    BY <1>1 DEF CompileOp, CompileNand, CompileAmend, Emit, IInv, ControlOK, Compilations
  <2>. QED
    BY <2>1 DEF LinkInv, LinkOK, Pending
<1>2. CASE CompileStop \/ CompileEnd \/ CompileNoex \/ CompileLoad
  BY <1>2, PlainEnding, LinkEnding
<1>3. CASE CompileLoadC
  BY <1>3, LoadCEnding, LinkEnding
<1>4. CASE CompileCond
  BY <1>4, CondEnding, LinkEnding
<1>5. CASE RunLoadfar \/ RunNoex \/ ShootWorld
  <2>1. code' = <<>> /\ Len(code') = 0
    BY <1>5, NewWorldFacts DEF RunLoadfar, RunNoex, ShootWorld
  <2>2. mode' = "compile" => g'.first = 0 /\ g'.caller.id = 0
    BY <1>5 DEF RunLoadfar, RunNoex, ShootWorld, UmcEnter, Compiling, NoCaller
  <2>. QED
    BY <2>1, <2>2 DEF LinkInv
<1>6. CASE RunOp \/ RunStore \/ RunPostwrite \/ RunStop \/ RunLink
  <2>1. mode = "run" /\ mode' # "compile" /\ UNCHANGED <<code, progblks>>
    BY <1>6 DEF RunOp, RunStore, RunPostwrite, RunStop, RunLink, Running, Exiting, Resume
  <2>. QED
    BY <2>1, LinkSame
<1>7. CASE RunEnter
  <2>1. /\ mode = "run" /\ UNCHANGED code
        /\ mode' = "compile" => g'.first = 0 /\ g'.caller.id = 0
    BY <1>7 DEF RunEnter, Exiting, UmcEnter, Compiling, NoCaller, Resume
  <2>2. PICK x \in 0 .. proglen, z \in SUBSET Facts : progblks' = Touch(progblks, x, z)
    BY <1>7 DEF RunEnter
  <2>3. x \in Addr /\ progblks \in Tables(code)
    <3>1. proglen \in 1 .. MaxLen /\ progblks \in Tables(code)
      BY DEF IInv, StoreOK
    <3>. QED
      BY <3>1, CodeCacheAssumption DEF Addr
  <2>4. Listed(progblks') = Listed(progblks)
    BY <2>2, <2>3, TouchListed
  <2>. QED
    BY <2>1, <2>4, LinkSame
<1>8. CASE ShootBlock
  <2>1. /\ mode = "shoot" /\ mode' = "shoot" /\ Hit # 0 /\ ~Needed(Hit) /\ UNCHANGED code
        /\ progblks' = Remblk(Hit)
    BY <1>8 DEF ShootBlock
  <2>2. Listed(progblks) \subseteq Listed(progblks') \cup {Hit}
    BY <2>1, RemblkListed
  <2>. QED
    BY <2>1, <2>2, LinkSame DEF LinkedStay
<1>9. CASE ShootDone
  <2>1. /\ mode = "shoot" /\ UNCHANGED <<code, progblks>>
        /\ mode' = "compile" => g'.first = 0 /\ g'.caller.id = 0
    BY <1>9 DEF ShootDone, UmcEnter, Compiling, NoCaller
  <2>. QED
    BY <2>1, LinkSame
<1>10. CASE UNCHANGED vars
  BY <1>10 DEF vars, LinkInv, LinkOK, Pending
<1>. QED
  BY <1>1, <1>2, <1>3, <1>4, <1>5, <1>6, <1>7, <1>8, <1>9, <1>10, LinkFall, LinkEnterdep
     DEF Next, Compile, Run, Shoot

-----------------------------------------------------------------------------
(* The rest of the block that runs *)

\* Whoever resumes at a block of the table has all of it to run.
LEMMA ResumeRest ==
  ASSUME SInv', mode' = "run", cur'.id \in Listed(progblks'),
         cur'.pos = code'[cur'.id].begin
  PROVE  RestOK'
<1>1. ASSUME NEW x \in Span(code'[cur'.id])
      PROVE  x \in prognowr' /\ code'[cur'.id].src[x] = prog'[x]
  <2>1. x \in prognowr'
    BY <1>1 DEF SInv, Exact, Covered
  <2>2. Shot' = {}
    BY DEF Shot
  <2>. QED
    BY <1>1, <2>1, <2>2 DEF SInv, Fresh
<1>. QED
  BY <1>1 DEF RestOK, Span, Here

LEMMA RestEnding ==
  ASSUME IInv, SInv', LinkInv,
         NEW ops, NEW end, NEW exit, NEW tbl, NEW cd, Ending(ops, end, exit, tbl, cd)
  PROVE  RestOK'
<1> DEFINE n == Len(code) + 1
<1>1. mode = "compile"
  BY DEF Ending
<1>2. /\ Resume(code', First(n)) /\ Listed(progblks') = Listed(progblks) \cup {n}
  BY EndingStep
<1>3. First(n) \in Listed(progblks')
  BY <1>1, <1>2 DEF LinkInv, First
<1>4. mode' = "run" /\ cur'.id = First(n) /\ cur'.pos = code'[First(n)].begin
  BY <1>2 DEF Resume
<1>. QED
  BY <1>3, <1>4, ResumeRest

\* Going on to the next platter leaves less, which is as it was.
LEMMA RestAdvance ==
  ASSUME IInv, SInv, RestOK, mode = "run", mode' = "run", ~AtExit, Advance(1),
         UNCHANGED <<code, prognowr>>, \A x \in prognowr : prog'[x] = prog[x]
  PROVE  RestOK'
<1>1. /\ cur.pos \in Nat /\ Here \in Blocks /\ Here.end \in Nat /\ cur.id \in Nat
  <2>1. Here \in Blocks /\ cur.id \in Nat /\ cur.pos \in 0 .. proglen /\ proglen \in Nat
    BY RunFacts
  <2>. QED
    BY <2>1, BlockParts
<1>2. cur'.id = cur.id /\ cur'.pos = cur.pos + 1
  BY DEF Advance, IInv, ControlOK
<1>3. Here' = Here
  BY <1>2 DEF Here
<1>4. \A x \in cur.pos + 1 .. Here.end - 1 : x \in cur.pos .. Here.end - 1
  BY <1>1
<1>. QED
  BY <1>2, <1>3, <1>4 DEF RestOK

\* A block of the table that reaches to where the shootdown was called from goes
\* on as the block that called it does; at the limit it falls through to one that
\* goes on so.
LEMMA SourceCovered ==
  ASSUME IInv, SInv, LinkInv, RestOK, mode = "shoot", cur.id # 0, pw.target \notin prognowr,
         NEW id \in Listed(progblks), cur.pos < code[id].end
  PROVE  \/ Here.end <= code[id].end
         \/ /\ code[id].end = code[id].begin + MaxBlk
            /\ \E f \in Listed(progblks) : code[f].begin = code[id].end
<1> DEFINE b == code[id]
<1>1. id \in 1 .. Len(code) /\ cur.id \in 1 .. Len(code)
  BY ListedType DEF IInv, StoreOK, ShootInv
<1>2. /\ b.begin \in Nat /\ b.end \in Nat /\ Here.begin \in Nat /\ Here.end \in Nat
      /\ b.end <= proglen /\ Here.end <= proglen /\ proglen \in Nat
  BY <1>1, BlockFacts DEF Here
<1>3. EndsRight(b, proglen, prognoex) /\ EndsRight(Here, proglen, prognoex)
  BY <1>1 DEF SInv, BlocksOK, Here
<1>4. cur.pos \in Nat /\ Here.begin <= cur.pos
  <2>1. cur.pos \in Nat
    BY Sizes DEF IInv, ControlOK
  <2>. QED
    BY <2>1 DEF IInv, ShootInv
<1>5. SUFFICES ASSUME b.end < Here.end
               PROVE  /\ b.end = b.begin + MaxBlk
                      /\ \E f \in Listed(progblks) : code[f].begin = b.end
  BY <1>2
<1>6. cur.pos < b.end
  OBVIOUS
<1> HIDE DEF b
<1>7. b.end # proglen /\ b.end \notin prognoex
  <2>1. b.end \in cur.pos .. Here.end - 1
    BY <1>2, <1>4, <1>5, <1>6
  <2>. QED
    BY <1>2, <1>5, <2>1 DEF RestOK
<1>8. ~(b.begin < b.end /\ b.src[b.end - 1] \in Enders)
  <2> SUFFICES ASSUME b.begin < b.end PROVE ~(b.src[b.end - 1] \in Enders)
    OBVIOUS
  <2> DEFINE y == b.end - 1
  <2>1. y \in Nat /\ y \in cur.pos .. Here.end - 1 /\ y \in Span(b) /\ y \in Span(Here)
        /\ y + 1 < Here.end
    BY <1>2, <1>4, <1>5, <1>6 DEF Span
  <2> HIDE DEF y
  <2>2. y # pw.target
    BY <2>1 DEF SInv, Exact, Covered, b
  <2>3. b.src[y] = prog[y]
    BY <2>1, <2>2 DEF SInv, Fresh, Shot, b
  <2>4. Here.src[y] = prog[y]
    BY <2>1, <2>2 DEF RestOK
  <2>5. Here.src[y] \notin Enders
    BY <1>3, <2>1 DEF EndsRight
  <2>. QED
    BY <2>3, <2>4, <2>5 DEF y
<1>9. b.end = b.begin + MaxBlk /\ b.exit.k = "fall"
  BY <1>3, <1>7, <1>8 DEF EndsRight
<1>10. \E f \in Listed(progblks) : code[f].begin = b.end
  <2>1. /\ DOMAIN b.exit.arms = {1} /\ b.exit.arms[1].dst = b.end
        /\ b.exit.arms[1].link # 0
    BY <1>1, <1>9 DEF LinkInv, b
  <2>2. LinkOK(b.exit.arms[1])
    BY <1>1, <2>1 DEF LinkInv, b
  <2>. QED
    BY <2>1, <2>2 DEF LinkOK, Pending
<1>. QED
  BY <1>9, <1>10

\* When the caller of um_postwrite goes on, no platter that it has left to run
\* has been shot down: what covers the platter of the amendment reaches its end.
LEMMA RestShootDone ==
  ASSUME IInv, SInv, LinkInv, RestOK, ShootDone
  PROVE  RestOK'
<1>1. /\ mode = "shoot" /\ Hit = 0
      /\ UNCHANGED <<prog, proglen, code, progblks, prognowr, prognoex>>
  BY DEF ShootDone
<1>2. pw.target \notin prognowr /\ Own = {}
  BY <1>1, NothingLeft DEF Own
<1>3. \/ mode' = "compile"
      \/ mode' = "run" /\ ~SourceGone /\ Advance(1)
  BY <1>2 DEF ShootDone, UmcEnter
<1>4. CASE mode' = "compile"
  BY <1>4 DEF RestOK
<1>5. CASE mode' = "run" /\ ~SourceGone /\ Advance(1)
  <2>1. pw.source \in prognowr /\ cur.id # 0
    BY <1>1, <1>5 DEF SourceGone, IInv, ShootInv
  <2>2. cur.pos = pw.source /\ pw.source \in Nat /\ proglen \in Nat
    BY <1>1, <2>1, ShootFacts DEF RestOK
  <2>3. /\ Here.begin \in Nat /\ Here.end \in Nat /\ cur.id \in 1 .. Len(code)
        /\ Here.begin <= cur.pos
    <3>1. cur.id \in 1 .. Len(code) /\ cur.pos >= Here.begin
      BY <1>1, <2>1 DEF IInv, ShootInv
    <3>2. Here.begin \in Nat /\ Here.end \in Nat
      BY <3>1, BlockFacts DEF Here
    <3>. QED
      BY <2>2, <3>1, <3>2
  <2>4. PICK id \in Listed(progblks) : pw.source \in Span(code[id])
    BY <1>2, <2>1 DEF SInv, Exact, Covered
  <2>5. \A i \in Listed(progblks) : code[i].begin \in Nat /\ code[i].end \in Nat
    <3>1. Listed(progblks) \subseteq 1 .. Len(code)
      BY ListedType DEF IInv, StoreOK
    <3>. QED
      BY <3>1, BlockFacts
  <2>6. \A i \in Listed(progblks) : Span(code[i]) \subseteq prognowr
    BY DEF SInv, Exact, Covered
  <2>7. ASSUME NEW x \in cur.pos + 1 .. Here.end - 1
        PROVE  x \in prognowr
    <3>1. CASE Here.end <= code[id].end
      <4>1. x \in Span(code[id])
        BY SMTT(30), <2>2, <2>3, <2>4, <2>5, <3>1 DEF Span
      <4>. QED
        BY <2>6, <4>1
    <3>2. CASE ~(Here.end <= code[id].end)
      <4> DEFINE b == code[id]
      <4>1. b.end = b.begin + MaxBlk /\ \E f \in Listed(progblks) : code[f].begin = b.end
        <5>1. cur.pos < b.end
          BY <2>2, <2>4, <2>5 DEF Span
        <5>. QED
          BY <1>1, <1>2, <2>1, <3>2, <5>1, SourceCovered
      <4>2. PICK f \in Listed(progblks) : code[f].begin = b.end
        BY <4>1
      <4> DEFINE c == code[f]
      <4>3. /\ b.begin \in Nat /\ b.end \in Nat /\ c.begin \in Nat /\ c.end \in Nat
            /\ b.begin <= pw.source /\ pw.source < b.end
        BY <2>2, <2>4, <2>5 DEF Span
      <4>4. Here.end <= Here.begin + MaxBlk
        BY <2>3 DEF SInv, BlocksOK, EndsRight, Here
      <4>5. CASE x < b.end
        <5>1. x \in Span(b)
          BY SMTT(30), <2>2, <2>3, <4>3, <4>5 DEF Span
        <5>. QED
          BY <2>6, <5>1
      <4>6. CASE ~(x < b.end)
        <5>1. cur.pos < c.end
          <6>1. f \in 1 .. Len(code)
            BY ListedType DEF IInv, StoreOK
          <6>2. c.begin <= c.end
            BY <6>1, BlockFacts
          <6>. QED
            BY <2>2, <4>2, <4>3, <6>2
        <5>2. Here.end <= c.end \/ c.end = c.begin + MaxBlk
          BY <1>1, <1>2, <2>1, <5>1, SourceCovered
        <5>3. Here.end <= c.end
          <6>1. c.begin = b.begin + MaxBlk
            BY <4>1, <4>2
          <6> HIDE DEF b, c
          <6>2. c.end = c.begin + MaxBlk => Here.end <= c.end
            <7>1. Here.begin < b.end /\ c.begin = b.end /\ MaxBlk \in Nat
              BY <2>2, <2>3, <4>1, <4>3, <6>1, CodeCacheAssumption
            <7>2. \A h, e, m \in Nat : h < e => h + m <= e + m
              OBVIOUS
            <7>3. Here.begin + MaxBlk <= c.begin + MaxBlk
              BY <2>3, <4>3, <7>1, <7>2
            <7>4. Here.begin + MaxBlk \in Nat /\ c.begin + MaxBlk \in Nat
              BY SMTT(30), <2>3, <4>3, <7>1
            <7>. QED
              BY <2>3, <4>4, <7>3, <7>4
          <6>. QED
            BY <5>2, <6>2
        <5>4. x \in Span(c)
          <6>1. c.begin = b.end
            BY <4>2
          <6> HIDE DEF b, c
          <6>. QED
            BY <2>2, <2>3, <4>3, <4>6, <5>3, <6>1 DEF Span
        <5>. QED
          BY <2>6, <5>4
      <4>. QED
        BY <4>5, <4>6
    <3>. QED
      BY <3>1, <3>2
  <2>8. ASSUME NEW x \in cur.pos + 1 .. Here.end - 1
        PROVE  Here.src[x] = prog[x]
    <3>1. x # pw.target
      BY <1>2, <2>7
    <3>2. x \in cur.pos .. Here.end - 1
      BY <2>2, <2>3
    <3>. QED
      BY <1>1, <2>1, <3>1, <3>2 DEF RestOK
  <2>9. cur'.id = cur.id /\ cur'.pos = cur.pos + 1
    BY <1>5 DEF Advance, IInv, ControlOK
  <2>10. Here' = Here
    BY <1>1, <2>9 DEF Here
  <2>. QED
    BY <1>1, <1>5, <2>7, <2>8, <2>9, <2>10 DEF RestOK
<1>. QED
  BY <1>3, <1>4, <1>5

\* Every step preserves it.
LEMMA RestStep ==
  ASSUME IInv, IInv', SInv, SInv', LinkInv, LinkInv', RestOK, [Next]_vars
  PROVE  RestOK'
<1>1. CASE mode' \notin {"run", "shoot"}
  BY <1>1 DEF RestOK
<1>2. CASE CompileOp \/ CompileNand \/ CompileAmend \/ CompileFall
  <2>1. mode = "compile" /\ mode' = mode
    BY <1>2 DEF CompileOp, CompileNand, CompileAmend, CompileFall, Compilable, Emit
  <2>. QED
    BY <1>1, <2>1
<1>3. CASE CompileStop \/ CompileEnd \/ CompileNoex \/ CompileLoad
  BY <1>3, PlainEnding, RestEnding
<1>4. CASE CompileLoadC
  BY <1>4, LoadCEnding, RestEnding
<1>5. CASE CompileCond
  BY <1>5, CondEnding, RestEnding
<1>6. CASE RunOp
  <2>1. mode = "run" /\ mode' = "run" /\ ~AtExit /\ Advance(1) /\ UNCHANGED <<code, prognowr, prog>>
    BY <1>6 DEF RunOp, Running
  <2>. QED
    BY <2>1, RestAdvance
<1>7. CASE RunStore
  <2> DEFINE op == OpAt(Here, cur.pos)
  <2>1. /\ mode = "run" /\ mode' = "run" /\ ~AtExit /\ Advance(1)
        /\ UNCHANGED <<proglen, code, progblks, prognowr, prognoex>>
        /\ \E v \in Insns : prog' = [prog EXCEPT ![op.t] = v]
    BY <1>7 DEF RunStore, Running
  <2>2. op.t \notin prognowr
    <3>1. op.t \in prognoex
      BY <1>7, StoreTarget
    <3>. QED
      BY <3>1 DEF SInv, Disjoint
  <2> HIDE DEF op
  <2>3. \A x \in prognowr : prog'[x] = prog[x]
    <3>1. prognowr \subseteq DOMAIN prog
      BY DEF IInv, StoreOK
    <3>. QED
      BY <2>1, <2>2, <3>1
  <2>. QED
    BY <2>1, <2>3, RestAdvance
<1>8. CASE RunPostwrite
  <2>1. /\ mode = "run" /\ ~AtExit /\ UNCHANGED <<proglen, code, progblks, prognowr, prognoex, g>>
    BY <1>8 DEF RunPostwrite, Running
  <2>2. PICK t \in 0 .. proglen - 1, v \in Insns :
          /\ prog' = [prog EXCEPT ![t] = v]
          /\ IF t \notin prognowr
             THEN Advance(1) /\ UNCHANGED <<mode, pw>>
             ELSE /\ mode' = "shoot"
                  /\ pw' = [target |-> t, source |-> cur.pos]
                  /\ UNCHANGED cur
    BY <1>8 DEF RunPostwrite
  <2>3. prognowr \subseteq DOMAIN prog
    BY DEF IInv, StoreOK
  <2>4. CASE t \notin prognowr
    <3>1. \A x \in prognowr : prog'[x] = prog[x]
      BY <2>2, <2>3, <2>4
    <3>. QED
      BY <2>1, <2>2, <2>4, <3>1, RestAdvance
  <2>5. CASE t \in prognowr
    <3>1. mode' = "shoot" /\ pw'.target = t /\ pw'.source = cur.pos /\ cur' = cur
      BY <2>2, <2>5
    <3>2. \A x \in cur.pos .. (Here.end - 1) : x \in prognowr /\ Here.src[x] = prog[x]
      BY <2>1 DEF RestOK
    <3>3. \A x \in prognowr : x \notin prognoex /\ (x # t => prog'[x] = prog[x])
      BY <2>2, <2>3 DEF SInv, Disjoint
    <3>4. Here' = Here
      BY <2>1, <3>1 DEF Here
    <3>. QED
      BY <2>1, <3>1, <3>2, <3>3, <3>4 DEF RestOK
  <2>. QED
    BY <2>4, <2>5
<1>9. CASE RunLink
  <2>1. mode = "run" /\ UNCHANGED <<code, progblks>>
    BY <1>9 DEF RunLink, Exiting
  <2>2. PICK arm \in ToSet(Here.exit.arms) : arm.link # 0 /\ Resume(code, arm.link)
    BY <1>9 DEF RunLink
  <2>3. cur.id \in 1 .. Len(code) /\ \E a \in DOMAIN Here.exit.arms : arm = Here.exit.arms[a]
    BY <2>1, RunFacts DEF ToSet
  <2>4. LinkOK(arm) /\ ~Pending(arm.link)
    BY <2>1, <2>3 DEF LinkInv, Pending, Here
  <2>5. arm.link \in Listed(progblks)
    BY <2>2, <2>4 DEF LinkOK
  <2>6. mode' = "run" /\ cur'.id = arm.link /\ cur'.pos = code'[arm.link].begin
    BY <2>1, <2>2 DEF Resume
  <2>. QED
    BY <2>1, <2>5, <2>6, ResumeRest
<1>10. CASE RunEnterdep
  <2>1. PICK d \in 0 .. Len(code) :
          /\ Listed(progblks') = Listed(progblks)
          /\ \/ \E x, z, stub : UmcEnter(x, z, stub)
             \/ d \in Listed(progblks) /\ Resume(code', d)
    BY <1>10, EnterdepStep
  <2>2. \/ mode' = "compile"
        \/ mode' = "run" /\ cur'.id = d /\ cur'.pos = code'[d].begin /\ d \in Listed(progblks')
    <3>1. CASE \E x, z, stub : UmcEnter(x, z, stub)
      BY <3>1 DEF UmcEnter
    <3>2. CASE d \in Listed(progblks) /\ Resume(code', d)
      BY <2>1, <3>2 DEF Resume
    <3>. QED
      BY <2>1, <3>1, <3>2
  <2>. QED
    BY <1>1, <2>2, ResumeRest
<1>11. CASE RunEnter
  <2>1. UNCHANGED code
    BY <1>11 DEF RunEnter
  <2>2. PICK x \in 0 .. proglen, z \in SUBSET Facts :
          LET d == Getblkx(progblks, x, z)
          IN  /\ \/ d # 0 /\ Resume(code, d)
                 \/ d = 0 /\ UmcEnter(x, z, NoCaller)
              /\ progblks' = Touch(progblks, x, z)
    BY <1>11 DEF RunEnter
  <2> DEFINE d == Getblkx(progblks, x, z)
  <2>3. x \in Addr /\ progblks \in Tables(code)
    <3>1. proglen \in 1 .. MaxLen /\ progblks \in Tables(code)
      BY DEF IInv, StoreOK
    <3>. QED
      BY <3>1, CodeCacheAssumption DEF Addr
  <2>4. CASE d = 0
    <3>1. mode' = "compile"
      BY <2>2, <2>4 DEF UmcEnter
    <3>. QED
      BY <1>1, <3>1
  <2>5. CASE d # 0
    <3>1. d \in Listed(progblks') /\ Resume(code, d)
      BY <2>2, <2>3, <2>5, TouchListed, FoundListed
    <3> HIDE DEF d
    <3>2. mode' = "run" /\ cur'.id = d /\ cur'.pos = code'[d].begin
      BY <2>1, <3>1 DEF Resume
    <3>. QED
      BY <3>1, <3>2, ResumeRest
  <2>. QED
    BY <2>4, <2>5
<1>12. CASE RunLoadfar \/ RunNoex \/ RunStop
  BY <1>1, <1>12 DEF RunLoadfar, RunNoex, RunStop, UmcEnter
<1>13. CASE ShootBlock
  <2>1. mode = "shoot" /\ UNCHANGED <<mode, prog, code, prognoex, cur, pw>>
    BY <1>13 DEF ShootBlock
  <2>2. Here' = Here
    BY <2>1 DEF Here
  <2>. QED
    BY <2>1, <2>2 DEF RestOK
<1>14. CASE ShootWorld
  <2>1. mode' = "shoot" /\ cur'.id = 0
    BY <1>14 DEF ShootWorld, NoBlock
  <2>. QED
    BY <2>1 DEF RestOK
<1>15. CASE UNCHANGED vars
  BY <1>15 DEF vars, RestOK, Here
<1>. QED
  BY <1>2, <1>3, <1>4, <1>5, <1>6, <1>7, <1>8, <1>9, <1>10, <1>11, <1>12, <1>13, <1>14, <1>15,
     RestShootDone
     DEF Next, Compile, Run, Shoot

-----------------------------------------------------------------------------
(* The theorems *)

\* If stubs find what they ask for, whatever a link leads to is marked as depended
\* on: this is what um_enterdep does for code that is there and not for code it
\* has to compile.
THEOREM MarksInvariance == Spec /\ []StubsFind => []DepInv
<1>1. Init => DepInv
  <2>1. SUFFICES ASSUME Init PROVE DepInv
    OBVIOUS
  <2>2. code = <<>> /\ Len(code) = 0
    BY <2>1 DEF Init
  <2>. QED
    BY <2>2 DEF DepInv
<1>2. DepInv /\ IInv /\ IInv' /\ StubsFind /\ StubsFind' /\ [Next]_vars => DepInv'
  BY DepStep
<1>. QED
  BY <1>1, <1>2, Invariance, PTL DEF Spec

\* No block that is marked is shot down alone.
LEMMA MarkedStay == ASSUME DepInv PROVE LinkedStay
<1>1. SUFFICES ASSUME mode = "shoot", Hit # 0, ~Needed(Hit),
                      NEW id \in 1 .. Len(code), NEW a \in DOMAIN code[id].exit.arms,
                      code[id].exit.arms[a].link = Hit
               PROVE  FALSE
  BY DEF LinkedStay
<1>. QED
  BY <1>1 DEF DepInv, Needed, Pending

\* As long as that is so, links lead to blocks of the table that begin where the
\* program goes.
THEOREM LinksInvariance == Spec /\ []LinkedStay => []LinkInv
<1>1. Init => LinkInv
  <2>1. SUFFICES ASSUME Init PROVE LinkInv
    OBVIOUS
  <2>2. code = <<>> /\ Len(code) = 0 /\ g.first = 0 /\ g.caller.id = 0
    BY <2>1 DEF Init, Compiling, NoCaller
  <2>. QED
    BY <2>2 DEF LinkInv
<1>2. LinkInv /\ IInv /\ IInv' /\ LinkedStay /\ [Next]_vars => LinkInv'
  BY LinkStep
<1>. QED
  BY <1>1, <1>2, Invariance, PTL DEF Spec

\* For every set of programs and every size, if every stub finds what it asks for:
\* a block that other code jumps straight to is in the table and marked, so that
\* shooting it down takes that code with it (depblk, delblk).
THEOREM LinksMarked == Spec /\ []StubsFind => []LinksAreDeps
<1>1. DepInv /\ LinkInv /\ IInv => LinksAreDeps
  <2>1. SUFFICES ASSUME DepInv, LinkInv, IInv, mode # "compile",
                        NEW id \in DOMAIN code, NEW a \in DOMAIN code[id].exit.arms,
                        code[id].exit.arms[a].link # 0
                 PROVE  /\ code[code[id].exit.arms[a].link].dep
                        /\ code[id].exit.arms[a].link \in Table
    BY DEF LinksAreDeps, ToSet
  <2>2. Table = Listed(progblks) /\ id \in 1 .. Len(code)
    BY <2>1, TableListed
  <2>3. LinkOK(code[id].exit.arms[a]) /\ ~Pending(code[id].exit.arms[a].link)
    BY <2>1, <2>2 DEF LinkInv, Pending
  <2>4. code[code[id].exit.arms[a].link].dep
    BY <2>1, <2>2, <2>3 DEF DepInv
  <2>. QED
    BY <2>1, <2>2, <2>3, <2>4 DEF LinkOK
<1>. QED
  BY <1>1, MarksInvariance, MarkedStay, LinksInvariance, Invariance, PTL

\* What is left to run of the block in control is protected, and was compiled
\* from what array 0 holds.
THEOREM RestInvariance == Spec /\ []LookaheadSafe /\ []LinkedStay => []RestOK
<1>1. Init => RestOK
  BY DEF Init, RestOK
<1>2. /\ IInv /\ IInv' /\ SInv /\ SInv' /\ LinkInv /\ LinkInv' /\ RestOK /\ [Next]_vars
      => RestOK'
  BY RestStep
<1>. QED
  BY <1>1, <1>2, Invariance, CacheInvariance, LinksInvariance, PTL DEF Spec

\* For every set of programs and every size, as long as look-ahead is safe and no
\* block that is linked to is shot down alone: the compiled code in control does
\* what the platter it stands for now says (README:23).
THEOREM CodeIsCoherent == Spec /\ []LookaheadSafe /\ []LinkedStay => []Coherent
<1>1. IInv /\ RestOK => Coherent
  <2>1. SUFFICES ASSUME IInv, RestOK, mode = "run", cur.pos \in Span(Here)
                 PROVE  Here.src[cur.pos] = prog[cur.pos]
    BY DEF Coherent
  <2>2. cur.pos \in cur.pos .. Here.end - 1
    <3>1. Here.begin \in Nat /\ Here.end \in Nat
      BY <2>1, RunFacts, BlockParts
    <3>. QED
      BY <2>1, <3>1 DEF Span
  <2>. QED
    BY <2>1, <2>2 DEF RestOK
<1>. QED
  BY <1>1, Invariance, RestInvariance, PTL

-----------------------------------------------------------------------------
(* Programs in which nothing need be supposed *)

\* No program and no amendment has a platter of the classes cs.
Without(cs) ==
  /\ \A im \in Images : \A i \in DOMAIN im : im[i] \notin cs
  /\ Insns \cap cs = {}

NoneOf(cs) == \A x \in 0 .. proglen - 1 : prog[x] \notin cs

LEMMA NoneStep ==
  ASSUME NEW cs, Without(cs), IInv, NoneOf(cs), [Next]_vars
  PROVE  NoneOf(cs)'
<1>1. prog \in [0 .. proglen - 1 -> Classes]
  BY DEF IInv, StoreOK
<1>2. CASE UNCHANGED <<prog, proglen>>
  BY <1>2 DEF NoneOf
<1>3. ASSUME NEW t, NEW v \in Insns, prog' = [prog EXCEPT ![t] = v], UNCHANGED proglen
      PROVE  NoneOf(cs)'
  BY <1>1, <1>3 DEF NoneOf, Without
<1>4. ASSUME NEW im \in Images, LoadImage(im)
      PROVE  NoneOf(cs)'
  <2>1. /\ proglen' = Len(im) /\ prog' = [x \in 0 .. Len(im) - 1 |-> im[x + 1]]
    BY <1>4 DEF LoadImage
  <2>2. Len(im) \in Nat /\ DOMAIN im = 1 .. Len(im)
    BY LenProperties, CodeCacheAssumption
  <2>3. \A x \in 0 .. Len(im) - 1 : x + 1 \in DOMAIN im
    BY <2>2
  <2>. QED
    BY <2>1, <2>3 DEF NoneOf, Without
<1>5. CASE Compile
  <2>1. CASE CompileOp \/ CompileNand \/ CompileAmend \/ CompileFall
    BY <1>2, <2>1 DEF CompileOp, CompileNand, CompileAmend, CompileFall, Emit
  <2>2. CASE CompileStop \/ CompileEnd \/ CompileNoex \/ CompileLoad
    BY <1>2, <2>2 DEF CompileStop, CompileEnd, CompileNoex, CompileLoad, Finish
  <2>3. ASSUME NEW ops, NEW end, NEW exit, NEW tbl, NEW cd, Ending(ops, end, exit, tbl, cd)
        PROVE  NoneOf(cs)'
    BY <1>2, <2>3 DEF Ending, Finish
  <2>. QED
    BY <1>5, <2>1, <2>2, <2>3, LoadCEnding, CondEnding DEF Compile
<1>6. CASE RunStore \/ RunPostwrite
  <2>1. UNCHANGED proglen /\ \E t, v : v \in Insns /\ prog' = [prog EXCEPT ![t] = v]
    BY <1>6 DEF RunStore, RunPostwrite
  <2>. QED
    BY <1>3, <2>1
<1>7. CASE RunLoadfar
  BY <1>4, <1>7 DEF RunLoadfar
<1>8. CASE RunOp \/ RunStop \/ RunLink \/ RunEnterdep \/ RunEnter \/ RunNoex \/ Shoot
  BY <1>2, <1>8
     DEF RunOp, RunStop, RunLink, RunEnterdep, RunEnter, RunNoex,
         Shoot, ShootBlock, ShootWorld, ShootDone
<1>9. CASE UNCHANGED vars
  BY <1>2, <1>9 DEF vars
<1>. QED
  BY <1>5, <1>6, <1>7, <1>8, <1>9 DEF Next, Run

LEMMA NoneInit == ASSUME NEW cs, Without(cs), Init PROVE NoneOf(cs)
<1>1. PICK im \in Images :
        proglen = Len(im) /\ prog = [x \in 0 .. Len(im) - 1 |-> im[x + 1]]
  BY DEF Init
<1>2. Len(im) \in Nat /\ DOMAIN im = 1 .. Len(im)
  BY LenProperties, CodeCacheAssumption
<1>3. \A x \in 0 .. Len(im) - 1 : x + 1 \in DOMAIN im
  BY <1>2
<1>. QED
  BY <1>1, <1>3 DEF NoneOf, Without

\* Where no instruction is taken in with the one before it, every platter of the
\* block being compiled is write-protected when the next is looked at.
OwnProtected ==
  mode = "compile" =>
    /\ Own \subseteq prognowr
    /\ \A n \in DOMAIN g.ops : g.ops[n].k = "store" =>
         g.ops[n].t \in prognoex /\ g.ops[n].t \notin Own

LEMMA OwnEmit ==
  ASSUME IInv, OwnProtected, Compilable, NEW op \in Ops, NEW noex, Emit(<<op>>, noex),
         prognoex \subseteq noex,
         op.k = "store" => op.t \in noex /\ Bare(op.t)
  PROVE  OwnProtected'
<1>1. /\ mode = "compile" /\ mode' = "compile" /\ g.time \notin prognoex
      /\ g' = [g EXCEPT !.ops = @ \o <<op>>, !.time = @ + Len(<<op>>)]
      /\ prognowr' = prognowr \cup {g.time} /\ prognoex' = noex
  BY DEF Emit, Compilable
<1>2. g.begin \in Nat /\ g.time \in Nat /\ g.ops \in Seq(Ops) /\ g.begin <= g.time
  BY <1>1, CompilationFacts
<1> DEFINE s == <<op>>
           ops == g.ops \o s
<1>3. s \in Seq(Ops) /\ Len(s) = 1 /\ s[1] = op
  OBVIOUS
<1>4. g'.begin = g.begin /\ g'.time = g.time + 1 /\ g'.ops = ops
  BY <1>1, <1>3 DEF IInv, ControlOK, Compilations
<1> HIDE DEF s
<1>5. /\ Len(ops) = Len(g.ops) + 1 /\ ops \in Seq(Ops) /\ Len(g.ops) \in Nat
      /\ \A i \in 1 .. Len(g.ops) + 1 : ops[i] = IF i <= Len(g.ops) THEN g.ops[i] ELSE s[i - Len(g.ops)]
      /\ DOMAIN g.ops = 1 .. Len(g.ops) /\ DOMAIN ops = 1 .. Len(g.ops) + 1
  <2>1. /\ ops \in Seq(Ops) /\ Len(ops) = Len(g.ops) + Len(s)
        /\ \A i \in 1 .. Len(g.ops) + Len(s) :
             ops[i] = IF i <= Len(g.ops) THEN g.ops[i] ELSE s[i - Len(g.ops)]
    BY <1>2, <1>3, ConcatProperties
  <2> HIDE DEF ops
  <2>2. Len(g.ops) \in Nat /\ DOMAIN g.ops = 1 .. Len(g.ops) /\ DOMAIN ops = 1 .. Len(ops)
    BY <1>2, <2>1, LenProperties
  <2>. QED
    BY <1>3, <2>1, <2>2
<1> HIDE DEF ops
<1>6. \A i \in DOMAIN ops : (i \in DOMAIN g.ops /\ ops[i] = g.ops[i]) \/ ops[i] = op
  <2>1. SUFFICES ASSUME NEW i \in DOMAIN ops, i \notin DOMAIN g.ops
                 PROVE  ops[i] = op
    BY <1>5
  <2>2. \A n \in Nat : \A j \in 1 .. n + 1 : j \notin 1 .. n => ~(j <= n) /\ j - n = 1
    OBVIOUS
  <2>. QED
    BY <1>3, <1>5, <2>1, <2>2
<1>7. Own = g.begin .. g.time - 1 /\ Own' = Own \cup {g.time}
  <2>1. Own = g.begin .. g.time - 1 /\ Own' = g.begin .. (g.time + 1) - 1
    BY <1>1, <1>4 DEF Own
  <2>. QED
    BY <1>2, <2>1
<1>8. Own \subseteq prognowr
  BY <1>1 DEF OwnProtected
<1>9. ASSUME NEW i \in DOMAIN ops, ops[i].k = "store"
      PROVE  ops[i].t \in noex /\ ops[i].t \notin Own'
  <2>1. CASE i \in DOMAIN g.ops /\ ops[i] = g.ops[i]
    BY <1>1, <1>7, <1>9, <2>1 DEF OwnProtected
  <2>2. CASE ops[i] = op
    BY <1>7, <1>8, <1>9, <2>2 DEF Bare
  <2>. QED
    BY <1>6, <2>1, <2>2
<1>10. Own' \subseteq prognowr'
  BY <1>1, <1>7, <1>8
<1>. QED
  BY <1>1, <1>4, <1>9, <1>10 DEF OwnProtected

LEMMA OwnStep ==
  ASSUME IInv, IInv', OwnProtected, NoneOf({"nand", "cmov"}), [Next]_vars
  PROVE  OwnProtected'
<1>1. ASSUME Starting' PROVE OwnProtected'
  BY <1>1, StartOwn DEF OwnProtected, Starting
<1>2. CASE CompileOp \/ CompileNand \/ CompileAmend
  <2>1. Compilable /\ proglen \in Nat /\ g.time \in 0 .. proglen - 1
    <3>1. Compilable /\ mode = "compile" /\ g.time < proglen
      BY <1>2 DEF CompileOp, CompileNand, CompileAmend, Compilable
    <3>. QED
      BY <3>1, CompilationFacts
  <2>2. ~CompileNand
    BY <2>1 DEF NoneOf, CompileNand
  <2>3. CASE Emit(<<Plain>>, prognoex)
    <3>1. Plain \in Ops /\ Plain.k # "store"
      BY Sizes DEF Plain, Op, Ops
    <3>. QED
      BY <2>1, <2>3, <3>1, OwnEmit
  <2>4. CASE Emit(<<Op("postwrite", 0)>>, prognoex)
    <3>1. Op("postwrite", 0) \in Ops /\ Op("postwrite", 0).k # "store"
      BY Sizes DEF Op, Ops
    <3>. QED
      BY <2>1, <2>4, <3>1, OwnEmit
  <2>5. ASSUME NEW t \in 0 .. proglen - 1, Bare(t), Emit(<<Op("store", t)>>, prognoex \cup {t})
        PROVE  OwnProtected'
    <3>1. t \in Addr
      <4>1. proglen \in 1 .. MaxLen
        BY DEF IInv, StoreOK
      <4>. QED
        BY <4>1, CodeCacheAssumption DEF Addr
    <3>2. Op("store", t) \in Ops /\ Op("store", t).t = t
      BY <3>1 DEF Op, Ops
    <3>. QED
      BY <2>1, <2>5, <3>2, OwnEmit
  <2>. QED
    BY <1>2, <2>2, <2>3, <2>4, <2>5 DEF CompileOp, CompileAmend
<1>3. CASE CompileFall
  BY <1>1, <1>3 DEF CompileFall, Compiling, Starting
<1>4. CASE \/ CompileStop \/ CompileEnd \/ CompileNoex
           \/ CompileLoad \/ CompileLoadC \/ CompileCond
  <2>1. \E ops, end, exit, tbl, cd : Ending(ops, end, exit, tbl, cd)
    BY <1>4, PlainEnding, LoadCEnding, CondEnding
  <2>2. \E cd, id : Resume(cd, id)
    BY <2>1, EndingStep
  <2>. QED
    BY <1>1, <2>2, ControlStarts
<1>5. CASE RunLink \/ RunEnterdep \/ RunEnter \/ RunLoadfar \/ RunNoex
  <2>1. (\E cd, id : Resume(cd, id)) \/ (\E x, z, caller : UmcEnter(x, z, caller))
    BY <1>5 DEF RunLink, RunEnterdep, RunEnter, RunLoadfar, RunNoex
  <2>. QED
    BY <1>1, <2>1, ControlStarts
<1>6. CASE RunOp \/ RunStore \/ RunPostwrite \/ RunStop
  <2>1. mode' # "compile"
    BY <1>6 DEF RunOp, RunStore, RunPostwrite, RunStop, Running
  <2>. QED
    BY <2>1 DEF OwnProtected
<1>7. CASE Shoot
  BY <1>1, <1>7 DEF Shoot, ShootBlock, ShootWorld, ShootDone, UmcEnter, Compiling, Starting
<1>8. CASE UNCHANGED vars
  BY <1>8 DEF vars, OwnProtected, Own
<1>. QED
  BY <1>2, <1>3, <1>4, <1>5, <1>6, <1>7, <1>8 DEF Next, Compile, Run

\* Programs without the instructions that are taken in with the next give the
\* compiler nothing to look ahead at: what the theorems suppose holds of them.
THEOREM UnfusedSafe == ASSUME Without({"nand", "cmov"}) PROVE Spec => []LookaheadSafe
<1> DEFINE U == NoneOf({"nand", "cmov"}) /\ OwnProtected
<1>1. Init => U
  <2>1. SUFFICES ASSUME Init PROVE OwnProtected
    BY NoneInit
  <2>2. g = Compiling(0, Facts, FALSE, 0, NoCaller)
    BY <2>1 DEF Init
  <2>3. Own = {} /\ DOMAIN g.ops = {}
    BY <2>2 DEF Own, Compiling
  <2>. QED
    BY <2>3 DEF OwnProtected
<1>2. U /\ IInv /\ IInv' /\ [Next]_vars => U'
  BY NoneStep, OwnStep
<1>3. U /\ IInv => LookaheadSafe
  <2>1. SUFFICES ASSUME U, IInv, Compilable PROVE ~Fuses
    BY DEF LookaheadSafe, OwnProtected
  <2>2. g.time \in 0 .. proglen - 1
    BY <2>1, CompilationFacts DEF Compilable
  <2>. QED
    BY <2>1, <2>2 DEF Fuses, NoneOf
<1> HIDE DEF U
<1>. QED
  BY <1>1, <1>2, <1>3, Invariance, PTL DEF Spec

\* No block of a program without jumps to known places has a stub.
NoStubs ==
  /\ \A id \in 1 .. Len(code) : code[id].exit.k \notin {"loadc", "branch"}
  /\ StubsFind

LEMMA StubsEnding ==
  ASSUME IInv, NoStubs, NoneOf({"loadc", "cmov"}),
         NEW ops, NEW end, NEW exit, NEW tbl, NEW cd, Ending(ops, end, exit, tbl, cd)
  PROVE  NoStubs'
<1> DEFINE n == Len(code) + 1
           b == NewBlock(ops, end, exit)
<1>1. /\ mode = "compile" /\ Marked(cd) /\ end \in g.time .. proglen
      /\ exit \in Exits /\ exit.at = g.time + Len(ops) /\ exit.at <= end
      /\ \/ exit.at < end /\ prog[exit.at] \in ExitAt(exit.k) /\ end = exit.at + 1
         \/ exit.at = end /\ exit.k = "stop" /\ end = proglen
         \/ exit.at = end /\ exit.k = "noex" /\ end \in prognoex
      /\ exit.k = "branch" => prog[g.time] = "cmov"
      /\ ops \in {<<>>, <<Plain>>}
  BY DEF Ending
<1>2. /\ Len(code') = n /\ n \in Nat /\ Resume(code', First(n))
      /\ \A i \in 1 .. n : Same(code'[i], IF i = n THEN b ELSE cd[i])
  BY EndingStep
<1>3. b.exit = exit
  BY DEF NewBlock
<1> HIDE DEF b
<1>4. exit.k \notin {"loadc", "branch"}
  <2>1. /\ g.time \in Nat /\ proglen \in Nat /\ Len(ops) \in Nat
    BY <1>1, CompilationFacts, PlainOps
  <2>2. exit.at < end => exit.at \in 0 .. proglen - 1 /\ g.time \in 0 .. proglen - 1
    BY <1>1, <2>1
  <2>3. CASE exit.k = "loadc"
    BY <1>1, <2>2, <2>3 DEF ExitAt, NoneOf
  <2>4. CASE exit.k = "branch"
    BY <1>1, <2>2, <2>4 DEF NoneOf
  <2>. QED
    BY <2>3, <2>4
<1>5. ASSUME NEW i \in 1 .. n PROVE code'[i].exit.k \notin {"loadc", "branch"}
  <2>1. CASE i = n
    BY <1>2, <1>3, <1>4, <2>1 DEF Same
  <2>2. CASE i # n
    <3>1. i \in 1 .. Len(code)
      BY <2>2, TableListed
    <3>. QED
      BY <1>1, <1>2, <2>2, <3>1 DEF Same, Marked, NoStubs
  <2>. QED
    BY <2>1, <2>2
<1>. QED
  BY <1>2, <1>5 DEF NoStubs, StubsFind, Resume

LEMMA StubsStep ==
  ASSUME IInv, NoStubs, NoneOf({"loadc", "cmov"}), [Next]_vars
  PROVE  NoStubs'
<1>1. CASE CompileOp \/ CompileNand \/ CompileAmend
  <2>1. UNCHANGED <<code, mode>> /\ g'.caller = g.caller
    BY <1>1 DEF CompileOp, CompileNand, CompileAmend, Emit, IInv, ControlOK, Compilations
  <2>. QED
    BY <2>1 DEF NoStubs, StubsFind
<1>2. CASE CompileStop \/ CompileEnd \/ CompileNoex \/ CompileLoad
  BY <1>2, PlainEnding, StubsEnding
<1>3. CASE CompileLoadC
  BY <1>3, LoadCEnding, StubsEnding
<1>4. CASE CompileCond
  BY <1>4, CondEnding, StubsEnding
<1>5. CASE CompileFall
  <2> DEFINE n == Len(code) + 1
             fall == Exit("fall", g.time, <<Arm(g.time, {}, n + 1)>>)
             b == NewBlock(<<>>, g.time, fall)
  <2>1. /\ Len(code') = n /\ n \in Nat /\ b.exit = fall /\ mode = "compile"
        /\ \E z \in SUBSET Facts : g' = Compiling(g.time, z, TRUE, First(n), g.caller)
        /\ \A i \in 1 .. Len(code) : code'[i] = code[i]
        /\ code'[n] = b
    BY <1>5, FallStep
  <2>2. b.exit.k = "fall" /\ g'.caller = g.caller
    BY <2>1 DEF Exit, Compiling
  <2>3. \A i \in 1 .. n : i = n \/ i \in 1 .. Len(code)
    BY TableListed
  <2> HIDE DEF b
  <2>. QED
    BY <2>1, <2>2, <2>3 DEF NoStubs, StubsFind
<1>6. CASE RunEnterdep
  <2>1. mode = "run" /\ Here.exit.k \in {"loadc", "branch"}
    BY <1>6 DEF RunEnterdep, Exiting
  <2>. QED
    BY <2>1, RunFacts DEF NoStubs, Here
<1>7. CASE RunLoadfar \/ RunNoex \/ ShootWorld
  <2>1. code' = <<>> /\ Len(code') = 0
    BY <1>7, NewWorldFacts DEF RunLoadfar, RunNoex, ShootWorld
  <2>2. StubsFind'
    BY <1>7 DEF RunLoadfar, RunNoex, ShootWorld, UmcEnter, Compiling, NoCaller, StubsFind
  <2>. QED
    BY <2>1, <2>2 DEF NoStubs
<1>8. CASE RunOp \/ RunStore \/ RunPostwrite \/ RunStop \/ RunLink \/ RunEnter
  <2>1. UNCHANGED code /\ StubsFind'
    BY <1>8 DEF RunOp, RunStore, RunPostwrite, RunStop, RunLink, RunEnter, Running, Exiting,
                Resume, UmcEnter, Compiling, NoCaller, StubsFind
  <2>. QED
    BY <2>1 DEF NoStubs
<1>9. CASE ShootBlock \/ ShootDone
  <2>1. UNCHANGED code /\ StubsFind'
    BY <1>9 DEF ShootBlock, ShootDone, UmcEnter, Compiling, NoCaller, StubsFind
  <2>. QED
    BY <2>1 DEF NoStubs
<1>10. CASE UNCHANGED vars
  BY <1>10 DEF vars, NoStubs, StubsFind
<1>. QED
  BY <1>1, <1>2, <1>3, <1>4, <1>5, <1>6, <1>7, <1>8, <1>9, <1>10 DEF Next, Compile, Run, Shoot

\* Programs that jump to computed places only, by um_enter, have no links but
\* those that fall through, which are always marked.
THEOREM UnlinkedSafe == ASSUME Without({"loadc", "cmov"}) PROVE Spec => []StubsFind
<1> DEFINE U == NoneOf({"loadc", "cmov"}) /\ NoStubs
<1>1. Init => U
  <2>1. SUFFICES ASSUME Init PROVE NoStubs
    BY NoneInit
  <2>2. code = <<>> /\ Len(code) = 0 /\ g.caller.id = 0
    BY <2>1 DEF Init, Compiling, NoCaller
  <2>. QED
    BY <2>2 DEF NoStubs, StubsFind
<1>2. U /\ IInv /\ [Next]_vars => U'
  BY NoneStep, StubsStep
<1>3. U => StubsFind
  BY DEF NoStubs
<1> HIDE DEF U
<1>. QED
  BY <1>1, <1>2, <1>3, Invariance, PTL DEF Spec

\* For such programs code and array 0 are kept together, whatever they overwrite.
THEOREM ComputedJumpsCoherent ==
  ASSUME Without({"nand", "cmov", "loadc"})
  PROVE  Spec => []Coherent
<1>1. Without({"nand", "cmov"}) /\ Without({"loadc", "cmov"})
  BY DEF Without
<1>2. DepInv => LinkedStay
  BY MarkedStay
<1>. QED
  BY <1>1, <1>2, UnfusedSafe, UnlinkedSafe, MarksInvariance, CodeIsCoherent, PTL

-----------------------------------------------------------------------------
(***************************************************************************)
(* Running compiled code, patching it, shooting it down and compiling it   *)
(* anew is, step by step, the execution of the program in array 0          *)
(* (UMControl), for every set of programs and every size, under the same   *)
(* suppositions.                                                           *)
(***************************************************************************)

-----------------------------------------------------------------------------
(* Code does what its source says *)

Classed(k) == IF k = "op" THEN {"op", "cmov", "nand"} ELSE {"amend"}

\* Each operation is that of the class of the platter it was compiled from.
OpsRight(ops, begin, src) ==
  \A n \in DOMAIN ops : src[(begin + n) - 1] \in Classed(ops[n].k)

\* And so is the exit, but where the end of the program, of the block or of what
\* may be executed makes one.
ExitRight(b, len) ==
  /\ b.exit.k = "fall" => b.exit.at = b.end
  /\ b.exit.k = "stop" => \/ b.exit.at = len
                          \/ b.exit.at < b.end /\ b.src[b.exit.at] = "stop"
  /\ b.exit.k \in {"load", "loadc", "branch"} =>
       b.exit.at < b.end /\ b.src[b.exit.at] \in ExitAt(b.exit.k)

SrcInv ==
  /\ \A id \in 1 .. Len(code) :
       /\ OpsRight(code[id].ops, code[id].begin, code[id].src)
       /\ ExitRight(code[id], proglen)
  /\ mode = "compile" => OpsRight(g.ops, g.begin, prog)

\* What is right of two sequences of operations is right of one after the other.
LEMMA ConcatRight ==
  ASSUME NEW as \in Seq(Ops), NEW bs \in Seq(Ops), NEW begin \in Nat, NEW src,
         OpsRight(as, begin, src), OpsRight(bs, begin + Len(as), src)
  PROVE  OpsRight(as \o bs, begin, src)
<1>1. /\ Len(as \o bs) = Len(as) + Len(bs) /\ as \o bs \in Seq(Ops)
      /\ \A i \in 1 .. Len(as) + Len(bs) :
           (as \o bs)[i] = IF i <= Len(as) THEN as[i] ELSE bs[i - Len(as)]
  BY ConcatProperties
<1>2. /\ DOMAIN (as \o bs) = 1 .. Len(as) + Len(bs) /\ Len(as) \in Nat /\ Len(bs) \in Nat
      /\ DOMAIN as = 1 .. Len(as) /\ DOMAIN bs = 1 .. Len(bs)
  BY <1>1, LenProperties
<1>3. ASSUME NEW i \in DOMAIN (as \o bs)
      PROVE  src[(begin + i) - 1] \in Classed((as \o bs)[i].k)
  <2> DEFINE p == Len(as)
             q == Len(bs)
  <2>0. p \in Nat /\ q \in Nat /\ i \in 1 .. p + q /\ i \in Nat
    <3>1. i \in 1 .. p + q
      BY <1>2, <1>3
    <3>2. p \in Nat /\ q \in Nat
      BY <1>2
    <3> HIDE DEF p, q
    <3>3. i \in Nat
      BY <3>1, <3>2
    <3>. QED
      BY <3>1, <3>2, <3>3
  <2>1. CASE i <= Len(as)
    <3>1. i \in DOMAIN as
      <4>1. i \in 1 .. p
        <5> HIDE DEF p, q
        <5>1. i <= p
          BY <2>1 DEF p
        <5>. QED
          BY <2>0, <5>1
      <4>. QED
        BY <1>2, <4>1
    <3>2. (as \o bs)[i] = as[i]
      BY <1>1, <2>0, <2>1
    <3>. QED
      BY <3>1, <3>2 DEF OpsRight
  <2>2. CASE ~(i <= Len(as))
    <3>1. i - Len(as) \in DOMAIN bs
      <4>1. i - p \in 1 .. q
        <5> HIDE DEF p, q
        <5>1. ~(i <= p)
          BY <2>2 DEF p
        <5>. QED
          BY <2>0, <5>1
      <4>. QED
        BY <1>2, <4>1
    <3>2. (as \o bs)[i] = bs[i - Len(as)]
      BY <1>1, <2>0, <2>2
    <3>3. ((begin + Len(as)) + (i - Len(as))) - 1 = (begin + i) - 1
      <4>1. ((begin + p) + (i - p)) - 1 = (begin + i) - 1
        <5> HIDE DEF p
        <5>. QED
          BY <2>0
      <4>. QED
        BY <4>1
    <3>. QED
      BY <3>1, <3>2, <3>3 DEF OpsRight
  <2>. QED
    BY <2>1, <2>2
<1>. QED
  BY <1>3 DEF OpsRight

\* Code that is only marked and patched does what it did.
LEMMA KeptSrc ==
  ASSUME IInv, SrcInv, Len(code') = Len(code), \A i \in 1 .. Len(code) : Same(code'[i], code[i]),
         proglen' = proglen, mode' = "compile" => g'.ops = <<>>
  PROVE  SrcInv'
<1>1. SUFFICES ASSUME NEW id \in 1 .. Len(code)
               PROVE  /\ OpsRight(code'[id].ops, code'[id].begin, code'[id].src)
                      /\ ExitRight(code'[id], proglen)
  BY DEF SrcInv, OpsRight
<1>2. OpsRight(code[id].ops, code[id].begin, code[id].src) /\ ExitRight(code[id], proglen)
  BY DEF SrcInv
<1>3. Same(code'[id], code[id])
  OBVIOUS
<1>. QED
  BY <1>2, <1>3 DEF Same, ExitRight

\* A turn of the loop adds operations of the classes of the platters taken in.
LEMMA EmitSrc ==
  ASSUME IInv, SrcInv, mode = "compile", NEW ops \in Seq(Ops), NEW noex, Emit(ops, noex),
         OpsRight(ops, g.time, prog)
  PROVE  SrcInv'
<1>1. /\ g.time \in Nat /\ g.begin \in Nat /\ g.ops \in Seq(Ops)
      /\ Len(g.ops) = g.time - g.begin /\ g.begin <= g.time
  BY CompilationFacts
<1>2. g'.ops = g.ops \o ops /\ g'.begin = g.begin /\ UNCHANGED <<prog, proglen, code>>
  BY DEF Emit, IInv, ControlOK, Compilations
<1>3. g.begin + Len(g.ops) = g.time
  BY <1>1
<1>4. OpsRight(g.ops \o ops, g.begin, prog)
  BY <1>1, <1>3, ConcatRight DEF SrcInv
<1>. QED
  BY <1>2, <1>4 DEF SrcInv

LEMMA InsnSrc ==
  ASSUME IInv, SrcInv, CompileOp \/ CompileNand \/ CompileAmend
  PROVE  SrcInv'
<1>1. mode = "compile" /\ g.time \in Nat /\ proglen \in Nat /\ proglen \in 1 .. MaxLen
  <2>1. mode = "compile"
    BY DEF CompileOp, CompileNand, CompileAmend, Compilable
  <2>2. proglen \in 1 .. MaxLen
    BY DEF IInv, StoreOK
  <2>. QED
    BY <2>1, <2>2, CompilationFacts
<1>2. (g.time + 1) - 1 = g.time /\ (g.time + 2) - 1 = g.time + 1
  BY <1>1
<1>3. CASE prog[g.time] \in {"op", "cmov", "nand"} /\ Emit(<<Plain>>, prognoex)
  <2>1. OpsRight(<<Plain>>, g.time, prog)
    BY <1>2, <1>3 DEF OpsRight, Classed, Plain, Op
  <2>. QED
    BY <1>1, <1>3, <2>1, PlainOps, EmitSrc
<1>4. CASE prog[g.time] = "nand" /\ Peek("nand") /\ Emit(<<Plain, Plain>>, prognoex)
  <2>1. OpsRight(<<Plain, Plain>>, g.time, prog)
    BY <1>2, <1>4 DEF OpsRight, Classed, Plain, Op, Peek
  <2>. QED
    BY <1>1, <1>4, <2>1, PlainOps, EmitSrc
<1>5. ASSUME NEW k \in {"store", "postwrite"}, NEW t \in Addr, NEW noex, prog[g.time] = "amend",
             Emit(<<Op(k, t)>>, noex)
      PROVE  SrcInv'
  <2>1. OpsRight(<<Op(k, t)>>, g.time, prog)
    BY <1>2, <1>5 DEF OpsRight, Classed, Op
  <2>2. <<Op(k, t)>> \in Seq(Ops)
    BY DEF Op, Ops
  <2>. QED
    BY <1>1, <1>5, <2>1, <2>2, EmitSrc
<1>6. 0 \in Addr /\ 0 .. proglen - 1 \subseteq Addr
  BY <1>1, CodeCacheAssumption DEF Addr
<1>. QED
  BY <1>3, <1>4, <1>5, <1>6 DEF CompileOp, CompileNand, CompileAmend

\* The platters of a block of l platters and m more are inside it.
LEMMA OpTimeInside ==
  ASSUME NEW b \in Nat, NEW t \in Nat, NEW e \in Nat, NEW m \in Nat, t + m <= e,
         NEW i \in 1 .. (t - b) + m
  PROVE  (b + i) - 1 \in b .. e - 1
OBVIOUS

\* The block that is ended does what its platters say.
LEMMA EndingSrc ==
  ASSUME IInv, SrcInv,
         NEW ops, NEW end, NEW exit, NEW tbl, NEW cd, Ending(ops, end, exit, tbl, cd)
  PROVE  SrcInv'
<1> DEFINE n == Len(code) + 1
           b == NewBlock(ops, end, exit)
<1>1. /\ mode = "compile"
      /\ ops = <<>> \/ (ops = <<Plain>> /\ prog[g.time] = "cmov" /\ g.time + 1 < end)
      /\ end \in g.time .. proglen
      /\ exit.at = g.time + Len(ops) /\ exit.at <= end
      /\ \/ exit.at < end /\ prog[exit.at] \in ExitAt(exit.k) /\ end = exit.at + 1
         \/ exit.at = end /\ exit.k = "stop" /\ end = proglen
         \/ exit.at = end /\ exit.k = "noex" /\ end \in prognoex
      /\ Marked(cd)
  BY DEF Ending
<1>2. /\ g.time \in Nat /\ g.begin \in Nat /\ proglen \in Nat /\ g.begin <= g.time
      /\ g.ops \in Seq(Ops) /\ ops \in Seq(Ops) /\ end \in Nat
      /\ Len(g.ops) = g.time - g.begin
  <2>1. /\ g.time \in Nat /\ g.begin \in Nat /\ proglen \in Nat /\ g.begin <= g.time
        /\ g.ops \in Seq(Ops) /\ Len(g.ops) = g.time - g.begin
    BY <1>1, CompilationFacts
  <2>2. ops \in Seq(Ops)
    BY <1>1, PlainOps
  <2>. QED
    BY <1>1, <2>1, <2>2
<1>3. /\ Len(code') = n /\ n \in Nat /\ Resume(code', First(n)) /\ UNCHANGED <<prog, proglen>>
      /\ \A i \in 1 .. n : Same(code'[i], IF i = n THEN b ELSE cd[i])
  BY EndingStep
<1>4. /\ b.begin = g.begin /\ b.end = end /\ b.ops = g.ops \o ops /\ b.exit = exit
      /\ b.src = [x \in g.begin .. end - 1 |-> prog[x]]
  BY DEF NewBlock
<1> HIDE DEF b, n
<1>5. OpsRight(b.ops, b.begin, prog)
  <2>1. OpsRight(ops, g.time, prog)
    <3>1. (g.time + 1) - 1 = g.time
      BY <1>2
    <3>. QED
      BY <1>1, <3>1 DEF OpsRight, Classed, Plain, Op
  <2>2. g.begin + Len(g.ops) = g.time
    BY <1>2
  <2>3. OpsRight(g.ops, g.begin, prog)
    BY <1>1 DEF SrcInv
  <2>. QED
    BY <1>2, <1>4, <2>1, <2>2, <2>3, ConcatRight
<1>6. OpsRight(b.ops, b.begin, b.src)
  <2>1. /\ Len(g.ops \o ops) = Len(g.ops) + Len(ops)
        /\ DOMAIN (g.ops \o ops) = 1 .. Len(g.ops) + Len(ops)
        /\ Len(ops) \in Nat /\ Len(g.ops) \in Nat
    BY <1>2, ConcatProperties, LenProperties
  <2>2. ASSUME NEW i \in DOMAIN b.ops
        PROVE  (g.begin + i) - 1 \in g.begin .. end - 1
    <3>1. i \in 1 .. (g.time - g.begin) + Len(ops)
      BY <1>2, <1>4, <2>1
    <3>2. g.time + Len(ops) <= end
      BY <1>1
    <3>. QED
      BY <1>2, <2>1, <3>1, <3>2, OpTimeInside
  <2>3. \A x \in g.begin .. end - 1 : b.src[x] = prog[x]
    BY <1>4
  <2>. QED
    BY <1>4, <1>5, <2>2, <2>3 DEF OpsRight
<1>7. ExitRight(b, proglen)
  <2>1. exit.at < end => b.src[exit.at] = prog[exit.at]
    <3>1. exit.at \in Nat /\ exit.at >= g.begin
      BY <1>1, <1>2, LenProperties
    <3>. QED
      BY <1>2, <1>4, <3>1
  <2>. QED
    BY <1>1, <1>4, <2>1 DEF ExitRight, ExitAt
<1>8. ASSUME NEW i \in 1 .. n
      PROVE  /\ OpsRight(code'[i].ops, code'[i].begin, code'[i].src)
             /\ ExitRight(code'[i], proglen)
  <2>1. CASE i = n
    BY <1>3, <1>6, <1>7, <2>1 DEF Same, ExitRight
  <2>2. CASE i # n
    <3>1. i \in 1 .. Len(code)
      BY <1>3, <2>2, TableListed DEF n
    <3>2. Same(cd[i], code[i]) /\ Same(code'[i], cd[i])
      BY <1>1, <1>3, <2>2, <3>1 DEF Marked
    <3>3. Same(code'[i], code[i])
      BY <3>2 DEF Same
    <3>4. OpsRight(code[i].ops, code[i].begin, code[i].src) /\ ExitRight(code[i], proglen)
      BY <3>1 DEF SrcInv
    <3>. QED
      BY <3>3, <3>4 DEF Same, ExitRight
  <2>. QED
    BY <2>1, <2>2
<1>9. mode' = "run"
  BY <1>3 DEF Resume
<1>. QED
  BY <1>3, <1>8, <1>9 DEF SrcInv

LEMMA FallSrc == ASSUME IInv, SrcInv, CompileFall PROVE SrcInv'
<1> DEFINE n == Len(code) + 1
           fall == Exit("fall", g.time, <<Arm(g.time, {}, n + 1)>>)
           b == NewBlock(<<>>, g.time, fall)
<1>1. /\ Len(code') = n /\ n \in Nat /\ b.exit = fall /\ mode = "compile"
      /\ \E z \in SUBSET Facts : g' = Compiling(g.time, z, TRUE, First(n), g.caller)
      /\ UNCHANGED <<prog, proglen, mode>>
      /\ \A i \in 1 .. Len(code) : code'[i] = code[i]
      /\ code'[n] = b
  BY FallStep
<1>2. /\ g.time \in Nat /\ g.begin \in Nat /\ proglen \in Nat /\ g.begin <= g.time
      /\ g.ops \in Seq(Ops) /\ Len(g.ops) = g.time - g.begin
  BY <1>1, CompilationFacts
<1>3. /\ b.begin = g.begin /\ b.end = g.time /\ b.ops = g.ops
      /\ b.src = [x \in g.begin .. g.time - 1 |-> prog[x]]
      /\ b.exit.k = "fall" /\ b.exit.at = g.time
  BY <1>1, <1>2, ConcatEmptySeq DEF NewBlock, Exit
<1> HIDE DEF b, n, fall
<1>4. OpsRight(b.ops, b.begin, b.src)
  <2>1. ASSUME NEW i \in DOMAIN b.ops
        PROVE  (g.begin + i) - 1 \in g.begin .. g.time - 1
    <3>1. \A l \in Nat : l = g.time - g.begin /\ i \in 1 .. l
                         => (g.begin + i) - 1 \in g.begin .. g.time - 1
      BY <1>2
    <3>2. DOMAIN g.ops = 1 .. Len(g.ops) /\ Len(g.ops) \in Nat
      BY <1>2, LenProperties
    <3>. QED
      BY <1>2, <1>3, <3>1, <3>2
  <2>2. OpsRight(g.ops, g.begin, prog)
    BY <1>1 DEF SrcInv
  <2>3. \A x \in g.begin .. g.time - 1 : b.src[x] = prog[x]
    BY <1>3
  <2>. QED
    BY <1>3, <2>1, <2>2, <2>3 DEF OpsRight
<1>5. ExitRight(b, proglen)
  BY <1>3 DEF ExitRight
<1>6. ASSUME NEW i \in 1 .. n
      PROVE  /\ OpsRight(code'[i].ops, code'[i].begin, code'[i].src)
             /\ ExitRight(code'[i], proglen)
  <2>1. CASE i = n
    BY <1>1, <1>4, <1>5, <2>1
  <2>2. CASE i # n
    <3>1. i \in 1 .. Len(code)
      BY <1>1, <2>2, TableListed DEF n
    <3>. QED
      BY <1>1, <3>1 DEF SrcInv
  <2>. QED
    BY <2>1, <2>2
<1>7. g'.ops = <<>>
  BY <1>1 DEF Compiling
<1>8. OpsRight(g'.ops, g'.begin, prog')
  BY <1>7 DEF OpsRight
<1>. QED
  BY <1>1, <1>6, <1>8 DEF SrcInv

\* Every step leaves code that does what its source says.
LEMMA SrcStep ==
  ASSUME IInv, SrcInv, [Next]_vars
  PROVE  SrcInv'
<1>1. CASE CompileStop \/ CompileEnd \/ CompileNoex \/ CompileLoad
  BY <1>1, PlainEnding, EndingSrc
<1>2. CASE CompileLoadC
  BY <1>2, LoadCEnding, EndingSrc
<1>3. CASE CompileCond
  BY <1>3, CondEnding, EndingSrc
<1>4. CASE RunLoadfar \/ RunNoex \/ ShootWorld
  <2>1. code' = <<>> /\ Len(code') = 0
    BY <1>4, NewWorldFacts DEF RunLoadfar, RunNoex, ShootWorld
  <2>2. mode' = "compile" => g'.ops = <<>>
    BY <1>4 DEF RunLoadfar, RunNoex, ShootWorld, UmcEnter, Compiling
  <2>. QED
    BY <2>1, <2>2 DEF SrcInv, OpsRight
<1>5. CASE RunEnterdep
  <2>1. /\ Len(code') = Len(code) /\ \A i \in 1 .. Len(code) : Same(code'[i], code[i])
        /\ proglen' = proglen
    BY <1>5, EnterdepStep
  <2>2. mode' = "compile" => g'.ops = <<>>
    BY <1>5 DEF RunEnterdep, UmcEnter, Compiling, Resume
  <2>. QED
    BY <2>1, <2>2, KeptSrc
<1>6. CASE \/ RunOp \/ RunStore \/ RunPostwrite \/ RunStop \/ RunLink \/ RunEnter
           \/ ShootBlock \/ ShootDone
  <2>1. UNCHANGED <<code, proglen>>
    BY <1>6 DEF RunOp, RunStore, RunPostwrite, RunStop, RunLink, RunEnter, ShootBlock, ShootDone
  <2>2. mode' = "compile" => g'.ops = <<>>
    <3>1. CASE RunOp \/ RunStore \/ RunPostwrite \/ RunStop \/ RunLink \/ ShootBlock
      BY <3>1 DEF RunOp, RunStore, RunPostwrite, RunStop, RunLink, ShootBlock, Resume,
                  Running, Exiting
    <3>2. CASE RunEnter \/ ShootDone
      BY <3>2 DEF RunEnter, ShootDone, Resume, UmcEnter, Compiling
    <3>. QED
      BY <1>6, <3>1, <3>2
  <2>3. \A i \in 1 .. Len(code) : Same(code'[i], code[i])
    BY <2>1 DEF Same
  <2>. QED
    BY <2>1, <2>2, <2>3, KeptSrc
<1>7. CASE UNCHANGED vars
  BY <1>7 DEF vars, SrcInv
<1>. QED
  BY <1>1, <1>2, <1>3, <1>4, <1>5, <1>6, <1>7, InsnSrc, FallSrc
     DEF Next, Compile, Run, Shoot

\* For every set of programs and every size: whatever becomes of it, compiled code
\* does, platter for platter, what the program it was compiled from said (umc_mkblk).
THEOREM CompilesRight == Spec => []SrcInv
<1>1. Init => SrcInv
  <2>1. SUFFICES ASSUME Init PROVE SrcInv
    OBVIOUS
  <2>2. code = <<>> /\ Len(code) = 0 /\ g.ops = <<>>
    BY <2>1 DEF Init, Compiling
  <2>. QED
    BY <2>2 DEF SrcInv, OpsRight
<1>2. IInv /\ SrcInv /\ [Next]_vars => SrcInv'
  BY SrcStep
<1>. QED
  BY <1>1, <1>2, Invariance, PTL DEF Spec

-----------------------------------------------------------------------------
(* What compiled code does is what the UM does *)

\* An operation of the code in control is that of the platter the UM is about to
\* execute.
LEMMA RunningSource ==
  ASSUME IInv, RestOK, SrcInv, NEW k, Running(k)
  PROVE  /\ Pc = cur.pos /\ cur.pos \in Nat /\ cur.pos < proglen
         /\ prog[cur.pos] \in Classed(k)
<1>1. /\ mode = "run" /\ cur.pos # Here.exit.at /\ OpAt(Here, cur.pos).k = k
  BY DEF Running, AtExit
<1>2. /\ cur.id \in 1 .. Len(code) /\ cur.pos \in Nat /\ Here.begin \in Nat
      /\ cur.pos \in Here.begin .. Here.exit.at /\ Here.end \in Nat /\ Here.exit.at \in Nat
      /\ proglen \in Nat /\ Here.end <= proglen
      /\ Here.exit.at = Here.begin + Len(Here.ops) /\ Here.exit.at <= Here.end
      /\ Here.ops \in Seq(Ops)
  <2>1. cur.id \in 1 .. Len(code) /\ cur.pos \in Here.begin .. Here.exit.at
    BY <1>1, RunFacts DEF IInv, NoDangling
  <2>2. /\ Here \in Blocks /\ WellFormed(Here) /\ Here.begin \in Nat /\ Here.end \in Nat
        /\ Here.end <= proglen /\ Here.exit.at \in Nat /\ proglen \in Nat
    BY <2>1, BlockFacts DEF Here
  <2>3. Here.ops \in Seq(Ops)
    BY <2>2 DEF Blocks
  <2>. QED
    BY <2>1, <2>2, <2>3 DEF WellFormed
<1>3. cur.pos < Here.exit.at /\ cur.pos < proglen /\ cur.pos \in cur.pos .. Here.end - 1
  BY <1>1, <1>2
<1>4. Here.src[cur.pos] = prog[cur.pos]
  BY <1>1, <1>3 DEF RestOK
<1>5. cur.pos - Here.begin + 1 \in DOMAIN Here.ops
  <2>1. \A l \in Nat : Here.exit.at = Here.begin + l => (cur.pos - Here.begin) + 1 \in 1 .. l
    BY SMTT(30), <1>2, <1>3
  <2>. QED
    BY <1>2, <2>1, LenProperties
<1>6. (Here.begin + (cur.pos - Here.begin + 1)) - 1 = cur.pos
  BY <1>2
<1>7. Here.src[cur.pos] \in Classed(k)
  BY <1>1, <1>2, <1>5, <1>6 DEF SrcInv, OpsRight, OpAt, Here
<1>8. Pc = cur.pos
  BY <1>1 DEF Pc
<1>. QED
  BY <1>2, <1>3, <1>4, <1>7, <1>8

\* And so is the exit it has come to.
LEMMA ExitingSource ==
  ASSUME IInv, RestOK, SrcInv, NEW k, Exiting(k)
  PROVE  /\ Pc = cur.pos /\ cur.pos \in Nat /\ proglen \in Nat
         /\ cur.id \in 1 .. Len(code) /\ mode = "run"
         /\ k = "stop" => cur.pos >= proglen \/ (cur.pos < proglen /\ prog[cur.pos] = "stop")
         /\ k \in {"load", "loadc", "branch"} =>
              cur.pos < proglen /\ prog[cur.pos] \in ExitAt(k)
         /\ k = "fall" => cur.pos = Here.end
<1>1. mode = "run" /\ cur.pos = Here.exit.at /\ Here.exit.k = k
  BY DEF Exiting, AtExit
<1>2. /\ cur.id \in 1 .. Len(code) /\ Here.end \in Nat /\ Here.exit.at \in Nat
      /\ proglen \in Nat /\ Here.end <= proglen
  <2>1. cur.id \in 1 .. Len(code)
    BY <1>1, RunFacts
  <2>. QED
    BY <2>1, BlockFacts DEF Here
<1>3. ExitRight(Here, proglen)
  BY <1>2 DEF SrcInv, Here
<1>4. cur.pos < Here.end => cur.pos < proglen /\ Here.src[cur.pos] = prog[cur.pos]
  <2>1. cur.pos < Here.end => cur.pos \in cur.pos .. Here.end - 1
    BY <1>1, <1>2
  <2>. QED
    BY <1>1, <1>2, <2>1 DEF RestOK
<1>5. Pc = cur.pos
  BY <1>1 DEF Pc
<1>. QED
  BY <1>1, <1>2, <1>3, <1>4, <1>5 DEF ExitRight

\* What the compiler does the UM does not see.
LEMMA CompileStutters ==
  ASSUME IInv, Compile
  PROVE  UNCHANGED UM!vars
<1>1. ASSUME UNCHANGED <<prog, proglen>>, mode' # "stopped", Pc' = Pc
      PROVE  UNCHANGED UM!vars
  <2>1. mode = "compile"
    BY DEF Compile, CompileOp, CompileNand, CompileAmend, CompileStop, CompileEnd, CompileNoex,
           CompileLoad, CompileLoadC, CompileCond, CompileFall, Compilable
  <2>. QED
    BY <1>1, <2>1 DEF UM!vars
<1>2. CASE CompileOp \/ CompileNand \/ CompileAmend
  <2>1. /\ mode = "compile" /\ mode' = mode /\ UNCHANGED <<prog, proglen, code>>
        /\ g'.begin = g.begin /\ g'.first = g.first
    BY <1>2 DEF CompileOp, CompileNand, CompileAmend, Compilable, Emit, IInv, ControlOK,
                Compilations
  <2>2. Pc' = Pc
    BY <2>1 DEF Pc
  <2>. QED
    BY <1>1, <2>1, <2>2
<1>3. ASSUME NEW ops, NEW end, NEW exit, NEW tbl, NEW cd, Ending(ops, end, exit, tbl, cd)
      PROVE  UNCHANGED UM!vars
  <2> DEFINE n == Len(code) + 1
             b == NewBlock(ops, end, exit)
  <2>1. /\ Resume(code', First(n)) /\ UNCHANGED <<prog, proglen>> /\ n \in Nat
        /\ \A i \in 1 .. n : Same(code'[i], IF i = n THEN b ELSE cd[i])
    BY <1>3, EndingStep
  <2>2. mode = "compile" /\ Marked(cd) /\ b.begin = g.begin
    BY <1>3 DEF Ending, NewBlock
  <2>3. g.first \in 0 .. Len(code) /\ Len(code) \in Nat
    BY <2>2, CompilationFacts
  <2>4. mode' = "run" /\ cur'.pos = code'[First(n)].begin
    BY <2>1 DEF Resume
  <2> HIDE DEF b
  <2>5. CASE g.first = 0
    <3>1. First(n) = n /\ n \in 1 .. n
      BY <2>3, <2>5 DEF First
    <3>2. code'[n].begin = g.begin
      BY <2>1, <2>2, <3>1 DEF Same
    <3>3. Pc' = Pc
      BY <2>2, <2>4, <2>5, <3>1, <3>2 DEF Pc
    <3>. QED
      BY <1>1, <2>1, <2>4, <3>3
  <2>6. CASE g.first # 0
    <3>1. First(n) = g.first /\ g.first \in 1 .. n /\ g.first # n /\ g.first \in 1 .. Len(code)
      BY <2>3, <2>6 DEF First
    <3>2. code'[g.first].begin = code[g.first].begin
      BY <2>1, <2>2, <3>1 DEF Same, Marked
    <3>3. Pc' = Pc
      BY <2>2, <2>4, <2>6, <3>1, <3>2 DEF Pc
    <3>. QED
      BY <1>1, <2>1, <2>4, <3>3
  <2>. QED
    BY <2>5, <2>6
<1>4. CASE CompileFall
  <2> DEFINE n == Len(code) + 1
             fall == Exit("fall", g.time, <<Arm(g.time, {}, n + 1)>>)
             b == NewBlock(<<>>, g.time, fall)
  <2>1. /\ n \in Nat /\ First(n) \in 1 .. n /\ mode = "compile"
        /\ \E z \in SUBSET Facts : g' = Compiling(g.time, z, TRUE, First(n), g.caller)
        /\ UNCHANGED <<prog, proglen, mode>>
        /\ \A i \in 1 .. Len(code) : code'[i] = code[i]
        /\ code'[n] = b
    BY <1>4, FallStep
  <2>2. g'.first = First(n) /\ First(n) # 0 /\ b.begin = g.begin
    BY <2>1 DEF Compiling, NewBlock
  <2>3. g.first \in 0 .. Len(code) /\ Len(code) \in Nat
    BY <2>1, CompilationFacts
  <2> HIDE DEF b
  <2>4. code'[First(n)].begin = IF g.first = 0 THEN g.begin ELSE code[g.first].begin
    BY <2>1, <2>2, <2>3 DEF First
  <2>5. Pc' = Pc
    BY <2>1, <2>2, <2>4 DEF Pc
  <2>. QED
    BY <1>1, <2>1, <2>5
<1>5. CASE CompileStop \/ CompileEnd \/ CompileNoex \/ CompileLoad
  BY <1>3, <1>5, PlainEnding
<1>6. CASE CompileLoadC
  BY <1>3, <1>6, LoadCEnding
<1>7. CASE CompileCond
  BY <1>3, <1>7, CondEnding
<1>. QED
  BY <1>2, <1>4, <1>5, <1>6, <1>7 DEF Compile

\* What um_postwrite does the UM does not see: the amendment has been made, and the
\* next platter is the one behind it.
LEMMA ShootStutters ==
  ASSUME IInv, RestOK, Shoot
  PROVE  UNCHANGED UM!vars
<1>1. mode = "shoot" /\ UNCHANGED <<prog, proglen>> /\ mode' # "stopped"
  BY DEF Shoot, ShootBlock, ShootWorld, ShootDone, UmcEnter
<1>2. Pc = pw.source + 1
  BY <1>1 DEF Pc
<1>3. Pc' = pw.source + 1
  <2>1. CASE ShootBlock \/ ShootWorld
    BY <1>1, <2>1 DEF ShootBlock, ShootWorld, Pc
  <2>2. CASE ShootDone /\ mode' = "aborted"
    BY <2>2 DEF ShootDone, Pc, UmcEnter
  <2>3. CASE ShootDone /\ mode' = "run"
    <3>1. ~SourceGone /\ Advance(1)
      BY <2>3 DEF ShootDone, UmcEnter
    <3>2. cur.id # 0
      BY <1>1, <3>1 DEF SourceGone, IInv, ShootInv
    <3>3. cur.pos = pw.source /\ cur'.pos = cur.pos + 1
      BY <1>1, <3>1, <3>2 DEF RestOK, Advance, IInv, ControlOK
    <3>. QED
      BY <2>3, <3>3 DEF Pc
  <2>4. CASE ShootDone /\ mode' = "compile"
    <3>1. g'.begin = pw.source + 1 /\ g'.first = 0
      BY <2>4 DEF ShootDone, UmcEnter, Compiling, NextPlatter
    <3>. QED
      BY <2>4, <3>1 DEF Pc
  <2>5. Shoot /\ ShootDone => mode' \in {"aborted", "run", "compile"}
    BY DEF ShootDone, UmcEnter
  <2>. QED
    BY <2>1, <2>2, <2>3, <2>4, <2>5 DEF Shoot
<1>. QED
  BY <1>1, <1>2, <1>3 DEF UM!vars

\* Going on to the next platter of the block.
LEMMA AdvancePc ==
  ASSUME IInv, mode = "run", Advance(1), mode' = "run"
  PROVE  Pc' = cur.pos + 1
  BY DEF Advance, IInv, ControlOK, Pc

\* An operation is an instruction of the UM.
LEMMA OpSteps ==
  ASSUME IInv, SInv, RestOK, SrcInv, RunOp \/ RunStore \/ RunPostwrite
  PROVE  UM!Step \/ UM!Amend
<1>1. CASE RunOp
  <2>1. /\ mode = "run" /\ mode' = "run" /\ Running("op") /\ Advance(1)
        /\ UNCHANGED <<prog, proglen>>
    BY <1>1 DEF RunOp, Running
  <2>2. Pc = cur.pos /\ cur.pos < proglen /\ prog[cur.pos] \in {"op", "cmov", "nand"}
    BY <2>1, RunningSource DEF Classed
  <2>3. Pc' = Pc + 1
    BY <2>1, <2>2, AdvancePc
  <2>. QED
    BY <2>1, <2>2, <2>3 DEF UM!Step, UM!At
<1>2. CASE RunStore
  <2> DEFINE op == OpAt(Here, cur.pos)
  <2>1. /\ mode = "run" /\ mode' = "run" /\ Running("store") /\ Advance(1)
        /\ proglen' = proglen /\ \E v \in Insns : prog' = [prog EXCEPT ![op.t] = v]
    BY <1>2 DEF RunStore, Running
  <2>2. Pc = cur.pos /\ cur.pos < proglen /\ prog[cur.pos] \in {"amend"}
    BY <2>1, RunningSource DEF Classed
  <2>3. Pc' = Pc + 1
    BY <2>1, <2>2, AdvancePc
  <2>4. op.t \in 0 .. proglen - 1
    BY <1>2, StoreTarget DEF IInv, StoreOK
  <2> HIDE DEF op
  <2>. QED
    BY <2>1, <2>2, <2>3, <2>4 DEF UM!Amend, UM!At
<1>3. CASE RunPostwrite
  <2>1. mode = "run" /\ Running("postwrite") /\ proglen' = proglen
    BY <1>3 DEF RunPostwrite, Running
  <2>2. Pc = cur.pos /\ cur.pos < proglen /\ prog[cur.pos] \in {"amend"}
    BY <2>1, RunningSource DEF Classed
  <2>3. PICK t \in 0 .. proglen - 1, v \in Insns :
          /\ prog' = [prog EXCEPT ![t] = v]
          /\ IF t \notin prognowr
             THEN Advance(1) /\ UNCHANGED <<mode, pw>>
             ELSE /\ mode' = "shoot"
                  /\ pw' = [target |-> t, source |-> cur.pos]
                  /\ UNCHANGED cur
    BY <1>3 DEF RunPostwrite
  <2>4. CASE t \notin prognowr
    <3>1. Pc' = Pc + 1 /\ mode' = "run"
      BY <2>1, <2>2, <2>3, <2>4, AdvancePc
    <3>. QED
      BY <2>1, <2>2, <2>3, <3>1 DEF UM!Amend, UM!At
  <2>5. CASE t \in prognowr
    <3>1. Pc' = Pc + 1 /\ mode' = "shoot"
      BY <2>1, <2>2, <2>3, <2>5 DEF Pc
    <3>. QED
      BY <2>1, <2>2, <2>3, <3>1 DEF UM!Amend, UM!At
  <2>. QED
    BY <2>4, <2>5
<1>. QED
  BY <1>1, <1>2, <1>3

\* Where blocks are resumed, and where the compiler is entered, is in the program.
LEMMA ResumePc ==
  ASSUME NEW cd, NEW id, Resume(cd, id)
  PROVE  Pc' = cd[id].begin /\ mode' = "run"
  BY DEF Resume, Pc

LEMMA EnterPc ==
  ASSUME NEW x, NEW z, NEW caller, UmcEnter(x, z, caller)
  PROVE  Pc' = x /\ mode' = "compile"
  BY DEF UmcEnter, Compiling, Pc

\* A link is a jump of the UM, unless the block merely goes on in another.
LEMMA LinkSteps ==
  ASSUME IInv, LinkInv, RestOK, SrcInv, RunLink
  PROVE  UM!Jump \/ UNCHANGED UM!vars
<1>1. mode = "run" /\ UNCHANGED <<prog, proglen, code>>
  BY DEF RunLink, Exiting
<1>2. cur.id \in 1 .. Len(code) /\ Here = code[cur.id]
  BY <1>1, RunFacts DEF Here
<1>3. PICK a \in DOMAIN Here.exit.arms :
        /\ Here.exit.arms[a].link # 0
        /\ Resume(code, Here.exit.arms[a].link)
  BY DEF RunLink, ToSet
<1> DEFINE arm == Here.exit.arms[a]
<1>4. code[arm.link].begin = arm.dst /\ arm.dst \in 0 .. proglen
  <2>1. LinkOK(arm) /\ ~Pending(arm.link)
    BY <1>1, <1>2, <1>3 DEF LinkInv, Pending
  <2>2. code[arm.link].begin = arm.dst
    BY <1>3, <2>1 DEF LinkOK
  <2>3. arm.dst \in 0 .. proglen
    BY <1>2, <1>3, LinkRange
  <2>. QED
    BY <2>2, <2>3
<1>5. Pc' = arm.dst /\ mode' = "run"
  BY <1>3, <1>4, ResumePc
<1>6. CASE Exiting("loadc") \/ Exiting("branch")
  <2>1. Pc < proglen /\ prog[Pc] \in {"load", "loadc"}
    BY <1>6, ExitingSource DEF ExitAt
  <2> HIDE DEF arm
  <2>. QED
    BY <1>1, <1>4, <1>5, <2>1 DEF UM!Jump, UM!At
<1>7. CASE Exiting("fall")
  <2>1. Pc = Here.end
    BY <1>7, ExitingSource
  <2>2. arm.dst = Here.end
    BY <1>2, <1>3, <1>7 DEF LinkInv, Exiting
  <2>. QED
    BY <1>1, <1>5, <2>1, <2>2 DEF UM!vars
<1>. QED
  BY <1>6, <1>7 DEF RunLink

\* A stub that asks for a block, or a load whose destination is looked up, is a
\* jump of the UM.
LEMMA EnterSteps ==
  ASSUME IInv, RestOK, SrcInv, RunEnterdep \/ RunEnter
  PROVE  UM!Jump
<1>1. mode = "run" /\ UNCHANGED <<prog, proglen>>
  BY DEF RunEnterdep, RunEnter, Exiting
<1>2. SUFFICES Pc' \in 0 .. proglen /\ mode' \in {"run", "compile"}
  <2>1. Pc < proglen /\ prog[Pc] \in {"load", "loadc"}
    <3>1. PICK k \in {"load", "loadc", "branch"} : Exiting(k) /\ (k = "branch" => RunEnterdep)
      BY DEF RunEnterdep, RunEnter
    <3>2. Pc < proglen /\ prog[Pc] \in ExitAt(k)
      BY <3>1, ExitingSource
    <3>. QED
      BY <3>1, <3>2 DEF ExitAt
  <2>. QED
    BY <1>1, <1>2, <2>1 DEF UM!Jump, UM!At
<1>3. CASE RunEnterdep
  <2>1. PICK a \in DOMAIN Here.exit.arms, d \in 0 .. Len(code) :
          LET arm == Here.exit.arms[a]
          IN  /\ arm.dst \in 0 .. proglen
              /\ \A i \in 1 .. Len(code) : Same(code'[i], code[i])
              /\ \/ UmcEnter(arm.dst, arm.znz, [id |-> cur.id, arm |-> a])
                 \/ /\ d # 0 /\ d \in Listed(progblks) /\ code[d].begin = arm.dst
                    /\ Resume(code', d)
    BY <1>3, EnterdepStep
  <2> DEFINE arm == Here.exit.arms[a]
  <2>2. CASE UmcEnter(arm.dst, arm.znz, [id |-> cur.id, arm |-> a])
    BY <2>1, <2>2, EnterPc
  <2>3. CASE d # 0 /\ code[d].begin = arm.dst /\ Resume(code', d)
    <3>1. d \in 1 .. Len(code)
      BY <1>1, <2>3, RunFacts
    <3>2. code'[d].begin = arm.dst
      BY <2>1, <2>3, <3>1 DEF Same
    <3>. QED
      BY <2>1, <2>3, <3>2, ResumePc
  <2>. QED
    BY <2>1, <2>2, <2>3
<1>4. CASE RunEnter
  <2>1. PICK x \in 0 .. proglen, z \in SUBSET Facts :
          LET d == Getblkx(progblks, x, z)
          IN  \/ d # 0 /\ Resume(code, d)
              \/ d = 0 /\ UmcEnter(x, z, NoCaller)
    BY <1>4 DEF RunEnter
  <2> DEFINE d == Getblkx(progblks, x, z)
  <2>2. x \in Addr /\ progblks \in Tables(code)
    <3>1. proglen \in 1 .. MaxLen /\ progblks \in Tables(code)
      BY DEF IInv, StoreOK
    <3>. QED
      BY <3>1, CodeCacheAssumption DEF Addr
  <2>3. CASE UmcEnter(x, z, NoCaller)
    BY <2>3, EnterPc
  <2>4. CASE d # 0 /\ Resume(code, d)
    <3>1. code[d].begin = x
      BY <2>2, <2>4, FoundListed
    <3>. QED
      BY <2>4, <3>1, ResumePc
  <2>. QED
    BY <2>1, <2>3, <2>4
<1>. QED
  BY <1>3, <1>4

\* Every step of compiled code is one of the UM, or none.
LEMMA RunSteps ==
  ASSUME IInv, SInv, LinkInv, RestOK, SrcInv, Run
  PROVE  UM!Next \/ UNCHANGED UM!vars
<1>1. CASE RunStop
  <2>1. Exiting("stop") /\ mode' = "stopped" /\ UNCHANGED <<prog, proglen, cur>>
    BY <1>1 DEF RunStop
  <2>2. /\ mode = "run" /\ Pc = cur.pos
        /\ Pc >= proglen \/ (Pc < proglen /\ prog[Pc] = "stop")
    BY <2>1, ExitingSource
  <2>3. Pc' = Pc
    BY <2>1, <2>2 DEF Pc
  <2>. QED
    BY <2>1, <2>2, <2>3 DEF UM!Next, UM!Stop, UM!At
<1>2. CASE RunLoadfar
  <2>1. mode = "run" /\ Pc < proglen /\ prog[Pc] \in {"load", "loadc"}
    BY <1>2, ExitingSource DEF RunLoadfar, ExitAt
  <2>2. PICK im \in Images : LoadImage(im) /\ \E x \in 0 .. Len(im), z \in SUBSET Facts :
                                                 UmcEnter(x, z, NoCaller)
    BY <1>2 DEF RunLoadfar
  <2>3. Pc' \in 0 .. proglen' /\ mode' = "compile"
    BY <2>2, EnterPc DEF LoadImage
  <2>4. UM!Load(im)
    BY <2>2 DEF LoadImage, UM!Load
  <2>. QED
    BY <2>1, <2>3, <2>4 DEF UM!Next, UM!LoadProgram, UM!At
<1>3. CASE RunNoex
  <2>1. Pc = cur.pos /\ mode = "run" /\ UNCHANGED <<prog, proglen>>
    BY <1>3, ExitingSource DEF RunNoex
  <2>2. Pc' = cur.pos /\ mode' = "compile"
    BY <1>3, EnterPc DEF RunNoex
  <2>. QED
    BY <2>1, <2>2 DEF UM!vars
<1>. QED
  BY <1>1, <1>2, <1>3, OpSteps, LinkSteps, EnterSteps DEF Run, UM!Next

-----------------------------------------------------------------------------
(* The theorems *)

LEMMA InitSimulates == Init => UM!Init
  BY DEF Init, UM!Init, Compiling, Pc

\* Every step of umx is a step of the UM, or none at all.
LEMMA StepSimulates ==
  ASSUME IInv, SInv, LinkInv, RestOK, SrcInv, [Next]_vars
  PROVE  [UM!Next]_(UM!vars)
<1>1. CASE UNCHANGED vars
  BY <1>1 DEF vars, UM!vars, Pc
<1>. QED
  BY <1>1, CompileStutters, ShootStutters, RunSteps DEF Next

\* For every set of programs and every size, as long as look-ahead is safe and no
\* block that is linked to is shot down alone: compiling, linking, patching,
\* shooting down and compiling anew is, step by step, the execution of array 0 as
\* the Universal Machine has it (UMControl).
THEOREM ImplementsTheUM ==
  Spec /\ []LookaheadSafe /\ []LinkedStay => ImplementsUM
<1>1. Init => UM!Init
  BY InitSimulates
<1>2. IInv /\ SInv /\ LinkInv /\ RestOK /\ SrcInv /\ [Next]_vars => [UM!Next]_(UM!vars)
  BY StepSimulates
<1>. QED
  BY <1>1, <1>2, Invariance, CacheInvariance, LinksInvariance, RestInvariance, CompilesRight, PTL
     DEF Spec, ImplementsUM, UM!Spec

\* For programs without the instructions that are fused, and whose loads all go to
\* destinations computed as they run, nothing has to be supposed.
THEOREM ComputedJumpsImplement ==
  ASSUME Without({"nand", "cmov", "loadc"})
  PROVE  Spec => ImplementsUM
<1>1. Without({"nand", "cmov"}) /\ Without({"loadc", "cmov"})
  BY DEF Without
<1>. QED
  BY <1>1, UnfusedSafe, UnlinkedSafe, MarksInvariance, MarkedStay, ImplementsTheUM, PTL

=============================================================================
