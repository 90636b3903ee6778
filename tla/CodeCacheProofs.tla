-------------------------- MODULE CodeCacheProofs --------------------------
(***************************************************************************)
(* Proofs about CodeCache, for every set of programs and every size.       *)
(***************************************************************************)
EXTENDS CodeCache, SetInduction, SequenceTheorems, TLAPS

-----------------------------------------------------------------------------
(* The inductive invariant *)

\* A block of a program of len platters whose exits lead to code numbered up to n.
Good(b, n, len) ==
  /\ WellFormed(b)
  /\ b.end <= len
  /\ \A a \in DOMAIN b.exit.arms :
       b.exit.arms[a].dst <= len /\ b.exit.arms[a].link <= n

GoodCode(cd, n, len) ==
  /\ cd \in Seq(Blocks)
  /\ \A id \in 1 .. Len(cd) : Good(cd[id], n, len)

\* The tables of the blocks cd, each filed under its beginning.
Ids(cd, x) == {id \in 1 .. Len(cd) : cd[id].begin = x}
Tables(cd) == {tbl \in [Addr -> Seq(1 .. Len(cd))] : \A x \in Addr : tbl[x] \in Seq(Ids(cd, x))}

\* A fall-through exit is compiled before the block it leads to.
LastLink == IF mode = "compile" THEN Len(code) + 1 ELSE Len(code)

GoodCaller(c, cd) ==
  c.id # 0 => /\ c.id \in 1 .. Len(cd)
              /\ c.arm \in DOMAIN cd[c.id].exit.arms

\* The compiler has dealt with the platters from g.begin to g.time - 1.
CompileInv ==
  mode = "compile" =>
    /\ g.begin <= g.time
    /\ g.time <= proglen
    /\ Len(g.ops) = g.time - g.begin
    /\ g.first <= Len(code)
    /\ GoodCaller(g.caller, code)

\* Code that called um_postwrite may have been freed with its world, but then
\* nothing is protected, and it will not be returned to.
ShootInv ==
  mode = "shoot" =>
    /\ pw.target < proglen
    /\ pw.source < proglen
    /\ \/ cur.id = 0 /\ prognowr = {}
       \/ /\ cur.id \in 1 .. Len(code)
          /\ cur.pos >= Here.begin
          /\ cur.pos < Here.exit.at

\* What holds of the program and its world whoever has control.
StoreOK ==
  /\ proglen \in 1 .. MaxLen
  /\ prog \in [0 .. proglen - 1 -> Classes]
  /\ progblks \in Tables(code)
  /\ prognowr \subseteq 0 .. proglen - 1
  /\ prognoex \subseteq 0 .. proglen - 1
  /\ pw \in [target : Addr, source : Addr]

ControlOK ==
  /\ mode \in {"compile", "run", "shoot", "stopped", "aborted"}
  /\ cur \in [id : Nat, pos : Addr]
  /\ g \in Compilations

IInv ==
  /\ StoreOK
  /\ ControlOK
  /\ GoodCode(code, LastLink, proglen)
  /\ CompileInv
  /\ NoDangling
  /\ ShootInv

-----------------------------------------------------------------------------
(* The operators of the block table *)

\* A nonempty set of numbers has a least element.
LEMMA MinIn == ASSUME NEW S \in SUBSET Nat, S # {} PROVE Min(S) \in S
  BY LeastElement DEF Min

\* getblkx finds a block of the table, or none.
LEMMA GetblkxType ==
  ASSUME NEW n \in Nat, NEW tbl \in [Addr -> Seq(1 .. n)], NEW x \in Addr, NEW z
  PROVE  Getblkx(tbl, x, z) \in 0 .. n
<1>1. CASE Hits(tbl, x, z) = {}
  BY <1>1 DEF Getblkx
<1>2. CASE Hits(tbl, x, z) # {}
  <2>1. tbl[x] \in Seq(1 .. n) /\ DOMAIN tbl[x] = 1 .. Len(tbl[x])
    BY LenProperties
  <2>2. Min(Hits(tbl, x, z)) \in Hits(tbl, x, z)
    <3>1. Hits(tbl, x, z) \in SUBSET Nat
      BY <2>1 DEF Hits
    <3>. QED
      BY <1>2, <3>1, MinIn
  <2>3. tbl[x][Min(Hits(tbl, x, z))] \in 1 .. n
    BY <2>1, <2>2, ElementOfSeq DEF Hits
  <2>. QED
    BY <1>2, <2>3 DEF Getblkx
<1>. QED
  BY <1>1, <1>2

\* Moving a block to the front of its list keeps the table a table.
LEMMA TouchType ==
  ASSUME NEW cd, NEW tbl \in Tables(cd), NEW x \in Addr, NEW z
  PROVE  Touch(tbl, x, z) \in Tables(cd)
<1>1. CASE Hits(tbl, x, z) = {}
  BY <1>1 DEF Touch
<1>2. CASE Hits(tbl, x, z) # {}
  <2> DEFINE s == tbl[x]
             k == Min(Hits(tbl, x, z))
             I == Ids(cd, x)
  <2>1. s \in Seq(I) /\ DOMAIN s = 1 .. Len(s) /\ Len(s) \in Nat
    BY LenProperties DEF Tables
  <2>2. k \in 1 .. Len(s)
    <3>1. Hits(tbl, x, z) \in SUBSET (1 .. Len(s))
      BY <2>1 DEF Hits
    <3>2. Hits(tbl, x, z) \in SUBSET Nat
      BY <2>1, <3>1
    <3>. QED
      BY <1>2, <3>1, <3>2, MinIn
  <2> HIDE DEF k, I
  <2>3. \A i \in 1 .. Len(s) : s[i] \in I
    BY <2>1, ElementOfSeq
  <2>4. SubSeq(s, 1, k - 1) \in Seq(I) /\ SubSeq(s, k + 1, Len(s)) \in Seq(I)
    <3> HIDE DEF s
    <3>1. \A i \in 1 .. k - 1 : s[i] \in I
      BY <2>1, <2>2, <2>3
    <3>2. \A i \in k + 1 .. Len(s) : s[i] \in I
      BY <2>1, <2>2, <2>3
    <3>. QED
      BY <2>1, <2>2, <3>1, <3>2, SubSeqProperties
  <2>5. ToFront(s, k) \in Seq(I)
    <3>1. <<s[k]>> \in Seq(I)
      BY <2>2, <2>3
    <3>. QED
      BY <2>4, <3>1, ConcatProperties DEF ToFront, RemoveAt
  <2>6. ToFront(s, k) \in Seq(1 .. Len(cd))
    BY <2>5, SeqMonotonic DEF I, Ids
  <2>7. Touch(tbl, x, z) = [tbl EXCEPT ![x] = ToFront(s, k)]
    BY <1>2 DEF Touch, k
  <2> HIDE DEF s
  <2>. QED
    BY <2>5, <2>6, <2>7 DEF Tables, I
<1>. QED
  BY <1>1, <1>2

\* A table stays a table while blocks keep their beginnings and new ones come.
LEMMA TableMono ==
  ASSUME NEW cd, NEW tbl \in Tables(cd), Len(cd) \in Nat,
         NEW cd2, Len(cd2) \in Nat, Len(cd) <= Len(cd2),
         \A i \in 1 .. Len(cd) : cd2[i].begin = cd[i].begin
  PROVE  tbl \in Tables(cd2)
<1>1. \A x \in Addr : tbl[x] \in Seq(Ids(cd2, x))
  <2>1. \A x \in Addr : Ids(cd, x) \subseteq Ids(cd2, x)
    BY DEF Ids
  <2>. QED
    BY <2>1, SeqMonotonic DEF Tables
<1>2. \A x \in Addr : tbl[x] \in Seq(1 .. Len(cd2))
  <2>1. 1 .. Len(cd) \subseteq 1 .. Len(cd2)
    OBVIOUS
  <2>. QED
    BY <2>1, SeqMonotonic DEF Tables
<1>. QED
  BY <1>1, <1>2 DEF Tables

\* getblk finds a block of the table, or none.
LEMMA GetblkType ==
  ASSUME NEW n \in Nat, NEW tbl \in [Addr -> Seq(1 .. n)], NEW x \in Addr
  PROVE  Getblk(tbl, x) \in 0 .. n
<1> DEFINE at == {i \in Window(x) : tbl[i] # <<>> /\ Covers(code[Head(tbl[i])], x)}
<1>1. CASE at = {}
  BY <1>1 DEF Getblk
<1>2. CASE at # {}
  <2>1. Window(x) \subseteq Addr /\ Addr \subseteq Nat
    BY CodeCacheAssumption DEF Window, Addr
  <2>2. Min(at) \in at
    BY <1>2, <2>1, MinIn
  <2>3. Head(tbl[Min(at)]) \in 1 .. n
    BY <2>1, <2>2, HeadTailProperties
  <2>. QED
    BY <1>2, <2>3 DEF Getblk
<1>. QED
  BY <1>1, <1>2

-----------------------------------------------------------------------------
(* The operators on compiled code *)

\* The parts of a well-formed block, one by one.
LEMMA BlockParts ==
  ASSUME NEW b \in Blocks
  PROVE  /\ b.begin \in Nat /\ b.end \in Nat /\ b.exit.at \in Nat
         /\ Len(b.ops) \in Nat
         /\ b.exit.arms \in Seq(Arms)
         /\ \A a \in DOMAIN b.exit.arms :
              b.exit.arms[a] \in Arms /\ b.exit.arms[a].dst \in Nat
<1>1. b.exit \in Exits /\ b.exit.arms \in Seq(Arms) /\ b.ops \in Seq(Ops)
  BY DEF Blocks, Exits
<1>2. \A a \in DOMAIN b.exit.arms : b.exit.arms[a] \in Arms
  BY <1>1, ElementOfSeq, LenProperties
<1>3. Addr \subseteq Nat
  BY CodeCacheAssumption DEF Addr
<1>. QED
  BY <1>1, <1>2, <1>3, LenProperties DEF Blocks, Exits, Arms

\* Marking a block changes nothing else of the code.
LEMMA DependGood ==
  ASSUME NEW n, NEW len, NEW cd, GoodCode(cd, n, len), NEW id \in 0 .. Len(cd)
  PROVE  /\ GoodCode(Depend(cd, id), n, len)
         /\ Len(Depend(cd, id)) = Len(cd)
         /\ \A i \in 1 .. Len(cd) : /\ Depend(cd, id)[i].exit = cd[i].exit
                                    /\ Depend(cd, id)[i].begin = cd[i].begin
<1>1. CASE id = 0
  BY <1>1 DEF Depend
<1>2. CASE id # 0
  <2> DEFINE b == [cd[id] EXCEPT !.dep = TRUE]
             d == [cd EXCEPT ![id] = b]
  <2>1. cd \in Seq(Blocks) /\ id \in 1 .. Len(cd) /\ cd[id] \in Blocks
    BY <1>2, ElementOfSeq DEF GoodCode
  <2>2. Good(cd[id], n, len)
    BY <2>1 DEF GoodCode
  <2>3. /\ b \in Blocks /\ b.exit = cd[id].exit /\ b.begin = cd[id].begin
        /\ b.end = cd[id].end /\ b.ops = cd[id].ops
    BY <2>1 DEF Blocks
  <2>4. Good(b, n, len)
    BY <2>2, <2>3 DEF Good, WellFormed
  <2>5. /\ d \in Seq(Blocks) /\ Len(d) = Len(cd)
        /\ \A i \in 1 .. Len(cd) : d[i] = IF i = id THEN b ELSE cd[i]
    BY <2>1, <2>3, ExceptSeq
  <2>6. Depend(cd, id) = d
    BY <1>2 DEF Depend
  <2> HIDE DEF b, d
  <2>. QED
    BY <2>3, <2>4, <2>5, <2>6 DEF GoodCode
<1>. QED
  BY <1>1, <1>2

\* Patching a stub leads an exit to other code and changes nothing else.
LEMMA PatchGood ==
  ASSUME NEW n \in Nat, NEW len, NEW cd, GoodCode(cd, n, len),
         NEW caller \in Callers, GoodCaller(caller, cd), NEW id \in 0 .. n
  PROVE  /\ GoodCode(Patch(cd, caller, id), n, len)
         /\ Len(Patch(cd, caller, id)) = Len(cd)
         /\ \A i \in 1 .. Len(cd) :
              /\ Patch(cd, caller, id)[i].begin = cd[i].begin
              /\ Patch(cd, caller, id)[i].exit.at = cd[i].exit.at
<1>1. CASE caller.id = 0
  BY <1>1 DEF Patch
<1>2. CASE caller.id # 0
  <2> DEFINE c == caller.id
             a == caller.arm
             b == cd[c]
             arm == [b.exit.arms[a] EXCEPT !.link = id]
             arms == [b.exit.arms EXCEPT ![a] = arm]
             e == [b.exit EXCEPT !.arms = arms]
             nb == [b EXCEPT !.exit = e]
             d == [cd EXCEPT ![c] = nb]
  <2>1. cd \in Seq(Blocks) /\ c \in 1 .. Len(cd) /\ b \in Blocks
    BY <1>2, ElementOfSeq DEF GoodCode, GoodCaller
  <2>2. Good(b, n, len)
    BY <2>1 DEF GoodCode
  <2>3. /\ b.exit.arms \in Seq(Arms) /\ a \in DOMAIN b.exit.arms
        /\ b.exit.arms[a] \in Arms /\ b.exit \in Exits
    BY <1>2, <2>1, BlockParts DEF GoodCaller, Blocks
  <2>4. arm \in Arms /\ arm.dst = b.exit.arms[a].dst /\ arm.link = id
    <3> DEFINE old == b.exit.arms[a]
    <3>1. old \in Arms /\ id \in Nat
      BY <2>3
    <3>2. arm = [old EXCEPT !.link = id]
      OBVIOUS
    <3> HIDE DEF old, arm
    <3>3. arm \in Arms /\ arm.dst = old.dst /\ arm.link = id
      BY <3>1, <3>2 DEF Arms
    <3>. QED
      BY <3>3 DEF old
  <2>5. /\ arms \in Seq(Arms) /\ DOMAIN arms = DOMAIN b.exit.arms
        /\ \A i \in DOMAIN arms : arms[i] = IF i = a THEN arm ELSE b.exit.arms[i]
    <3>1. a \in 1 .. Len(b.exit.arms)
      BY <2>3, LenProperties
    <3>2. arms \in Seq(Arms)
      BY <2>3, <2>4, <3>1, ExceptSeq
    <3>. QED
      BY <3>2
  <2>6. e \in Exits /\ e.arms = arms /\ e.at = b.exit.at
    BY <2>3, <2>5 DEF Exits
  <2>7. /\ nb \in Blocks /\ nb.exit = e /\ nb.begin = b.begin
        /\ nb.end = b.end /\ nb.ops = b.ops
    BY <2>1, <2>6 DEF Blocks
  <2>8. Good(nb, n, len)
    <3>1. WellFormed(nb) /\ nb.end <= len
      <4> HIDE DEF e, nb, b
      <4>. QED
        BY <2>2, <2>6, <2>7 DEF Good, WellFormed
    <3>2. \A i \in DOMAIN b.exit.arms : b.exit.arms[i].dst <= len /\ b.exit.arms[i].link <= n
      BY <2>2 DEF Good
    <3>3. arm.dst <= len /\ arm.link <= n
      <4> HIDE DEF arm, b
      <4>. QED
        BY <2>3, <2>4, <3>2
    <3>4. \A i \in DOMAIN arms : arms[i].dst <= len /\ arms[i].link <= n
      <4> HIDE DEF arm, arms, b
      <4>. QED
        BY <2>5, <3>2, <3>3
    <3> HIDE DEF arms, e, nb
    <3>. QED
      BY <2>6, <2>7, <3>1, <3>4 DEF Good
  <2>9. /\ d \in Seq(Blocks) /\ Len(d) = Len(cd)
        /\ \A i \in 1 .. Len(cd) : d[i] = IF i = c THEN nb ELSE cd[i]
    <3>1. c \in 1 .. Len(cd) /\ cd \in Seq(Blocks)
      BY <2>1
    <3> HIDE DEF nb
    <3>2. d = [cd EXCEPT ![c] = nb]
      OBVIOUS
    <3>. QED
      BY <2>7, <3>1, <3>2, ExceptSeq, LenProperties
  <2>10. Patch(cd, caller, id) = d
    BY <1>2 DEF Patch
  <2>11. \A i \in 1 .. Len(cd) : d[i].begin = cd[i].begin /\ d[i].exit.at = cd[i].exit.at
    <3> HIDE DEF e, nb, d
    <3>. QED
      BY <2>6, <2>7, <2>9
  <2>12. GoodCode(d, n, len)
    <3> HIDE DEF nb, d
    <3>. QED
      BY <2>8, <2>9 DEF GoodCode
  <2> HIDE DEF d
  <2>. QED
    BY <2>9, <2>10, <2>11, <2>12
<1>. QED
  BY <1>1, <1>2

\* A block whose exits may lead one further than the others' is appended.
LEMMA AppendGood ==
  ASSUME NEW n \in Nat, NEW m \in Nat, n <= m, NEW len, NEW cd, GoodCode(cd, n, len),
         NEW b \in Blocks, Good(b, m, len)
  PROVE  /\ GoodCode(Append(cd, b), m, len)
         /\ Len(Append(cd, b)) = Len(cd) + 1
         /\ Append(cd, b)[Len(cd) + 1] = b
         /\ \A i \in 1 .. Len(cd) : Append(cd, b)[i] = cd[i]
<1>1. cd \in Seq(Blocks) /\ Len(cd) \in Nat
  BY LenProperties DEF GoodCode
<1>2. \A i \in 1 .. Len(cd) : Good(cd[i], m, len)
  <2>1. SUFFICES ASSUME NEW i \in 1 .. Len(cd) PROVE Good(cd[i], m, len)
    OBVIOUS
  <2>2. Good(cd[i], n, len) /\ cd[i] \in Blocks
    BY <1>1, ElementOfSeq DEF GoodCode
  <2>3. \A a \in DOMAIN cd[i].exit.arms : cd[i].exit.arms[a].link \in Nat
    BY <2>2, BlockParts DEF Arms
  <2>. QED
    BY <2>2, <2>3 DEF Good
<1>3. /\ Append(cd, b) \in Seq(Blocks) /\ Len(Append(cd, b)) = Len(cd) + 1
      /\ Append(cd, b)[Len(cd) + 1] = b
      /\ \A i \in 1 .. Len(cd) : Append(cd, b)[i] = cd[i]
  BY <1>1, AppendProperties
<1>. QED
  BY <1>1, <1>2, <1>3 DEF GoodCode

\* A well-formed caller stays so when more code is well formed.
LEMMA GoodMono ==
  ASSUME NEW n \in Nat, NEW m \in Nat, n <= m, NEW len, NEW cd, GoodCode(cd, n, len)
  PROVE  GoodCode(cd, m, len)
<1>1. SUFFICES ASSUME NEW id \in 1 .. Len(cd) PROVE Good(cd[id], m, len)
  BY DEF GoodCode
<1>2. Good(cd[id], n, len) /\ cd[id] \in Blocks
  BY ElementOfSeq DEF GoodCode
<1>3. \A a \in DOMAIN cd[id].exit.arms : cd[id].exit.arms[a].link \in Nat
  BY <1>2, BlockParts DEF Arms
<1>. QED
  BY <1>2, <1>3 DEF Good

\* The constants, empty code and the idle compiler are of their types.
LEMMA Sizes ==
  /\ Addr \subseteq Nat /\ 0 \in Addr
  /\ \A n \in 0 .. MaxLen : n \in Addr
  /\ GoodCode(<<>>, 0, MaxLen)
  /\ NoCode \in Compilations /\ NoBlock \in [id : Nat, pos : Addr]
<1>1. Addr \subseteq Nat /\ 0 \in Addr /\ \A n \in 0 .. MaxLen : n \in Addr
  BY CodeCacheAssumption DEF Addr
<1>2. <<>> \in Seq(Blocks) /\ <<>> \in Seq(Ops) /\ Len(<<>>) = 0
  BY EmptySeq
<1>. QED
  BY <1>1, <1>2 DEF GoodCode, NoCode, NoBlock, NoCaller, Compilations, Callers

-----------------------------------------------------------------------------
(* Passing control *)

\* The record of a compilation is of its type.
LEMMA CompilingType ==
  ASSUME NEW x \in Addr, NEW z \in SUBSET Facts, NEW dep \in BOOLEAN, NEW first \in Nat,
         NEW caller \in Callers
  PROVE  Compiling(x, z, dep, first, caller) \in Compilations
<1>1. <<>> \in Seq(Ops)
  BY EmptySeq
<1>. QED
  BY <1>1 DEF Compiling, Compilations

\* Resuming at a block of a good world preserves the invariant.
LEMMA ResumeInv ==
  ASSUME StoreOK', NEW cd, code' = cd, GoodCode(cd, Len(cd), proglen'),
         NEW id \in 1 .. Len(cd), Resume(cd, id)
  PROVE  IInv'
<1>1. mode' = "run" /\ cur' = [id |-> id, pos |-> cd[id].begin] /\ g' = NoCode
  BY DEF Resume
<1>2. cd \in Seq(Blocks) /\ Len(cd) \in Nat /\ cd[id] \in Blocks /\ Good(cd[id], Len(cd), proglen')
  BY ElementOfSeq, LenProperties DEF GoodCode
<1>3. ControlOK'
  BY <1>1, <1>2, Sizes DEF ControlOK, Blocks
<1>4. GoodCode(code, LastLink, proglen)'
  BY <1>1 DEF LastLink
<1>5. NoDangling'
  <2>1. cd[id].begin \in cd[id].begin .. cd[id].exit.at
    BY <1>2, BlockParts DEF Good, WellFormed
  <2>2. DOMAIN cd = 1 .. Len(cd)
    BY <1>2, LenProperties
  <2>. QED
    BY <1>1, <2>1, <2>2 DEF NoDangling, Here
<1>. QED
  BY <1>1, <1>3, <1>4, <1>5 DEF IInv, CompileInv, ShootInv

\* So does compiling at any place of the program.
LEMMA EnterInv ==
  ASSUME StoreOK', GoodCode(code', Len(code'), proglen'),
         NEW x \in 0 .. proglen', NEW z \in SUBSET Facts, NEW caller \in Callers,
         GoodCaller(caller, code'), UmcEnter(x, z, caller)
  PROVE  IInv'
<1>1. mode' = "compile" /\ g' = Compiling(x, z, FALSE, 0, caller) /\ cur' = NoBlock
  BY DEF UmcEnter
<1>2. proglen' \in 1 .. MaxLen /\ x \in Addr /\ x \in Nat
  BY Sizes, CodeCacheAssumption DEF StoreOK, Addr
<1>3. g' \in Compilations
  BY <1>1, <1>2, CompilingType
<1>4. ControlOK'
  BY <1>1, <1>3, Sizes DEF ControlOK
<1>5. code' \in Seq(Blocks) /\ Len(code') \in Nat
  BY LenProperties DEF GoodCode
<1>6. GoodCode(code, LastLink, proglen)'
  BY <1>1, <1>5, GoodMono DEF LastLink
<1>7. CompileInv'
  <2>1. Len(<<>>) = 0
    OBVIOUS
  <2>. QED
    BY <1>1, <1>2, <1>5, <2>1 DEF CompileInv, Compiling
<1>. QED
  BY <1>1, <1>4, <1>6, <1>7 DEF IInv, NoDangling, ShootInv

\* The next turn of the compiler's loop.
LEMMA EmitInv ==
  ASSUME IInv, mode = "compile", NEW ops \in Seq(Ops), Len(ops) \in {1, 2},
         g.time < proglen, g.time + Len(ops) <= proglen,
         NEW noex \in SUBSET (0 .. proglen - 1), Emit(ops, noex)
  PROVE  IInv'
<1>1. /\ g' = [g EXCEPT !.ops = @ \o ops, !.time = @ + Len(ops)]
      /\ prognowr' = prognowr \cup {g.time}
      /\ prognoex' = noex
      /\ UNCHANGED <<prog, proglen, code, progblks, mode, cur, pw>>
  BY DEF Emit
<1>2. /\ g \in Compilations /\ g.ops \in Seq(Ops) /\ g.time \in Nat /\ g.begin \in Nat
      /\ proglen \in Nat /\ proglen <= MaxLen
  <2>1. g \in Compilations /\ proglen \in 1 .. MaxLen
    BY DEF IInv, ControlOK, StoreOK
  <2>2. g.ops \in Seq(Ops) /\ g.time \in Addr /\ g.begin \in Addr
    BY <2>1 DEF Compilations
  <2>3. g.time \in Nat /\ g.begin \in Nat
    BY <2>2, Sizes
  <2>4. proglen \in Nat /\ proglen <= MaxLen
    BY <2>1, CodeCacheAssumption
  <2>. QED
    BY <2>1, <2>2, <2>3, <2>4
<1>3. /\ g.begin <= g.time /\ Len(g.ops) = g.time - g.begin
      /\ g.first <= Len(code) /\ GoodCaller(g.caller, code)
  BY DEF IInv, CompileInv
<1>4. g.ops \o ops \in Seq(Ops) /\ Len(g.ops \o ops) = Len(g.ops) + Len(ops)
  BY <1>2, ConcatProperties
<1>5. /\ g'.time = g.time + Len(ops) /\ g'.begin = g.begin /\ g'.ops = g.ops \o ops
      /\ g'.first = g.first /\ g'.caller = g.caller
  BY <1>1, <1>2 DEF Compilations
<1>6. g.time + Len(ops) \in Addr /\ g.time \in 0 .. proglen - 1
  <2>1. g.time \in 0 .. proglen - 1
    BY <1>2
  <2>2. g.time + Len(ops) \in 0 .. MaxLen
    BY <1>2, CodeCacheAssumption
  <2>. QED
    BY <2>1, <2>2 DEF Addr
<1>7. g' \in Compilations
  BY <1>1, <1>2, <1>4, <1>6 DEF Compilations
<1>8. StoreOK' /\ ControlOK'
  BY <1>1, <1>6, <1>7 DEF IInv, StoreOK, ControlOK
<1>9. CompileInv'
  BY <1>1, <1>2, <1>3, <1>4, <1>5 DEF CompileInv
<1>10. GoodCode(code, LastLink, proglen)'
  BY <1>1 DEF IInv, LastLink
<1>. QED
  BY <1>1, <1>8, <1>9, <1>10 DEF IInv, NoDangling, ShootInv

\* What a compilation has so far, in the types its uses need.
LEMMA CompilationFacts ==
  ASSUME IInv, mode = "compile"
  PROVE  /\ Len(code) \in Nat /\ proglen \in Nat /\ proglen \in 1 .. MaxLen
         /\ proglen \in Addr
         /\ g.begin \in Addr /\ g.begin \in Nat /\ g.time \in Addr /\ g.time \in Nat
         /\ g.ops \in Seq(Ops) /\ g.znz \in SUBSET Facts /\ g.dep \in BOOLEAN
         /\ g.first \in Nat /\ g.caller \in Callers
         /\ g.begin <= g.time /\ g.time <= proglen /\ Len(g.ops) = g.time - g.begin
         /\ g.first <= Len(code) /\ GoodCaller(g.caller, code)
         /\ GoodCode(code, Len(code) + 1, proglen)
<1>1. GoodCode(code, Len(code) + 1, proglen)
  BY DEF IInv, LastLink
<1>2. Len(code) \in Nat /\ g \in Compilations /\ proglen \in 1 .. MaxLen
  BY <1>1, LenProperties DEF IInv, GoodCode, ControlOK, StoreOK
<1>3. proglen \in Nat /\ proglen \in Addr
  BY <1>2, CodeCacheAssumption DEF Addr
<1>4. /\ g.begin \in Addr /\ g.time \in Addr /\ g.ops \in Seq(Ops)
      /\ g.znz \in SUBSET Facts /\ g.dep \in BOOLEAN /\ g.first \in Nat
      /\ g.caller \in Callers
  BY <1>2 DEF Compilations
<1>. QED
  BY <1>1, <1>2, <1>3, <1>4, Sizes DEF IInv, CompileInv

\* The block made of a compilation is well formed.
LEMMA NewBlockGood ==
  ASSUME IInv, mode = "compile", NEW m \in Nat,
         NEW ops \in Seq(Ops), NEW end \in 0 .. proglen, NEW exit \in Exits,
         exit.at = g.begin + Len(g.ops \o ops), exit.at <= end,
         \A a \in DOMAIN exit.arms : /\ exit.arms[a].dst <= proglen
                                     /\ exit.arms[a].link <= m
  PROVE  /\ NewBlock(ops, end, exit) \in Blocks
         /\ Good(NewBlock(ops, end, exit), m, proglen)
<1> DEFINE b == NewBlock(ops, end, exit)
           xs == g.begin .. end - 1
<1>1. end \in Addr /\ end \in Nat /\ end <= proglen /\ proglen <= MaxLen
  BY CompilationFacts, CodeCacheAssumption DEF Addr
<1>2. xs \in SUBSET Addr
  <2>1. SUFFICES ASSUME NEW x \in xs PROVE x \in 0 .. MaxLen
    BY DEF Addr
  <2>2. x \in Int /\ g.begin <= x /\ x <= end - 1
    BY <1>1, CompilationFacts
  <2>. QED
    BY <1>1, <2>2, CompilationFacts, CodeCacheAssumption
<1>3. [x \in xs |-> prog[x]] \in Sources
  <2>1. \A x \in xs : x \in 0 .. proglen - 1
    BY <1>1, CompilationFacts
  <2>2. \A x \in xs : prog[x] \in Classes
    BY <2>1 DEF IInv, StoreOK
  <2> HIDE DEF xs
  <2>3. [x \in xs |-> prog[x]] \in [xs -> Classes]
    BY <2>2
  <2>. QED
    BY <1>2, <2>3 DEF Sources
<1>4. g.ops \o ops \in Seq(Ops)
  BY CompilationFacts, ConcatProperties
<1>5. b \in Blocks
  BY <1>1, <1>3, <1>4, CompilationFacts DEF NewBlock, Blocks
<1>6. b.begin = g.begin /\ b.end = end /\ b.ops = g.ops \o ops /\ b.exit = exit
  BY DEF NewBlock
<1> HIDE DEF b
<1>7. Good(b, m, proglen)
  BY <1>1, <1>6 DEF Good, WellFormed
<1>. QED
  BY <1>5, <1>7 DEF b

\* Entering it in the table keeps the table and the bitmap in bounds.
LEMMA UseblkType ==
  ASSUME IInv, mode = "compile", NEW tbl \in Tables(code),
         NEW end \in 0 .. proglen, Useblk(tbl, Len(code) + 1, end),
         NEW cd, Len(cd) = Len(code) + 1, cd[Len(cd)].begin = g.begin,
         \A i \in 1 .. Len(code) : cd[i].begin = code[i].begin
  PROVE  progblks' \in Tables(cd) /\ prognowr' \subseteq 0 .. proglen - 1
<1> DEFINE n == Len(code)
           s == <<n + 1>> \o tbl[g.begin]
<1>1. tbl \in Tables(cd) /\ n \in Nat
  <2>1. n \in Nat /\ Len(cd) = n + 1 /\ tbl \in Tables(code)
    BY CompilationFacts
  <2>2. Len(cd) \in Nat /\ n <= Len(cd)
    BY <2>1
  <2>. QED
    BY <2>1, <2>2, TableMono
<1>2. s \in Seq(Ids(cd, g.begin))
  <2>1. n + 1 \in Ids(cd, g.begin)
    BY <1>1 DEF Ids
  <2>2. <<n + 1>> \in Seq(Ids(cd, g.begin)) /\ tbl[g.begin] \in Seq(Ids(cd, g.begin))
    BY <1>1, <2>1, CompilationFacts DEF Tables
  <2>. QED
    BY <2>2, ConcatProperties
<1>3. s \in Seq(1 .. Len(cd))
  BY <1>2, SeqMonotonic DEF Ids
<1>4. progblks' = [tbl EXCEPT ![g.begin] = s]
  BY DEF Useblk
<1> HIDE DEF s
<1>5. progblks' \in Tables(cd)
  BY <1>1, <1>2, <1>3, <1>4, CompilationFacts DEF Tables
<1>6. g.begin .. end - 1 \subseteq 0 .. proglen - 1
  BY CompilationFacts
<1>. QED
  BY <1>5, <1>6 DEF Useblk, IInv, StoreOK

\* Ending a block and resuming.
LEMMA FinishInv ==
  ASSUME IInv, mode = "compile",
         NEW ops \in Seq(Ops), NEW end \in 0 .. proglen, NEW exit \in Exits,
         exit.at = g.begin + Len(g.ops \o ops), exit.at <= end,
         \A a \in DOMAIN exit.arms : /\ exit.arms[a].dst <= proglen
                                     /\ exit.arms[a].link <= Len(code) + 1,
         NEW tbl \in Tables(code),
         NEW cd, GoodCode(cd, Len(code) + 1, proglen), Len(cd) = Len(code),
         \A i \in 1 .. Len(code) : cd[i].begin = code[i].begin,
         GoodCaller(g.caller, cd),
         Finish(ops, end, exit, tbl, cd)
  PROVE  IInv'
<1> DEFINE n == Len(code)
           b == NewBlock(ops, end, exit)
           cd0 == Append(cd, b)
           cd1 == Patch(cd0, g.caller, First(n + 1))
<1>1. /\ code' = cd1 /\ Useblk(tbl, n + 1, end) /\ Resume(cd1, First(n + 1))
      /\ UNCHANGED <<prog, proglen, prognoex, pw>>
  BY DEF Finish
<1>2. n \in Nat /\ g.caller \in Callers /\ First(n + 1) \in 1 .. n + 1
  BY CompilationFacts DEF First
<1>3. b \in Blocks /\ Good(b, n + 1, proglen) /\ b.begin = g.begin
  BY SMTT(30), <1>2, NewBlockGood DEF NewBlock
<1>4. /\ GoodCode(cd0, n + 1, proglen) /\ Len(cd0) = n + 1 /\ cd0[n + 1] = b
      /\ \A i \in 1 .. n : cd0[i] = cd[i]
  <2> HIDE DEF b
  <2>. QED
    BY <1>2, <1>3, AppendGood
<1>5. GoodCaller(g.caller, cd0)
  BY <1>2, <1>4 DEF GoodCaller
<1>6. /\ GoodCode(cd1, n + 1, proglen) /\ Len(cd1) = n + 1
      /\ \A i \in 1 .. n + 1 : cd1[i].begin = cd0[i].begin
  <2> HIDE DEF cd0
  <2>. QED
    BY <1>2, <1>4, <1>5, PatchGood
<1>7. StoreOK'
  <2> HIDE DEF cd1, cd0, b
  <2>1. progblks' \in Tables(cd1) /\ prognowr' \subseteq 0 .. proglen - 1
    <3>1. cd1[Len(cd1)].begin = g.begin
      <4>1. Len(cd1) = n + 1 /\ n + 1 \in 1 .. n + 1
        BY <1>2, <1>6
      <4>2. cd1[n + 1].begin = cd0[n + 1].begin
        BY <1>6, <4>1
      <4>. QED
        BY <1>3, <1>4, <4>1, <4>2
    <3>2. \A i \in 1 .. n : cd1[i].begin = code[i].begin
      <4>1. \A i \in 1 .. n : i \in 1 .. n + 1
        BY <1>2
      <4>2. \A i \in 1 .. n : cd1[i].begin = cd[i].begin
        BY <1>4, <1>6, <4>1
      <4>. QED
        BY <4>2
    <3>. QED
      BY <1>1, <1>6, <3>1, <3>2, UseblkType
  <2>. QED
    BY <1>1, <2>1 DEF IInv, StoreOK
<1> HIDE DEF cd1, cd0, b
<1>. QED
  BY <1>1, <1>2, <1>6, <1>7, ResumeInv

-----------------------------------------------------------------------------
(* The compiler *)

\* Runs of operations that touch no other block, as the compiler emits them.
LEMMA PlainOps ==
  /\ <<>> \in Seq(Ops) /\ Len(<<>>) = 0
  /\ <<Plain>> \in Seq(Ops) /\ Len(<<Plain>>) = 1
  /\ <<Plain, Plain>> \in Seq(Ops) /\ Len(<<Plain, Plain>>) = 2
<1>1. Plain \in Ops
  BY Sizes DEF Plain, Op, Ops
<1>. QED
  BY <1>1

\* A compilation that ends with an exit to nowhere the compiler knows.
LEMMA PlainFinish ==
  ASSUME IInv, mode = "compile", NEW end \in {g.time, g.time + 1}, end <= proglen,
         NEW k \in {"stop", "noex", "load"},
         Finish(<<>>, end, Exit(k, g.time, <<>>), progblks, code)
  PROVE  IInv'
<1> DEFINE exit == Exit(k, g.time, <<>>)
<1>1. exit \in Exits /\ exit.at = g.time /\ DOMAIN exit.arms = {}
  <2>1. <<>> \in Seq(Arms)
    BY EmptySeq
  <2>. QED
    BY <2>1, CompilationFacts DEF Exit, Exits
<1>2. Len(g.ops \o <<>>) = Len(g.ops)
  BY CompilationFacts, PlainOps, ConcatProperties
<1>3. end \in 0 .. proglen /\ exit.at <= end /\ exit.at = g.begin + Len(g.ops \o <<>>)
  BY <1>1, <1>2, CompilationFacts
<1>4. progblks \in Tables(code)
  BY DEF IInv, StoreOK
<1> HIDE DEF exit
<1>5. Finish(<<>>, end, exit, progblks, code)
  BY DEF exit
<1>. QED
  BY <1>1, <1>3, <1>4, <1>5, CompilationFacts, PlainOps, FinishInv

\* Compiling a platter that does not end the block preserves the invariant.
LEMMA CompileInsnInv ==
  ASSUME IInv, CompileOp \/ CompileNand \/ CompileAmend
  PROVE  IInv'
<1>1. Compilable /\ mode = "compile" /\ g.time < proglen /\ g.time + 1 <= proglen
  BY CompilationFacts DEF CompileOp, CompileNand, CompileAmend, Compilable
<1>2. prognoex \in SUBSET (0 .. proglen - 1)
  BY DEF IInv, StoreOK
<1>3. CASE CompileOp
  BY <1>1, <1>2, <1>3, PlainOps, EmitInv DEF CompileOp
<1>4. CASE CompileNand
  <2>1. CASE Emit(<<Plain>>, prognoex)
    BY <1>1, <1>2, <2>1, PlainOps, EmitInv
  <2>2. CASE Peek("nand") /\ Emit(<<Plain, Plain>>, prognoex)
    <3>1. g.time + 2 <= proglen
      BY <1>1, <2>2, CompilationFacts DEF Peek, Next2
    <3>. QED
      BY <1>1, <1>2, <2>2, <3>1, PlainOps, EmitInv
  <2>. QED
    BY <1>4, <2>1, <2>2 DEF CompileNand
<1>5. CASE CompileAmend
  <2>1. CASE \E t \in 0 .. proglen - 1 : Bare(t) /\ Emit(<<Op("store", t)>>, prognoex \cup {t})
    <3>1. PICK t \in 0 .. proglen - 1 : Emit(<<Op("store", t)>>, prognoex \cup {t})
      BY <2>1
    <3>2. t \in Addr
      BY <1>1, CompilationFacts, CodeCacheAssumption DEF Addr
    <3>3. Op("store", t) \in Ops
      BY <3>2 DEF Op, Ops
    <3>4. <<Op("store", t)>> \in Seq(Ops) /\ Len(<<Op("store", t)>>) = 1
      BY <3>3
    <3>5. prognoex \cup {t} \in SUBSET (0 .. proglen - 1)
      BY <1>2
    <3>. QED
      BY <1>1, <3>1, <3>4, <3>5, EmitInv
  <2>2. CASE Emit(<<Op("postwrite", 0)>>, prognoex)
    <3>1. Op("postwrite", 0) \in Ops
      BY Sizes DEF Op, Ops
    <3>2. <<Op("postwrite", 0)>> \in Seq(Ops) /\ Len(<<Op("postwrite", 0)>>) = 1
      BY <3>1
    <3>. QED
      BY <1>1, <1>2, <2>2, <3>2, EmitInv
  <2>. QED
    BY <1>5, <2>1, <2>2 DEF CompileAmend
<1>. QED
  BY <1>3, <1>4, <1>5

\* Compiling a platter that leaves the block preserves the invariant.
LEMMA CompileExitInv ==
  ASSUME IInv, CompileStop \/ CompileEnd \/ CompileNoex \/ CompileLoad
  PROVE  IInv'
<1>1. CASE CompileStop
  <2>1. mode = "compile" /\ g.time + 1 <= proglen
    BY <1>1, CompilationFacts DEF CompileStop, Compilable
  <2>. QED
    BY <1>1, <2>1, PlainFinish DEF CompileStop
<1>2. CASE CompileEnd
  BY <1>2, CompilationFacts, PlainFinish DEF CompileEnd
<1>3. CASE CompileNoex
  BY <1>3, CompilationFacts, PlainFinish DEF CompileNoex
<1>4. CASE CompileLoad
  <2>1. mode = "compile" /\ g.time + 1 <= proglen
    BY <1>4, CompilationFacts DEF CompileLoad, Compilable
  <2>. QED
    BY <1>4, <2>1, PlainFinish DEF CompileLoad
<1>. QED
  BY <1>1, <1>2, <1>3, <1>4

\* What a lookup in the table yields for a place of the program.
LEMMA LookupFacts ==
  ASSUME IInv, NEW tbl \in Tables(code),
         NEW x \in 0 .. proglen, NEW z \in SUBSET Facts
  PROVE  /\ Getblkx(tbl, x, z) \in 0 .. Len(code)
         /\ Touch(tbl, x, z) \in Tables(code)
         /\ \A n \in Nat : Getblkx(tbl, x, z) <= n =>
              /\ Arm(x, z, Getblkx(tbl, x, z)) \in Arms
              /\ Arm(x, z, Getblkx(tbl, x, z)).dst <= proglen
              /\ Arm(x, z, Getblkx(tbl, x, z)).link <= n
<1>1. Len(code) \in Nat
  BY LenProperties DEF IInv, GoodCode
<1>2. proglen \in 1 .. MaxLen
  BY DEF IInv, StoreOK
<1>3. x \in Addr
  BY <1>2, CodeCacheAssumption DEF Addr
<1>4. Getblkx(tbl, x, z) \in 0 .. Len(code)
  BY <1>1, <1>3, GetblkxType DEF Tables
<1>5. Touch(tbl, x, z) \in Tables(code)
  BY <1>3, TouchType
<1>. QED
  BY <1>1, <1>2, <1>3, <1>4, <1>5 DEF Arm, Arms

\* Compiling a loadprog to a known place preserves the invariant.
LEMMA CompileLoadCInv == ASSUME IInv, CompileLoadC PROVE IInv'
<1>1. mode = "compile" /\ g.time + 1 <= proglen
  BY CompilationFacts DEF CompileLoadC, Compilable
<1>2. PICK dst \in 0 .. proglen, z \in SUBSET Facts :
        Finish(<<>>, g.time + 1,
               Exit("loadc", g.time, <<Arm(dst, z, Getblkx(progblks, dst, z))>>),
               Touch(progblks, dst, z), Depend(code, Getblkx(progblks, dst, z)))
  BY DEF CompileLoadC
<1> DEFINE d == Getblkx(progblks, dst, z)
           arm == Arm(dst, z, d)
           exit == Exit("loadc", g.time, <<arm>>)
           cd == Depend(code, d)
<1>3. progblks \in Tables(code) /\ Len(code) \in Nat
  BY <1>1, CompilationFacts DEF IInv, StoreOK
<1>4. /\ d \in 0 .. Len(code) /\ Touch(progblks, dst, z) \in Tables(code)
      /\ arm \in Arms /\ arm.dst <= proglen /\ arm.link <= Len(code) + 1
  <2>1. d \in 0 .. Len(code) /\ d <= Len(code) + 1 /\ Len(code) + 1 \in Nat
    BY <1>3, LookupFacts
  <2>. QED
    BY <1>3, <2>1, LookupFacts
<1> HIDE DEF arm
<1>5. /\ exit \in Exits /\ exit.at = g.time
      /\ \A a \in DOMAIN exit.arms : /\ exit.arms[a].dst <= proglen
                                     /\ exit.arms[a].link <= Len(code) + 1
  <2>1. <<arm>> \in Seq(Arms)
    BY <1>4
  <2>. QED
    BY <1>1, <1>4, <2>1, CompilationFacts DEF Exit, Exits
<1>6. exit.at = g.begin + Len(g.ops \o <<>>) /\ exit.at <= g.time + 1
      /\ g.time + 1 \in 0 .. proglen
  <2>1. Len(g.ops \o <<>>) = Len(g.ops)
    BY <1>1, CompilationFacts, PlainOps, ConcatProperties
  <2>. QED
    BY <1>1, <1>5, <2>1, CompilationFacts
<1>7. /\ GoodCode(cd, Len(code) + 1, proglen) /\ Len(cd) = Len(code)
      /\ GoodCaller(g.caller, cd) /\ \A i \in 1 .. Len(code) : cd[i].begin = code[i].begin
  <2> HIDE DEF d
  <2>1. /\ GoodCode(cd, Len(code) + 1, proglen) /\ Len(cd) = Len(code)
        /\ \A i \in 1 .. Len(code) : cd[i].exit = code[i].exit /\ cd[i].begin = code[i].begin
    BY <1>1, <1>4, CompilationFacts, DependGood
  <2>. QED
    BY <1>1, <2>1, CompilationFacts DEF GoodCaller
<1>8. Finish(<<>>, g.time + 1, exit, Touch(progblks, dst, z), cd)
  BY <1>2 DEF arm
<1> HIDE DEF exit, cd, d
<1>. QED
  BY <1>1, <1>4, <1>5, <1>6, <1>7, <1>8, PlainOps, FinishInv

\* Compiling a two-way loadprog preserves the invariant.
LEMMA CompileCondInv == ASSUME IInv, CompileCond PROVE IInv'
<1>1. mode = "compile" /\ g.time + 2 <= proglen
  BY CompilationFacts DEF CompileCond, Compilable, Peek, Next2
<1>2. PICK ct \in 0 .. proglen, cf \in 0 .. proglen,
           zt \in SUBSET Facts, zf \in SUBSET Facts :
        LET dt == Getblkx(progblks, ct, zt)
            tb == Touch(progblks, ct, zt)
            df == Getblkx(tb, cf, zf)
        IN  Finish(<<Plain>>, g.time + 2,
                   Exit("branch", g.time + 1, <<Arm(ct, zt, dt), Arm(cf, zf, df)>>),
                   Touch(tb, cf, zf), Depend(Depend(code, dt), df))
  BY DEF CompileCond
<1> DEFINE dt == Getblkx(progblks, ct, zt)
           tb == Touch(progblks, ct, zt)
           df == Getblkx(tb, cf, zf)
           armt == Arm(ct, zt, dt)
           armf == Arm(cf, zf, df)
           exit == Exit("branch", g.time + 1, <<armt, armf>>)
           cd1 == Depend(code, dt)
           cd2 == Depend(cd1, df)
<1>3. progblks \in Tables(code) /\ Len(code) \in Nat
  BY <1>1, CompilationFacts DEF IInv, StoreOK
<1>4. /\ dt \in 0 .. Len(code) /\ tb \in Tables(code)
      /\ armt \in Arms /\ armt.dst <= proglen /\ armt.link <= Len(code) + 1
  <2>1. dt \in 0 .. Len(code) /\ dt <= Len(code) + 1 /\ Len(code) + 1 \in Nat
    BY <1>3, LookupFacts
  <2>. QED
    BY <1>3, <2>1, LookupFacts
<1> HIDE DEF tb
<1>5. /\ df \in 0 .. Len(code) /\ Touch(tb, cf, zf) \in Tables(code)
      /\ armf \in Arms /\ armf.dst <= proglen /\ armf.link <= Len(code) + 1
  <2>1. df \in 0 .. Len(code) /\ df <= Len(code) + 1 /\ Len(code) + 1 \in Nat
    BY <1>3, <1>4, LookupFacts
  <2>. QED
    BY <1>4, <2>1, LookupFacts
<1> HIDE DEF armt, armf, dt, df
<1>6. /\ exit \in Exits /\ exit.at = g.time + 1
      /\ \A a \in DOMAIN exit.arms : /\ exit.arms[a].dst <= proglen
                                     /\ exit.arms[a].link <= Len(code) + 1
  <2>1. <<armt, armf>> \in Seq(Arms)
    BY <1>4, <1>5
  <2>2. g.time \in Nat /\ g.time + 2 <= proglen /\ proglen \in 1 .. MaxLen
    BY <1>1, CompilationFacts
  <2>3. g.time + 1 \in Addr
    BY <2>2, CodeCacheAssumption DEF Addr
  <2>. QED
    BY <1>4, <1>5, <2>1, <2>3 DEF Exit, Exits
<1>7. exit.at = g.begin + Len(g.ops \o <<Plain>>) /\ exit.at <= g.time + 2
      /\ g.time + 2 \in 0 .. proglen
  <2>1. Len(g.ops \o <<Plain>>) = Len(g.ops) + 1
    BY <1>1, CompilationFacts, PlainOps, ConcatProperties
  <2>2. /\ g.begin \in Nat /\ g.time \in Nat /\ proglen \in Nat
        /\ g.begin <= g.time /\ Len(g.ops) = g.time - g.begin
    BY <1>1, CompilationFacts
  <2> HIDE DEF exit
  <2>3. g.begin + Len(g.ops \o <<Plain>>) = g.time + 1
    BY <2>1, <2>2
  <2>. QED
    BY <1>1, <1>6, <2>2, <2>3
<1>8. /\ GoodCode(cd1, Len(code) + 1, proglen) /\ Len(cd1) = Len(code)
      /\ \A i \in 1 .. Len(code) : cd1[i].exit = code[i].exit /\ cd1[i].begin = code[i].begin
  BY <1>1, <1>4, CompilationFacts, DependGood
<1> HIDE DEF cd1
<1>9. /\ GoodCode(cd2, Len(code) + 1, proglen) /\ Len(cd2) = Len(code)
      /\ \A i \in 1 .. Len(code) : cd2[i].exit = code[i].exit /\ cd2[i].begin = code[i].begin
  BY <1>5, <1>8, DependGood
<1> HIDE DEF cd2
<1>10. GoodCaller(g.caller, cd2)
  BY <1>1, <1>9, CompilationFacts DEF GoodCaller
<1>11. Finish(<<Plain>>, g.time + 2, exit, Touch(tb, cf, zf), cd2)
  BY <1>2 DEF armt, armf, dt, df, tb, cd1, cd2
<1> HIDE DEF exit
<1>. QED
  BY <1>1, <1>5, <1>6, <1>7, <1>9, <1>10, <1>11, PlainOps, FinishInv

\* Ending a block at its size limit, to fall into the next, preserves it.
LEMMA CompileFallInv == ASSUME IInv, CompileFall PROVE IInv'
<1> DEFINE n == Len(code)
           arm == Arm(g.time, {}, n + 2)
           fall == Exit("fall", g.time, <<arm>>)
           b == NewBlock(<<>>, g.time, fall)
<1>1. /\ mode = "compile" /\ code' = Append(code, b) /\ Useblk(progblks, n + 1, g.time)
      /\ UNCHANGED <<prog, proglen, prognoex, mode, cur, pw>>
  <2>1. n + 2 = n + 1 + 1
    BY CompilationFacts DEF CompileFall
  <2>. QED
    BY <2>1 DEF CompileFall
<1>2. PICK z \in SUBSET Facts : g' = Compiling(g.time, z, TRUE, First(n + 1), g.caller)
  BY DEF CompileFall
<1>3. arm \in Arms /\ arm.dst = g.time /\ arm.link = n + 2
  BY <1>1, CompilationFacts DEF Arm, Arms
<1> HIDE DEF arm
<1>4. fall \in Exits /\ fall.at = g.time /\ fall.arms = <<arm>>
  <2>1. <<arm>> \in Seq(Arms)
    BY <1>3
  <2>. QED
    BY <1>1, <2>1, CompilationFacts DEF Exit, Exits
<1> HIDE DEF fall
<1>5. b \in Blocks /\ Good(b, n + 2, proglen) /\ b.begin = g.begin
  <2>1. Len(g.ops \o <<>>) = Len(g.ops)
    BY <1>1, CompilationFacts, PlainOps, ConcatProperties
  <2>2. /\ fall.at = g.begin + Len(g.ops \o <<>>) /\ fall.at <= g.time
        /\ g.time \in 0 .. proglen /\ n + 2 \in Nat
    BY <1>1, <1>4, <2>1, CompilationFacts
  <2>3. \A a \in DOMAIN fall.arms : /\ fall.arms[a].dst <= proglen
                                    /\ fall.arms[a].link <= n + 2
    BY <1>1, <1>3, <1>4, CompilationFacts
  <2>. QED
    BY <1>1, <1>4, <2>2, <2>3, PlainOps, NewBlockGood DEF NewBlock
<1> HIDE DEF b
<1>6. /\ GoodCode(code', n + 2, proglen) /\ Len(code') = n + 1 /\ n \in Nat
      /\ code'[n + 1] = b /\ \A i \in 1 .. n : code'[i] = code[i]
  BY <1>1, <1>5, CompilationFacts, AppendGood
<1>7. StoreOK'
  <2>1. g.time \in 0 .. proglen
    BY <1>1, CompilationFacts
  <2>2. progblks \in Tables(code)
    BY DEF IInv, StoreOK
  <2>3. progblks' \in Tables(code') /\ prognowr' \subseteq 0 .. proglen - 1
    BY <1>1, <1>5, <1>6, <2>1, <2>2, UseblkType
  <2>. QED
    BY <1>1, <2>3 DEF IInv, StoreOK
<1>8. First(n + 1) \in 1 .. n + 1 /\ First(n + 1) \in Nat
  BY <1>1, CompilationFacts DEF First
<1>9. g' \in Compilations
  BY <1>1, <1>2, <1>8, CompilationFacts, CompilingType
<1>10. ControlOK'
  BY <1>1, <1>9 DEF IInv, ControlOK
<1>11. CompileInv'
  <2>1. GoodCaller(g.caller, code')
    BY <1>1, <1>6, CompilationFacts DEF GoodCaller
  <2>2. Len(<<>>) = 0
    BY PlainOps
  <2>. QED
    BY <1>1, <1>2, <1>6, <1>8, <2>1, <2>2, CompilationFacts DEF CompileInv, Compiling
<1>12. GoodCode(code, LastLink, proglen)'
  <2>1. LastLink' = n + 2
    BY <1>1, <1>6 DEF LastLink
  <2>. QED
    BY <1>1, <1>6, <2>1
<1>. QED
  BY <1>1, <1>7, <1>10, <1>11, <1>12 DEF IInv, NoDangling, ShootInv

\* Every step of the compiler preserves the invariant.
LEMMA CompileInvStep == ASSUME IInv, Compile PROVE IInv'
  BY CompileInsnInv, CompileExitInv, CompileLoadCInv, CompileCondInv, CompileFallInv
     DEF Compile

-----------------------------------------------------------------------------
(* Running code *)

\* What is known of the block in control.
LEMMA RunFacts ==
  ASSUME IInv, mode = "run"
  PROVE  /\ Len(code) \in Nat /\ GoodCode(code, Len(code), proglen)
         /\ proglen \in 1 .. MaxLen /\ proglen \in Nat
         /\ progblks \in Tables(code)
         /\ cur.id \in 1 .. Len(code) /\ cur.id \in Nat
         /\ Here \in Blocks /\ Good(Here, Len(code), proglen)
         /\ cur.pos \in Here.begin .. Here.exit.at /\ Here.exit.at <= proglen
         /\ cur.pos \in 0 .. proglen
<1>1. GoodCode(code, Len(code), proglen)
  BY DEF IInv, LastLink
<1>2. Len(code) \in Nat /\ cur.id \in 1 .. Len(code)
  BY <1>1, LenProperties DEF IInv, NoDangling, GoodCode
<1>3. Here \in Blocks /\ Good(Here, Len(code), proglen)
  BY <1>1, <1>2, ElementOfSeq DEF GoodCode, Here
<1>4. proglen \in 1 .. MaxLen /\ progblks \in Tables(code)
  BY DEF IInv, StoreOK
<1>5. proglen \in Nat
  BY <1>4, CodeCacheAssumption
<1>6. cur.pos \in Here.begin .. Here.exit.at
  BY DEF IInv, NoDangling
<1>7. Here.exit.at <= proglen
  BY <1>3, <1>5, BlockParts DEF Good, WellFormed
<1>8. cur.pos \in 0 .. proglen
  BY <1>3, <1>5, <1>6, <1>7, BlockParts
<1>. QED
  BY <1>1, <1>2, <1>3, <1>4, <1>5, <1>6, <1>7, <1>8

\* Going on to the next platter of the block.
LEMMA AdvanceInv ==
  ASSUME IInv, mode = "run", ~AtExit, Advance(1), prog' \in [0 .. proglen - 1 -> Classes],
         UNCHANGED <<proglen, code, progblks, prognowr, prognoex, mode, g, pw>>
  PROVE  IInv'
<1>1. StoreOK'
  BY DEF IInv, StoreOK
<1>2. cur.pos + 1 \in Here.begin .. Here.exit.at
  BY RunFacts, BlockParts DEF AtExit
<1>3. cur' = [cur EXCEPT !.pos = @ + 1]
  BY DEF Advance
<1>4. cur.pos + 1 \in Addr
  <2>1. Here.begin \in Nat /\ Here.exit.at \in Nat /\ Here.exit.at <= proglen
    BY RunFacts, BlockParts
  <2>2. proglen \in 1 .. MaxLen
    BY RunFacts
  <2>. QED
    BY <1>2, <2>1, <2>2, CodeCacheAssumption DEF Addr
<1>5. cur \in [id : Nat, pos : Addr]
  BY DEF IInv, ControlOK
<1>6. cur' \in [id : Nat, pos : Addr] /\ cur'.id = cur.id /\ cur'.pos = cur.pos + 1
  BY <1>3, <1>4, <1>5
<1>7. ControlOK'
  BY <1>6 DEF IInv, ControlOK
<1>8. GoodCode(code, LastLink, proglen)'
  BY DEF IInv, LastLink
<1>9. NoDangling'
  BY <1>2, <1>6 DEF IInv, NoDangling, Here
<1>. QED
  BY <1>1, <1>7, <1>8, <1>9 DEF IInv, CompileInv, ShootInv

\* Running a platter that touches no compiled code preserves the invariant.
LEMMA RunInsnInv == ASSUME IInv, RunOp \/ RunStore PROVE IInv'
<1>1. prog \in [0 .. proglen - 1 -> Classes]
  BY DEF IInv, StoreOK
<1>2. CASE RunOp
  BY <1>1, <1>2, AdvanceInv DEF RunOp, Running
<1>3. CASE RunStore
  <2>1. prog' \in [0 .. proglen - 1 -> Classes]
    BY <1>1, <1>3, CodeCacheAssumption DEF RunStore
  <2>. QED
    BY <1>3, <2>1, AdvanceInv DEF RunStore, Running
<1>. QED
  BY <1>2, <1>3

\* Testing the bitmap after a store preserves the invariant.
LEMMA RunPostwriteInv == ASSUME IInv, RunPostwrite PROVE IInv'
<1>1. mode = "run" /\ ~AtExit
  BY DEF RunPostwrite, Running
<1>2. PICK t \in 0 .. proglen - 1, v \in Insns :
        /\ prog' = [prog EXCEPT ![t] = v]
        /\ IF t \notin prognowr
           THEN Advance(1) /\ UNCHANGED <<mode, pw>>
           ELSE /\ mode' = "shoot"
                /\ pw' = [target |-> t, source |-> cur.pos]
                /\ UNCHANGED cur
  BY DEF RunPostwrite
<1>3. UNCHANGED <<proglen, code, progblks, prognowr, prognoex, g>>
  BY DEF RunPostwrite
<1>4. prog' \in [0 .. proglen - 1 -> Classes]
  BY <1>2, CodeCacheAssumption DEF IInv, StoreOK
<1>5. CASE t \notin prognowr
  BY <1>1, <1>2, <1>3, <1>4, <1>5, AdvanceInv
<1>6. CASE t \in prognowr
  <2>1. mode' = "shoot" /\ pw' = [target |-> t, source |-> cur.pos] /\ UNCHANGED cur
    BY <1>2, <1>6
  <2>2. cur.pos \in Nat /\ cur.pos >= Here.begin /\ cur.pos < Here.exit.at /\ cur.pos < proglen
    BY <1>1, RunFacts, BlockParts DEF AtExit
  <2>3. t \in Addr /\ cur.pos \in Addr /\ t < proglen
    BY <1>1, <2>2, RunFacts, CodeCacheAssumption DEF Addr
  <2>4. StoreOK'
    BY <1>3, <1>4, <2>1, <2>3 DEF IInv, StoreOK
  <2>5. ControlOK'
    BY <1>3, <2>1 DEF IInv, ControlOK
  <2>6. GoodCode(code, LastLink, proglen)'
    BY <1>1, <1>3, <2>1 DEF IInv, LastLink
  <2>7. ShootInv'
    BY <1>1, <1>3, <2>1, <2>2, <2>3, RunFacts DEF ShootInv, Here
  <2>. QED
    BY <2>1, <2>4, <2>5, <2>6, <2>7 DEF IInv, CompileInv, NoDangling
<1>. QED
  BY <1>5, <1>6

\* Leaving by an exit that is already linked preserves the invariant.
LEMMA RunLinkInv == ASSUME IInv, RunLink PROVE IInv'
<1>1. mode = "run"
  BY DEF RunLink, Exiting
<1>2. PICK arm \in ToSet(Here.exit.arms) : arm.link # 0 /\ Resume(code, arm.link)
  BY DEF RunLink
<1>3. PICK a \in DOMAIN Here.exit.arms : arm = Here.exit.arms[a]
  BY DEF ToSet
<1>4. arm.link \in 1 .. Len(code)
  BY <1>1, <1>2, <1>3, RunFacts, BlockParts DEF Good, Arms
<1>5. StoreOK' /\ code' = code /\ proglen' = proglen
  BY DEF RunLink, IInv, StoreOK
<1>. QED
  BY <1>1, <1>2, <1>4, <1>5, RunFacts, ResumeInv

\* Entering through a stub, which records the dependency, preserves it.
LEMMA RunEnterdepInv == ASSUME IInv, RunEnterdep PROVE IInv'
<1>1. mode = "run" /\ UNCHANGED <<prog, proglen, prognowr, prognoex, pw>>
  BY DEF RunEnterdep, Exiting
<1>2. PICK a \in DOMAIN Here.exit.arms :
        LET arm == Here.exit.arms[a]
            stub == [id |-> cur.id, arm |-> a]
            d == Getblkx(progblks, arm.dst, arm.znz)
        IN  /\ arm.link = 0
            /\ \/ /\ d # 0
                  /\ code' = Patch(Depend(code, d), stub, d)
                  /\ Resume(code, d)
               \/ /\ d = 0
                  /\ UmcEnter(arm.dst, arm.znz, stub)
                  /\ UNCHANGED code
            /\ progblks' = Touch(progblks, arm.dst, arm.znz)
  BY DEF RunEnterdep
<1> DEFINE arm == Here.exit.arms[a]
           stub == [id |-> cur.id, arm |-> a]
           d == Getblkx(progblks, arm.dst, arm.znz)
           cd == Depend(code, d)
           pcd == Patch(cd, stub, d)
<1>3. arm.dst \in 0 .. proglen /\ arm.znz \in SUBSET Facts
  BY SMTT(30), <1>1, RunFacts, BlockParts DEF Good, Arms
<1>4. a \in Nat
  <2>1. Here.exit.arms \in Seq(Arms)
    BY <1>1, RunFacts, BlockParts
  <2>. QED
    BY <2>1, LenProperties
<1>5. stub \in Callers /\ GoodCaller(stub, code)
  BY <1>1, <1>4, RunFacts DEF Callers, GoodCaller, Here
<1>6. d \in 0 .. Len(code) /\ progblks' \in Tables(code)
  BY <1>1, <1>2, <1>3, RunFacts, LookupFacts
<1>7. CASE d # 0
  <2>1. code' = pcd /\ Resume(code, d)
    BY <1>2, <1>7
  <2> HIDE DEF d
  <2>2. /\ GoodCode(cd, Len(code), proglen) /\ Len(cd) = Len(code)
        /\ \A i \in 1 .. Len(code) : /\ cd[i].exit = code[i].exit
                                     /\ cd[i].begin = code[i].begin
    BY <1>1, <1>6, RunFacts, DependGood
  <2> HIDE DEF cd, stub
  <2>3. GoodCaller(stub, cd)
    BY <1>5, <2>2 DEF GoodCaller
  <2>4. /\ GoodCode(pcd, Len(code), proglen) /\ Len(pcd) = Len(code)
        /\ \A i \in 1 .. Len(code) : pcd[i].begin = code[i].begin
    BY <1>1, <1>5, <1>6, <2>2, <2>3, RunFacts, PatchGood
  <2> HIDE DEF pcd
  <2>5. StoreOK'
    <3>1. Len(code) \in Nat
      BY <1>1, RunFacts
    <3>2. progblks' \in Tables(pcd)
      BY <1>6, <2>4, <3>1, TableMono
    <3>. QED
      BY <1>1, <2>1, <3>2 DEF IInv, StoreOK
  <2>6. d \in 1 .. Len(pcd)
    BY <1>1, <1>6, <1>7, <2>4, RunFacts
  <2>7. Resume(pcd, d)
    BY <2>1, <2>4, <2>6 DEF Resume
  <2>. QED
    BY <1>1, <2>1, <2>4, <2>5, <2>6, <2>7, ResumeInv
<1>8. CASE d = 0
  <2>1. UmcEnter(arm.dst, arm.znz, stub) /\ UNCHANGED code
    BY <1>2, <1>8
  <2>2. StoreOK'
    BY <1>1, <1>6, <2>1 DEF IInv, StoreOK
  <2> HIDE DEF stub, arm
  <2>. QED
    BY <1>1, <1>3, <1>5, <2>1, <2>2, RunFacts, EnterInv
<1>. QED
  BY <1>7, <1>8

\* The absent caller is well formed in any code.
LEMMA NobodyCalls == NoCaller \in Callers /\ \A cd : GoodCaller(NoCaller, cd)
  BY DEF NoCaller, Callers, GoodCaller

\* Entering at a computed place preserves the invariant.
LEMMA RunEnterInv == ASSUME IInv, RunEnter PROVE IInv'
<1>1. mode = "run" /\ UNCHANGED <<prog, proglen, code, prognowr, prognoex, pw>>
  BY DEF RunEnter, Exiting
<1>2. PICK x \in 0 .. proglen, z \in SUBSET Facts :
        LET d == Getblkx(progblks, x, z)
        IN  /\ \/ d # 0 /\ Resume(code, d)
               \/ d = 0 /\ UmcEnter(x, z, NoCaller)
            /\ progblks' = Touch(progblks, x, z)
  BY DEF RunEnter
<1> DEFINE d == Getblkx(progblks, x, z)
<1>3. d \in 0 .. Len(code) /\ progblks' \in Tables(code)
  BY <1>1, <1>2, RunFacts, LookupFacts
<1>4. StoreOK'
  BY <1>1, <1>3 DEF IInv, StoreOK
<1>5. CASE d # 0
  <2>1. Resume(code, d)
    BY <1>2, <1>5
  <2>2. d \in 1 .. Len(code)
    BY <1>1, <1>3, <1>5, RunFacts
  <2> HIDE DEF d
  <2>. QED
    BY <1>1, <1>4, <2>1, <2>2, RunFacts, ResumeInv
<1>6. CASE d = 0
  <2>1. UmcEnter(x, z, NoCaller)
    BY <1>2, <1>6
  <2>. QED
    BY <1>1, <1>4, <2>1, RunFacts, NobodyCalls, EnterInv
<1>. QED
  BY <1>5, <1>6

\* The table of no blocks.
LEMMA EmptyTable == [x \in Addr |-> <<>>] \in Tables(<<>>)
<1> DEFINE tbl == [x \in Addr |-> <<>>]
<1>1. <<>> \in Seq(1 .. Len(<<>>))
  BY EmptySeq
<1>2. tbl \in [Addr -> Seq(1 .. Len(<<>>))]
  BY <1>1
<1>3. ASSUME NEW x \in Addr PROVE tbl[x] \in Seq(Ids(<<>>, x))
  <2>1. <<>> \in Seq(Ids(<<>>, x))
    BY EmptySeq
  <2>. QED
    BY <2>1
<1> HIDE DEF tbl
<1>4. tbl \in Tables(<<>>)
  BY <1>2, <1>3 DEF Tables
<1>. QED
  BY <1>4 DEF tbl

\* A world that has just been created.
LEMMA NewWorldFacts ==
  ASSUME NewWorld, NEW len
  PROVE  /\ code' = <<>> /\ Len(code') = 0 /\ prognowr' = {} /\ prognoex' = {}
         /\ progblks' \in Tables(code')
         /\ GoodCode(code', Len(code'), len)
<1>1. /\ code' = <<>> /\ prognowr' = {} /\ prognoex' = {}
      /\ progblks' = [x \in Addr |-> <<>>]
  BY DEF NewWorld
<1>2. Len(<<>>) = 0 /\ <<>> \in Seq(1 .. 0) /\ <<>> \in Seq(Blocks)
  BY EmptySeq
<1>3. [x \in Addr |-> <<>>] \in Tables(<<>>)
  BY EmptyTable
<1>4. GoodCode(<<>>, Len(<<>>), len)
  BY <1>2 DEF GoodCode
<1>. QED
  BY <1>1, <1>2, <1>3, <1>4

\* A stored array is a program image of the bounds memory allows.
LEMMA ImageFacts ==
  ASSUME NEW im \in Images
  PROVE  /\ Len(im) \in 1 .. MaxLen
         /\ [x \in 0 .. Len(im) - 1 |-> im[x + 1]] \in [0 .. Len(im) - 1 -> Classes]
<1>1. im \in Seq(Classes) /\ Len(im) \in 1 .. MaxLen
  BY CodeCacheAssumption
<1>2. ASSUME NEW x \in 0 .. Len(im) - 1 PROVE im[x + 1] \in Classes
  <2>1. x + 1 \in 1 .. Len(im)
    BY <1>1, LenProperties
  <2>. QED
    BY <1>1, <2>1, ElementOfSeq
<1>. QED
  BY <1>1, <1>2

\* Loading another array preserves the invariant.
LEMMA RunLoadfarInv == ASSUME IInv, RunLoadfar PROVE IInv'
<1>1. PICK im \in Images :
        /\ LoadImage(im)
        /\ \E x \in 0 .. Len(im), z \in SUBSET Facts : UmcEnter(x, z, NoCaller)
  BY DEF RunLoadfar
<1>2. PICK x \in 0 .. Len(im), z \in SUBSET Facts : UmcEnter(x, z, NoCaller)
  BY <1>1
<1>3. NewWorld /\ pw' = pw
  BY DEF RunLoadfar
<1>4. proglen' = Len(im) /\ prog' \in [0 .. Len(im) - 1 -> Classes] /\ Len(im) \in 1 .. MaxLen
  BY <1>1, ImageFacts DEF LoadImage
<1>5. StoreOK'
  BY <1>3, <1>4, NewWorldFacts DEF IInv, StoreOK
<1>. QED
  BY <1>2, <1>3, <1>4, <1>5, NewWorldFacts, NobodyCalls, EnterInv

\* Destroying the world and compiling it anew where control is preserves it.
LEMMA RunNoexInv == ASSUME IInv, RunNoex PROVE IInv'
<1>1. /\ mode = "run" /\ NewWorld /\ UNCHANGED <<prog, proglen, pw>>
  BY DEF RunNoex, Exiting
<1>2. PICK z \in SUBSET Facts : UmcEnter(cur.pos, z, NoCaller)
  BY DEF RunNoex
<1>3. StoreOK'
  BY <1>1, NewWorldFacts DEF IInv, StoreOK
<1>4. cur.pos \in 0 .. proglen'
  BY <1>1, RunFacts
<1>. QED
  BY <1>1, <1>2, <1>3, <1>4, NewWorldFacts, NobodyCalls, EnterInv

\* Stopping preserves the invariant.
LEMMA RunStopInv == ASSUME IInv, RunStop PROVE IInv'
<1>1. /\ mode = "run" /\ mode' = "stopped"
      /\ UNCHANGED <<prog, proglen, code, progblks, prognowr, prognoex, cur, g, pw>>
  BY DEF RunStop, Exiting
<1>2. StoreOK' /\ ControlOK' /\ GoodCode(code, LastLink, proglen)'
  BY <1>1 DEF IInv, StoreOK, ControlOK, LastLink
<1>. QED
  BY <1>1, <1>2 DEF IInv, CompileInv, NoDangling, ShootInv

\* Every step of the compiled code preserves the invariant.
LEMMA RunInvStep == ASSUME IInv, Run PROVE IInv'
  BY RunInsnInv, RunPostwriteInv, RunStopInv, RunLinkInv, RunEnterdepInv, RunEnterInv,
     RunLoadfarInv, RunNoexInv
     DEF Run

-----------------------------------------------------------------------------
(* Shooting down *)

\* What is known of the blocks while a shootdown is under way.
LEMMA ShootFacts ==
  ASSUME IInv, mode = "shoot"
  PROVE  /\ Len(code) \in Nat /\ GoodCode(code, Len(code), proglen)
         /\ proglen \in 1 .. MaxLen /\ proglen \in Nat
         /\ pw.target \in Addr /\ pw.source \in Nat /\ pw.source < proglen
         /\ Hit \in 0 .. Len(code)
<1>1. GoodCode(code, Len(code), proglen)
  BY DEF IInv, LastLink
<1>2. Len(code) \in Nat
  BY <1>1, LenProperties DEF GoodCode
<1>3. /\ proglen \in 1 .. MaxLen /\ pw \in [target : Addr, source : Addr]
      /\ progblks \in [Addr -> Seq(1 .. Len(code))]
  BY DEF IInv, StoreOK, Tables
<1>4. pw.target \in Addr /\ pw.source \in Addr /\ pw.source < proglen
  BY <1>3 DEF IInv, ShootInv
<1>5. Hit \in 0 .. Len(code)
  BY <1>2, <1>3, <1>4, GetblkType DEF Hit
<1>6. pw.source \in Nat
  BY <1>4, Sizes
<1>7. proglen \in Nat
  BY <1>3, CodeCacheAssumption
<1>. QED
  BY <1>1, <1>2, <1>3, <1>4, <1>5, <1>6, <1>7

\* The block to shoot leads the list of its beginning.
LEMMA HitLeads ==
  ASSUME IInv, mode = "shoot", Hit # 0
  PROVE  /\ code[Hit].begin \in Addr
         /\ progblks[code[Hit].begin] # <<>>
         /\ Hit = Head(progblks[code[Hit].begin])
<1> DEFINE at == {i \in Window(pw.target) :
                    progblks[i] # <<>> /\ Covers(code[Head(progblks[i])], pw.target)}
           m == Min(at)
<1>1. Hit = Head(progblks[m]) /\ at # {}
  BY DEF Hit, Getblk
<1>2. at \in SUBSET Addr
  <2>1. pw.target \in Addr
    BY ShootFacts
  <2>2. Window(pw.target) \subseteq Addr
    BY <2>1, CodeCacheAssumption DEF Window, Addr
  <2>. QED
    BY <2>2
<1>3. m \in at
  <2>1. at \in SUBSET Nat
    BY <1>2, Sizes
  <2> HIDE DEF at
  <2>. QED
    BY <1>1, <2>1, MinIn
<1>4. m \in Addr /\ progblks[m] # <<>>
  BY <1>2, <1>3
<1> HIDE DEF m, at
<1>5. progblks[m] \in Seq(Ids(code, m))
  BY <1>4 DEF IInv, StoreOK, Tables
<1>6. Hit \in Ids(code, m)
  BY <1>1, <1>4, <1>5, HeadTailProperties
<1>7. code[Hit].begin = m
  BY <1>6 DEF Ids
<1>. QED
  BY <1>1, <1>4, <1>7

\* Shooting one block preserves the invariant.
LEMMA ShootBlockInv == ASSUME IInv, ShootBlock PROVE IInv'
<1>1. /\ mode = "shoot" /\ Hit # 0 /\ progblks' = Remblk(Hit)
      /\ prognowr' \subseteq prognowr
      /\ UNCHANGED <<prog, proglen, code, prognoex, mode, cur, g, pw>>
  BY DEF ShootBlock, Unprotect
<1> DEFINE x == code[Hit].begin
           s == Tail(progblks[x])
<1>2. x \in Addr /\ progblks[x] # <<>>
  BY <1>1, HitLeads
<1>3. progblks' = [progblks EXCEPT ![x] = s]
  BY <1>1 DEF Remblk
<1> HIDE DEF x
<1>4. progblks \in Tables(code)
  BY DEF IInv, StoreOK
<1>5. s \in Seq(Ids(code, x))
  <2>1. progblks[x] \in Seq(Ids(code, x))
    BY <1>2, <1>4 DEF Tables
  <2>. QED
    BY <1>2, <2>1, HeadTailProperties
<1>6. s \in Seq(1 .. Len(code))
  BY <1>5, SeqMonotonic DEF Ids
<1> HIDE DEF s
<1>7. progblks' \in Tables(code)
  BY <1>2, <1>3, <1>4, <1>5, <1>6 DEF Tables
<1>8. StoreOK' /\ ControlOK' /\ GoodCode(code, LastLink, proglen)'
  BY <1>1, <1>7 DEF IInv, StoreOK, ControlOK, LastLink
<1>9. ShootInv'
  BY <1>1 DEF IInv, ShootInv, Here
<1>. QED
  BY <1>1, <1>8, <1>9 DEF IInv, CompileInv, NoDangling

\* Shooting the whole world preserves the invariant.
LEMMA ShootWorldInv == ASSUME IInv, ShootWorld PROVE IInv'
<1>1. /\ mode = "shoot" /\ NewWorld /\ cur' = NoBlock
      /\ UNCHANGED <<prog, proglen, mode, g, pw>>
  BY DEF ShootWorld
<1>2. /\ Len(code') = 0 /\ prognowr' = {} /\ prognoex' = {} /\ progblks' \in Tables(code')
      /\ GoodCode(code', Len(code'), proglen')
  BY <1>1, NewWorldFacts
<1>3. StoreOK'
  BY <1>1, <1>2 DEF IInv, StoreOK
<1>4. ControlOK'
  BY <1>1, Sizes DEF IInv, ControlOK
<1>5. GoodCode(code, LastLink, proglen)'
  BY <1>1, <1>2 DEF LastLink
<1>6. ShootInv'
  BY <1>1, <1>2 DEF IInv, ShootInv, NoBlock
<1>. QED
  BY <1>1, <1>3, <1>4, <1>5, <1>6 DEF IInv, CompileInv, NoDangling

\* When nothing covers the target any more, control returns to the code that
\* wrote it only if that code's world is still there.
LEMMA ShootDoneInv == ASSUME IInv, ShootDone PROVE IInv'
<1>1. /\ mode = "shoot" /\ UNCHANGED <<prog, proglen, code, progblks, prognowr, prognoex>>
  BY DEF ShootDone
<1>2. CASE mode' = "aborted" /\ UNCHANGED <<cur, g, pw>>
  <2>1. StoreOK' /\ ControlOK' /\ GoodCode(code, LastLink, proglen)'
    BY <1>1, <1>2 DEF IInv, StoreOK, ControlOK, LastLink
  <2>. QED
    BY <1>2, <2>1 DEF IInv, CompileInv, NoDangling, ShootInv
<1>3. CASE pw' = NoWrite /\ ~SourceGone /\ mode' = "run" /\ Advance(1) /\ UNCHANGED g
  <2>1. NoWrite \in [target : Addr, source : Addr]
    BY Sizes DEF NoWrite
  <2>2. StoreOK'
    BY <1>1, <1>3, <2>1 DEF IInv, StoreOK
  <2>3. /\ cur.id \in 1 .. Len(code) /\ cur.pos >= Here.begin /\ cur.pos < Here.exit.at
    BY <1>1, <1>3 DEF IInv, ShootInv, SourceGone
  <2>4. cur \in [id : Nat, pos : Addr] /\ cur.pos \in Nat
    BY Sizes DEF IInv, ControlOK
  <2>5. /\ Here \in Blocks /\ Here.exit.at \in Nat /\ Here.begin \in Nat
        /\ Here.exit.at \in Addr
    <3>1. Here \in Blocks
      BY <1>1, <2>3, ShootFacts, ElementOfSeq DEF Here, GoodCode
    <3>. QED
      BY <3>1, BlockParts DEF Blocks, Exits
  <2>6. cur.pos + 1 \in Addr /\ cur.pos + 1 \in Here.begin .. Here.exit.at
    BY <2>3, <2>4, <2>5, CodeCacheAssumption DEF Addr
  <2>7. /\ cur' \in [id : Nat, pos : Addr] /\ cur'.id = cur.id /\ cur'.pos = cur.pos + 1
    BY <1>3, <2>4, <2>6 DEF Advance
  <2>8. ControlOK'
    BY <1>3, <2>7 DEF IInv, ControlOK
  <2>9. GoodCode(code, LastLink, proglen)'
    BY <1>1, <1>3 DEF IInv, LastLink
  <2>10. NoDangling'
    <3>1. DOMAIN code = 1 .. Len(code)
      BY <1>1, ShootFacts, LenProperties DEF GoodCode
    <3>. QED
      BY <1>1, <2>3, <2>6, <2>7, <3>1 DEF NoDangling, Here
  <2>. QED
    BY <1>3, <2>2, <2>8, <2>9, <2>10 DEF IInv, CompileInv, ShootInv
<1>4. CASE pw' = NoWrite /\ \E z \in SUBSET Facts : UmcEnter(NextPlatter, z, NoCaller)
  <2>1. PICK z \in SUBSET Facts : UmcEnter(NextPlatter, z, NoCaller)
    BY <1>4
  <2>2. NoWrite \in [target : Addr, source : Addr]
    BY Sizes DEF NoWrite
  <2>3. StoreOK'
    BY <1>1, <1>4, <2>2 DEF IInv, StoreOK
  <2>4. NextPlatter \in 0 .. proglen'
    BY <1>1, ShootFacts DEF NextPlatter
  <2>. QED
    BY <1>1, <2>1, <2>3, <2>4, ShootFacts, NobodyCalls, EnterInv
<1>. QED
  BY <1>2, <1>3, <1>4 DEF ShootDone

\* Every step of a shootdown preserves the invariant.
LEMMA ShootInvStep == ASSUME IInv, Shoot PROVE IInv'
  BY ShootBlockInv, ShootWorldInv, ShootDoneInv DEF Shoot

-----------------------------------------------------------------------------
(* The theorems *)

\* The invariant holds at the start.
LEMMA InitInv == Init => IInv
<1>1. SUFFICES ASSUME Init PROVE IInv
  OBVIOUS
<1>2. PICK im \in Images : /\ proglen = Len(im)
                           /\ prog = [x \in 0 .. Len(im) - 1 |-> im[x + 1]]
  BY <1>1 DEF Init
<1>3. /\ code = <<>> /\ progblks = [x \in Addr |-> <<>>] /\ prognowr = {} /\ prognoex = {}
      /\ mode = "compile" /\ cur = NoBlock /\ pw = NoWrite
      /\ g = Compiling(0, Facts, FALSE, 0, NoCaller)
  BY <1>1 DEF Init
<1>4. Len(<<>>) = 0 /\ <<>> \in Seq(Blocks)
  BY EmptySeq
<1>5. StoreOK
  <2>1. proglen \in 1 .. MaxLen /\ prog \in [0 .. proglen - 1 -> Classes]
    BY <1>2, ImageFacts
  <2>2. progblks \in Tables(code)
    BY <1>3, EmptyTable
  <2>3. pw \in [target : Addr, source : Addr]
    BY <1>3, Sizes DEF NoWrite
  <2>. QED
    BY <1>3, <2>1, <2>2, <2>3 DEF StoreOK
<1>6. ControlOK
  <2>1. g \in Compilations
    BY <1>3, Sizes, NobodyCalls, CompilingType
  <2>. QED
    BY <1>3, <2>1, Sizes DEF ControlOK
<1>7. GoodCode(code, LastLink, proglen)
  BY <1>3, <1>4 DEF GoodCode
<1>8. CompileInv
  <2>1. proglen \in Nat
    BY <1>5, CodeCacheAssumption DEF StoreOK
  <2>. QED
    BY <1>3, <1>4, <2>1, NobodyCalls DEF CompileInv, Compiling
<1>. QED
  BY <1>3, <1>5, <1>6, <1>7, <1>8 DEF IInv, NoDangling, ShootInv

\* So does a step that changes nothing.
LEMMA StutterInv == ASSUME IInv, UNCHANGED vars PROVE IInv'
<1>1. UNCHANGED <<prog, proglen, code, progblks, prognowr, prognoex, mode, cur, g, pw>>
  BY DEF vars
<1>2. StoreOK' /\ ControlOK' /\ GoodCode(code, LastLink, proglen)'
  BY <1>1 DEF IInv, StoreOK, ControlOK, LastLink
<1>3. CompileInv' /\ NoDangling' /\ ShootInv'
  BY <1>1 DEF IInv, CompileInv, NoDangling, ShootInv, Here
<1>. QED
  BY <1>2, <1>3 DEF IInv

\* The inductive invariant holds of every program run.
THEOREM Invariance == Spec => []IInv
<1>1. IInv /\ [Next]_vars => IInv'
  BY CompileInvStep, RunInvStep, ShootInvStep, StutterInv DEF Next
<1>. QED
  BY InitInv, <1>1, PTL DEF Spec

\* The inductive invariant implies the type invariant.
LEMMA InvType == IInv => TypeOK
<1>1. SUFFICES ASSUME IInv PROVE TypeOK
  OBVIOUS
<1>2. code \in Seq(Blocks) /\ \A id \in 1 .. Len(code) : WellFormed(code[id])
  BY <1>1 DEF IInv, GoodCode, Good
<1>3. DOMAIN code = 1 .. Len(code)
  BY <1>2, LenProperties
<1>4. progblks \in [Addr -> Seq(1 .. Len(code))]
  BY <1>1 DEF IInv, StoreOK, Tables
<1>. QED
  BY <1>1, <1>2, <1>3, <1>4 DEF IInv, StoreOK, ControlOK, TypeOK

\* For every set of programs, every length and every block limit: all state is
\* of its type, and every compiled block (umc_mkblk) has one operation for each
\* platter before its exit, which lies within it.
THEOREM TypeCorrect == Spec => []TypeOK
  BY Invariance, InvType, PTL

\* Compiled code never runs after um_crtf has freed the world it belongs to, and
\* never past its exit: what um_postwrite returns to is still there, although
\* the shootdown before it may have destroyed the world.
THEOREM NeverDangling == Spec => []NoDangling
<1>1. IInv => NoDangling
  BY DEF IInv
<1>. QED
  BY Invariance, <1>1, PTL

=============================================================================
