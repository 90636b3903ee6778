--------------------------- MODULE ProcessProofs ---------------------------
(***************************************************************************)
(* What is proved of the process.  It uses the code segments as CodeSeg    *)
(* says, so that what is proved of CodeSeg holds of it; the bitmaps fit    *)
(* the program through every call; array 0 is one mapping; every call that *)
(* compiled code makes leaves its frame, passes what is declared and comes *)
(* back to the right place (CallInv is the invariant of that); and the     *)
(* instructions emitted compute what they stand for, and fit where getcod  *)
(* has made room for them.                                                 *)
(***************************************************************************)
EXTENDS Process, CodeSegProofs, WordsProofs, SequenceTheorems, TLAPS

\* What the actions of Process do to the segments.
LEMMA StepIsSegStep ==
  ASSUME [Next]_vars
  PROVE  [SegNext]_segvars
<1>1. CASE Load
  BY <1>1 DEF Load
<1>2. CASE Boot
  BY <1>2 DEF Boot, SegNext
<1>3. CASE Compile
  BY <1>3 DEF Compile, SegNext
<1>4. CASE NoMap
  BY <1>4 DEF NoMap, SegNext
<1>5. CASE Begin \/ Halt \/ Found \/ Return
  BY <1>5 DEF Begin, Halt, Found, Return
<1>6. ASSUME NEW s \in DOMAIN Stubs, CallOut(s)
      PROVE  UNCHANGED segvars
  BY <1>6 DEF CallOut
<1>7. CASE Make
  BY <1>7 DEF Make, SegNext
<1>8. CASE Destroy \/ FarLoad
  BY <1>8 DEF Destroy, FarLoad, SegNext
<1>9. CASE DestroyLong
  BY <1>9 DEF DestroyLong, SegNext
<1>10. CASE Stop
  BY <1>10 DEF Stop, SegNext
<1>11. CASE UNCHANGED vars
  BY <1>11 DEF vars
<1> QED
  BY <1>1, <1>2, <1>3, <1>4, <1>5, <1>6, <1>7, <1>8, <1>9, <1>10, <1>11 DEF Next

\* Whatever the process does, its segments change as CodeSeg allows.
THEOREM ImplementsSegments == Spec => SegSpec
<1>1. Init => SegInit
  BY DEF Init
<1> QED
  BY <1>1, StepIsSegStep, PTL DEF Spec, SegSpec

\* No code of the process is written past the end of its segment, control flows
\* across the change of one, and no segment is used twice or forgotten.
THEOREM SegmentsOfProcess == Spec => [](NeverOverruns /\ FlowsOn /\ SegmentsHeld)
BY ImplementsSegments, RoomForAll, FlowContinues, SegmentsAreHeld, PTL

-----------------------------------------------------------------------------
(* What each instruction does *)

\* The case of an instruction that each operation is.
LEMMA DoPush ==
  ASSUME NEW m, NEW i, i[1] = "push"
  PROVE  Do(m, i) = Pushed(m, i[2])
BY DEF Do

LEMMA DoPushr ==
  ASSUME NEW m, NEW i, i[1] = "pushr"
  PROVE  Do(m, i) = Pushed(m, m.r[i[2]])
BY DEF Do

LEMMA DoPopr ==
  ASSUME NEW m, NEW i, i[1] = "popr"
  PROVE  Do(m, i) = [Shrunk(m) EXCEPT !.r[i[2]] = Popped(m)]
BY DEF Do

LEMMA DoImm ==
  ASSUME NEW m, NEW i, i[1] = "imm"
  PROVE  Do(m, i) = [m EXCEPT !.r[i[2]] = ExecAll(@, i[3])]
BY DEF Do

LEMMA DoMovrr ==
  ASSUME NEW m, NEW i, i[1] = "movrr"
  PROVE  Do(m, i) = [m EXCEPT !.r[i[2]] = m.r[i[3]]]
BY DEF Do

LEMMA DoSubrr ==
  ASSUME NEW m, NEW i, i[1] = "subrr"
  PROVE  Do(m, i) = [m EXCEPT !.r[i[2]] = Long(@ - m.r[i[3]])]
BY DEF Do

LEMMA DoJmpr ==
  ASSUME NEW m, NEW i, i[1] = "jmpr"
  PROVE  Do(m, i) = [m EXCEPT !.eip = m.r[i[2]]]
BY DEF Do

LEMMA DoRet ==
  ASSUME NEW m, NEW i, i[1] = "ret"
  PROVE  Do(m, i) = [Shrunk(m) EXCEPT !.eip = Popped(m)]
BY DEF Do

LEMMA DoPatch ==
  ASSUME NEW m, NEW i, i[1] = "patch"
  PROVE  Do(m, i) = [m EXCEPT !.patch = [at |-> m.r["EDX"],
                                               jump |-> Ins("jmp", m.r["EAX"], 5)]]
BY DEF Do

-----------------------------------------------------------------------------
(* The bitmaps *)

\* A whole number of words holds the bits asked for.
LEMMA WordsCover ==
  ASSUME NEW n \in Nat
  PROVE  BitmapWords(n) \in Nat /\ n <= BitmapWords(n) * BitWord
<1>1. BitWord \in Nat \ {0}
  BY RuntimeAssumption
<1> QED
  BY <1>1, SMTT(30) DEF BitmapWords

\* The inductive invariant: proglen is a number, and while the process lives the
\* bitmaps cover it.
CoverInv == prog.len \in Nat /\ BitmapsCover

\* At first there is no program to cover.
LEMMA CoverInit ==
  ASSUME Init
  PROVE  CoverInv
BY DEF Init, SegInit, RtInit, NoProg, CoverInv, BitmapsCover, Up

\* While array 0 is being put together there is no code, and so nothing to cover.
LEMMA LoadCover ==
  ASSUME CoverInv, Load
  PROVE  CoverInv'
<1>1. mode' \notin Up
  BY DEF Load, segvars, Up
<1>2. CASE MapFile
  BY <1>1, <1>2 DEF MapFile, CoverInv, BitmapsCover
<1>3. CASE CopyFile
  <2>1. prog'.len = prog.len
    BY <1>3 DEF CopyFile
  <2> QED
    BY <1>1, <2>1 DEF CoverInv, BitmapsCover
<1>4. CASE AllocProgram
  <2>1. PICK n \in 1 .. Modulus : um_progalloc(n % Modulus, <<>>)
    BY <1>4 DEF AllocProgram
  <2>2. n % Modulus \in Nat
    BY RuntimeAssumption
  <2>3. prog'.len = n % Modulus
    BY <2>1 DEF um_progalloc
  <2> QED
    BY <1>1, <2>2, <2>3 DEF CoverInv, BitmapsCover
<1> QED
  BY <1>2, <1>3, <1>4 DEF Load

\* A world begins with bitmaps for the program there then is.
LEMMA WorldCover ==
  ASSUME CoverInv, Boot \/ Destroy \/ FarLoad
  PROVE  CoverInv'
<1>1. prog'.len \in Nat /\ bits' = BitmapWords(prog'.len)
  <2>1. CASE Boot \/ Destroy
    BY <2>1 DEF Boot, Destroy, MakeBitmaps, CoverInv
  <2>2. CASE FarLoad
    <3>1. PICK np \in ArrayLens : um_progalloc(np, Platters(0, 4 * np))
      BY <2>2 DEF FarLoad, um_newprog
    <3>2. prog'.len = np /\ np \in Nat
      BY <3>1, RuntimeAssumption DEF um_progalloc
    <3> QED
      BY <2>2, <3>2 DEF FarLoad, MakeBitmaps
  <2> QED
    BY <2>1, <2>2
<1> QED
  BY <1>1, WordsCover DEF CoverInv, BitmapsCover

\* Nothing else changes either, but for the end of the process.
LEMMA NextCover ==
  ASSUME CoverInv, [Next]_vars
  PROVE  CoverInv'
<1>1. CASE Load
  BY <1>1, LoadCover
<1>2. CASE Boot \/ Destroy \/ FarLoad
  BY <1>2, WorldCover
<1>3. CASE NoMap \/ Stop
  BY <1>3 DEF NoMap, CompileNoMap, Stop, End, Exit, NoProg, CoverInv, BitmapsCover, Up
<1>4. CASE Compile \/ Make
  <2>1. mode \in Up /\ prog' = prog /\ bits' = bits
    BY <1>4 DEF Compile, CompilePlatter, CompileBad, CompileFall, Compiling, Make, Enter, rtvars, Up
  <2> QED
    BY <2>1 DEF CoverInv, BitmapsCover
<1>5. CASE DestroyLong
  <2>1. mode' \notin Up /\ prog' = prog
    BY <1>5 DEF DestroyLong, Botch, rtvars, Up
  <2> QED
    BY <2>1 DEF CoverInv, BitmapsCover
<1>6. CASE Begin \/ Halt \/ Found \/ Return \/ UNCHANGED vars
  BY <1>6 DEF Begin, Halt, Found, Return, vars, segvars, rtvars, CoverInv, BitmapsCover
<1>7. ASSUME NEW s \in DOMAIN Stubs, CallOut(s)
      PROVE  CoverInv'
  BY <1>7 DEF CallOut, segvars, rtvars, CoverInv, BitmapsCover
<1> QED
  BY <1>1, <1>2, <1>3, <1>4, <1>5, <1>6, <1>7 DEF Next

\* The bitmaps of every world have a bit for each platter of array 0, although
\* um_loadfar changes its length when the old ones are gone and the new are not made.
THEOREM BitmapsAlwaysCover == Spec => []BitmapsCover
<1>1. CoverInv => BitmapsCover
  BY DEF CoverInv
<1> QED
  BY <1>1, CoverInit, NextCover, PTL DEF Spec

-----------------------------------------------------------------------------
(* Sums *)

\* f has the sums of the first members of s.
Sums(s, f) == f = [k \in 0 .. Len(s) |-> IF k = 0 THEN 0 ELSE f[k - 1] + s[k]]

\* There is such a function: the recursion of Total ends.
LEMMA SumsExist ==
  ASSUME NEW s \in Seq(Nat)
  PROVE  \E f \in [0 .. Len(s) -> Nat] : Sums(s, f)
<1> DEFINE Upto(n, f) == /\ f \in [0 .. n -> Nat] /\ f[0] = 0
                         /\ \A k \in 1 .. n : f[k] = f[k - 1] + s[k]
           Has == {n \in Nat : n <= Len(s) => \E f \in [0 .. n -> Nat] : Upto(n, f)}
<1>1. 0 \in Has
  <2> DEFINE f == [k \in 0 .. 0 |-> 0]
  <2>1. f \in [0 .. 0 -> Nat]
    OBVIOUS
  <2>2. f[0] = 0
    OBVIOUS
  <2>3. \A k \in 1 .. 0 : FALSE
    OBVIOUS
  <2> HIDE DEF f
  <2> QED
    BY <2>1, <2>2, <2>3
<1>2. ASSUME NEW n \in Has PROVE n + 1 \in Has
  <2>1. SUFFICES ASSUME n + 1 <= Len(s)
                 PROVE  \E f \in [0 .. n + 1 -> Nat] : Upto(n + 1, f)
    <3> HIDE DEF Upto
    <3>1. n + 1 \in Nat
      OBVIOUS
    <3> QED
      BY <3>1
  <2>2. n \in Nat /\ n <= Len(s) /\ Len(s) \in Nat
    BY <2>1
  <2>3. PICK f \in [0 .. n -> Nat] : Upto(n, f)
    BY <2>2
  <2> DEFINE g == [k \in 0 .. n + 1 |-> IF k <= n THEN f[k] ELSE f[n] + s[n + 1]]
  <2>4. s[n + 1] \in Nat /\ f[n] \in Nat
    BY <2>1, <2>2, <2>3
  <2>5. g \in [0 .. n + 1 -> Nat]
    BY <2>2, <2>3, <2>4, SMTT(30)
  <2>6. \A k \in 0 .. n : g[k] = f[k]
    BY <2>2
  <2>7. g[n + 1] = f[n] + s[n + 1]
    BY <2>2
  <2> HIDE DEF g
  <2>8. ASSUME NEW k \in 1 .. n + 1 PROVE g[k] = g[k - 1] + s[k]
    <3>1. CASE k = n + 1
      BY <2>2, <2>6, <2>7, <3>1
    <3>2. CASE k # n + 1
      <4>1. k \in 1 .. n /\ k \in 0 .. n /\ k - 1 \in 0 .. n
        BY <2>2, <3>2
      <4> QED
        BY <2>3, <2>6, <4>1
    <3> QED
      BY <3>1, <3>2
  <2>9. g[0] = 0
    BY <2>2, <2>3, <2>6
  <2> QED
    BY <2>5, <2>8, <2>9
<1>3. Has = Nat
  <2> HIDE DEF Has
  <2>1. Has \in SUBSET Nat
    BY DEF Has
  <2> QED
    BY <1>1, <1>2, <2>1, NatSetInduction
<1>4. PICK f \in [0 .. Len(s) -> Nat] : Upto(Len(s), f)
  BY <1>3
<1>5. Sums(s, f)
  BY <1>4 DEF Sums
<1> QED
  BY <1>5

\* What Total is: the last of the sums.
LEMMA TotalIs ==
  ASSUME NEW s \in Seq(Nat)
  PROVE  \E f \in [0 .. Len(s) -> Nat] :
           /\ Total(s) = f[Len(s)] /\ f[0] = 0
           /\ \A k \in 1 .. Len(s) : f[k] = f[k - 1] + s[k]
<1> DEFINE f == CHOOSE f : Sums(s, f)
<1>1. PICK g \in [0 .. Len(s) -> Nat] : Sums(s, g)
  BY SumsExist
<1>2. Sums(s, f)
  BY <1>1
<1>3. Total(s) = f[Len(s)]
  BY DEF Total, Sums
<1> HIDE DEF f
<1>4. DOMAIN f = 0 .. Len(s) /\ f[0] = 0 /\ \A k \in 1 .. Len(s) : f[k] = f[k - 1] + s[k]
  <2> DEFINE h == [k \in 0 .. Len(s) |-> IF k = 0 THEN 0 ELSE f[k - 1] + s[k]]
  <2>0. Len(s) \in Nat
    OBVIOUS
  <2>1. f = h
    BY <1>2 DEF Sums
  <2>2. DOMAIN h = 0 .. Len(s) /\ h[0] = 0
    BY <2>0
  <2>3. \A k \in 1 .. Len(s) : h[k] = f[k - 1] + s[k]
    OBVIOUS
  <2> HIDE DEF h
  <2> QED
    BY <2>1, <2>2, <2>3
<1> DEFINE Same == {n \in Nat : n <= Len(s) => f[n] \in Nat}
<1>5. 0 \in Same
  BY <1>4
<1>6. ASSUME NEW n \in Same PROVE n + 1 \in Same
  <2>1. n \in Nat /\ (n + 1 <= Len(s) => n <= Len(s) /\ n + 1 \in 1 .. Len(s) /\ (n + 1) - 1 = n)
    OBVIOUS
  <2>2. n + 1 <= Len(s) => s[n + 1] \in Nat
    BY <2>1
  <2> QED
    BY <1>4, <2>1, <2>2
<1>7. Same = Nat
  <2> HIDE DEF Same
  <2>1. Same \in SUBSET Nat
    BY DEF Same
  <2> QED
    BY <1>5, <1>6, <2>1, NatSetInduction
<1>8. f \in [0 .. Len(s) -> Nat]
  <2>1. ASSUME NEW k \in 0 .. Len(s) PROVE f[k] \in Nat
    BY <1>7
  <2>2. f = [k \in 0 .. Len(s) |-> f[k]]
    BY <1>2 DEF Sums
  <2> QED
    BY <2>1, <2>2
<1> QED
  BY <1>3, <1>4, <1>8

\* The sum of nothing, and that sums are numbers.
LEMMA TotalEmpty ==
  ASSUME NEW s \in Seq(Nat), Len(s) = 0
  PROVE  Total(s) = 0
<1>1. PICK f \in [0 .. Len(s) -> Nat] :
        /\ Total(s) = f[Len(s)] /\ f[0] = 0
        /\ \A k \in 1 .. Len(s) : f[k] = f[k - 1] + s[k]
  BY TotalIs
<1> QED
  BY <1>1

LEMMA TotalType ==
  ASSUME NEW s \in Seq(Nat)
  PROVE  Total(s) \in Nat
<1>1. PICK f \in [0 .. Len(s) -> Nat] :
        /\ Total(s) = f[Len(s)] /\ f[0] = 0
        /\ \A k \in 1 .. Len(s) : f[k] = f[k - 1] + s[k]
  BY TotalIs
<1>2. Len(s) \in 0 .. Len(s)
  OBVIOUS
<1> QED
  BY <1>1, <1>2

\* Two sequences that begin alike have the same sums as far as they do.
LEMMA TotalAppend ==
  ASSUME NEW s \in Seq(Nat), NEW x \in Nat
  PROVE  Total(Append(s, x)) = Total(s) + x
<1> DEFINE t == Append(s, x)
<1>1. t \in Seq(Nat) /\ Len(t) = Len(s) + 1 /\ t[Len(s) + 1] = x /\ Len(s) \in Nat
  OBVIOUS
<1>2. \A k \in 1 .. Len(s) : t[k] = s[k]
  OBVIOUS
<1> HIDE DEF t
<1>3. PICK f \in [0 .. Len(s) -> Nat] :
        /\ Total(s) = f[Len(s)] /\ f[0] = 0
        /\ \A k \in 1 .. Len(s) : f[k] = f[k - 1] + s[k]
  BY TotalIs
<1>4. PICK g \in [0 .. Len(t) -> Nat] :
        /\ Total(t) = g[Len(t)] /\ g[0] = 0
        /\ \A k \in 1 .. Len(t) : g[k] = g[k - 1] + t[k]
  BY <1>1, TotalIs
<1> DEFINE Same == {n \in Nat : n <= Len(s) => g[n] = f[n]}
<1>5. 0 \in Same
  BY <1>3, <1>4
<1>6. ASSUME NEW n \in Same PROVE n + 1 \in Same
  <2>1. SUFFICES ASSUME n + 1 <= Len(s) PROVE g[n + 1] = f[n + 1]
    OBVIOUS
  <2>2. n \in Nat /\ g[n] = f[n] /\ n + 1 \in 1 .. Len(s) /\ n + 1 \in 1 .. Len(t) /\ (n + 1) - 1 = n
    BY <1>1, <2>1
  <2> QED
    BY <1>2, <1>3, <1>4, <2>2
<1>7. Same = Nat
  <2> HIDE DEF Same
  <2>1. Same \in SUBSET Nat
    BY DEF Same
  <2> QED
    BY <1>5, <1>6, <2>1, NatSetInduction
<1>8. g[Len(s)] = f[Len(s)]
  <2>1. Len(s) \in Same
    BY <1>1, <1>7
  <2> QED
    BY <1>1, <2>1
<1>9. g[Len(t)] = g[Len(s)] + x
  <2>1. Len(t) \in 1 .. Len(t) /\ Len(t) - 1 = Len(s)
    BY <1>1
  <2> QED
    BY <1>1, <1>4, <2>1
<1> QED
  BY <1>3, <1>4, <1>8, <1>9 DEF t

\* The first member counts apart.
LEMMA TotalTail ==
  ASSUME NEW s \in Seq(Nat), s # <<>>
  PROVE  Total(s) = s[1] + Total(Tail(s))
<1> DEFINE t == Tail(s)
<1>1. t \in Seq(Nat) /\ Len(s) = Len(t) + 1 /\ Len(t) \in Nat /\ s[1] \in Nat
  OBVIOUS
<1>2. \A k \in 1 .. Len(t) : t[k] = s[k + 1]
  OBVIOUS
<1> HIDE DEF t
<1>3. PICK f \in [0 .. Len(s) -> Nat] :
        /\ Total(s) = f[Len(s)] /\ f[0] = 0
        /\ \A k \in 1 .. Len(s) : f[k] = f[k - 1] + s[k]
  BY TotalIs
<1>4. PICK g \in [0 .. Len(t) -> Nat] :
        /\ Total(t) = g[Len(t)] /\ g[0] = 0
        /\ \A k \in 1 .. Len(t) : g[k] = g[k - 1] + t[k]
  BY <1>1, TotalIs
<1> DEFINE Same == {n \in Nat : n <= Len(t) => f[n + 1] = s[1] + g[n]}
<1>5. 0 \in Same
  <2>1. 1 \in 1 .. Len(s) /\ 1 - 1 = 0 /\ 0 + 1 = 1
    BY <1>1
  <2>2. f[1] = s[1]
    BY <1>1, <1>3, <2>1
  <2> QED
    BY <1>1, <1>4, <2>1, <2>2
<1>6. ASSUME NEW n \in Same PROVE n + 1 \in Same
  <2>1. SUFFICES ASSUME n + 1 <= Len(t) PROVE f[(n + 1) + 1] = s[1] + g[n + 1]
    OBVIOUS
  <2>2. /\ n \in Nat /\ f[n + 1] = s[1] + g[n] /\ n + 1 \in 1 .. Len(t) /\ (n + 1) - 1 = n
        /\ (n + 1) + 1 \in 1 .. Len(s) /\ ((n + 1) + 1) - 1 = n + 1
    BY <1>1, <2>1
  <2> DEFINE j == n + 1
             i == j + 1
  <2>3. /\ f[i] = f[j] + s[i]
        /\ g[j] = g[n] + t[j]
        /\ t[j] = s[i]
    <3>1. i \in 1 .. Len(s) /\ i - 1 = j /\ j \in 1 .. Len(t) /\ j - 1 = n /\ i = j + 1
      BY <2>2
    <3> HIDE DEF i, j
    <3> QED
      BY <1>2, <1>3, <1>4, <3>1
  <2>4. g[n] \in Nat /\ t[n + 1] \in Nat
    <3>1. n \in 0 .. Len(t)
      BY <1>1, <2>2
    <3>2. g[n] \in Nat
      BY <1>4, <3>1
    <3>3. t[j] \in Nat
      BY <1>1, <2>2, SMTT(30)
    <3> QED
      BY <3>2, <3>3
  <2> QED
    BY <1>1, <2>2, <2>3, <2>4, SMTT(30)
<1>7. Same = Nat
  <2> HIDE DEF Same
  <2>1. Same \in SUBSET Nat
    BY DEF Same
  <2> QED
    BY <1>5, <1>6, <2>1, NatSetInduction
<1>8. f[Len(t) + 1] = s[1] + g[Len(t)]
  <2>1. Len(t) \in Same
    BY <1>1, <1>7
  <2> QED
    BY <1>1, <2>1
<1> QED
  BY <1>1, <1>3, <1>4, <1>8 DEF t

\* What is less in every place is less in sum.
LEMMA TotalLess ==
  ASSUME NEW s \in Seq(Nat), NEW t \in Seq(Nat), Len(s) = Len(t),
         \A k \in 1 .. Len(s) : 4 * s[k] <= t[k]
  PROVE  4 * Total(s) <= Total(t)
<1>1. PICK f \in [0 .. Len(s) -> Nat] :
        /\ Total(s) = f[Len(s)] /\ f[0] = 0
        /\ \A k \in 1 .. Len(s) : f[k] = f[k - 1] + s[k]
  BY TotalIs
<1>2. PICK g \in [0 .. Len(t) -> Nat] :
        /\ Total(t) = g[Len(t)] /\ g[0] = 0
        /\ \A k \in 1 .. Len(t) : g[k] = g[k - 1] + t[k]
  BY TotalIs
<1> DEFINE Same == {n \in Nat : n <= Len(s) => 4 * f[n] <= g[n]}
<1>3. 0 \in Same
  BY <1>1, <1>2
<1>4. ASSUME NEW n \in Same PROVE n + 1 \in Same
  <2>1. SUFFICES ASSUME n + 1 <= Len(s) PROVE 4 * f[n + 1] <= g[n + 1]
    OBVIOUS
  <2>2. /\ n \in Nat /\ 4 * f[n] <= g[n] /\ n + 1 \in 1 .. Len(s) /\ n + 1 \in 1 .. Len(t)
        /\ (n + 1) - 1 = n /\ n \in 0 .. Len(s) /\ n \in 0 .. Len(t)
    BY <2>1
  <2> DEFINE j == n + 1
  <2> HIDE DEF j
  <2>3. j \in 1 .. Len(s) /\ j \in 1 .. Len(t) /\ j - 1 = n
    BY <2>2 DEF j
  <2>4. f[n] \in Nat /\ g[n] \in Nat
    BY <2>2
  <2>5. s[j] \in Nat /\ t[j] \in Nat
    BY <2>3
  <2>6. f[j] = f[n] + s[j] /\ g[j] = g[n] + t[j] /\ 4 * s[j] <= t[j]
    BY <1>1, <1>2, <2>3
  <2>7. \A a, b, c, d \in Nat : 4 * a <= b /\ 4 * c <= d => 4 * (a + c) <= b + d
    OBVIOUS
  <2>8. 4 * (f[n] + s[j]) <= g[n] + t[j]
    BY <2>2, <2>4, <2>5, <2>6, <2>7
  <2>9. 4 * f[j] <= g[j]
    BY <2>6, <2>8
  <2> QED
    BY <2>9 DEF j
<1>5. Same = Nat
  <2> HIDE DEF Same
  <2>1. Same \in SUBSET Nat
    BY DEF Same
  <2> QED
    BY <1>3, <1>4, <2>1, NatSetInduction
<1>6. Len(s) \in Nat /\ Len(s) <= Len(s)
  OBVIOUS
<1> QED
  BY <1>1, <1>2, <1>5, <1>6

-----------------------------------------------------------------------------
(* Array 0 *)

\* No file is as long as the address space, nor is an array that was allocated.
LengthsFit == /\ \A len \in FileLens : len < Modulus
              /\ \A np \in ArrayLens : 4 * np < Modulus

\* A mapping that is made is at least as long as what it was asked for: if the sum
\* wraps, there is nothing to map.
LEMMA RoundupHolds ==
  ASSUME NEW n \in Nat, n < Modulus
  PROVE  /\ vm_roundup(n) \in Nat
         /\ vm_roundup(n) > 0 => n <= vm_roundup(n)
<1> DEFINE m == n + PageSize - 1
<1>1. Modulus \in Nat \ {0} /\ PageSize \in Nat \ {0} /\ PageSize <= Modulus
  BY RuntimeAssumption
<1>2. m \in Nat /\ m < 2 * Modulus
  BY <1>1
<1>3. vm_roundup(n) = PageSize * ((m % Modulus) \div PageSize)
  BY DEF vm_roundup
<1>4. CASE m < Modulus
  <2>1. m % Modulus = m
    BY <1>1, <1>2, <1>4
  <2> DEFINE q == m \div PageSize
             p == PageSize * q
  <2>2. q \in Nat /\ p \in Nat /\ m < p + PageSize
    <3>1. q \in Nat /\ m = PageSize * q + (m % PageSize) /\ m % PageSize \in 0 .. PageSize - 1
      BY <1>1, <1>2
    <3> HIDE DEF q
    <3>2. p \in Nat
      BY <1>1, <3>1
    <3> HIDE DEF p
    <3> QED
      BY <1>1, <1>2, <3>1, <3>2 DEF p
  <2>3. vm_roundup(n) = p
    BY <1>3, <2>1
  <2> HIDE DEF p
  <2> QED
    BY <1>1, <2>2, <2>3
<1>5. CASE m >= Modulus
  <2>1. m % Modulus = m - Modulus
    BY <1>1, <1>2, <1>5
  <2>2. m - Modulus \in 0 .. PageSize - 1
    BY <1>1, <1>5
  <2>3. (m - Modulus) \div PageSize = 0
    BY <1>1, <2>2
  <2>4. vm_roundup(n) = 0
    BY <1>1, <1>3, <2>1, <2>3
  <2> QED
    BY <2>4
<1> QED
  BY <1>1, <1>2, <1>4, <1>5

\* The inductive invariant.  Every file mapped lies in its mapping; as long as there
\* is no array 0, the mappings of the files are all there is; and when there is one,
\* it is mapped whole, and what it lacks is still in the files.
ZeroInv ==
  /\ es \in Seq(FileLens)
  /\ \A k \in 1 .. Len(es) : vm_roundup(es[k]) > 0
  /\ prog \in [len : Nat, bytes : Nat, data : Seq(Nat \X Nat)]
  /\ prog = NoProg => lost = 0 /\ Total(Mappings(es)) <= Space
  /\ 4 * prog.len <= prog.bytes
  /\ prog # NoProg => prog.bytes > 0 /\ prog.len = Len(prog.data) + Total(Wholes(es))
  /\ mode \in Up => Booted

\* What the files of a program are, and what becomes of them.
LEMMA FilesAre ==
  ASSUME NEW s \in Seq(FileLens), LengthsFit
  PROVE  /\ Mappings(s) \in Seq(Nat) /\ Wholes(s) \in Seq(Nat)
         /\ Len(Mappings(s)) = Len(s) /\ Len(Wholes(s)) = Len(s)
<1>1. \A len \in FileLens : len \in Nat /\ len < Modulus
  BY RuntimeAssumption DEF LengthsFit
<1>2. \A k \in 1 .. Len(s) : s[k] \in FileLens
  OBVIOUS
<1>3. \A k \in 1 .. Len(s) : vm_roundup(s[k]) \in Nat
  BY <1>1, <1>2, RoundupHolds
<1>4. \A k \in 1 .. Len(s) : Whole(s[k]) \in Nat
  BY <1>1, <1>2 DEF Whole
<1>5. DOMAIN s = 1 .. Len(s) /\ Len(s) \in Nat
  OBVIOUS
<1>6. Mappings(s) \in [1 .. Len(s) -> Nat] /\ Wholes(s) \in [1 .. Len(s) -> Nat]
  BY <1>3, <1>4, <1>5 DEF Mappings, Wholes
<1>7. ASSUME NEW n \in Nat, NEW f \in [1 .. n -> Nat] PROVE f \in Seq(Nat) /\ Len(f) = n
  OBVIOUS
<1> QED
  BY <1>5, <1>6, <1>7

\* The platters of all files are mapped with them.
LEMMA WholesMapped ==
  ASSUME NEW s \in Seq(FileLens), LengthsFit, \A k \in 1 .. Len(s) : vm_roundup(s[k]) > 0
  PROVE  /\ Total(Wholes(s)) \in Nat /\ Total(Mappings(s)) \in Nat
         /\ 4 * Total(Wholes(s)) <= Total(Mappings(s))
<1>1. /\ Mappings(s) \in Seq(Nat) /\ Wholes(s) \in Seq(Nat)
      /\ Len(Mappings(s)) = Len(s) /\ Len(Wholes(s)) = Len(s)
  BY FilesAre
<1>2. ASSUME NEW k \in 1 .. Len(s)
      PROVE  4 * Wholes(s)[k] <= Mappings(s)[k]
  <2>1. Wholes(s)[k] = Whole(s[k]) /\ Mappings(s)[k] = vm_roundup(s[k])
    BY DEF Wholes, Mappings
  <2>2. s[k] \in FileLens /\ s[k] \in Nat /\ s[k] < Modulus
    <3>1. s[k] \in FileLens
      OBVIOUS
    <3> QED
      BY <3>1, RuntimeAssumption DEF LengthsFit
  <2>3. vm_roundup(s[k]) \in Nat /\ s[k] <= vm_roundup(s[k])
    BY <2>2, RoundupHolds
  <2>4. Whole(s[k]) \in Nat /\ 4 * Whole(s[k]) <= s[k]
    BY <2>2 DEF Whole
  <2> QED
    BY <2>1, <2>2, <2>3, <2>4
<1> QED
  BY <1>1, <1>2, TotalLess, TotalType

\* No program is loaded.
LEMMA NoProgIs ==
  /\ NoProg \in [len : Nat, bytes : Nat, data : Seq(Nat \X Nat)]
  /\ NoProg.len = 0 /\ NoProg.bytes = 0 /\ NoProg.data = <<>> /\ Len(NoProg.data) = 0
BY DEF NoProg

\* Nothing mapped, nothing to hold.
LEMMA NothingZero ==
  ASSUME es' = <<>>, prog' = NoProg, lost' = 0, mode' \notin Up
  PROVE  ZeroInv'
<1>1. <<>> \in Seq(FileLens) /\ Len(<<>>) = 0
  OBVIOUS
<1>2. Mappings(<<>>) \in Seq(Nat) /\ Len(Mappings(<<>>)) = 0
  BY DEF Mappings
<1>3. Total(Mappings(<<>>)) = 0 /\ 0 <= Space
  BY <1>2, TotalEmpty, RuntimeAssumption
<1> QED
  BY <1>1, <1>3, NoProgIs DEF ZeroInv

\* As long as nothing of it changes.
LEMMA SameZero ==
  ASSUME ZeroInv, es' = es, prog' = prog, lost' = lost, mode' \in Up => mode \in Up
  PROVE  ZeroInv'
BY DEF ZeroInv, Booted

\* What um_progalloc maps.
LEMMA ProgallocMaps ==
  ASSUME NEW n \in Nat, NEW data, 4 * n < Modulus, um_progalloc(n, data)
  PROVE  /\ prog'.len = n /\ prog'.data = data
         /\ prog'.bytes \in Nat /\ prog'.bytes > 0 /\ 4 * n <= prog'.bytes
         /\ prog' = [len |-> prog'.len, bytes |-> prog'.bytes, data |-> prog'.data]
<1> DEFINE bytes == vm_roundup((4 * n) % Modulus)
<1>1. 4 * n \in Nat /\ (4 * n) % Modulus = 4 * n
  BY RuntimeAssumption
<1>2. bytes = vm_roundup(4 * n)
  BY <1>1
<1>3. bytes > 0 /\ prog' = [len |-> n, bytes |-> bytes, data |-> data]
  BY DEF um_progalloc, Mappable
<1>4. bytes \in Nat /\ 4 * n <= bytes
  BY <1>1, <1>2, <1>3, RoundupHolds
<1> HIDE DEF bytes
<1> QED
  BY <1>3, <1>4

\* One file more is mapped.
LEMMA MapZero ==
  ASSUME ZeroInv, LengthsFit, MapFile, mode' \notin Up
  PROVE  ZeroInv'
<1>1. PICK len \in FileLens : Mappable(vm_roundup(len)) /\ es' = Append(es, len)
  BY DEF MapFile
<1>2. prog = NoProg /\ prog' = prog /\ lost' = lost
  BY DEF MapFile
<1>3. es \in Seq(FileLens) /\ lost = 0 /\ \A k \in 1 .. Len(es) : vm_roundup(es[k]) > 0
  BY <1>2 DEF ZeroInv
<1>4. len \in Nat /\ len < Modulus
  BY RuntimeAssumption DEF LengthsFit
<1>5. vm_roundup(len) \in Nat /\ vm_roundup(len) > 0
  BY <1>1, <1>4, RoundupHolds DEF Mappable
<1>6. /\ Mappings(es) \in Seq(Nat) /\ Len(Mappings(es)) = Len(es)
      /\ DOMAIN es = 1 .. Len(es) /\ Len(es) \in Nat
  BY <1>3, FilesAre
<1>7. /\ es' \in Seq(FileLens) /\ Len(es') = Len(es) + 1 /\ es'[Len(es) + 1] = len
      /\ \A k \in 1 .. Len(es) : es'[k] = es[k]
      /\ DOMAIN es' = 1 .. Len(es) + 1
  BY <1>1, <1>3
<1>8. \A k \in 1 .. Len(es') : vm_roundup(es'[k]) > 0
  <2>1. SUFFICES ASSUME NEW k \in 1 .. Len(es) + 1 PROVE vm_roundup(es'[k]) > 0
    BY <1>7
  <2>2. CASE k = Len(es) + 1
    BY <1>5, <1>7, <2>2
  <2>3. CASE k # Len(es) + 1
    <3>1. k \in 1 .. Len(es)
      BY <1>6, <2>3
    <3> QED
      BY <1>3, <1>7, <3>1
  <2> QED
    BY <2>2, <2>3
<1>9. Mappings(es') = Append(Mappings(es), vm_roundup(len))
  <2> DEFINE s == Mappings(es)
             t == Append(s, vm_roundup(len))
             u == Mappings(es')
  <2>1. /\ t \in Seq(Nat) /\ Len(t) = Len(es) + 1
        /\ \A k \in 1 .. Len(es) : t[k] = s[k]
        /\ t[Len(es) + 1] = vm_roundup(len)
    <3> HIDE DEF s
    <3>1. s \in Seq(Nat) /\ Len(s) = Len(es)
      BY <1>6 DEF s
    <3> QED
      BY <1>5, <1>6, <3>1, AppendProperties
  <2>2. u = [k \in 1 .. Len(es) + 1 |-> vm_roundup(es'[k])]
    BY <1>7 DEF Mappings
  <2>3. ASSUME NEW k \in 1 .. Len(es) + 1
        PROVE  vm_roundup(es'[k]) = t[k]
    <3>1. CASE k = Len(es) + 1
      BY <1>7, <2>1, <3>1
    <3>2. CASE k # Len(es) + 1
      <4>1. k \in 1 .. Len(es)
        BY <1>6, <3>2
      <4>2. s[k] = vm_roundup(es[k])
        BY <1>6, <4>1 DEF Mappings
      <4> QED
        BY <1>7, <2>1, <4>1, <4>2
    <3> QED
      BY <3>1, <3>2
  <2>4. u \in Seq(Nat) /\ Len(u) = Len(es) + 1
    BY <1>7, FilesAre
  <2>5. \A k \in 1 .. Len(u) : u[k] = t[k]
    BY <2>2, <2>3, <2>4
  <2> HIDE DEF t, u
  <2>6. u = t
    BY <2>1, <2>4, <2>5, SeqEqual
  <2> QED
    BY <2>6 DEF t, u
<1>10. Total(Mappings(es')) = Total(Mappings(es)) + vm_roundup(len)
  BY <1>5, <1>6, <1>9, TotalAppend
<1>11. Total(Mappings(es')) <= Space
  <2>1. Used = Total(Mappings(es))
    <3>1. Total(Mappings(es)) \in Nat
      BY <1>6, TotalType
    <3> QED
      BY <1>2, <1>3, <3>1, NoProgIs DEF Used
  <2>2. Used + vm_roundup(len) <= Space
    BY <1>1 DEF Mappable
  <2> QED
    BY <1>10, <2>1, <2>2
<1> QED
  BY <1>2, <1>3, <1>7, <1>8, <1>11, NoProgIs DEF ZeroInv

\* Array 0 is mapped as long as the files make it, which are mapped themselves.
LEMMA AllocZero ==
  ASSUME ZeroInv, LengthsFit, AllocProgram, mode' \notin Up
  PROVE  ZeroInv'
<1> DEFINE stuff == Total(Wholes(es))
<1>1. prog = NoProg /\ stuff \in 1 .. Modulus /\ um_progalloc(stuff % Modulus, <<>>)
  BY DEF AllocProgram
<1>2. es' = es /\ lost' = lost
  BY DEF AllocProgram
<1>3. /\ es \in Seq(FileLens) /\ Total(Mappings(es)) <= Space
      /\ \A k \in 1 .. Len(es) : vm_roundup(es[k]) > 0
  BY <1>1 DEF ZeroInv
<1>4. stuff \in Nat /\ Total(Mappings(es)) \in Nat /\ 4 * stuff <= Total(Mappings(es))
  BY <1>3, WholesMapped
<1> HIDE DEF stuff
<1>5. Modulus \in Nat /\ Space \in Nat /\ Space < Modulus
  BY RuntimeAssumption
<1>6. 4 * stuff < Modulus /\ stuff % Modulus = stuff
  BY <1>1, <1>3, <1>4, <1>5
<1>7. /\ prog'.len = stuff /\ prog'.data = <<>>
      /\ prog'.bytes \in Nat /\ prog'.bytes > 0 /\ 4 * stuff <= prog'.bytes
      /\ prog' = [len |-> prog'.len, bytes |-> prog'.bytes, data |-> prog'.data]
  BY <1>1, <1>4, <1>6, ProgallocMaps
<1>8. prog' \in [len : Nat, bytes : Nat, data : Seq(Nat \X Nat)]
  BY <1>4, <1>7, NoProgIs DEF NoProg
<1>9. prog'.len = Len(prog'.data) + Total(Wholes(es'))
  BY <1>2, <1>4, <1>7 DEF stuff
<1> QED
  BY <1>2, <1>3, <1>7, <1>8, <1>9, NoProgIs DEF ZeroInv

\* A file that is copied is platters of array 0 from then on.
LEMMA CopyZero ==
  ASSUME ZeroInv, LengthsFit, CopyFile, mode' \notin Up
  PROVE  ZeroInv'
<1> DEFINE len == Head(es)
           new == Platters(Len(es), len)
<1>1. prog # NoProg /\ es # <<>> /\ es' = Tail(es) /\ prog' = [prog EXCEPT !.data = @ \o new]
  BY DEF CopyFile
<1>2. /\ es \in Seq(FileLens) /\ \A k \in 1 .. Len(es) : vm_roundup(es[k]) > 0
      /\ prog \in [len : Nat, bytes : Nat, data : Seq(Nat \X Nat)]
      /\ 4 * prog.len <= prog.bytes
      /\ prog.bytes > 0 /\ prog.len = Len(prog.data) + Total(Wholes(es))
  BY <1>1 DEF ZeroInv
<1>3. /\ es' \in Seq(FileLens) /\ len \in FileLens /\ len = es[1] /\ Len(es) \in Nat
      /\ Len(es) = Len(es') + 1 /\ Len(es') \in Nat
      /\ \A k \in 1 .. Len(es') : es'[k] = es[k + 1]
      /\ DOMAIN es' = 1 .. Len(es') /\ DOMAIN es = 1 .. Len(es)
  BY <1>1, <1>2
<1>4. \A k \in 1 .. Len(es') : vm_roundup(es'[k]) > 0
  <2>1. SUFFICES ASSUME NEW k \in 1 .. Len(es') PROVE vm_roundup(es'[k]) > 0
    OBVIOUS
  <2>2. k + 1 \in 1 .. Len(es)
    BY <1>3
  <2> QED
    BY <1>2, <1>3, <2>2
<1>5. len \in Nat /\ Whole(len) \in Nat
  <2>1. len \in Nat
    BY <1>3, RuntimeAssumption
  <2> HIDE DEF len
  <2> QED
    BY <2>1 DEF Whole
<1>6. new \in Seq(Nat \X Nat) /\ Len(new) = Whole(len)
  <2>1. new = [k \in 1 .. Whole(len) |-> <<Len(es), k>>]
    BY DEF Platters
  <2>2. new \in [1 .. Whole(len) -> Nat \X Nat]
    BY <1>3, <1>5, <2>1
  <2>3. ASSUME NEW n \in Nat, NEW f \in [1 .. n -> Nat \X Nat]
        PROVE  f \in Seq(Nat \X Nat) /\ Len(f) = n
    OBVIOUS
  <2> HIDE DEF new
  <2> QED
    BY <1>5, <2>2, <2>3
<1> HIDE DEF new
<1>7. /\ Wholes(es) \in Seq(Nat) /\ Len(Wholes(es)) = Len(es)
      /\ Wholes(es') \in Seq(Nat) /\ Len(Wholes(es')) = Len(es')
  BY <1>2, <1>3, FilesAre
<1>8. Wholes(es') = Tail(Wholes(es)) /\ Wholes(es)[1] = Whole(len) /\ Wholes(es) # <<>>
  <2> DEFINE s == Wholes(es)
             t == Wholes(es')
  <2>1. s[1] = Whole(len)
    BY <1>3 DEF Wholes
  <2>2. ASSUME NEW k \in 1 .. Len(es') PROVE t[k] = s[k + 1]
    <3>1. k + 1 \in 1 .. Len(es)
      BY <1>3
    <3> QED
      BY <1>3, <3>1 DEF Wholes
  <2>3. ASSUME NEW x \in Seq(Nat), NEW y \in Seq(Nat), Len(x) = Len(y) + 1,
               \A k \in 1 .. Len(y) : y[k] = x[k + 1]
        PROVE  y = Tail(x) /\ x # <<>>
    <3>1. Len(y) \in Nat /\ x # <<>>
      BY <2>3
    <3>2. /\ Tail(x) \in Seq(Nat) /\ Len(Tail(x)) = Len(x) - 1
          /\ \A k \in 1 .. Len(Tail(x)) : Tail(x)[k] = x[k + 1]
      BY <3>1, HeadTailProperties
    <3>3. Len(Tail(x)) = Len(y)
      BY <2>3, <3>1, <3>2
    <3>4. y = Tail(x)
      BY <2>3, <3>2, <3>3, SeqEqual
    <3> QED
      BY <3>1, <3>4
  <2>4. t = Tail(s) /\ s # <<>>
    <3> HIDE DEF s, t
    <3>1. s \in Seq(Nat) /\ t \in Seq(Nat) /\ Len(s) = Len(t) + 1 /\ Len(t) = Len(es')
      BY <1>3, <1>7 DEF s, t
    <3> QED
      BY <2>2, <2>3, <3>1
  <2> QED
    BY <2>1, <2>4
<1>9. Total(Wholes(es)) = Whole(len) + Total(Wholes(es')) /\ Total(Wholes(es')) \in Nat
  BY <1>7, <1>8, TotalTail, TotalType
<1>10. /\ prog'.len = prog.len /\ prog'.bytes = prog.bytes /\ prog'.data = prog.data \o new
       /\ prog' \in [len : Nat, bytes : Nat, data : Seq(Nat \X Nat)]
  <2>1. prog.data \in Seq(Nat \X Nat) /\ prog.data \o new \in Seq(Nat \X Nat)
    BY <1>2, <1>6, ConcatProperties
  <2> DEFINE data == prog.data \o new
  <2>2. prog' = [prog EXCEPT !.data = data]
    BY <1>1
  <2> HIDE DEF data
  <2>3. data \in Seq(Nat \X Nat)
    BY <2>1 DEF data
  <2>4. /\ prog'.len = prog.len /\ prog'.bytes = prog.bytes /\ prog'.data = data
        /\ prog' \in [len : Nat, bytes : Nat, data : Seq(Nat \X Nat)]
    BY <1>2, <2>2, <2>3
  <2> QED
    BY <2>4 DEF data
<1>11. Len(prog'.data) = Len(prog.data) + Whole(len) /\ Len(prog.data) \in Nat
  BY <1>2, <1>6, <1>10
<1>12. prog'.len = Len(prog'.data) + Total(Wholes(es'))
  BY <1>2, <1>5, <1>9, <1>10, <1>11
<1> QED
  BY <1>2, <1>3, <1>4, <1>10, <1>12, NoProgIs DEF ZeroInv

\* A load program maps the array that it loads, with the platters of that array.
LEMMA NewprogZero ==
  ASSUME ZeroInv, LengthsFit, um_newprog, mode \in Up
  PROVE  ZeroInv'
<1>1. PICK np \in ArrayLens : um_progalloc(np, Platters(0, 4 * np))
  BY DEF um_newprog
<1>2. es' = es /\ es = <<>>
  BY DEF um_newprog, ZeroInv, Booted
<1>3. np \in Nat /\ 4 * np < Modulus
  BY RuntimeAssumption DEF LengthsFit
<1> DEFINE new == Platters(0, 4 * np)
<1>4. new \in Seq(Nat \X Nat) /\ Len(new) = np
  <2>1. Whole(4 * np) = np
    BY <1>3 DEF Whole
  <2>2. new = [k \in 1 .. np |-> <<0, k>>]
    BY <2>1 DEF Platters
  <2>3. new \in [1 .. np -> Nat \X Nat]
    BY <1>3, <2>2
  <2>4. ASSUME NEW n \in Nat, NEW f \in [1 .. n -> Nat \X Nat]
        PROVE  f \in Seq(Nat \X Nat) /\ Len(f) = n
    OBVIOUS
  <2> HIDE DEF new
  <2> QED
    BY <1>3, <2>3, <2>4
<1> HIDE DEF new
<1>5. /\ prog'.len = np /\ prog'.data = new
      /\ prog'.bytes \in Nat /\ prog'.bytes > 0 /\ 4 * np <= prog'.bytes
      /\ prog' = [len |-> prog'.len, bytes |-> prog'.bytes, data |-> prog'.data]
  <2>1. um_progalloc(np, new)
    BY <1>1 DEF new
  <2> QED
    BY <1>3, <2>1, ProgallocMaps
<1>6. prog' \in [len : Nat, bytes : Nat, data : Seq(Nat \X Nat)]
  BY <1>3, <1>4, <1>5
<1>7. Total(Wholes(es')) = 0
  <2>1. Wholes(<<>>) \in Seq(Nat) /\ Len(Wholes(<<>>)) = 0
    BY DEF Wholes
  <2> QED
    BY <1>2, <2>1, TotalEmpty
<1>8. prog'.len = Len(prog'.data) + Total(Wholes(es'))
  BY <1>3, <1>4, <1>5, <1>7
<1>9. Booted'
  BY <1>2, <1>5, NoProgIs DEF Booted
<1>10. es' \in Seq(FileLens) /\ \A k \in 1 .. Len(es') : vm_roundup(es'[k]) > 0
  BY <1>2 DEF ZeroInv
<1> QED
  BY <1>5, <1>6, <1>8, <1>9, <1>10, NoProgIs DEF ZeroInv

\* At first nothing is loaded.
LEMMA ZeroInit ==
  ASSUME Init
  PROVE  ZeroInv
<1>1. es = <<>> /\ prog = NoProg /\ lost = 0 /\ mode \notin Up
  BY DEF Init, SegInit, RtInit, Up
<1>2. <<>> \in Seq(FileLens) /\ Len(<<>>) = 0
  OBVIOUS
<1>3. Mappings(<<>>) \in Seq(Nat) /\ Len(Mappings(<<>>)) = 0
  BY DEF Mappings
<1>4. Total(Mappings(<<>>)) = 0 /\ 0 <= Space
  BY <1>3, TotalEmpty, RuntimeAssumption
<1> QED
  BY <1>1, <1>2, <1>4, NoProgIs DEF ZeroInv

\* Every step keeps array 0 whole.
LEMMA NextZero ==
  ASSUME ZeroInv, LengthsFit, [Next]_vars
  PROVE  ZeroInv'
<1>1. CASE Load
  <2>1. mode' \notin Up
    BY <1>1 DEF Load, segvars, Up
  <2> QED
    BY <1>1, <2>1, MapZero, AllocZero, CopyZero DEF Load
<1>2. CASE Boot
  <2>1. es' = es /\ prog' = prog /\ lost' = lost /\ Booted
    BY <1>2 DEF Boot
  <2> QED
    BY <2>1 DEF ZeroInv, Booted
<1>3. CASE NoMap \/ Stop
  <2>1. mode' \notin Up
    BY <1>3 DEF NoMap, CompileNoMap, Stop, End, Up
  <2> QED
    BY <1>3, <2>1, NothingZero DEF NoMap, Stop, Exit
<1>4. CASE FarLoad
  <2>1. mode \in Up
    BY <1>4 DEF FarLoad, Renew, Up
  <2> QED
    BY <1>4, <2>1, NewprogZero DEF FarLoad
<1>5. CASE Compile \/ Make \/ DestroyLong \/ Destroy
  <2>1. es' = es /\ prog' = prog /\ lost' = lost
    BY <1>5 DEF Compile, Make, Destroy, DestroyLong, rtvars
  <2>2. CASE DestroyLong
    BY <2>1, <2>2, SameZero DEF DestroyLong, Botch, Up
  <2>3. CASE Compile \/ Make \/ Destroy
    <3>1. mode \in Up
      BY <2>3 DEF Compile, CompilePlatter, CompileBad, CompileFall, Compiling, Make, Enter,
                  Destroy, Renew, Up
    <3> QED
      BY <2>1, <3>1, SameZero
  <2> QED
    BY <1>5, <2>2, <2>3
<1>6. CASE Begin \/ Halt \/ Found \/ Return \/ UNCHANGED vars
  BY <1>6, SameZero DEF Begin, Halt, Found, Return, vars, segvars, rtvars
<1>7. ASSUME NEW s \in DOMAIN Stubs, CallOut(s)
      PROVE  ZeroInv'
  BY <1>7, SameZero DEF CallOut, segvars, rtvars
<1> QED
  BY <1>1, <1>2, <1>3, <1>4, <1>5, <1>6, <1>7 DEF Next

\* Array 0 never has more platters than its mapping holds, and has all that were
\* meant for it when the program runs, although no size computed on the way is
\* checked for overflow: files that fit the address space together do not overflow.
THEOREM ArrayZeroIsWhole ==
  ASSUME LengthsFit
  PROVE  Spec => []ArrayZeroWhole
<1>1. ASSUME ZeroInv PROVE ArrayZeroWhole
  <2>1. /\ es \in Seq(FileLens) /\ \A k \in 1 .. Len(es) : vm_roundup(es[k]) > 0
        /\ prog \in [len : Nat, bytes : Nat, data : Seq(Nat \X Nat)]
        /\ 4 * prog.len <= prog.bytes
        /\ prog # NoProg => prog.len = Len(prog.data) + Total(Wholes(es))
    BY <1>1 DEF ZeroInv
  <2>2. Total(Wholes(es)) \in Nat
    BY <2>1, WholesMapped
  <2>3. Len(prog.data) \in Nat /\ prog.len \in Nat /\ prog.bytes \in Nat
    BY <2>1
  <2>4. CASE prog = NoProg
    BY <2>3, <2>4, NoProgIs DEF ArrayZeroWhole, Booted
  <2>5. CASE prog # NoProg
    <3>1. 4 * Len(prog.data) <= prog.bytes
      BY <2>1, <2>2, <2>3, <2>5
    <3>2. Booted => prog.len = Len(prog.data)
      <4>1. Wholes(<<>>) \in Seq(Nat) /\ Len(Wholes(<<>>)) = 0
        BY DEF Wholes
      <4>2. Total(Wholes(<<>>)) = 0
        BY <4>1, TotalEmpty
      <4> QED
        BY <2>1, <2>3, <2>5, <4>2 DEF Booted
    <3> QED
      BY <3>1, <3>2 DEF ArrayZeroWhole
  <2> QED
    BY <2>4, <2>5
<1>2. Init => ZeroInv
  BY ZeroInit
<1>3. ZeroInv /\ [Next]_vars => ZeroInv'
  BY NextZero
<1> QED
  BY <1>1, <1>2, <1>3, PTL DEF Spec

-----------------------------------------------------------------------------
(* Code that is run from its first instruction to its last *)

\* The words of the stack are told apart by a small part of a word.
LEMMA WordsAre ==
  /\ Modulus \in Nat /\ Modulus >= 1024
<1>1. WordBits \in Nat /\ WordBits > 9
  BY WordBitsAssumption, ProcessAssumption
<1>2. WordBits - 10 \in Nat /\ 10 + (WordBits - 10) = WordBits
  BY <1>1
<1>3. Pow2[WordBits] >= Pow2[10]
  BY <1>2, Pow2Grows
<1> QED
  BY <1>1, <1>3, SmallPow2, ModulusType DEF Modulus

\* run has the states of the processor after each instruction.
RunOf(run, m, code) ==
  /\ run[0] = m
  /\ \A k \in 1 .. Len(code) : run[k] = Do(run[k - 1], code[k])

\* What DoAll is: the last of these states.
LEMMA DoAllIs ==
  ASSUME NEW m, NEW code, Len(code) \in Nat
  PROVE  \E run : RunOf(run, m, code) /\ DoAll(m, code) = run[Len(code)]
<1> DEFINE Step(f, k) == IF k = 0 THEN m ELSE Do(f[k - 1], code[k])
           Upto(n, f) == f = [k \in 0 .. n |-> Step(f, k)]
           Has == {n \in Nat : \E f : Upto(n, f)}
<1>1. 0 \in Has
  <2> DEFINE f == [k \in 0 .. 0 |-> m]
  <2>1. \A k \in 0 .. 0 : k = 0
    OBVIOUS
  <2>2. f = [k \in 0 .. 0 |-> IF k = 0 THEN m ELSE Do(f[k - 1], code[k])]
    BY <2>1
  <2> HIDE DEF f
  <2> QED
    BY <2>2
<1>2. ASSUME NEW n \in Has PROVE n + 1 \in Has
  <2>1. PICK f : Upto(n, f)
    OBVIOUS
  <2>2. n \in Nat /\ n + 1 \in Nat
    <3> HIDE DEF Upto
    <3> QED
      OBVIOUS
  <2> DEFINE g == [k \in 0 .. n + 1 |-> IF k <= n THEN f[k] ELSE Do(f[n], code[n + 1])]
  <2>3. \A k \in 0 .. n : g[k] = f[k]
    BY <2>2
  <2>4. g[n + 1] = Do(f[n], code[n + 1])
    BY <2>2
  <2>5. g = [k \in 0 .. n + 1 |-> g[k]]
    OBVIOUS
  <2>6. \A k \in 0 .. n : f[k] = Step(f, k)
    <3> HIDE DEF Step
    <3> QED
      BY <2>1
  <2> HIDE DEF g
  <2>7. ASSUME NEW k \in 0 .. n + 1 PROVE g[k] = Step(g, k)
    <3>1. CASE k = 0
      BY <2>2, <2>3, <2>6, <3>1
    <3>2. CASE k = n + 1
      <4>1. k # 0 /\ k - 1 = n /\ n \in 0 .. n
        BY <2>2, <3>2
      <4> QED
        BY <2>3, <2>4, <3>2, <4>1
    <3>3. CASE k # 0 /\ k # n + 1
      <4>1. k \in 0 .. n /\ k - 1 \in 0 .. n
        BY <2>2, <3>3
      <4>2. f[k] = Do(f[k - 1], code[k])
        BY <2>6, <3>3, <4>1
      <4> QED
        BY <2>3, <3>3, <4>1, <4>2
    <3> QED
      BY <3>1, <3>2, <3>3
  <2>8. Upto(n + 1, g)
    <3> HIDE DEF Step
    <3> QED
      BY <2>5, <2>7
  <2> HIDE DEF Upto
  <2> QED
    BY <2>2, <2>8
<1>3. Has = Nat
  <2> HIDE DEF Has
  <2>1. Has \in SUBSET Nat
    BY DEF Has
  <2> QED
    BY <1>1, <1>2, <2>1, NatSetInduction
<1> DEFINE run == CHOOSE f : Upto(Len(code), f)
<1>4. Upto(Len(code), run)
  <2> HIDE DEF Upto
  <2> QED
    BY <1>3
<1>5. DoAll(m, code) = run[Len(code)]
  BY DEF DoAll
<1> HIDE DEF run
<1>6. \A k \in 0 .. Len(code) : run[k] = Step(run, k)
  <2> HIDE DEF Step
  <2> QED
    BY <1>4
<1>7. run[0] = m
  BY <1>6
<1>8. ASSUME NEW k \in 1 .. Len(code) PROVE run[k] = Do(run[k - 1], code[k])
  <2>1. k \in 0 .. Len(code) /\ k # 0
    OBVIOUS
  <2> QED
    BY <1>6, <2>1
<1> QED
  BY <1>5, <1>7, <1>8 DEF RunOf

\* Code of up to four instructions.
LEMMA DoAll0 ==
  ASSUME NEW m
  PROVE  DoAll(m, <<>>) = m
<1>1. Len(<<>>) = 0
  OBVIOUS
<1> QED
  BY <1>1, DoAllIs DEF RunOf

LEMMA DoAll1 ==
  ASSUME NEW m, NEW a
  PROVE  DoAll(m, <<a>>) = Do(m, a)
<1> DEFINE code == <<a>>
<1>1. Len(code) = 1 /\ code[1] = a
  OBVIOUS
<1> HIDE DEF code
<1>2. PICK run : RunOf(run, m, code) /\ DoAll(m, code) = run[Len(code)]
  <2>1. Len(code) \in Nat
    BY <1>1
  <2> QED
    BY <2>1, DoAllIs
<1>3. run[0] = m /\ run[1] = Do(run[1 - 1], a)
  BY <1>1, <1>2 DEF RunOf
<1>4. DoAll(m, code) = Do(m, a)
  BY <1>1, <1>2, <1>3
<1> QED
  BY <1>4 DEF code

LEMMA DoAll2 ==
  ASSUME NEW m, NEW a, NEW b
  PROVE  DoAll(m, <<a, b>>) = Do(Do(m, a), b)
<1> DEFINE code == <<a, b>>
<1>1. Len(code) = 2 /\ code[1] = a /\ code[2] = b
  OBVIOUS
<1> HIDE DEF code
<1>2. PICK run : RunOf(run, m, code) /\ DoAll(m, code) = run[Len(code)]
  <2>1. Len(code) \in Nat
    BY <1>1
  <2> QED
    BY <2>1, DoAllIs
<1>3. run[0] = m /\ run[1] = Do(run[1 - 1], a) /\ run[2] = Do(run[2 - 1], b)
  BY <1>1, <1>2 DEF RunOf
<1>4. DoAll(m, code) = Do(Do(m, a), b)
  BY <1>1, <1>2, <1>3
<1> QED
  BY <1>4 DEF code

LEMMA DoAll3 ==
  ASSUME NEW m, NEW a, NEW b, NEW c
  PROVE  DoAll(m, <<a, b, c>>) = Do(Do(Do(m, a), b), c)
<1> DEFINE code == <<a, b, c>>
<1>1. Len(code) = 3 /\ code[1] = a /\ code[2] = b /\ code[3] = c
  OBVIOUS
<1> HIDE DEF code
<1>2. PICK run : RunOf(run, m, code) /\ DoAll(m, code) = run[Len(code)]
  <2>1. Len(code) \in Nat
    BY <1>1
  <2> QED
    BY <2>1, DoAllIs
<1>3. run[0] = m /\ run[1] = Do(run[1 - 1], a) /\ run[2] = Do(run[2 - 1], b) /\ run[3] = Do(run[3 - 1], c)
  BY <1>1, <1>2 DEF RunOf
<1>4. DoAll(m, code) = Do(Do(Do(m, a), b), c)
  BY <1>1, <1>2, <1>3
<1> QED
  BY <1>4 DEF code

LEMMA DoAll4 ==
  ASSUME NEW m, NEW a, NEW b, NEW c, NEW d
  PROVE  DoAll(m, <<a, b, c, d>>) = Do(Do(Do(Do(m, a), b), c), d)
<1> DEFINE code == <<a, b, c, d>>
<1>1. Len(code) = 4 /\ code[1] = a /\ code[2] = b /\ code[3] = c /\ code[4] = d
  OBVIOUS
<1> HIDE DEF code
<1>2. PICK run : RunOf(run, m, code) /\ DoAll(m, code) = run[Len(code)]
  <2>1. Len(code) \in Nat
    BY <1>1
  <2> QED
    BY <2>1, DoAllIs
<1>3. /\ run[0] = m /\ run[1] = Do(run[1 - 1], a) /\ run[2] = Do(run[2 - 1], b)
      /\ run[3] = Do(run[3 - 1], c) /\ run[4] = Do(run[4 - 1], d)
  BY <1>1, <1>2 DEF RunOf
<1>4. DoAll(m, code) = Do(Do(Do(Do(m, a), b), c), d)
  BY <1>1, <1>2, <1>3
<1> QED
  BY <1>4 DEF code

\* What is run in two parts is run one after the other.
LEMMA DoAllParts ==
  ASSUME NEW m, NEW s, NEW t, NEW u, Len(s) \in Nat, Len(t) \in Nat, Len(u) = Len(s) + Len(t),
         \A k \in 1 .. Len(s) : u[k] = s[k],
         \A k \in 1 .. Len(t) : u[Len(s) + k] = t[k]
  PROVE  DoAll(m, u) = DoAll(DoAll(m, s), t)
<1>1. Len(u) \in Nat
  OBVIOUS
<1>2. PICK f : RunOf(f, m, s) /\ DoAll(m, s) = f[Len(s)]
  BY DoAllIs
<1> DEFINE mid == DoAll(m, s)
<1>3. PICK g : RunOf(g, mid, t) /\ DoAll(mid, t) = g[Len(t)]
  BY DoAllIs
<1>4. PICK h : RunOf(h, m, u) /\ DoAll(m, u) = h[Len(u)]
  BY <1>1, DoAllIs
<1> HIDE DEF mid
<1> DEFINE X == {n \in Nat : n <= Len(s) => h[n] = f[n]}
           Y == {n \in Nat : n <= Len(t) => h[Len(s) + n] = g[n]}
<1>5. X = Nat
  <2>1. 0 \in X
    BY <1>2, <1>4 DEF RunOf
  <2>2. ASSUME NEW n \in X PROVE n + 1 \in X
    <3>1. SUFFICES ASSUME n + 1 <= Len(s) PROVE h[n + 1] = f[n + 1]
      OBVIOUS
    <3>2. n + 1 \in 1 .. Len(s) /\ n + 1 \in 1 .. Len(u) /\ (n + 1) - 1 = n /\ h[n] = f[n]
      BY <3>1
    <3> QED
      BY <1>2, <1>4, <3>2 DEF RunOf
  <2> HIDE DEF X
  <2>3. X \in SUBSET Nat
    BY DEF X
  <2> QED
    BY <2>1, <2>2, <2>3, NatSetInduction
<1>6. h[Len(s)] = mid
  <2>1. Len(s) \in X
    BY <1>5
  <2> QED
    BY <1>2, <2>1 DEF mid
<1>7. Y = Nat
  <2>1. 0 \in Y
    BY <1>3, <1>6 DEF RunOf
  <2>2. ASSUME NEW n \in Y PROVE n + 1 \in Y
    <3>1. SUFFICES ASSUME n + 1 <= Len(t) PROVE h[Len(s) + (n + 1)] = g[n + 1]
      OBVIOUS
    <3> DEFINE i == Len(s) + (n + 1)
               j == n + 1
    <3>2. /\ j \in 1 .. Len(t) /\ i \in 1 .. Len(u) /\ j - 1 = n /\ i - 1 = Len(s) + n
          /\ i = Len(s) + j /\ h[Len(s) + n] = g[n]
      BY <3>1
    <3> HIDE DEF i, j
    <3>3. h[i] = Do(h[i - 1], u[i]) /\ g[j] = Do(g[j - 1], t[j]) /\ u[i] = t[j]
      BY <1>3, <1>4, <3>2 DEF RunOf
    <3>4. h[i] = g[j]
      BY <3>2, <3>3
    <3> QED
      BY <3>4 DEF i, j
  <2> HIDE DEF Y
  <2>3. Y \in SUBSET Nat
    BY DEF Y
  <2> QED
    BY <2>1, <2>2, <2>3, NatSetInduction
<1>8. Len(t) \in Y
  BY <1>7
<1>9. h[Len(s) + Len(t)] = g[Len(t)]
  BY <1>8
<1> QED
  BY <1>3, <1>4, <1>9 DEF mid

-----------------------------------------------------------------------------
(* Instructions with an immediate operand *)

\* No immediate operation takes more than two instructions.
LEMMA ExecAllIs ==
  ASSUME NEW x, NEW code, Len(code) \in 0 .. 2
  PROVE  LET once == Exec(x, code[1]) IN
         ExecAll(x, code) = IF Len(code) = 0 THEN x
                            ELSE IF Len(code) = 1 THEN once ELSE Exec(once, code[2])
<1> DEFINE n == Len(code)
           once == Exec(x, code[1])
           twice == Exec(once, code[2])
           Step(f, k) == IF k = 0 THEN x ELSE Exec(f[k - 1], code[k])
           Good(f) == f = [k \in 0 .. n |-> Step(f, k)]
           f0 == [k \in 0 .. n |-> IF k = 0 THEN x ELSE IF k = 1 THEN once ELSE twice]
           run == CHOOSE f : Good(f)
<1>1. ExecAll(x, code) = run[n]
  BY DEF ExecAll
<1> HIDE DEF n
<1>2. n \in 0 .. 2
  BY DEF n
<1>3. Good(f0)
  <2>1. f0 = [k \in 0 .. n |-> f0[k]]
    OBVIOUS
  <2>2. ASSUME NEW k \in 0 .. n PROVE f0[k] = Step(f0, k)
    <3>1. CASE k = 0
      BY <1>2, <3>1
    <3>2. CASE k = 1
      <4>1. 0 \in 0 .. n /\ f0[0] = x /\ f0[1] = once
        BY <1>2, <3>2
      <4> HIDE DEF f0
      <4> QED
        BY <3>2, <4>1
    <3>3. CASE k = 2
      <4>1. 1 \in 0 .. n /\ f0[1] = once /\ f0[2] = twice
        BY <1>2, <3>3
      <4> HIDE DEF f0, once
      <4> QED
        BY <3>3, <4>1
    <3> QED
      BY <1>2, <3>1, <3>2, <3>3
  <2> HIDE DEF f0, Step
  <2> QED
    BY <2>1, <2>2
<1>4. Good(run)
  <2> HIDE DEF Good, f0
  <2> QED
    BY <1>3
<1> HIDE DEF run, f0
<1>5. \A k \in 0 .. n : run[k] = Step(run, k)
  <2> HIDE DEF Step
  <2> QED
    BY <1>4
<1>6. run[0] = x
  BY <1>2, <1>5
<1>7. n >= 1 => run[1] = once
  <2>1. SUFFICES ASSUME n >= 1 PROVE run[1] = once
    OBVIOUS
  <2>2. 1 \in 0 .. n /\ 1 # 0 /\ 1 - 1 = 0
    BY <1>2, <2>1
  <2>3. run[1] = Exec(run[1 - 1], code[1])
    BY <1>5, <2>2
  <2> QED
    BY <1>6, <2>2, <2>3
<1>8. n = 2 => run[2] = twice
  <2>1. SUFFICES ASSUME n = 2 PROVE run[2] = twice
    OBVIOUS
  <2>2. 2 \in 0 .. n /\ 2 # 0 /\ 2 - 1 = 1
    BY <2>1
  <2>3. run[2] = Exec(run[2 - 1], code[2])
    BY <1>5, <2>2
  <2> QED
    BY <1>7, <2>1, <2>2, <2>3
<1>9. CASE n = 0
  BY <1>1, <1>6, <1>9 DEF n
<1>10. CASE n = 1
  BY <1>1, <1>7, <1>10 DEF n
<1>11. CASE n = 2
  BY <1>1, <1>8, <1>11 DEF n
<1> QED
  BY <1>2, <1>9, <1>10, <1>11

\* Code of up to two operations.
LEMMA ExecAll0 ==
  ASSUME NEW x
  PROVE  ExecAll(x, <<>>) = x
<1>1. Len(<<>>) = 0
  OBVIOUS
<1> QED
  BY <1>1, ExecAllIs

LEMMA ExecAll1 ==
  ASSUME NEW x, NEW i
  PROVE  ExecAll(x, <<i>>) = Exec(x, i)
<1> DEFINE code == <<i>>
<1>1. Len(code) = 1 /\ code[1] = i
  OBVIOUS
<1> HIDE DEF code
<1>2. ExecAll(x, code) = Exec(x, i)
  BY <1>1, ExecAllIs
<1> QED
  BY <1>2 DEF code

LEMMA ExecAll2 ==
  ASSUME NEW x, NEW i, NEW j
  PROVE  ExecAll(x, <<i, j>>) = Exec(Exec(x, i), j)
<1> DEFINE code == <<i, j>>
<1>1. Len(code) = 2 /\ code[1] = i /\ code[2] = j
  OBVIOUS
<1> HIDE DEF code
<1>2. ExecAll(x, code) = Exec(Exec(x, i), j)
  BY <1>1, ExecAllIs
<1> QED
  BY <1>2 DEF code

\* What the processor makes of each operation.
LEMMA ExecIs ==
  ASSUME NEW x, NEW y, NEW n
  PROVE  /\ Exec(x, Ins("add", y, n)) = Add(x, y)
         /\ Exec(x, Ins("sub", y, n)) = Long(x - y)
         /\ Exec(x, Ins("and", y, n)) = And(x, y)
         /\ Exec(x, Ins("mov", y, n)) = y
         /\ Exec(x, Ins("shl", y, n)) = Mul(x, Pow2[y])
         /\ Exec(x, Ins("shr", y, n)) = x \div Pow2[y]
         /\ Exec(x, Ins("lea", y, n)) = Add(x, Mul(x, y))
         /\ Exec(x, Ins("mul", y, n)) = Mul(x, y)
BY DEF Exec, Ins

\* A small number is its own remainder.
LEMMA ModSmall ==
  ASSUME NEW x \in Nat, x < Modulus
  PROVE  x % Modulus = x /\ Long(x) = x
<1>1. Modulus \in Nat /\ x \in 0 .. Modulus - 1
  BY ModulusType
<1> QED
  BY <1>1 DEF Long

\* The stack pointer is added to and subtracted from as it should be.
LEMMA EspAdded ==
  ASSUME NEW x \in Nat, NEW i \in {4, 8, 12, 16}, x + i < Modulus
  PROVE  ExecAll(x, e_addri(FALSE, i)) = x + i
<1>1. Byte(i) = i /\ ISB(i)
  BY DEF Byte, ISB
<1>2. Long(i) = i
  BY WordsAre, ModSmall
<1>3. e_addri(FALSE, i) = <<Ins("add", i, 3)>>
  <2>1. e_xxxri("add", FALSE, i) = <<Ins("add", i, 3)>>
    BY <1>1, <1>2 DEF e_xxxri
  <2>2. i # 1 /\ i # -1 /\ i # 128
    OBVIOUS
  <2>3. e_addri(FALSE, i) = e_xxxri("add", FALSE, i)
    BY <2>2, Zenon DEF e_addri
  <2> QED
    BY <2>1, <2>3
<1>4. ExecAll(x, e_addri(FALSE, i)) = Add(x, i)
  <2>1. ExecAll(x, <<Ins("add", i, 3)>>) = Exec(x, Ins("add", i, 3))
    BY ExecAll1
  <2>2. Exec(x, Ins("add", i, 3)) = Add(x, i)
    BY ExecIs
  <2> QED
    BY <1>3, <2>1, <2>2
<1>5. x + i \in Nat
  OBVIOUS
<1> QED
  BY <1>4, <1>5, ModSmall DEF Add

\* So is what is subtracted from it.
LEMMA EspSubtracted ==
  ASSUME NEW x \in Nat, NEW i \in {5, 8, 28}, i <= x, x < Modulus, NEW eax
  PROVE  ExecAll(x, e_subri(eax, i)) = x - i
<1>1. Byte(i) = i /\ ISB(i)
  BY DEF Byte, ISB
<1>2. Long(i) = i
  <2>1. i < Modulus
    BY ModulusType
  <2> QED
    BY <2>1, ModSmall
<1>3. e_xxxri("sub", eax, i) = <<Ins("sub", i, 3)>>
  BY <1>1, <1>2 DEF e_xxxri
<1>4. e_subri(eax, i) = <<>> \o <<Ins("sub", i, 3)>>
  <2>1. i # 1 /\ i # -1 /\ i # 128
    OBVIOUS
  <2> QED
    BY <1>3, <2>1, Zenon DEF e_subri
<1>5. ASSUME NEW a PROVE <<>> \o <<a>> = <<a>>
  OBVIOUS
<1>6. e_subri(eax, i) = <<Ins("sub", i, 3)>>
  BY <1>4, <1>5
<1>7. ExecAll(x, e_subri(eax, i)) = Long(x - i)
  <2>1. ExecAll(x, <<Ins("sub", i, 3)>>) = Exec(x, Ins("sub", i, 3))
    BY ExecAll1
  <2> QED
    BY <1>6, <2>1, ExecIs
<1>8. x - i \in Nat /\ x - i < Modulus
  BY ModulusType
<1> QED
  BY <1>7, <1>8, ModSmall

-----------------------------------------------------------------------------
(* The processor and its stack *)

Patches == [at : Nat, jump : [op : {"none", "jmp"}, x : Nat, n : Nat]]
Machine == [r : [Regs -> Nat], mem : [Stack -> Nat], eip : Nat, patch : Patches]

\* The kth word of the stack, counted down from the top.
Depths  == 0 .. 20
Slot(k) == Top - 4 * k

\* The top of the stack is a word, and aligned.
LEMMA TopIs ==
  Top \in Nat /\ Top >= 80 /\ Top < Modulus /\ Top % 16 = 0 /\ Top % 4 = 0
<1>1. Modulus \in Nat
  BY ModulusType
<1>2. Top \in 80 .. Modulus - 1 /\ Top % 16 = 0
  BY StubsAssumption
<1>3. Top \in Nat /\ Top >= 80 /\ Top < Modulus
  BY <1>1, <1>2
<1>4. Top % 4 = 0
  BY <1>2, <1>3
<1> QED
  BY <1>2, <1>3, <1>4

\* The words of the stack are told apart by their depth.
LEMMA SlotsAre ==
  /\ \A k \in Depths : Slot(k) \in Stack /\ Slot(k) \in Nat /\ Slot(k) < Modulus
  /\ \A a \in Stack : a \in Nat /\ \E k \in Depths : a = Slot(k)
  /\ \A j, k \in Depths : Slot(j) = Slot(k) => j = k
<1>1. ASSUME NEW k \in Depths
      PROVE  Slot(k) \in Stack /\ Slot(k) \in Nat /\ Slot(k) < Modulus
  <2>1. Slot(k) \in Top - 80 .. Top /\ Slot(k) \in Nat
    BY TopIs DEF Slot, Depths
  <2>2. Slot(k) % 4 = 0
    BY TopIs DEF Slot, Depths
  <2>3. Slot(k) < Modulus
    BY <2>1, TopIs, ModulusType
  <2> QED
    BY <2>1, <2>2, <2>3 DEF Stack
<1>2. ASSUME NEW a \in Stack PROVE a \in Nat /\ \E k \in Depths : a = Slot(k)
  <2>1. a \in Top - 80 .. Top /\ a % 4 = 0 /\ a \in Nat
    BY TopIs DEF Stack
  <2>2. PICK j : j = (Top - a) \div 4
    OBVIOUS
  <2>3. j \in Depths /\ a = Top - 4 * j
    BY <2>1, <2>2, TopIs DEF Depths
  <2> QED
    BY <2>1, <2>3 DEF Slot
<1>3. \A j, k \in Depths : Slot(j) = Slot(k) => j = k
  BY TopIs DEF Slot, Depths
<1> QED
  BY <1>1, <1>2, <1>3

\* Of m, the processor n has its stack pointer at depth d, and the same in all
\* registers but those of S, and in all words of the stack but those of K.
Moved(m, n, d, S, K) ==
  /\ n \in Machine /\ n.r["ESP"] = Slot(d)
  /\ \A q \in Regs \ (S \cup {"ESP"}) : n.r[q] = m.r[q]
  /\ \A k \in Depths \ K : n.mem[Slot(k)] = m.mem[Slot(k)]
  /\ n.eip = m.eip /\ n.patch = m.patch

\* What two pieces of code change.
LEMMA MovedTwice ==
  ASSUME NEW m, NEW n, NEW o, NEW d, NEW e, NEW S, NEW T, NEW K, NEW L,
         Moved(m, n, d, S, K), Moved(n, o, e, T, L)
  PROVE  Moved(m, o, e, S \cup T, K \cup L)
BY DEF Moved

\* A push.
LEMMA PushIs ==
  ASSUME NEW m \in Machine, NEW d \in 0 .. 19, m.r["ESP"] = Slot(d), NEW x \in Nat
  PROVE  Moved(m, Pushed(m, x), d + 1, {}, {d + 1}) /\ Pushed(m, x).mem[Slot(d + 1)] = x
<1> DEFINE e == d + 1
           n == Pushed(m, x)
<1>1. e \in Depths /\ d \in Depths /\ Slot(e) = Slot(d) - 4
  BY TopIs DEF Depths, Slot
<1> HIDE DEF e
<1>2. n = [m EXCEPT !.r = [m.r EXCEPT !["ESP"] = Slot(e)], !.mem = [m.mem EXCEPT ![Slot(e)] = x]]
  BY <1>1 DEF Pushed, Machine
<1>3. Slot(e) \in Stack /\ Slot(e) \in Nat /\ "ESP" \in Regs
  BY <1>1, SlotsAre DEF Regs
<1> DEFINE r == [m.r EXCEPT !["ESP"] = Slot(e)]
           mem == [m.mem EXCEPT ![Slot(e)] = x]
<1>4. r \in [Regs -> Nat] /\ r["ESP"] = Slot(e) /\ \A q \in Regs \ {"ESP"} : r[q] = m.r[q]
  BY <1>3 DEF Machine
<1>5. mem \in [Stack -> Nat] /\ mem[Slot(e)] = x /\ \A k \in Depths \ {e} : mem[Slot(k)] = m.mem[Slot(k)]
  BY <1>1, <1>3, SlotsAre DEF Machine
<1> HIDE DEF r, mem
<1>6. n = [m EXCEPT !.r = r, !.mem = mem]
  BY <1>2 DEF r, mem
<1>7. n \in Machine /\ n.r = r /\ n.mem = mem /\ n.eip = m.eip /\ n.patch = m.patch
  BY <1>4, <1>5, <1>6 DEF Machine
<1> HIDE DEF n
<1>8. Moved(m, n, e, {}, {e}) /\ n.mem[Slot(e)] = x
  BY <1>4, <1>5, <1>7 DEF Moved
<1> QED
  BY <1>8 DEF n, e

\* The processor n is m with x in the register q.
Given(m, q, x) == [m EXCEPT !.r[q] = x]
IsGiven(m, n, q, x) ==
  /\ n \in Machine /\ n.r[q] = x /\ \A p \in Regs \ {q} : n.r[p] = m.r[p]
  /\ n.mem = m.mem /\ n.eip = m.eip /\ n.patch = m.patch

\* A register is given a value.
LEMMA GivenIs ==
  ASSUME NEW m \in Machine, NEW q \in Regs, NEW x \in Nat
  PROVE  IsGiven(m, Given(m, q, x), q, x)
<1> DEFINE n == Given(m, q, x)
           r == [m.r EXCEPT ![q] = x]
<1>1. r \in [Regs -> Nat] /\ r[q] = x /\ \A p \in Regs \ {q} : r[p] = m.r[p]
  BY DEF Machine
<1>2. n = [m EXCEPT !.r = r]
  BY DEF Given
<1> HIDE DEF r, n
<1>3. n \in Machine /\ n.r = r /\ n.mem = m.mem /\ n.eip = m.eip /\ n.patch = m.patch
  BY <1>1, <1>2 DEF Machine
<1>4. IsGiven(m, n, q, x)
  BY <1>1, <1>3 DEF IsGiven
<1> QED
  BY <1>4 DEF n

\* The registers, and those that hold the frame.
LEMMA RegsAre ==
  /\ "ESP" \in Regs /\ "EBP" \in Regs /\ "ESP" # "EBP"
  /\ General \subseteq Regs \ {"ESP", "EBP"}
  /\ {"EAX", "ECX", "EDX", "EBX", "ESI", "EDI"} = General
BY DEF Regs, General

\* Words are dropped from the stack by an addition to its pointer.
LEMMA DropIs ==
  ASSUME NEW m \in Machine, NEW d \in Depths, m.r["ESP"] = Slot(d), NEW j \in 1 .. 4, j <= d
  PROVE  Moved(m, Do(m, Pop(4 * j)), d - j, {}, {})
<1> DEFINE x == Slot(d - j)
           i == Pop(4 * j)
           code == e_addri(FALSE, 4 * j)
<1>1. x \in Nat /\ x < Modulus /\ Slot(d) \in Nat /\ x = Slot(d) + 4 * j /\ 4 * j \in {4, 8, 12, 16}
  <2>1. d - j \in Depths /\ x = Slot(d) + 4 * j
    BY TopIs DEF Depths, Slot
  <2> QED
    BY <2>1, SlotsAre
<1>2. ExecAll(m.r["ESP"], code) = x
  BY <1>1, EspAdded
<1>3. i[1] = "imm" /\ i[2] = "ESP" /\ i[3] = code
  BY DEF Pop, Immediate
<1> HIDE DEF i, code, x
<1>4. Do(m, i) = Given(m, "ESP", x)
  <2>1. Do(m, i) = [m EXCEPT !.r[i[2]] = ExecAll(@, i[3])]
    BY <1>3, DoImm
  <2> QED
    BY <1>2, <1>3, <2>1 DEF Given
<1>5. "ESP" \in Regs /\ x \in Nat
  BY <1>1, RegsAre
<1>6. PICK n : n = Do(m, i) /\ IsGiven(m, n, "ESP", x)
  BY <1>4, <1>5, GivenIs
<1>7. Moved(m, n, d - j, {}, {})
  BY <1>6 DEF Moved, IsGiven, x
<1> QED
  BY <1>6, <1>7 DEF i

\* A pop.
LEMMA ShrunkIs ==
  ASSUME NEW m \in Machine, NEW d \in Depths, d > 0, m.r["ESP"] = Slot(d)
  PROVE  /\ IsGiven(m, Shrunk(m), "ESP", Slot(d - 1))
         /\ Popped(m) = m.mem[Slot(d)] /\ Popped(m) \in Nat
<1> DEFINE x == Slot(d - 1)
<1>1. x \in Nat /\ x = Slot(d) + 4 /\ Slot(d) \in Stack
  <2>1. d - 1 \in Depths /\ x = Slot(d) + 4
    BY TopIs DEF Depths, Slot
  <2> QED
    BY <2>1, SlotsAre
<1>2. Shrunk(m) = Given(m, "ESP", x)
  BY <1>1 DEF Shrunk, Given
<1>3. Popped(m) = m.mem[Slot(d)] /\ Popped(m) \in Nat
  BY <1>1 DEF Popped, Machine
<1> HIDE DEF x
<1>4. "ESP" \in Regs /\ x \in Nat
  BY <1>1, RegsAre
<1>5. IsGiven(m, Shrunk(m), "ESP", x)
  BY <1>2, <1>4, GivenIs
<1> QED
  BY <1>3, <1>5 DEF x

\* A pop.
LEMMA PopIs ==
  ASSUME NEW m \in Machine, NEW d \in Depths, d > 0, m.r["ESP"] = Slot(d), NEW q \in Regs, q # "ESP"
  PROVE  Moved(m, Do(m, <<"popr", q>>), d - 1, {q}, {}) /\ Do(m, <<"popr", q>>).r[q] = m.mem[Slot(d)]
<1> DEFINE i == <<"popr", q>>
<1>1. i[1] = "popr" /\ i[2] = q
  OBVIOUS
<1> HIDE DEF i
<1>2. Do(m, i) = [Shrunk(m) EXCEPT !.r[i[2]] = Popped(m)]
  BY <1>1, DoPopr
<1>3. PICK s, y : s = Shrunk(m) /\ y = Popped(m)
  OBVIOUS
<1>4. Do(m, i) = Given(s, q, y)
  BY <1>1, <1>2, <1>3 DEF Given
<1>5. IsGiven(m, s, "ESP", Slot(d - 1)) /\ y = m.mem[Slot(d)] /\ y \in Nat
  BY <1>3, ShrunkIs
<1>6. s \in Machine
  BY <1>5 DEF IsGiven
<1>7. PICK n : n = Do(m, i) /\ IsGiven(s, n, q, y)
  BY <1>4, <1>5, <1>6, GivenIs
<1>8. Moved(m, n, d - 1, {q}, {})
  BY <1>5, <1>7, RegsAre DEF Moved, IsGiven
<1>9. n.r[q] = m.mem[Slot(d)]
  BY <1>5, <1>7 DEF IsGiven
<1> QED
  BY <1>7, <1>8, <1>9 DEF i

\* A move, a subtraction and an immediate operation.
LEMMA MoveIs ==
  ASSUME NEW m \in Machine, NEW q \in Regs, NEW p \in Regs
  PROVE  IsGiven(m, Do(m, <<"movrr", q, p>>), q, m.r[p])
<1> DEFINE i == <<"movrr", q, p>>
<1>1. i[1] = "movrr" /\ i[2] = q /\ i[3] = p
  OBVIOUS
<1> HIDE DEF i
<1>2. Do(m, i) = [m EXCEPT !.r[i[2]] = m.r[i[3]]]
  BY <1>1, DoMovrr
<1>3. Do(m, i) = Given(m, q, m.r[p]) /\ m.r[p] \in Nat
  BY <1>1, <1>2 DEF Given, Machine
<1>4. IsGiven(m, Do(m, i), q, m.r[p])
  BY <1>3, GivenIs
<1> QED
  BY <1>4 DEF i

\* A subtraction of registers.
LEMMA SubIs ==
  ASSUME NEW m \in Machine, NEW q \in Regs, NEW p \in Regs
  PROVE  IsGiven(m, Do(m, <<"subrr", q, p>>), q, Long(m.r[q] - m.r[p]))
<1> DEFINE i == <<"subrr", q, p>>
           x == Long(m.r[q] - m.r[p])
<1>1. i[1] = "subrr" /\ i[2] = q /\ i[3] = p
  OBVIOUS
<1> HIDE DEF i
<1>2. Do(m, i) = [m EXCEPT !.r[i[2]] = Long(@ - m.r[i[3]])]
  BY <1>1, DoSubrr
<1>3. Do(m, i) = Given(m, q, x)
  BY <1>1, <1>2 DEF Given
<1>4. x \in Nat
  <2>1. m.r[q] - m.r[p] \in Int
    BY DEF Machine
  <2> QED
    BY <2>1, ModulusType DEF Long
<1> HIDE DEF x
<1>5. IsGiven(m, Do(m, i), q, x)
  BY <1>3, <1>4, GivenIs
<1> QED
  BY <1>5 DEF i, x

\* An operation with an immediate operand.
LEMMA ImmIs ==
  ASSUME NEW m \in Machine, NEW q \in Regs, NEW code, ExecAll(m.r[q], code) \in Nat
  PROVE  IsGiven(m, Do(m, Immediate(q, code)), q, ExecAll(m.r[q], code))
<1> DEFINE i == Immediate(q, code)
<1>1. i[1] = "imm" /\ i[2] = q /\ i[3] = code
  BY DEF Immediate
<1> HIDE DEF i
<1>2. Do(m, i) = [m EXCEPT !.r[i[2]] = ExecAll(@, i[3])]
  BY <1>1, DoImm
<1>3. Do(m, i) = Given(m, q, ExecAll(m.r[q], code))
  BY <1>1, <1>2 DEF Given
<1>4. IsGiven(m, Do(m, i), q, ExecAll(m.r[q], code))
  BY <1>3, GivenIs
<1> QED
  BY <1>4 DEF i

\* The pushes.
LEMMA PushrIs ==
  ASSUME NEW m \in Machine, NEW d \in 0 .. 19, m.r["ESP"] = Slot(d), NEW q \in Regs
  PROVE  /\ Moved(m, Do(m, <<"pushr", q>>), d + 1, {}, {d + 1})
         /\ Do(m, <<"pushr", q>>).mem[Slot(d + 1)] = m.r[q]
<1> DEFINE i == <<"pushr", q>>
<1>1. i[1] = "pushr" /\ i[2] = q
  OBVIOUS
<1> HIDE DEF i
<1>2. PICK x \in Nat : x = m.r[q]
  BY DEF Machine
<1>3. Do(m, i) = Pushed(m, x)
  BY <1>1, <1>2, DoPushr
<1>4. Moved(m, Pushed(m, x), d + 1, {}, {d + 1}) /\ Pushed(m, x).mem[Slot(d + 1)] = x
  BY PushIs
<1>5. Moved(m, Do(m, i), d + 1, {}, {d + 1}) /\ Do(m, i).mem[Slot(d + 1)] = m.r[q]
  BY <1>2, <1>3, <1>4
<1> QED
  BY <1>5 DEF i

\* What is passed and held.
Passed == {"znz", "time", "target", "array", "index", "block", "length", "char", "format"}
HeldNames == {"umc_start", "junk", "result", "EAX", "ECX", "EDX", "EBX", "EBP", "ESI", "EDI"}

\* What is passed and what is held are numbers.
LEMMA TheIs ==
  /\ DOMAIN The = Names /\ \A name \in Names : The[name] \in Nat
  /\ Passed \cup HeldNames \subseteq Names
<1>1. The \in [Names -> Word]
  BY StubsAssumption
<1>2. Word \subseteq Nat
  BY ModulusType DEF Word
<1>3. Passed \cup HeldNames \subseteq Names
  BY DEF Passed, HeldNames, Names
<1> QED
  BY <1>1, <1>2, <1>3

\* A push of a value that is passed.
LEMMA PushiIs ==
  ASSUME NEW m \in Machine, NEW d \in 0 .. 19, m.r["ESP"] = Slot(d), NEW name \in Passed
  PROVE  /\ Moved(m, Do(m, Pushi(name)), d + 1, {}, {d + 1})
         /\ Do(m, Pushi(name)).mem[Slot(d + 1)] = The[name]
<1> DEFINE i == Pushi(name)
<1>1. i[1] = "push" /\ i[2] = The[name]
  BY DEF Pushi
<1> HIDE DEF i
<1>2. PICK x \in Nat : x = The[name]
  BY TheIs
<1>3. Do(m, i) = Pushed(m, x)
  BY <1>1, <1>2, DoPush
<1>4. Moved(m, Pushed(m, x), d + 1, {}, {d + 1}) /\ Pushed(m, x).mem[Slot(d + 1)] = x
  BY PushIs
<1>5. Moved(m, Do(m, i), d + 1, {}, {d + 1}) /\ Do(m, i).mem[Slot(d + 1)] = The[name]
  BY <1>2, <1>3, <1>4
<1> QED
  BY <1>5 DEF i

\* The address of the return address, which the call that follows pushes.
LEMMA RtnpIs ==
  ASSUME NEW m \in Machine, NEW d \in 0 .. 18, m.r["ESP"] = Slot(d)
  PROVE  /\ Moved(m, DoAll(m, e_calli_rtnp), d + 1, {"EAX"}, {d + 1})
         /\ DoAll(m, e_calli_rtnp).mem[Slot(d + 1)] = Slot(d + 2)
<1> DEFINE code == e_subri(TRUE, 8)
           a == <<"movrr", "EAX", "ESP">>
           b == Immediate("EAX", code)
           c == <<"pushr", "EAX">>
<1>1. PICK m1 : m1 = Do(m, a)
  OBVIOUS
<1>2. PICK m2 : m2 = Do(m1, b)
  OBVIOUS
<1>3. PICK m3 : m3 = Do(m2, c)
  OBVIOUS
<1>4. DoAll(m, e_calli_rtnp) = m3
  <2>1. e_calli_rtnp = <<a, b, c>>
    BY DEF e_calli_rtnp
  <2> HIDE DEF a, b, c
  <2> QED
    BY <1>1, <1>2, <1>3, <2>1, DoAll3
<1>5. "EAX" \in Regs /\ "ESP" \in Regs /\ "EAX" # "ESP"
  BY DEF Regs
<1>6. IsGiven(m, m1, "EAX", Slot(d))
  BY <1>1, <1>5, MoveIs
<1>7. m1 \in Machine /\ m1.r["EAX"] = Slot(d)
  BY <1>6 DEF IsGiven
<1>8. ExecAll(Slot(d), code) = Slot(d + 2) /\ Slot(d + 2) \in Nat
  <2>1. d \in Depths /\ d + 2 \in Depths /\ Slot(d + 2) = Slot(d) - 8 /\ 8 <= Slot(d)
    BY TopIs DEF Depths, Slot
  <2>2. Slot(d) \in Nat /\ Slot(d) < Modulus /\ Slot(d + 2) \in Nat
    BY <2>1, SlotsAre
  <2> QED
    BY <2>1, <2>2, EspSubtracted
<1> HIDE DEF code
<1>9. IsGiven(m1, m2, "EAX", Slot(d + 2))
  BY <1>2, <1>5, <1>7, <1>8, ImmIs
<1>10. m2 \in Machine /\ m2.r["ESP"] = Slot(d) /\ m2.r["EAX"] = Slot(d + 2)
  BY <1>5, <1>6, <1>9 DEF IsGiven
<1>11. Moved(m2, m3, d + 1, {}, {d + 1}) /\ m3.mem[Slot(d + 1)] = Slot(d + 2)
  <2>1. d \in 0 .. 19
    OBVIOUS
  <2> QED
    BY <1>3, <1>5, <1>10, <2>1, PushrIs
<1>12. Moved(m, m3, d + 1, {"EAX"}, {d + 1})
  BY <1>6, <1>9, <1>11 DEF Moved, IsGiven
<1> QED
  BY <1>4, <1>11, <1>12

-----------------------------------------------------------------------------
(* What is emitted before a call *)

\* Words dropped, and one, two or three parameters pushed.
LEMMA OneIs ==
  ASSUME NEW m \in Machine, m.r["ESP"] = Slot(12), NEW a \in Passed
  PROVE  \E n : /\ n = DoAll(m, <<Pop(4), Pushi(a)>>)
                /\ Moved(m, n, 12, {}, {12}) /\ n.mem[Slot(12)] = The[a]
<1> DEFINE i == Pop(4)
           j == Pushi(a)
<1>1. PICK m1 : m1 = Do(m, i)
  OBVIOUS
<1>2. PICK m2 : m2 = Do(m1, j)
  OBVIOUS
<1>3. Moved(m, m1, 11, {}, {})
  <2>1. /\ 12 \in Depths /\ 1 \in 1 .. 4 /\ 4 * 1 = 4 /\ 12 - 1 = 11 /\ 1 <= 12
    BY DEF Depths
  <2>2. Moved(m, Do(m, Pop(4 * 1)), 12 - 1, {}, {})
    BY <2>1, DropIs
  <2> QED
    BY <1>1, <2>1, <2>2
<1>4. m1 \in Machine /\ m1.r["ESP"] = Slot(11)
  BY <1>3 DEF Moved
<1>5. Moved(m1, m2, 12, {}, {12}) /\ m2.mem[Slot(12)] = The[a]
  <2>1. 11 \in 0 .. 19 /\ 11 + 1 = 12
    OBVIOUS
  <2>2. Moved(m1, Do(m1, Pushi(a)), 11 + 1, {}, {11 + 1}) /\ Do(m1, Pushi(a)).mem[Slot(11 + 1)] = The[a]
    BY <1>4, <2>1, PushiIs
  <2> QED
    BY <1>2, <2>1, <2>2
<1> HIDE DEF i, j
<1>6. DoAll(m, <<i, j>>) = m2
  BY <1>1, <1>2, DoAll2
<1>7. Moved(m, m2, 12, {}, {12})
  BY <1>3, <1>5 DEF Moved
<1> QED
  BY <1>5, <1>6, <1>7 DEF i, j

\* What is pushed, one, two or three values after each other.
LEMMA PushedAt ==
  ASSUME NEW m \in Machine, NEW d \in 0 .. 19, m.r["ESP"] = Slot(d), NEW e, e = d + 1,
         NEW a \in Passed, NEW n, n = Do(m, Pushi(a))
  PROVE  Moved(m, n, e, {}, {e}) /\ n.mem[Slot(e)] = The[a]
BY PushiIs

LEMMA TwoIs ==
  ASSUME NEW m \in Machine, m.r["ESP"] = Slot(12), NEW j \in {2, 3}, NEW a \in Passed, NEW b \in Passed,
         NEW d, d = 12 - j
  PROVE  \E n : /\ n = DoAll(m, <<Pop(4 * j), Pushi(a), Pushi(b)>>)
                /\ Moved(m, n, d + 2, {}, {d + 1, d + 2})
                /\ n.mem[Slot(d + 1)] = The[a] /\ n.mem[Slot(d + 2)] = The[b]
<1> DEFINE i == Pop(4 * j)
           p == Pushi(a)
           q == Pushi(b)
<1>1. PICK m1 : m1 = Do(m, i)
  OBVIOUS
<1>2. PICK m2 : m2 = Do(m1, p)
  OBVIOUS
<1>3. PICK m3 : m3 = Do(m2, q)
  OBVIOUS
<1>4. Moved(m, m1, d, {}, {})
  <2>1. 12 \in Depths /\ j \in 1 .. 4 /\ j <= 12
    BY DEF Depths
  <2> QED
    BY <1>1, <2>1, DropIs
<1>5. PICK e, f : e = d + 1 /\ f = e + 1 /\ f = d + 2 /\ d \in 0 .. 19 /\ e \in 0 .. 19
                  /\ e \in Depths /\ f \in Depths /\ e # f
  BY DEF Depths
<1>6. m1 \in Machine /\ m1.r["ESP"] = Slot(d)
  BY <1>4 DEF Moved
<1>7. Moved(m1, m2, e, {}, {e}) /\ m2.mem[Slot(e)] = The[a]
  <2>1. d \in 0 .. 19 /\ e = d + 1
    BY <1>5
  <2> QED
    BY <1>2, <1>6, <2>1, PushedAt
<1>8. m2 \in Machine /\ m2.r["ESP"] = Slot(e)
  BY <1>7 DEF Moved
<1>9. Moved(m2, m3, f, {}, {f}) /\ m3.mem[Slot(f)] = The[b]
  BY <1>3, <1>5, <1>8, PushedAt
<1> HIDE DEF i, p, q
<1>10. DoAll(m, <<i, p, q>>) = m3
  BY <1>1, <1>2, <1>3, DoAll3
<1>11. Moved(m, m3, f, {}, {e, f}) /\ m3.mem[Slot(e)] = The[a]
  BY <1>4, <1>5, <1>7, <1>9 DEF Moved
<1> QED
  BY <1>5, <1>9, <1>10, <1>11 DEF i, p, q

LEMMA ThreeIs ==
  ASSUME NEW m \in Machine, m.r["ESP"] = Slot(12), NEW a \in Passed, NEW b \in Passed, NEW c \in Passed
  PROVE  \E n : /\ n = DoAll(m, <<Pop(16), Pushi(a), Pushi(b), Pushi(c)>>)
                /\ Moved(m, n, 11, {}, {9, 10, 11})
                /\ n.mem[Slot(9)] = The[a] /\ n.mem[Slot(10)] = The[b] /\ n.mem[Slot(11)] = The[c]
<1> DEFINE i == Pop(16)
           p == Pushi(a)
           q == Pushi(b)
           r == Pushi(c)
<1>1. PICK m1 : m1 = Do(m, i)
  OBVIOUS
<1>2. PICK m2 : m2 = Do(m1, p)
  OBVIOUS
<1>3. PICK m3 : m3 = Do(m2, q)
  OBVIOUS
<1>4. PICK m4 : m4 = Do(m3, r)
  OBVIOUS
<1>5. Moved(m, m1, 8, {}, {})
  <2>1. 12 \in Depths /\ 4 \in 1 .. 4 /\ 4 <= 12 /\ 4 * 4 = 16 /\ 12 - 4 = 8
    BY DEF Depths
  <2>2. Moved(m, Do(m, Pop(4 * 4)), 12 - 4, {}, {})
    BY <2>1, DropIs
  <2> QED
    BY <1>1, <2>1, <2>2
<1>6. /\ 9 = 8 + 1 /\ 10 = 9 + 1 /\ 11 = 10 + 1 /\ {8, 9, 10} \subseteq 0 .. 19
      /\ {8, 9, 10, 11} \subseteq Depths
  BY DEF Depths
<1>7. m1 \in Machine /\ m1.r["ESP"] = Slot(8)
  BY <1>5 DEF Moved
<1>8. Moved(m1, m2, 9, {}, {9}) /\ m2.mem[Slot(9)] = The[a]
  BY <1>2, <1>6, <1>7, PushedAt
<1>9. m2 \in Machine /\ m2.r["ESP"] = Slot(9)
  BY <1>8 DEF Moved
<1>10. Moved(m2, m3, 10, {}, {10}) /\ m3.mem[Slot(10)] = The[b]
  BY <1>3, <1>6, <1>9, PushedAt
<1>11. m3 \in Machine /\ m3.r["ESP"] = Slot(10)
  BY <1>10 DEF Moved
<1>12. Moved(m3, m4, 11, {}, {11}) /\ m4.mem[Slot(11)] = The[c]
  BY <1>4, <1>6, <1>11, PushedAt
<1> HIDE DEF i, p, q, r
<1>13. DoAll(m, <<i, p, q, r>>) = m4
  BY <1>1, <1>2, <1>3, <1>4, DoAll4
<1>14. Moved(m, m4, 11, {}, {9, 10, 11}) /\ m4.mem[Slot(9)] = The[a] /\ m4.mem[Slot(10)] = The[b]
  BY <1>5, <1>6, <1>8, <1>10, <1>12 DEF Moved
<1> QED
  BY <1>12, <1>13, <1>14 DEF i, p, q, r

-----------------------------------------------------------------------------
(* The table of calls *)

StubNames ==
  {"postwrite", "fltnoex", "loadguard", "load_0", "load_0c", "alloc", "reload", "output", "input",
   "badness"}

\* The table, row by row.
LEMMA StubNamesAre == DOMAIN Stubs = StubNames
BY DEF Stubs, StubNames

LEMMA Stub_postwrite ==
  Stubs["postwrite"] = [fn |-> "um_postwrite", args |-> <<"rtnp", "target", "time", "znz">>,
    before |-> co__postwrite, after |-> <<>>]
BY DEF Stubs, Stub

LEMMA Stub_fltnoex ==
  Stubs["fltnoex"] = [fn |-> "um_destroy_and_go", args |-> <<"rtnp", "time", "znz">>,
    before |-> co_fltnoex, after |-> <<>>]
BY DEF Stubs, Stub

LEMMA Stub_loadguard ==
  Stubs["loadguard"] = [fn |-> "um_loadfar", args |-> <<"rtnp", "array", "index", "znz">>,
    before |-> co_loadguard, after |-> <<>>]
BY DEF Stubs, Stub

LEMMA Stub_load_0 ==
  Stubs["load_0"] = [fn |-> "um_enter", args |-> <<"index", "znz">>,
    before |-> co_load_0, after |-> co_load_0Then]
BY DEF Stubs, Stub

LEMMA Stub_load_0c ==
  Stubs["load_0c"] = [fn |-> "um_enterdep", args |-> <<"index", "block", "znz">>,
    before |-> co_load_0c, after |-> co_load_0cThen]
BY DEF Stubs, Stub

LEMMA Stub_alloc ==
  Stubs["alloc"] = [fn |-> "um_alloc", args |-> <<"length">>,
    before |-> co_alloc, after |-> <<>>]
BY DEF Stubs, Stub

LEMMA Stub_reload ==
  Stubs["reload"] = [fn |-> "salloc_reload", args |-> <<"length">>,
    before |-> Reload, after |-> ReloadThen]
BY DEF Stubs, Stub

LEMMA Stub_output ==
  Stubs["output"] = [fn |-> "putchar", args |-> <<"char">>,
    before |-> co_output, after |-> <<>>]
BY DEF Stubs, Stub

LEMMA Stub_input ==
  Stubs["input"] = [fn |-> "getchar", args |-> <<>>,
    before |-> <<>>, after |-> <<>>]
BY DEF Stubs, Stub

LEMMA Stub_badness ==
  Stubs["badness"] = [fn |-> "um_abend", args |-> <<"format", "time">>,
    before |-> co_badness, after |-> <<>>]
BY DEF Stubs, Stub

\* Code run after other code.
LEMMA DoThen ==
  ASSUME NEW m, NEW S, NEW s \in Seq(S), NEW t \in Seq(S)
  PROVE  DoAll(m, s \o t) = DoAll(DoAll(m, s), t)
<1> DEFINE u == s \o t
<1>1. /\ Len(u) = Len(s) + Len(t)
      /\ \A k \in 1 .. Len(s) : u[k] = s[k]
      /\ \A k \in 1 .. Len(t) : u[Len(s) + k] = t[k]
  BY ConcatProperties
<1>2. Len(s) \in Nat /\ Len(t) \in Nat
  OBVIOUS
<1> HIDE DEF u
<1>3. DoAll(m, u) = DoAll(DoAll(m, s), t)
  BY <1>1, <1>2, DoAllParts
<1> QED
  BY <1>3 DEF u

\* Three instructions, and four, before the three of e_calli_rtnp.
LEMMA DoThree ==
  ASSUME NEW m, NEW a, NEW b, NEW c, NEW d, NEW e, NEW f
  PROVE  DoAll(m, <<a, b, c>> \o <<d, e, f>>) = DoAll(DoAll(m, <<a, b, c>>), <<d, e, f>>)
<1> DEFINE S == {a, b, c, d, e, f}
           s == <<a, b, c>>
           t == <<d, e, f>>
<1>1. s \in Seq(S) /\ t \in Seq(S)
  OBVIOUS
<1> HIDE DEF S, s, t
<1>2. DoAll(m, s \o t) = DoAll(DoAll(m, s), t)
  BY <1>1, DoThen
<1> QED
  BY <1>2 DEF s, t

LEMMA DoFour ==
  ASSUME NEW m, NEW a, NEW b, NEW c, NEW g, NEW d, NEW e, NEW f
  PROVE  DoAll(m, <<a, b, c, g>> \o <<d, e, f>>) = DoAll(DoAll(m, <<a, b, c, g>>), <<d, e, f>>)
<1> DEFINE S == {a, b, c, d, e, f, g}
           s == <<a, b, c, g>>
           t == <<d, e, f>>
<1>1. s \in Seq(S) /\ t \in Seq(S)
  OBVIOUS
<1> HIDE DEF S, s, t
<1>2. DoAll(m, s \o t) = DoAll(DoAll(m, s), t)
  BY <1>1, DoThen
<1> QED
  BY <1>2 DEF s, t

-----------------------------------------------------------------------------
(* The frame *)

\* What co_enter saves is in the frame, and nothing has been patched.
Saved == <<"umc_start", "EBP", "EBX", "ESI", "EDI">>
Framed(m) ==
  /\ m \in Machine /\ m.r["EBP"] = Slot(2) /\ m.patch = NoPatch
  /\ \A k \in 1 .. 5 : m.mem[Slot(k)] = The[Saved[k]]

\* How much is on the stack in a call, and where its parameters are.
Depth(s) == IF s \in {"load_0c", "reload"} THEN 17 ELSE 13
Passes(m, s) ==
  \A k \in DOMAIN Stubs[s].args :
    m.mem[Slot(Depth(s) - k)] =
      IF Stubs[s].args[k] = "rtnp" THEN Slot(Depth(s)) ELSE The[Stubs[s].args[k]]

\* Nothing that goes on above the frame disturbs it.
LEMMA FramedMoved ==
  ASSUME NEW m, NEW n, NEW d, NEW S, NEW K, Framed(m), Moved(m, n, d, S, K),
         "EBP" \notin S, K \subseteq 6 .. 20
  PROVE  Framed(n)
<1>1. n.r["EBP"] = Slot(2) /\ n.patch = NoPatch /\ n \in Machine
  BY RegsAre DEF Framed, Moved
<1>2. ASSUME NEW k \in 1 .. 5 PROVE n.mem[Slot(k)] = The[Saved[k]]
  <2>1. k \in Depths \ K
    BY DEF Depths
  <2> QED
    BY <2>1 DEF Framed, Moved
<1> QED
  BY <1>1, <1>2 DEF Framed

\* Each stub passes what its function is declared to take.
LEMMA PostwritePasses ==
  ASSUME NEW m, Framed(m), m.r["ESP"] = Slot(12)
  PROVE  \E n : /\ n = DoAll(m, Stubs["postwrite"].before) /\ Framed(n)
                /\ n.r["ESP"] = Slot(12) /\ Passes(n, "postwrite")
<1> DEFINE a == Pop(16)
           b == Pushi("znz")
           c == Pushi("time")
           d == Pushi("target")
           e == <<"movrr", "EAX", "ESP">>
           f == Immediate("EAX", e_subri(TRUE, 8))
           g == <<"pushr", "EAX">>
<1>1. PICK m1 : /\ m1 = DoAll(m, <<a, b, c, d>>) /\ Moved(m, m1, 11, {}, {9, 10, 11})
                /\ m1.mem[Slot(9)] = The["znz"] /\ m1.mem[Slot(10)] = The["time"]
                /\ m1.mem[Slot(11)] = The["target"]
  <2>1. "znz" \in Passed /\ "time" \in Passed /\ "target" \in Passed /\ m \in Machine
    BY DEF Passed, Framed
  <2> QED
    BY <2>1, ThreeIs
<1>2. PICK n : n = DoAll(m1, e_calli_rtnp)
  OBVIOUS
<1>3. Moved(m1, n, 12, {"EAX"}, {12}) /\ n.mem[Slot(12)] = Slot(13)
  <2>1. m1 \in Machine /\ 11 \in 0 .. 18 /\ m1.r["ESP"] = Slot(11) /\ 11 + 1 = 12 /\ 11 + 2 = 13
    BY <1>1 DEF Moved
  <2>2. Moved(m1, DoAll(m1, e_calli_rtnp), 11 + 1, {"EAX"}, {11 + 1})
        /\ DoAll(m1, e_calli_rtnp).mem[Slot(11 + 1)] = Slot(11 + 2)
    BY <2>1, RtnpIs
  <2> QED
    BY <1>2, <2>1, <2>2
<1>4. DoAll(m, Stubs["postwrite"].before) = n
  <2>1. Stubs["postwrite"].before = <<a, b, c, d>> \o <<e, f, g>> /\ e_calli_rtnp = <<e, f, g>>
    BY Stub_postwrite DEF co__postwrite, e_calli_rtnp
  <2> HIDE DEF a, b, c, d, e, f, g
  <2> QED
    BY <1>1, <1>2, <2>1, DoFour
<1>5. Framed(n) /\ n.r["ESP"] = Slot(12)
  <2>1. "EBP" \notin {} /\ {9, 10, 11} \subseteq 6 .. 20 /\ "EBP" \notin {"EAX"} /\ {12} \subseteq 6 .. 20
    OBVIOUS
  <2>2. Framed(m1)
    BY <1>1, <2>1, FramedMoved
  <2>3. Framed(n)
    BY <1>3, <2>1, <2>2, FramedMoved
  <2> QED
    BY <1>3, <2>3 DEF Moved
<1>6. Passes(n, "postwrite")
  <2>1. /\ n.mem[Slot(9)] = The["znz"] /\ n.mem[Slot(10)] = The["time"]
        /\ n.mem[Slot(11)] = The["target"]
    <3>1. {9, 10, 11} \subseteq Depths \ {12}
      BY DEF Depths
    <3> QED
      BY <1>1, <1>3, <3>1 DEF Moved
  <2>2. Depth("postwrite") = 13
    BY DEF Depth
  <2>3. Stubs["postwrite"].args = <<"rtnp", "target", "time", "znz">>
    BY Stub_postwrite
  <2> DEFINE args == <<"rtnp", "target", "time", "znz">>
  <2>4. ASSUME NEW k \in DOMAIN args
        PROVE  n.mem[Slot(13 - k)] = IF args[k] = "rtnp" THEN Slot(13) ELSE The[args[k]]
    <3>1. \/ k = 1 /\ 13 - k = 12 /\ args[k] = "rtnp"
          \/ k = 2 /\ 13 - k = 11 /\ args[k] = "target"
          \/ k = 3 /\ 13 - k = 10 /\ args[k] = "time"
          \/ k = 4 /\ 13 - k = 9 /\ args[k] = "znz"
      OBVIOUS
    <3> HIDE DEF args
    <3> QED
      BY <1>3, <2>1, <3>1
  <2> QED
    BY <2>2, <2>3, <2>4 DEF Passes
<1> QED
  BY <1>4, <1>5, <1>6

LEMMA LoadguardPasses ==
  ASSUME NEW m, Framed(m), m.r["ESP"] = Slot(12)
  PROVE  \E n : /\ n = DoAll(m, Stubs["loadguard"].before) /\ Framed(n)
                /\ n.r["ESP"] = Slot(12) /\ Passes(n, "loadguard")
<1> DEFINE a == Pop(16)
           b == Pushi("znz")
           c == Pushi("index")
           d == Pushi("array")
           e == <<"movrr", "EAX", "ESP">>
           f == Immediate("EAX", e_subri(TRUE, 8))
           g == <<"pushr", "EAX">>
<1>1. PICK m1 : /\ m1 = DoAll(m, <<a, b, c, d>>) /\ Moved(m, m1, 11, {}, {9, 10, 11})
                /\ m1.mem[Slot(9)] = The["znz"] /\ m1.mem[Slot(10)] = The["index"]
                /\ m1.mem[Slot(11)] = The["array"]
  <2>1. "znz" \in Passed /\ "index" \in Passed /\ "array" \in Passed /\ m \in Machine
    BY DEF Passed, Framed
  <2> QED
    BY <2>1, ThreeIs
<1>2. PICK n : n = DoAll(m1, e_calli_rtnp)
  OBVIOUS
<1>3. Moved(m1, n, 12, {"EAX"}, {12}) /\ n.mem[Slot(12)] = Slot(13)
  <2>1. m1 \in Machine /\ 11 \in 0 .. 18 /\ m1.r["ESP"] = Slot(11) /\ 11 + 1 = 12 /\ 11 + 2 = 13
    BY <1>1 DEF Moved
  <2>2. Moved(m1, DoAll(m1, e_calli_rtnp), 11 + 1, {"EAX"}, {11 + 1})
        /\ DoAll(m1, e_calli_rtnp).mem[Slot(11 + 1)] = Slot(11 + 2)
    BY <2>1, RtnpIs
  <2> QED
    BY <1>2, <2>1, <2>2
<1>4. DoAll(m, Stubs["loadguard"].before) = n
  <2>1. Stubs["loadguard"].before = <<a, b, c, d>> \o <<e, f, g>> /\ e_calli_rtnp = <<e, f, g>>
    BY Stub_loadguard DEF co_loadguard, e_calli_rtnp
  <2> HIDE DEF a, b, c, d, e, f, g
  <2> QED
    BY <1>1, <1>2, <2>1, DoFour
<1>5. Framed(n) /\ n.r["ESP"] = Slot(12)
  <2>1. "EBP" \notin {} /\ {9, 10, 11} \subseteq 6 .. 20 /\ "EBP" \notin {"EAX"} /\ {12} \subseteq 6 .. 20
    OBVIOUS
  <2>2. Framed(m1)
    BY <1>1, <2>1, FramedMoved
  <2>3. Framed(n)
    BY <1>3, <2>1, <2>2, FramedMoved
  <2> QED
    BY <1>3, <2>3 DEF Moved
<1>6. Passes(n, "loadguard")
  <2>1. /\ n.mem[Slot(9)] = The["znz"] /\ n.mem[Slot(10)] = The["index"]
        /\ n.mem[Slot(11)] = The["array"]
    <3>1. {9, 10, 11} \subseteq Depths \ {12}
      BY DEF Depths
    <3> QED
      BY <1>1, <1>3, <3>1 DEF Moved
  <2>2. Depth("loadguard") = 13
    BY DEF Depth
  <2>3. Stubs["loadguard"].args = <<"rtnp", "array", "index", "znz">>
    BY Stub_loadguard
  <2> DEFINE args == <<"rtnp", "array", "index", "znz">>
  <2>4. ASSUME NEW k \in DOMAIN args
        PROVE  n.mem[Slot(13 - k)] = IF args[k] = "rtnp" THEN Slot(13) ELSE The[args[k]]
    <3>1. \/ k = 1 /\ 13 - k = 12 /\ args[k] = "rtnp"
          \/ k = 2 /\ 13 - k = 11 /\ args[k] = "array"
          \/ k = 3 /\ 13 - k = 10 /\ args[k] = "index"
          \/ k = 4 /\ 13 - k = 9 /\ args[k] = "znz"
      OBVIOUS
    <3> HIDE DEF args
    <3> QED
      BY <1>3, <2>1, <3>1
  <2> QED
    BY <2>2, <2>3, <2>4 DEF Passes
<1> QED
  BY <1>4, <1>5, <1>6

LEMMA FltnoexPasses ==
  ASSUME NEW m, Framed(m), m.r["ESP"] = Slot(12)
  PROVE  \E n : /\ n = DoAll(m, Stubs["fltnoex"].before) /\ Framed(n)
                /\ n.r["ESP"] = Slot(12) /\ Passes(n, "fltnoex")
<1> DEFINE a == Pop(12)
           b == Pushi("znz")
           c == Pushi("time")
           e == <<"movrr", "EAX", "ESP">>
           f == Immediate("EAX", e_subri(TRUE, 8))
           g == <<"pushr", "EAX">>
<1>1. PICK m1 : /\ m1 = DoAll(m, <<a, b, c>>) /\ Moved(m, m1, 11, {}, {10, 11})
                /\ m1.mem[Slot(10)] = The["znz"] /\ m1.mem[Slot(11)] = The["time"]
  <2>1. "znz" \in Passed /\ "time" \in Passed /\ m \in Machine
    BY DEF Passed, Framed
  <2>2. 3 \in {2, 3} /\ 4 * 3 = 12 /\ 9 = 12 - 3 /\ 9 + 1 = 10 /\ 9 + 2 = 11
    OBVIOUS
  <2>3. \E n : /\ n = DoAll(m, <<Pop(4 * 3), Pushi("znz"), Pushi("time")>>)
               /\ Moved(m, n, 9 + 2, {}, {9 + 1, 9 + 2})
               /\ n.mem[Slot(9 + 1)] = The["znz"] /\ n.mem[Slot(9 + 2)] = The["time"]
    BY <2>1, <2>2, TwoIs
  <2> QED
    BY <2>2, <2>3
<1>2. PICK n : n = DoAll(m1, e_calli_rtnp)
  OBVIOUS
<1>3. Moved(m1, n, 12, {"EAX"}, {12}) /\ n.mem[Slot(12)] = Slot(13)
  <2>1. m1 \in Machine /\ 11 \in 0 .. 18 /\ m1.r["ESP"] = Slot(11) /\ 11 + 1 = 12 /\ 11 + 2 = 13
    BY <1>1 DEF Moved
  <2>2. Moved(m1, DoAll(m1, e_calli_rtnp), 11 + 1, {"EAX"}, {11 + 1})
        /\ DoAll(m1, e_calli_rtnp).mem[Slot(11 + 1)] = Slot(11 + 2)
    BY <2>1, RtnpIs
  <2> QED
    BY <1>2, <2>1, <2>2
<1>4. DoAll(m, Stubs["fltnoex"].before) = n
  <2>1. Stubs["fltnoex"].before = <<a, b, c>> \o <<e, f, g>> /\ e_calli_rtnp = <<e, f, g>>
    BY Stub_fltnoex DEF co_fltnoex, e_calli_rtnp
  <2> HIDE DEF a, b, c, e, f, g
  <2> QED
    BY <1>1, <1>2, <2>1, DoThree
<1>5. Framed(n) /\ n.r["ESP"] = Slot(12)
  <2>1. "EBP" \notin {} /\ {10, 11} \subseteq 6 .. 20 /\ "EBP" \notin {"EAX"} /\ {12} \subseteq 6 .. 20
    OBVIOUS
  <2>2. Framed(m1)
    BY <1>1, <2>1, FramedMoved
  <2>3. Framed(n)
    BY <1>3, <2>1, <2>2, FramedMoved
  <2> QED
    BY <1>3, <2>3 DEF Moved
<1>6. Passes(n, "fltnoex")
  <2>1. n.mem[Slot(10)] = The["znz"] /\ n.mem[Slot(11)] = The["time"]
    <3>1. {10, 11} \subseteq Depths \ {12}
      BY DEF Depths
    <3> QED
      BY <1>1, <1>3, <3>1 DEF Moved
  <2>2. Depth("fltnoex") = 13
    BY DEF Depth
  <2>3. Stubs["fltnoex"].args = <<"rtnp", "time", "znz">>
    BY Stub_fltnoex
  <2> DEFINE args == <<"rtnp", "time", "znz">>
  <2>4. ASSUME NEW k \in DOMAIN args
        PROVE  n.mem[Slot(13 - k)] = IF args[k] = "rtnp" THEN Slot(13) ELSE The[args[k]]
    <3>1. \/ k = 1 /\ 13 - k = 12 /\ args[k] = "rtnp"
          \/ k = 2 /\ 13 - k = 11 /\ args[k] = "time"
          \/ k = 3 /\ 13 - k = 10 /\ args[k] = "znz"
      OBVIOUS
    <3> HIDE DEF args
    <3> QED
      BY <1>3, <2>1, <3>1
  <2> QED
    BY <2>2, <2>3, <2>4 DEF Passes
<1> QED
  BY <1>4, <1>5, <1>6

LEMMA Load0Passes ==
  ASSUME NEW m, Framed(m), m.r["ESP"] = Slot(12)
  PROVE  \E n : /\ n = DoAll(m, Stubs["load_0"].before) /\ Framed(n)
                /\ n.r["ESP"] = Slot(12) /\ Passes(n, "load_0")
<1>1. PICK n : /\ n = DoAll(m, <<Pop(8), Pushi("znz"), Pushi("index")>>) /\ Moved(m, n, 12, {}, {11, 12})
               /\ n.mem[Slot(11)] = The["znz"] /\ n.mem[Slot(12)] = The["index"]
  <2>1. "znz" \in Passed /\ "index" \in Passed /\ m \in Machine
    BY DEF Passed, Framed
  <2>2. 2 \in {2, 3} /\ 4 * 2 = 8 /\ 10 = 12 - 2 /\ 10 + 1 = 11 /\ 10 + 2 = 12
    OBVIOUS
  <2>3. \E n : /\ n = DoAll(m, <<Pop(4 * 2), Pushi("znz"), Pushi("index")>>)
               /\ Moved(m, n, 10 + 2, {}, {10 + 1, 10 + 2})
               /\ n.mem[Slot(10 + 1)] = The["znz"] /\ n.mem[Slot(10 + 2)] = The["index"]
    BY <2>1, <2>2, TwoIs
  <2> QED
    BY <2>2, <2>3
<1>2. DoAll(m, Stubs["load_0"].before) = n
  BY <1>1, Stub_load_0 DEF co_load_0
<1>3. Framed(n) /\ n.r["ESP"] = Slot(12)
  <2>1. "EBP" \notin {} /\ {11, 12} \subseteq 6 .. 20
    OBVIOUS
  <2>2. Framed(n)
    BY <1>1, <2>1, FramedMoved
  <2> QED
    BY <1>1, <2>2 DEF Moved
<1>4. Passes(n, "load_0")
  <2>2. Depth("load_0") = 13
    BY DEF Depth
  <2>3. Stubs["load_0"].args = <<"index", "znz">>
    BY Stub_load_0
  <2> DEFINE args == <<"index", "znz">>
  <2>4. ASSUME NEW k \in DOMAIN args
        PROVE  n.mem[Slot(13 - k)] = IF args[k] = "rtnp" THEN Slot(13) ELSE The[args[k]]
    <3>1. \/ k = 1 /\ 13 - k = 12 /\ args[k] = "index"
          \/ k = 2 /\ 13 - k = 11 /\ args[k] = "znz"
      OBVIOUS
    <3> HIDE DEF args
    <3> QED
      BY <1>1, <3>1
  <2> QED
    BY <2>2, <2>3, <2>4 DEF Passes
<1> QED
  BY <1>2, <1>3, <1>4

LEMMA BadnessPasses ==
  ASSUME NEW m, Framed(m), m.r["ESP"] = Slot(12)
  PROVE  \E n : /\ n = DoAll(m, Stubs["badness"].before) /\ Framed(n)
                /\ n.r["ESP"] = Slot(12) /\ Passes(n, "badness")
<1>1. PICK n : /\ n = DoAll(m, <<Pop(8), Pushi("time"), Pushi("format")>>) /\ Moved(m, n, 12, {}, {11, 12})
               /\ n.mem[Slot(11)] = The["time"] /\ n.mem[Slot(12)] = The["format"]
  <2>1. "time" \in Passed /\ "format" \in Passed /\ m \in Machine
    BY DEF Passed, Framed
  <2>2. 2 \in {2, 3} /\ 4 * 2 = 8 /\ 10 = 12 - 2 /\ 10 + 1 = 11 /\ 10 + 2 = 12
    OBVIOUS
  <2>3. \E n : /\ n = DoAll(m, <<Pop(4 * 2), Pushi("time"), Pushi("format")>>)
               /\ Moved(m, n, 10 + 2, {}, {10 + 1, 10 + 2})
               /\ n.mem[Slot(10 + 1)] = The["time"] /\ n.mem[Slot(10 + 2)] = The["format"]
    BY <2>1, <2>2, TwoIs
  <2> QED
    BY <2>2, <2>3
<1>2. DoAll(m, Stubs["badness"].before) = n
  BY <1>1, Stub_badness DEF co_badness
<1>3. Framed(n) /\ n.r["ESP"] = Slot(12)
  <2>1. "EBP" \notin {} /\ {11, 12} \subseteq 6 .. 20
    OBVIOUS
  <2>2. Framed(n)
    BY <1>1, <2>1, FramedMoved
  <2> QED
    BY <1>1, <2>2 DEF Moved
<1>4. Passes(n, "badness")
  <2>2. Depth("badness") = 13
    BY DEF Depth
  <2>3. Stubs["badness"].args = <<"format", "time">>
    BY Stub_badness
  <2> DEFINE args == <<"format", "time">>
  <2>4. ASSUME NEW k \in DOMAIN args
        PROVE  n.mem[Slot(13 - k)] = IF args[k] = "rtnp" THEN Slot(13) ELSE The[args[k]]
    <3>1. \/ k = 1 /\ 13 - k = 12 /\ args[k] = "format"
          \/ k = 2 /\ 13 - k = 11 /\ args[k] = "time"
      OBVIOUS
    <3> HIDE DEF args
    <3> QED
      BY <1>1, <3>1
  <2> QED
    BY <2>2, <2>3, <2>4 DEF Passes
<1> QED
  BY <1>2, <1>3, <1>4

LEMMA AllocPasses ==
  ASSUME NEW m, Framed(m), m.r["ESP"] = Slot(12)
  PROVE  \E n : /\ n = DoAll(m, Stubs["alloc"].before) /\ Framed(n)
                /\ n.r["ESP"] = Slot(12) /\ Passes(n, "alloc")
<1>1. PICK n : /\ n = DoAll(m, <<Pop(4), Pushi("length")>>) /\ Moved(m, n, 12, {}, {12})
               /\ n.mem[Slot(12)] = The["length"]
  <2>1. "length" \in Passed /\ m \in Machine
    BY DEF Passed, Framed
  <2> QED
    BY <2>1, OneIs
<1>2. DoAll(m, Stubs["alloc"].before) = n
  BY <1>1, Stub_alloc DEF co_alloc
<1>3. Framed(n) /\ n.r["ESP"] = Slot(12)
  <2>1. "EBP" \notin {} /\ {12} \subseteq 6 .. 20
    OBVIOUS
  <2>2. Framed(n)
    BY <1>1, <2>1, FramedMoved
  <2> QED
    BY <1>1, <2>2 DEF Moved
<1>4. Passes(n, "alloc")
  <2>2. Depth("alloc") = 13
    BY DEF Depth
  <2>3. Stubs["alloc"].args = <<"length">>
    BY Stub_alloc
  <2> DEFINE args == <<"length">>
  <2>4. ASSUME NEW k \in DOMAIN args
        PROVE  n.mem[Slot(13 - k)] = IF args[k] = "rtnp" THEN Slot(13) ELSE The[args[k]]
    <3>1. \/ k = 1 /\ 13 - k = 12 /\ args[k] = "length"
      OBVIOUS
    <3> HIDE DEF args
    <3> QED
      BY <1>1, <3>1
  <2> QED
    BY <2>2, <2>3, <2>4 DEF Passes
<1> QED
  BY <1>2, <1>3, <1>4

LEMMA OutputPasses ==
  ASSUME NEW m, Framed(m), m.r["ESP"] = Slot(12)
  PROVE  \E n : /\ n = DoAll(m, Stubs["output"].before) /\ Framed(n)
                /\ n.r["ESP"] = Slot(12) /\ Passes(n, "output")
<1>1. PICK n : /\ n = DoAll(m, <<Pop(4), Pushi("char")>>) /\ Moved(m, n, 12, {}, {12})
               /\ n.mem[Slot(12)] = The["char"]
  <2>1. "char" \in Passed /\ m \in Machine
    BY DEF Passed, Framed
  <2> QED
    BY <2>1, OneIs
<1>2. DoAll(m, Stubs["output"].before) = n
  BY <1>1, Stub_output DEF co_output
<1>3. Framed(n) /\ n.r["ESP"] = Slot(12)
  <2>1. "EBP" \notin {} /\ {12} \subseteq 6 .. 20
    OBVIOUS
  <2>2. Framed(n)
    BY <1>1, <2>1, FramedMoved
  <2> QED
    BY <1>1, <2>2 DEF Moved
<1>4. Passes(n, "output")
  <2>2. Depth("output") = 13
    BY DEF Depth
  <2>3. Stubs["output"].args = <<"char">>
    BY Stub_output
  <2> DEFINE args == <<"char">>
  <2>4. ASSUME NEW k \in DOMAIN args
        PROVE  n.mem[Slot(13 - k)] = IF args[k] = "rtnp" THEN Slot(13) ELSE The[args[k]]
    <3>1. \/ k = 1 /\ 13 - k = 12 /\ args[k] = "char"
      OBVIOUS
    <3> HIDE DEF args
    <3> QED
      BY <1>1, <3>1
  <2> QED
    BY <2>2, <2>3, <2>4 DEF Passes
<1> QED
  BY <1>2, <1>3, <1>4

LEMMA InputPasses ==
  ASSUME NEW m, Framed(m), m.r["ESP"] = Slot(12)
  PROVE  \E n : /\ n = DoAll(m, Stubs["input"].before) /\ Framed(n)
                /\ n.r["ESP"] = Slot(12) /\ Passes(n, "input")
<1>1. DoAll(m, Stubs["input"].before) = m
  BY Stub_input, DoAll0
<1>2. Passes(m, "input")
  <2>1. DOMAIN Stubs["input"].args = {}
    BY Stub_input
  <2> QED
    BY <2>1 DEF Passes
<1> QED
  BY <1>1, <1>2

\* A push of a register, at a depth that is known.
LEMMA PushrAt ==
  ASSUME NEW m \in Machine, NEW d \in 0 .. 19, m.r["ESP"] = Slot(d), NEW e, e = d + 1,
         NEW q \in Regs, NEW n, n = Do(m, <<"pushr", q>>)
  PROVE  Moved(m, n, e, {}, {e}) /\ n.mem[Slot(e)] = m.r[q]
<1> DEFINE i == <<"pushr", q>>
<1>1. Moved(m, Do(m, i), d + 1, {}, {d + 1}) /\ Do(m, i).mem[Slot(d + 1)] = m.r[q]
  BY PushrIs
<1> HIDE DEF i
<1>2. n = Do(m, i)
  BY DEF i
<1> QED
  BY <1>1, <1>2

\* The call for more memory keeps the registers that the code in line uses.
LEMMA ReloadPasses ==
  ASSUME NEW m, Framed(m), m.r["ESP"] = Slot(12)
  PROVE  \E n : /\ n = DoAll(m, Stubs["reload"].before) /\ Framed(n)
                /\ n.r["ESP"] = Slot(16) /\ Passes(n, "reload")
                /\ \A q \in General : n.r[q] = m.r[q]
                /\ n.mem[Slot(13)] = m.r["ECX"] /\ n.mem[Slot(14)] = m.r["EDX"]
                /\ n.mem[Slot(15)] = m.r["EAX"]
<1> DEFINE a == <<"pushr", "ECX">>
           b == <<"pushr", "EDX">>
           c == <<"pushr", "EAX">>
           d == Pushi("length")
<1>1. PICK m1 : m1 = Do(m, a)
  OBVIOUS
<1>2. PICK m2 : m2 = Do(m1, b)
  OBVIOUS
<1>3. PICK m3 : m3 = Do(m2, c)
  OBVIOUS
<1>4. PICK m4 : m4 = Do(m3, d)
  OBVIOUS
<1>5. /\ 13 = 12 + 1 /\ 14 = 13 + 1 /\ 15 = 14 + 1 /\ 16 = 15 + 1 /\ {12, 13, 14, 15} \subseteq 0 .. 19
      /\ {12, 13, 14, 15, 16} \subseteq Depths
  BY DEF Depths
<1>6. {"EAX", "ECX", "EDX"} \subseteq Regs \ {"ESP"} /\ General \subseteq Regs \ {"ESP"} /\ "length" \in Passed
  BY DEF Regs, General, Passed
<1>7. m \in Machine
  BY DEF Framed
<1>8. Moved(m, m1, 13, {}, {13}) /\ m1.mem[Slot(13)] = m.r["ECX"]
  BY <1>1, <1>5, <1>6, <1>7, PushrAt
<1>9. m1 \in Machine /\ m1.r["ESP"] = Slot(13)
  BY <1>8 DEF Moved
<1>10. Moved(m1, m2, 14, {}, {14}) /\ m2.mem[Slot(14)] = m1.r["EDX"]
  BY <1>2, <1>5, <1>6, <1>9, PushrAt
<1>11. m2 \in Machine /\ m2.r["ESP"] = Slot(14)
  BY <1>10 DEF Moved
<1>12. Moved(m2, m3, 15, {}, {15}) /\ m3.mem[Slot(15)] = m2.r["EAX"]
  BY <1>3, <1>5, <1>6, <1>11, PushrAt
<1>13. m3 \in Machine /\ m3.r["ESP"] = Slot(15)
  BY <1>12 DEF Moved
<1>14. Moved(m3, m4, 16, {}, {16}) /\ m4.mem[Slot(16)] = The["length"]
  BY <1>4, <1>5, <1>6, <1>13, PushedAt
<1>15. DoAll(m, Stubs["reload"].before) = m4
  <2>1. Stubs["reload"].before = <<a, b, c, d>>
    BY Stub_reload DEF Reload
  <2> HIDE DEF a, b, c, d
  <2> QED
    BY <1>1, <1>2, <1>3, <1>4, <2>1, DoAll4
<1>16. Framed(m4) /\ m4.r["ESP"] = Slot(16)
  <2>1. Moved(m, m2, 14, {}, {13, 14})
    BY <1>8, <1>10 DEF Moved
  <2>2. Moved(m2, m4, 16, {}, {15, 16})
    BY <1>12, <1>14 DEF Moved
  <2>3. "EBP" \notin {} /\ {13, 14} \subseteq 6 .. 20 /\ {15, 16} \subseteq 6 .. 20
    OBVIOUS
  <2>4. Framed(m2)
    BY <2>1, <2>3, FramedMoved
  <2>5. Framed(m4)
    BY <2>2, <2>3, <2>4, FramedMoved
  <2> QED
    BY <2>2, <2>5 DEF Moved
<1>17. /\ \A q \in General : m1.r[q] = m.r[q] /\ m2.r[q] = m.r[q] /\ m4.r[q] = m.r[q]
  BY <1>6, <1>8, <1>10, <1>12, <1>14 DEF Moved
<1>18. {"EAX", "ECX", "EDX"} \subseteq General
  BY DEF Regs, General
<1>19. /\ m4.mem[Slot(13)] = m.r["ECX"] /\ m4.mem[Slot(14)] = m.r["EDX"]
       /\ m4.mem[Slot(15)] = m.r["EAX"]
  BY <1>5, <1>8, <1>10, <1>12, <1>14, <1>17, <1>18 DEF Moved
<1>20. Passes(m4, "reload")
  <2>2. Depth("reload") = 17
    BY DEF Depth
  <2>3. Stubs["reload"].args = <<"length">>
    BY Stub_reload
  <2> DEFINE args == <<"length">>
  <2>4. ASSUME NEW k \in DOMAIN args
        PROVE  m4.mem[Slot(17 - k)] = IF args[k] = "rtnp" THEN Slot(17) ELSE The[args[k]]
    <3>1. \/ k = 1 /\ 17 - k = 16 /\ args[k] = "length"
      OBVIOUS
    <3> HIDE DEF args
    <3> QED
      BY <1>14, <3>1
  <2> QED
    BY <2>2, <2>3, <2>4 DEF Passes
<1> QED
  BY <1>15, <1>16, <1>17, <1>19, <1>20

\* The stub of a jump to a constant place keeps the place it was called from.
LEMMA Load0cPasses ==
  ASSUME NEW m, Framed(m), m.r["ESP"] = Slot(13)
  PROVE  \E n : /\ n = DoAll(m, Stubs["load_0c"].before) /\ Framed(n)
                /\ n.r["ESP"] = Slot(16) /\ Passes(n, "load_0c")
                /\ n.mem[Slot(13)] = m.mem[Slot(13)]
<1> DEFINE a == Pushi("znz")
           b == Pushi("block")
           c == Pushi("index")
<1>1. PICK m1 : m1 = Do(m, a)
  OBVIOUS
<1>2. PICK m2 : m2 = Do(m1, b)
  OBVIOUS
<1>3. PICK m3 : m3 = Do(m2, c)
  OBVIOUS
<1>4. /\ 14 = 13 + 1 /\ 15 = 14 + 1 /\ 16 = 15 + 1 /\ {13, 14, 15} \subseteq 0 .. 19
      /\ {13, 14, 15, 16} \subseteq Depths
  BY DEF Depths
<1>5. "znz" \in Passed /\ "block" \in Passed /\ "index" \in Passed /\ m \in Machine
  BY DEF Passed, Framed
<1>6. Moved(m, m1, 14, {}, {14}) /\ m1.mem[Slot(14)] = The["znz"]
  BY <1>1, <1>4, <1>5, PushedAt
<1>7. m1 \in Machine /\ m1.r["ESP"] = Slot(14)
  BY <1>6 DEF Moved
<1>8. Moved(m1, m2, 15, {}, {15}) /\ m2.mem[Slot(15)] = The["block"]
  <2>1. 15 = 14 + 1 /\ 14 \in 0 .. 19 /\ "block" \in Passed
    BY <1>4, <1>5
  <2> QED
    BY <1>2, <1>7, <2>1, PushedAt
<1>9. m2 \in Machine /\ m2.r["ESP"] = Slot(15)
  BY <1>8 DEF Moved
<1>10. Moved(m2, m3, 16, {}, {16}) /\ m3.mem[Slot(16)] = The["index"]
  BY <1>3, <1>4, <1>5, <1>9, PushedAt
<1>11. DoAll(m, Stubs["load_0c"].before) = m3
  <2>1. Stubs["load_0c"].before = <<a, b, c>>
    BY Stub_load_0c DEF co_load_0c
  <2> HIDE DEF a, b, c
  <2> QED
    BY <1>1, <1>2, <1>3, <2>1, DoAll3
<1>12. Moved(m, m3, 16, {}, {14, 15, 16})
  BY <1>6, <1>8, <1>10 DEF Moved
<1>13. Framed(m3) /\ m3.r["ESP"] = Slot(16)
  <2>1. "EBP" \notin {} /\ {14, 15, 16} \subseteq 6 .. 20
    OBVIOUS
  <2>2. Framed(m3)
    BY <1>12, <2>1, FramedMoved
  <2> QED
    BY <1>12, <2>2 DEF Moved
<1>14. m3.mem[Slot(13)] = m.mem[Slot(13)]
  BY <1>4, <1>12 DEF Moved
<1>15. Passes(m3, "load_0c")
  <2>1. m3.mem[Slot(14)] = The["znz"] /\ m3.mem[Slot(15)] = The["block"]
    BY <1>4, <1>6, <1>8, <1>10 DEF Moved
  <2>2. Depth("load_0c") = 17
    BY DEF Depth
  <2>3. Stubs["load_0c"].args = <<"index", "block", "znz">>
    BY Stub_load_0c
  <2> DEFINE args == <<"index", "block", "znz">>
  <2>4. ASSUME NEW k \in DOMAIN args
        PROVE  m3.mem[Slot(17 - k)] = IF args[k] = "rtnp" THEN Slot(17) ELSE The[args[k]]
    <3>1. \/ k = 1 /\ 17 - k = 16 /\ args[k] = "index"
          \/ k = 2 /\ 17 - k = 15 /\ args[k] = "block"
          \/ k = 3 /\ 17 - k = 14 /\ args[k] = "znz"
      OBVIOUS
    <3> HIDE DEF args
    <3> QED
      BY <1>10, <2>1, <3>1
  <2> QED
    BY <2>2, <2>3, <2>4 DEF Passes
<1> QED
  BY <1>11, <1>13, <1>14, <1>15

-----------------------------------------------------------------------------
(* Entering compiled code, and what it may do between calls *)

\* What the registers hold is told apart, too.
LEMMA RegsHeld ==
  Regs \ {"ESP"} \subseteq HeldNames /\ HeldNames \subseteq Names /\ General \subseteq Regs \ {"ESP", "EBP"}
<1>1. Regs \ {"ESP"} \subseteq HeldNames
  BY DEF Regs, HeldNames
<1> QED
  BY <1>1, TheIs, RegsAre

\* The processor in umc_start.
LEMMA StartedIs ==
  /\ Started \in Machine /\ Started.r["ESP"] = Slot(1) /\ Started.patch = NoPatch
  /\ \A q \in Regs \ {"ESP"} : Started.r[q] = The[q]
  /\ Started.mem[Slot(1)] = The["umc_start"]
<1> DEFINE r   == [x \in Regs |-> IF x = "ESP" THEN Top - 4 ELSE The[x]]
           mem == [a \in Stack |-> IF a = Top - 4 THEN The["umc_start"] ELSE The["junk"]]
<1>1. Slot(1) = Top - 4 /\ Slot(1) \in Stack /\ Slot(1) \in Nat
  <2>1. 1 \in Depths /\ Slot(1) = Top - 4
    BY TopIs DEF Depths, Slot
  <2> QED
    BY <2>1, SlotsAre
<1>2. The["umc_start"] \in Nat /\ The["junk"] \in Nat
  <2>1. "umc_start" \in HeldNames /\ "junk" \in HeldNames
    BY DEF HeldNames
  <2> QED
    BY <2>1, TheIs
<1>3. r \in [Regs -> Nat] /\ r["ESP"] = Slot(1) /\ \A q \in Regs \ {"ESP"} : r[q] = The[q]
  <2>1. \A q \in Regs \ {"ESP"} : The[q] \in Nat
    BY RegsHeld, TheIs
  <2> QED
    BY <1>1, <2>1, RegsAre
<1>4. mem \in [Stack -> Nat] /\ mem[Slot(1)] = The["umc_start"]
  BY <1>1, <1>2
<1>5. NoPatch \in Patches
  BY DEF NoPatch, Patches, Ins
<1>6. Started = [r |-> r, mem |-> mem, eip |-> 0, patch |-> NoPatch]
  BY DEF Started
<1> HIDE DEF r, mem
<1>7. Started.r = r /\ Started.mem = mem /\ Started.patch = NoPatch
  BY <1>6
<1>8. Started \in Machine
  BY <1>3, <1>4, <1>5, <1>6 DEF Machine
<1> QED
  BY <1>3, <1>4, <1>7, <1>8

\* Where control goes changes nothing else.
LEMMA JumpIs ==
  ASSUME NEW m \in Machine, NEW x \in Nat
  PROVE  \E n : /\ n = [m EXCEPT !.eip = x] /\ n \in Machine /\ n.eip = x
                /\ n.r = m.r /\ n.mem = m.mem /\ n.patch = m.patch
<1> DEFINE n == [m EXCEPT !.eip = x]
<1>1. n \in Machine /\ n.eip = x /\ n.r = m.r /\ n.mem = m.mem /\ n.patch = m.patch
  BY DEF Machine
<1> HIDE DEF n
<1>2. \E o : /\ o = n /\ o \in Machine /\ o.eip = x
             /\ o.r = m.r /\ o.mem = m.mem /\ o.patch = m.patch
  BY <1>1
<1> QED
  BY <1>2 DEF n

\* Six instructions.
LEMMA DoSix ==
  ASSUME NEW m, NEW a, NEW b, NEW c, NEW d, NEW e, NEW f
  PROVE  DoAll(m, <<a, b, c, d, e, f>>) = Do(Do(Do(Do(Do(Do(m, a), b), c), d), e), f)
<1> DEFINE s == <<a, b, c>>
           t == <<d, e, f>>
           u == <<a, b, c, d, e, f>>
<1>1. Len(s) = 3 /\ Len(t) = 3 /\ Len(u) = 6
  OBVIOUS
<1>2. /\ u[1] = s[1] /\ u[2] = s[2] /\ u[3] = s[3]
      /\ u[4] = t[1] /\ u[5] = t[2] /\ u[6] = t[3]
  OBVIOUS
<1>3. DoAll(m, s) = Do(Do(Do(m, a), b), c) /\ \A n : DoAll(n, t) = Do(Do(Do(n, d), e), f)
  BY DoAll3
<1> HIDE DEF s, t, u
<1>4. \A k \in 1 .. Len(s) : u[k] = s[k]
  BY <1>1, <1>2
<1>5. \A k \in 1 .. Len(t) : u[Len(s) + k] = t[k]
  <2>1. ASSUME NEW k \in 1 .. 3 PROVE u[3 + k] = t[k]
    <3>1. CASE k = 1
      <4>1. 3 + k = 4
        BY <3>1
      <4> QED
        BY <1>2, <3>1, <4>1
    <3>2. CASE k = 2
      <4>1. 3 + k = 5
        BY <3>2
      <4> QED
        BY <1>2, <3>2, <4>1
    <3>3. CASE k = 3
      <4>1. 3 + k = 6
        BY <3>3
      <4> QED
        BY <1>2, <3>3, <4>1
    <3> QED
      BY <3>1, <3>2, <3>3
  <2> QED
    BY <1>1, <2>1
<1>6. Len(s) \in Nat /\ Len(t) \in Nat /\ Len(u) = Len(s) + Len(t)
  BY <1>1
<1>7. DoAll(m, u) = DoAll(DoAll(m, s), t)
  BY <1>4, <1>5, <1>6, DoAllParts
<1>8. DoAll(m, u) = Do(Do(Do(Do(Do(Do(m, a), b), c), d), e), f)
  BY <1>3, <1>7
<1> QED
  BY <1>8 DEF u

\* co_enter makes the frame.
LEMMA EnterIs ==
  ASSUME NEW x \in Nat
  PROVE  \E n : /\ n = [DoAll(Started, co_enter) EXCEPT !.eip = x] /\ Framed(n)
                /\ n.r["ESP"] = Slot(12) /\ n.eip = x
<1> DEFINE a == <<"pushr", "EBP">>
           b == <<"movrr", "EBP", "ESP">>
           c == <<"pushr", "EBX">>
           d == <<"pushr", "ESI">>
           e == <<"pushr", "EDI">>
           f == Immediate("ESP", e_subri(FALSE, 28))
<1>1. PICK m1 : m1 = Do(Started, a)
  OBVIOUS
<1>2. PICK m2 : m2 = Do(m1, b)
  OBVIOUS
<1>3. PICK m3 : m3 = Do(m2, c)
  OBVIOUS
<1>4. PICK m4 : m4 = Do(m3, d)
  OBVIOUS
<1>5. PICK m5 : m5 = Do(m4, e)
  OBVIOUS
<1>6. PICK m6 : m6 = Do(m5, f)
  OBVIOUS
<1>7. DoAll(Started, co_enter) = m6
  <2>1. co_enter = <<a, b, c, d, e, f>>
    <3>1. 12 + 16 = 28
      OBVIOUS
    <3> QED
      BY <3>1 DEF co_enter
  <2> HIDE DEF a, b, c, d, e, f
  <2> QED
    BY <1>1, <1>2, <1>3, <1>4, <1>5, <1>6, <2>1, DoSix
<1>8. /\ 2 = 1 + 1 /\ 3 = 2 + 1 /\ 4 = 3 + 1 /\ 5 = 4 + 1 /\ {1, 2, 3, 4} \subseteq 0 .. 19
      /\ {1, 2, 3, 4, 5, 12} \subseteq Depths
  BY DEF Depths
<1>9. {"EBP", "EBX", "ESI", "EDI"} \subseteq Regs \ {"ESP"} /\ {"EBX", "ESI", "EDI"} \subseteq Regs \ {"ESP", "EBP"}
  BY DEF Regs
<1>10. Moved(Started, m1, 2, {}, {2}) /\ m1.mem[Slot(2)] = The["EBP"]
  BY <1>1, <1>8, <1>9, StartedIs, PushrAt
<1>11. m1 \in Machine /\ m1.r["ESP"] = Slot(2)
  BY <1>10 DEF Moved
<1>12. IsGiven(m1, m2, "EBP", Slot(2))
  <2>1. IsGiven(m1, Do(m1, b), "EBP", m1.r["ESP"])
    BY <1>11, RegsAre, MoveIs
  <2> QED
    BY <1>2, <1>11, <2>1
<1>13. /\ m2 \in Machine /\ m2.r["ESP"] = Slot(2) /\ m2.r["EBP"] = Slot(2)
       /\ \A q \in {"EBX", "ESI", "EDI"} : m2.r[q] = The[q]
       /\ m2.mem[Slot(1)] = The["umc_start"] /\ m2.mem[Slot(2)] = The["EBP"]
       /\ m2.patch = NoPatch
  BY <1>8, <1>9, <1>10, <1>11, <1>12, StartedIs, RegsAre DEF Moved, IsGiven
<1>14. Moved(m2, m3, 3, {}, {3}) /\ m3.mem[Slot(3)] = The["EBX"]
  BY <1>3, <1>8, <1>9, <1>13, PushrAt
<1>15. m3 \in Machine /\ m3.r["ESP"] = Slot(3) /\ \A q \in {"ESI", "EDI"} : m3.r[q] = The[q]
  BY <1>9, <1>13, <1>14 DEF Moved
<1>16. Moved(m3, m4, 4, {}, {4}) /\ m4.mem[Slot(4)] = The["ESI"]
  BY <1>4, <1>8, <1>9, <1>15, PushrAt
<1>17. m4 \in Machine /\ m4.r["ESP"] = Slot(4) /\ m4.r["EDI"] = The["EDI"]
  BY <1>9, <1>15, <1>16 DEF Moved
<1>18. Moved(m4, m5, 5, {}, {5}) /\ m5.mem[Slot(5)] = The["EDI"]
  BY <1>5, <1>8, <1>9, <1>17, PushrAt
<1>19. m5 \in Machine /\ m5.r["ESP"] = Slot(5)
  BY <1>18 DEF Moved
<1>20. IsGiven(m5, m6, "ESP", Slot(12))
  <2>1. Slot(12) = Slot(5) - 28 /\ 28 <= Slot(5)
    BY TopIs DEF Slot
  <2>2. Slot(5) \in Nat /\ Slot(5) < Modulus /\ Slot(12) \in Nat
    BY <1>8, SlotsAre
  <2>3. ExecAll(m5.r["ESP"], e_subri(FALSE, 28)) = Slot(12)
    BY <1>19, <2>1, <2>2, EspSubtracted
  <2> QED
    BY <1>6, <1>19, <2>2, <2>3, RegsAre, ImmIs
<1>21. /\ m5.r["EBP"] = Slot(2) /\ m5.patch = NoPatch
       /\ m5.mem[Slot(1)] = The["umc_start"] /\ m5.mem[Slot(2)] = The["EBP"]
       /\ m5.mem[Slot(3)] = The["EBX"] /\ m5.mem[Slot(4)] = The["ESI"]
  BY <1>8, <1>9, <1>13, <1>14, <1>16, <1>18, RegsAre DEF Moved
<1>22. m6 \in Machine /\ m6.r["ESP"] = Slot(12) /\ m6.r["EBP"] = Slot(2) /\ m6.mem = m5.mem /\ m6.patch = NoPatch
  BY <1>20, <1>21, RegsAre DEF IsGiven
<1>23. \A k \in 1 .. 5 : m6.mem[Slot(k)] = The[Saved[k]]
  <2>1. ASSUME NEW k \in 1 .. 5 PROVE m5.mem[Slot(k)] = The[Saved[k]]
    <3>1. \/ k = 1 /\ Saved[k] = "umc_start"
          \/ k = 2 /\ Saved[k] = "EBP"
          \/ k = 3 /\ Saved[k] = "EBX"
          \/ k = 4 /\ Saved[k] = "ESI"
          \/ k = 5 /\ Saved[k] = "EDI"
      BY DEF Saved
    <3> QED
      BY <1>18, <1>21, <3>1
  <2> QED
    BY <1>22, <2>1
<1>24. PICK n : /\ n = [m6 EXCEPT !.eip = x] /\ n \in Machine /\ n.eip = x
                /\ n.r = m6.r /\ n.mem = m6.mem /\ n.patch = m6.patch
  BY <1>22, JumpIs
<1>25. Framed(n)
  BY <1>22, <1>23, <1>24 DEF Framed
<1> QED
  BY <1>7, <1>22, <1>24, <1>25

\* The frame, whatever has been patched.
Kept(m) ==
  /\ m \in Machine /\ m.r["EBP"] = Slot(2)
  /\ \A k \in 1 .. 5 : m.mem[Slot(k)] = The[Saved[k]]

\* The frame, if nothing has been patched.
LEMMA KeptIs ==
  ASSUME NEW m
  PROVE  Framed(m) <=> Kept(m) /\ m.patch = NoPatch
BY DEF Framed, Kept

\* Compiled code does what it likes above the frame.
LEMMA SettledIs ==
  ASSUME Kept(cpu), cpu.r["ESP"] = Slot(12)
  PROVE  /\ Framed(Settled) /\ Settled.r["ESP"] = Slot(12)
         /\ \A q \in General : Settled.r[q] = The[q]
<1> DEFINE r   == [x \in Regs |-> IF x \in General THEN The[x] ELSE cpu.r[x]]
           mem == [a \in Stack |-> IF a < cpu.r["EBP"] - 12 THEN The["junk"] ELSE cpu.mem[a]]
<1>1. cpu \in Machine /\ cpu.r["EBP"] = Slot(2)
  BY DEF Kept
<1>2. \A q \in General : The[q] \in Nat
  BY RegsHeld, TheIs
<1>3. The["junk"] \in Nat
  <2>1. "junk" \in HeldNames
    BY DEF HeldNames
  <2> QED
    BY <2>1, TheIs
<1>4. /\ r \in [Regs -> Nat] /\ \A q \in General : r[q] = The[q]
      /\ r["ESP"] = Slot(12) /\ r["EBP"] = Slot(2)
  BY <1>1, <1>2, RegsAre DEF Machine
<1>5. mem \in [Stack -> Nat]
  BY <1>1, <1>3 DEF Machine
<1>6. ASSUME NEW k \in 1 .. 5 PROVE mem[Slot(k)] = The[Saved[k]]
  <2>1. k \in Depths
    BY DEF Depths
  <2>2. Slot(k) \in Stack
    BY <2>1, SlotsAre
  <2>3. ~(Slot(k) < cpu.r["EBP"] - 12)
    BY <1>1, TopIs DEF Slot
  <2>4. mem[Slot(k)] = cpu.mem[Slot(k)]
    BY <2>2, <2>3
  <2> QED
    BY <2>4 DEF Kept
<1>7. Settled = [cpu EXCEPT !.r = r, !.mem = mem, !.patch = NoPatch]
  BY DEF Settled
<1> HIDE DEF r, mem
<1>8. NoPatch \in Patches
  BY DEF NoPatch, Patches, Ins
<1>9. Settled \in Machine /\ Settled.r = r /\ Settled.mem = mem /\ Settled.patch = NoPatch
  BY <1>1, <1>4, <1>5, <1>7, <1>8 DEF Machine
<1>10. Framed(Settled)
  BY <1>4, <1>6, <1>9 DEF Framed
<1> QED
  BY <1>4, <1>9, <1>10

\* A call in progress: where it returns to, what it passes, and what the stubs that
\* are called themselves, or keep registers, have put on the stack.
InCall(m, c) ==
  /\ Framed(m) /\ m.r["ESP"] = Slot(Depth(c.stub))
  /\ m.mem[Slot(Depth(c.stub))] = c.ret /\ Passes(m, c.stub)
  /\ c.stub = "load_0c" => m.mem[Slot(13)] = c.site
  /\ c.stub = "reload" =>
       /\ m.mem[Slot(13)] = c.r["ECX"] /\ m.mem[Slot(14)] = c.r["EDX"]
       /\ m.mem[Slot(15)] = c.r["EAX"]
       /\ \A q \in General : m.r[q] = c.r[q]

\* At most four parameters are passed, under the return address.
LEMMA ArgsAre ==
  ASSUME NEW s \in StubNames
  PROVE  /\ Len(Stubs[s].args) \in 0 .. 4 /\ DOMAIN Stubs[s].args = 1 .. Len(Stubs[s].args)
         /\ s = "reload" => Len(Stubs[s].args) = 1
         /\ s = "load_0c" => Len(Stubs[s].args) = 3
         /\ Stubs[s].args # <<>> => 1 \in DOMAIN Stubs[s].args
<1>1. CASE s \in {"postwrite", "fltnoex", "loadguard"}
  BY <1>1, Stub_postwrite, Stub_fltnoex, Stub_loadguard
<1>2. CASE s \in {"load_0", "load_0c", "badness"}
  BY <1>2, Stub_load_0, Stub_load_0c, Stub_badness
<1>3. CASE s \in {"alloc", "reload", "output"}
  BY <1>3, Stub_alloc, Stub_reload, Stub_output
<1>4. CASE s = "input"
  BY <1>4, Stub_input
<1> QED
  BY <1>1, <1>2, <1>3, <1>4 DEF StubNames

\* The call itself.
LEMMA Calls ==
  ASSUME NEW m, NEW s \in StubNames, NEW d, d = Depth(s), Framed(m), m.r["ESP"] = Slot(d - 1),
         Passes(m, s), NEW ret \in Nat
  PROVE  /\ Framed(Pushed(m, ret)) /\ Pushed(m, ret).r["ESP"] = Slot(d)
         /\ Pushed(m, ret).mem[Slot(d)] = ret /\ Passes(Pushed(m, ret), s)
         /\ \A k \in {13, 14, 15} : d = 17 => Pushed(m, ret).mem[Slot(k)] = m.mem[Slot(k)]
         /\ \A q \in General : Pushed(m, ret).r[q] = m.r[q]
<1>1. PICK n : n = Pushed(m, ret)
  OBVIOUS
<1>2. d \in {13, 17} /\ d - 1 \in 0 .. 19 /\ (d - 1) + 1 = d /\ {d} \subseteq 6 .. 20
  BY DEF Depth
<1>3. Moved(m, n, d, {}, {d}) /\ n.mem[Slot(d)] = ret
  <2>1. PICK e : e = d - 1
    OBVIOUS
  <2>2. m \in Machine /\ e \in 0 .. 19 /\ m.r["ESP"] = Slot(e) /\ e + 1 = d
    BY <1>2, <2>1 DEF Framed
  <2>3. Moved(m, Pushed(m, ret), e + 1, {}, {e + 1}) /\ Pushed(m, ret).mem[Slot(e + 1)] = ret
    BY <2>2, PushIs
  <2> QED
    BY <1>1, <2>2, <2>3
<1>4. Framed(n)
  <2>1. "EBP" \notin {}
    OBVIOUS
  <2> QED
    BY <1>2, <1>3, <2>1, FramedMoved
<1>5. Passes(n, s)
  <2>1. ASSUME NEW k \in DOMAIN Stubs[s].args
        PROVE  n.mem[Slot(d - k)] = m.mem[Slot(d - k)]
    <3>1. k \in 1 .. 4
      BY ArgsAre
    <3>2. d - k \in Depths \ {d}
      BY <1>2, <3>1 DEF Depths
    <3> QED
      BY <1>3, <3>2 DEF Moved
  <2> QED
    BY <2>1 DEF Passes
<1>6. \A k \in {13, 14, 15} : d = 17 => n.mem[Slot(k)] = m.mem[Slot(k)]
  <2>1. \A k \in {13, 14, 15} : d = 17 => k \in Depths \ {d}
    BY DEF Depths
  <2> QED
    BY <1>3, <2>1 DEF Moved
<1>7. \A q \in General : n.r[q] = m.r[q]
  BY <1>3, RegsAre DEF Moved
<1> QED
  BY <1>1, <1>3, <1>4, <1>5, <1>6, <1>7 DEF Moved

\* The stubs that start and end at the same depth, together.
LEMMA StubPasses ==
  ASSUME NEW m, Framed(m), NEW s \in StubNames \ {"load_0c", "reload"}, m.r["ESP"] = Slot(12)
  PROVE  /\ Framed(DoAll(m, Stubs[s].before)) /\ DoAll(m, Stubs[s].before).r["ESP"] = Slot(12)
         /\ Passes(DoAll(m, Stubs[s].before), s)
<1>1. CASE s \in {"postwrite", "fltnoex", "loadguard"}
  BY <1>1, PostwritePasses, FltnoexPasses, LoadguardPasses
<1>2. CASE s \in {"load_0", "badness"}
  BY <1>2, Load0Passes, BadnessPasses
<1>3. CASE s \in {"alloc", "output", "input"}
  BY <1>3, AllocPasses, OutputPasses, InputPasses
<1> QED
  BY <1>1, <1>2, <1>3 DEF StubNames

\* What a call starts from: the stub of a jump to a constant place has been called.
From(s, site) == IF s = "load_0c" THEN Pushed(Settled, site) ELSE Settled

\* A call has passed what it should, and returns to where it was made.
LEMMA CallOutIs ==
  ASSUME Kept(cpu), cpu.r["ESP"] = Slot(12), NEW s \in StubNames, NEW ret \in Nat, NEW site \in Nat,
         NEW c, c = Call(s, TRUE, ret, site, 0, From(s, site).r)
  PROVE  InCall(Pushed(DoAll(From(s, site), Stubs[s].before), ret), c) /\ c.r \in [Regs -> Nat]
<1>1. PICK m : m = From(s, site)
  OBVIOUS
<1>2. PICK m1 : m1 = DoAll(m, Stubs[s].before)
  OBVIOUS
<1>3. PICK n : n = Pushed(m1, ret)
  OBVIOUS
<1>4. Framed(Settled) /\ Settled.r["ESP"] = Slot(12) /\ Settled \in Machine
  BY SettledIs DEF Framed
<1>5. c.stub = s /\ c.ret = ret /\ c.site = site /\ c.r = m.r
  BY <1>1 DEF Call
<1>6. Framed(m) /\ m.r["ESP"] = Slot(IF s = "load_0c" THEN 13 ELSE 12) /\ (s = "load_0c" => m.mem[Slot(13)] = site)
  <2>1. CASE s = "load_0c"
    <3>1. Moved(Settled, Pushed(Settled, site), 12 + 1, {}, {12 + 1})
          /\ Pushed(Settled, site).mem[Slot(12 + 1)] = site
      <4>1. 12 \in 0 .. 19
        OBVIOUS
      <4> QED
        BY <1>4, <4>1, PushIs
    <3>2. 12 + 1 = 13 /\ m = Pushed(Settled, site) /\ "EBP" \notin {} /\ {13} \subseteq 6 .. 20
      BY <1>1, <2>1 DEF From
    <3>3. Moved(Settled, m, 13, {}, {13}) /\ m.mem[Slot(13)] = site
      BY <3>1, <3>2
    <3>4. Framed(m)
      BY <1>4, <3>2, <3>3, FramedMoved
    <3> QED
      BY <2>1, <3>3, <3>4 DEF Moved
  <2>2. CASE s # "load_0c"
    BY <1>1, <1>4, <2>2 DEF From
  <2> QED
    BY <2>1, <2>2
<1>7. m.r \in [Regs -> Nat]
  BY <1>6 DEF Framed, Machine
<1>8. /\ Framed(m1) /\ m1.r["ESP"] = Slot(Depth(s) - 1) /\ Passes(m1, s)
      /\ s = "load_0c" => m1.mem[Slot(13)] = site
      /\ s = "reload" =>
           /\ m1.mem[Slot(13)] = m.r["ECX"] /\ m1.mem[Slot(14)] = m.r["EDX"]
           /\ m1.mem[Slot(15)] = m.r["EAX"] /\ \A q \in General : m1.r[q] = m.r[q]
  <2>1. CASE s = "load_0c"
    <3>1. Depth(s) - 1 = 16 /\ m.r["ESP"] = Slot(13)
      BY <1>6, <2>1 DEF Depth
    <3>2. /\ Framed(m1) /\ m1.r["ESP"] = Slot(16) /\ Passes(m1, s)
          /\ m1.mem[Slot(13)] = m.mem[Slot(13)]
      BY <1>2, <1>6, <2>1, <3>1, Load0cPasses
    <3> QED
      BY <1>6, <2>1, <3>1, <3>2
  <2>2. CASE s = "reload"
    <3>1. Depth(s) - 1 = 16 /\ m.r["ESP"] = Slot(12)
      BY <1>6, <2>2 DEF Depth
    <3>2. /\ Framed(m1) /\ m1.r["ESP"] = Slot(16) /\ Passes(m1, "reload")
          /\ \A q \in General : m1.r[q] = m.r[q]
          /\ m1.mem[Slot(13)] = m.r["ECX"] /\ m1.mem[Slot(14)] = m.r["EDX"]
          /\ m1.mem[Slot(15)] = m.r["EAX"]
      BY <1>2, <1>6, <2>2, <3>1, ReloadPasses
    <3> QED
      BY <2>2, <3>1, <3>2
  <2>3. CASE s \notin {"load_0c", "reload"}
    <3>1. Depth(s) - 1 = 12 /\ m.r["ESP"] = Slot(12)
      BY <1>6, <2>3 DEF Depth
    <3>2. Framed(m1) /\ m1.r["ESP"] = Slot(12) /\ Passes(m1, s)
      BY <1>2, <1>6, <2>3, <3>1, StubPasses
    <3> QED
      BY <2>3, <3>1, <3>2
  <2> QED
    BY <2>1, <2>2, <2>3
<1>9. /\ Framed(n) /\ n.r["ESP"] = Slot(Depth(s)) /\ n.mem[Slot(Depth(s))] = ret /\ Passes(n, s)
      /\ \A k \in {13, 14, 15} : Depth(s) = 17 => n.mem[Slot(k)] = m1.mem[Slot(k)]
      /\ \A q \in General : n.r[q] = m1.r[q]
  <2>1. PICK d : d = Depth(s)
    OBVIOUS
  <2>2. m1.r["ESP"] = Slot(d - 1) /\ Framed(m1) /\ Passes(m1, s)
    BY <1>8, <2>1
  <2> QED
    BY <1>3, <2>1, <2>2, Calls
<1>10. (s = "load_0c" \/ s = "reload") => Depth(s) = 17
  BY DEF Depth
<1>11. InCall(n, c)
  BY <1>5, <1>8, <1>9, <1>10 DEF InCall
<1> QED
  BY <1>1, <1>2, <1>3, <1>5, <1>7, <1>11

\* What the function called leaves.
TakesRtnp(s) == s \in {"postwrite", "fltnoex", "loadguard"}

\* Which functions are passed the address of their return address, and where.
LEMMA RtnpFirst ==
  ASSUME NEW s \in StubNames
  PROVE  /\ TakesRtnp(s) => Stubs[s].args[1] = "rtnp" /\ 1 \in DOMAIN Stubs[s].args
         /\ ~TakesRtnp(s) /\ s # "input" => Stubs[s].args[1] # "rtnp"
<1>1. CASE s \in {"postwrite", "fltnoex", "loadguard"}
  BY <1>1, Stub_postwrite, Stub_fltnoex, Stub_loadguard DEF TakesRtnp
<1>2. CASE s \in {"load_0", "load_0c", "badness"}
  BY <1>2, Stub_load_0, Stub_load_0c, Stub_badness DEF TakesRtnp
<1>3. CASE s \in {"alloc", "reload", "output", "input"}
  BY <1>3, Stub_alloc, Stub_reload, Stub_output DEF TakesRtnp
<1> QED
  BY <1>1, <1>2, <1>3 DEF StubNames

\* A function that returns has left the frame, and what lies under its parameters; it
\* returns to the place it was given, if it was given one, or else to its caller.
LEMMA ReturnedIs ==
  ASSUME NEW m, NEW c, InCall(m, c), c.stub \in StubNames, NEW to \in Nat, c.ret \in Nat,
         c.stub = "input" => to = 0
  PROVE  LET n == Returned(m, c.stub, to)
             d == Depth(c.stub)
         IN  /\ Framed(n) /\ n.r["ESP"] = Slot(d - 1)
             /\ n.eip = IF to # 0 /\ TakesRtnp(c.stub) THEN to ELSE c.ret
             /\ to # 0 => n.r["EAX"] = to
             /\ \A q \in General \ {"EAX", "ECX", "EDX"} : n.r[q] = m.r[q]
             /\ c.stub = "load_0c" => n.mem[Slot(13)] = c.site
             /\ c.stub = "reload" => \A k \in {13, 14, 15} : n.mem[Slot(k)] = m.mem[Slot(k)]
<1>1. PICK s, d, p, len : s = c.stub /\ d = Depth(s) /\ p = Slot(d) /\ len = Len(Stubs[s].args)
  OBVIOUS
<1>2. /\ s \in StubNames /\ Framed(m) /\ m \in Machine /\ m.r["ESP"] = p /\ m.mem[p] = c.ret
      /\ Passes(m, s) /\ (s = "load_0c" => m.mem[Slot(13)] = c.site)
  BY <1>1 DEF InCall, Framed
<1>3. /\ d \in {13, 17} /\ d \in Depths /\ d - 1 \in Depths /\ len \in 0 .. 4
      /\ (s = "reload" => d = 17 /\ len = 1) /\ (s = "load_0c" => d = 17 /\ len = 3)
      /\ (TakesRtnp(s) => d = 13)
  BY <1>1, <1>2, ArgsAre DEF Depth, Depths, TakesRtnp
<1>4. p \in Stack /\ p \in Nat /\ Slot(d - 1) = p + 4 /\ Slot(d - 1) \in Nat
  <2>1. Slot(d - 1) = p + 4
    BY <1>1, <1>3, TopIs DEF Slot
  <2> QED
    BY <1>1, <1>3, <2>1, SlotsAre
<1> DEFINE Patched == to # 0 /\ TakesRtnp(s)
           was == IF Patched THEN [m.mem EXCEPT ![p] = to] ELSE m.mem
           mem == [a \in Stack |-> IF a \in p + 4 .. p + 4 * len THEN The["junk"] ELSE was[a]]
           back == IF Patched THEN to ELSE c.ret
           eax == IF to # 0 THEN to ELSE The["result"]
           r == [m.r EXCEPT !["EAX"] = eax, !["ECX"] = The["junk"], !["EDX"] = The["junk"], !["ESP"] = p + 4]
           told == IF Patched THEN [m EXCEPT !.mem = [m.mem EXCEPT ![p] = to]] ELSE m
<1>5. The["junk"] \in Nat /\ The["result"] \in Nat
  <2>1. "junk" \in HeldNames /\ "result" \in HeldNames
    BY DEF HeldNames
  <2> QED
    BY <2>1, TheIs
<1>6. was \in [Stack -> Nat] /\ was[p] = back /\ \A a \in Stack \ {p} : was[a] = m.mem[a]
  BY <1>2, <1>4 DEF Machine
<1>7. told.mem = was /\ told.r = m.r /\ told.patch = m.patch /\ told = [m EXCEPT !.mem = was]
  BY <1>2 DEF Machine
<1>8. Parameter(m, 1) = p \/ ~TakesRtnp(s)
  <2>1. SUFFICES ASSUME TakesRtnp(s) PROVE Parameter(m, 1) = p
    OBVIOUS
  <2>2. 1 \in DOMAIN Stubs[s].args /\ Stubs[s].args[1] = "rtnp"
    BY <1>2, <2>1, RtnpFirst
  <2>3. m.mem[Slot(d - 1)] = p
    BY <1>1, <1>2, <2>2 DEF Passes
  <2>4. p + 4 * 1 = Slot(d - 1)
    BY <1>4
  <2> QED
    BY <1>2, <2>3, <2>4 DEF Parameter
<1>9. Returned(m, s, to) =
        [told EXCEPT !.r["EAX"] = eax, !.r["ECX"] = The["junk"], !.r["EDX"] = The["junk"],
                     !.r["ESP"] = p + 4, !.eip = told.mem[p], !.mem = mem]
  <2>1. Patched <=> to # 0 /\ Stubs[s].args[1] = "rtnp"
    <3>1. s = "input" => to = 0
      BY <1>1
    <3> QED
      BY <1>2, <3>1, RtnpFirst
  <2> DEFINE X == IF to # 0 /\ Stubs[s].args[1] = "rtnp" THEN [m EXCEPT !.mem[Parameter(m, 1)] = to] ELSE m
  <2>2. Returned(m, s, to) =
          [X EXCEPT !.r["EAX"] = IF to # 0 THEN to ELSE The["result"],
                    !.r["ECX"] = The["junk"], !.r["EDX"] = The["junk"],
                    !.r["ESP"] = m.r["ESP"] + 4,
                    !.eip = X.mem[m.r["ESP"]],
                    !.mem = [a \in Stack |->
                               IF a \in m.r["ESP"] + 4 .. m.r["ESP"] + 4 * Len(Stubs[s].args)
                               THEN The["junk"] ELSE X.mem[a]]]
    BY DEF Returned
  <2>3. X = told
    BY <1>8, <2>1
  <2> HIDE DEF X
  <2>4. mem = [a \in Stack |-> IF a \in p + 4 .. p + 4 * len THEN The["junk"] ELSE told.mem[a]]
    BY <1>7
  <2> HIDE DEF told, Patched, was, mem
  <2> QED
    BY <1>1, <1>2, <2>2, <2>3, <2>4
<1> HIDE DEF was
<1>10. mem \in [Stack -> Nat] /\ \A a \in Stack : a \notin p + 4 .. p + 4 * len => mem[a] = was[a]
  BY <1>5, <1>6
<1>11. /\ r \in [Regs -> Nat] /\ r["EAX"] = eax /\ r["ESP"] = Slot(d - 1)
       /\ \A q \in Regs \ {"EAX", "ECX", "EDX", "ESP"} : r[q] = m.r[q]
  <2>1. eax \in Nat /\ p + 4 \in Nat
    BY <1>4, <1>5
  <2>2. {"EAX", "ECX", "EDX", "ESP"} \subseteq Regs
    BY DEF Regs
  <2> HIDE DEF eax
  <2> QED
    BY <1>2, <1>4, <1>5, <2>1, <2>2 DEF Machine
<1>12. back \in Nat
  OBVIOUS
<1>13. Returned(m, s, to) = [m EXCEPT !.r = r, !.eip = back, !.mem = mem]
  <2> HIDE DEF mem, back, eax, told
  <2> QED
    BY <1>2, <1>6, <1>7, <1>9, ZenonT(60) DEF Machine
<1> HIDE DEF mem, back, r, told
<1>14. PICK n : n = Returned(m, s, to)
  OBVIOUS
<1>15. n \in Machine /\ n.r = r /\ n.eip = back /\ n.mem = mem /\ n.patch = m.patch
  BY <1>2, <1>10, <1>11, <1>12, <1>13, <1>14 DEF Machine
<1>16. ASSUME NEW k \in Depths, \/ k \in 1 .. 5
                                \/ s = "load_0c" /\ k = 13
                                \/ s = "reload" /\ k \in {13, 14, 15}
       PROVE  mem[Slot(k)] = m.mem[Slot(k)]
  <2>1. Slot(k) \in Stack \ {p} /\ Slot(k) \notin p + 4 .. p + 4 * len
    <3>1. Slot(k) \in Stack
      BY SlotsAre
    <3>2. p + 4 * len < Slot(k)
      <4>1. p = Top - 4 * d /\ Slot(k) = Top - 4 * k /\ Top \in Nat
        BY <1>1, TopIs DEF Slot
      <4>2. CASE k \in 1 .. 5
        <5>1. Top - 4 * d + 4 * len < Top - 4 * k
          BY <1>3, <4>1, <4>2
        <5> QED
          BY <4>1, <5>1
      <4>3. CASE s = "load_0c" /\ k = 13
        <5>1. d = 17 /\ len = 3
          BY <1>3, <4>3
        <5> QED
          BY <4>1, <4>3, <5>1
      <4>4. CASE s = "reload" /\ k \in {13, 14, 15}
        <5>1. d = 17 /\ len = 1
          BY <1>3, <4>4
        <5> QED
          BY <4>1, <4>4, <5>1
      <4> QED
        BY <1>16, <4>2, <4>3, <4>4
    <3>3. Slot(k) \in Nat /\ p + 4 * len \in Nat /\ p + 4 * len >= p
      BY <1>3, <1>4, SlotsAre
    <3> QED
      BY <1>4, <3>1, <3>2, <3>3
  <2> QED
    BY <1>6, <1>10, <2>1
<1>17. Framed(n)
  <2>1. n.r["EBP"] = Slot(2) /\ n.patch = NoPatch
    <3>1. "EBP" \in Regs \ {"EAX", "ECX", "EDX", "ESP"}
      BY DEF Regs
    <3> QED
      BY <1>2, <1>11, <1>15, <3>1 DEF Framed
  <2>2. ASSUME NEW k \in 1 .. 5 PROVE n.mem[Slot(k)] = The[Saved[k]]
    <3>1. k \in Depths
      BY DEF Depths
    <3> QED
      BY <1>2, <1>15, <1>16, <3>1 DEF Framed
  <2> QED
    BY <1>15, <2>1, <2>2 DEF Framed
<1>18. /\ s = "load_0c" => n.mem[Slot(13)] = c.site
       /\ s = "reload" => \A k \in {13, 14, 15} : n.mem[Slot(k)] = m.mem[Slot(k)]
  <2>1. {13, 14, 15} \subseteq Depths
    BY DEF Depths
  <2> QED
    BY <1>2, <1>15, <1>16, <2>1
<1>19. \A q \in General \ {"EAX", "ECX", "EDX"} : n.r[q] = m.r[q]
  BY <1>11, <1>15, RegsAre
<1>20. /\ n.r["ESP"] = Slot(d - 1) /\ (to # 0 => n.r["EAX"] = to)
       /\ n.eip = IF to # 0 /\ TakesRtnp(s) THEN to ELSE c.ret
  BY <1>11, <1>15 DEF back
<1> QED
  BY <1>1, <1>14, <1>17, <1>18, <1>19, <1>20

-----------------------------------------------------------------------------
(* What is emitted after a call *)

\* A pop, a jump and a patch, at a depth that is known.
LEMMA PopAt ==
  ASSUME NEW m \in Machine, NEW d \in Depths, d > 0, m.r["ESP"] = Slot(d), NEW e, e = d - 1,
         NEW q \in Regs, q # "ESP", NEW n, n = Do(m, <<"popr", q>>)
  PROVE  Moved(m, n, e, {q}, {}) /\ n.r[q] = m.mem[Slot(d)]
<1> DEFINE i == <<"popr", q>>
<1>1. Moved(m, Do(m, i), d - 1, {q}, {}) /\ Do(m, i).r[q] = m.mem[Slot(d)]
  BY PopIs
<1> HIDE DEF i
<1>2. n = Do(m, i)
  BY DEF i
<1> QED
  BY <1>1, <1>2

LEMMA GoIs ==
  ASSUME NEW m \in Machine, NEW q \in Regs, NEW n, n = Do(m, <<"jmpr", q>>)
  PROVE  n \in Machine /\ n.eip = m.r[q] /\ n.r = m.r /\ n.mem = m.mem /\ n.patch = m.patch
<1> DEFINE i == <<"jmpr", q>>
<1>1. i[1] = "jmpr" /\ i[2] = q
  OBVIOUS
<1> HIDE DEF i
<1>2. Do(m, i) = [m EXCEPT !.eip = m.r[i[2]]]
  BY <1>1, DoJmpr
<1>3. PICK x \in Nat : x = m.r[q]
  BY DEF Machine
<1>4. PICK o : /\ o = [m EXCEPT !.eip = x] /\ o \in Machine /\ o.eip = x
               /\ o.r = m.r /\ o.mem = m.mem /\ o.patch = m.patch
  BY JumpIs
<1>5. n = o
  BY <1>1, <1>2, <1>3, <1>4 DEF i
<1> QED
  BY <1>3, <1>4, <1>5

LEMMA PatchIs ==
  ASSUME NEW m \in Machine, NEW n, n = Do(m, <<"patch">>)
  PROVE  /\ n \in Machine /\ n.patch = [at |-> m.r["EDX"], jump |-> Ins("jmp", m.r["EAX"], 5)]
         /\ n.r = m.r /\ n.mem = m.mem /\ n.eip = m.eip
<1> DEFINE i == <<"patch">>
<1>1. i[1] = "patch"
  OBVIOUS
<1> HIDE DEF i
<1>2. Do(m, i) = [m EXCEPT !.patch = [at |-> m.r["EDX"], jump |-> Ins("jmp", m.r["EAX"], 5)]]
  BY <1>1, DoPatch
<1> DEFINE v == [at |-> m.r["EDX"], jump |-> Ins("jmp", m.r["EAX"], 5)]
<1>3. v \in Patches
  <2>1. {"EDX", "EAX"} \subseteq Regs
    BY DEF Regs
  <2>2. m.r["EDX"] \in Nat /\ m.r["EAX"] \in Nat
    BY <2>1 DEF Machine
  <2> QED
    BY <2>2 DEF Patches, Ins
<1>4. n = [m EXCEPT !.patch = v]
  BY <1>2 DEF i
<1> HIDE DEF v
<1>5. n \in Machine /\ n.patch = v /\ n.r = m.r /\ n.mem = m.mem /\ n.eip = m.eip
  BY <1>3, <1>4 DEF Machine
<1> QED
  BY <1>5 DEF v

\* The registers are back after the call for more memory.
LEMMA ReloadRestores ==
  ASSUME NEW m, Framed(m), m.r["ESP"] = Slot(16)
  PROVE  \E n : /\ n = DoAll(m, ReloadThen) /\ Framed(n) /\ n.r["ESP"] = Slot(12) /\ n.eip = m.eip
                /\ n.r["ECX"] = m.mem[Slot(13)] /\ n.r["EDX"] = m.mem[Slot(14)]
                /\ n.r["EAX"] = m.mem[Slot(15)]
                /\ \A q \in General \ {"EAX", "ECX", "EDX"} : n.r[q] = m.r[q]
<1> DEFINE a == <<"popr", "EAX">>
           b == <<"popr", "EDX">>
           c == <<"popr", "ECX">>
<1>1. PICK m1 : m1 = Do(m, a)
  OBVIOUS
<1>2. PICK m2 : m2 = Do(m1, a)
  OBVIOUS
<1>3. PICK m3 : m3 = Do(m2, b)
  OBVIOUS
<1>4. PICK m4 : m4 = Do(m3, c)
  OBVIOUS
<1>5. DoAll(m, ReloadThen) = m4
  <2>1. ReloadThen = <<a, a, b, c>>
    BY DEF ReloadThen
  <2> HIDE DEF a, b, c
  <2> QED
    BY <1>1, <1>2, <1>3, <1>4, <2>1, DoAll4
<1>6. /\ 15 = 16 - 1 /\ 14 = 15 - 1 /\ 13 = 14 - 1 /\ 12 = 13 - 1
      /\ {12, 13, 14, 15, 16} \subseteq Depths /\ \A d \in {13, 14, 15, 16} : d > 0
  BY DEF Depths
<1>7. /\ {"EAX", "ECX", "EDX"} \subseteq Regs \ {"ESP", "EBP"}
      /\ "EAX" # "ECX" /\ "EAX" # "EDX" /\ "ECX" # "EDX"
  BY DEF Regs
<1>8. m \in Machine
  BY DEF Framed
<1>9. Moved(m, m1, 15, {"EAX"}, {})
  BY <1>1, <1>6, <1>7, <1>8, PopAt
<1>10. m1 \in Machine /\ m1.r["ESP"] = Slot(15) /\ m1.mem[Slot(15)] = m.mem[Slot(15)]
  BY <1>6, <1>9 DEF Moved
<1>11. Moved(m1, m2, 14, {"EAX"}, {}) /\ m2.r["EAX"] = m1.mem[Slot(15)]
  BY <1>2, <1>6, <1>7, <1>10, PopAt
<1>12. m2 \in Machine /\ m2.r["ESP"] = Slot(14) /\ m2.mem[Slot(14)] = m.mem[Slot(14)]
  BY <1>6, <1>9, <1>11 DEF Moved
<1>13. Moved(m2, m3, 13, {"EDX"}, {}) /\ m3.r["EDX"] = m2.mem[Slot(14)]
  BY <1>3, <1>6, <1>7, <1>12, PopAt
<1>14. m3 \in Machine /\ m3.r["ESP"] = Slot(13) /\ m3.mem[Slot(13)] = m.mem[Slot(13)]
  BY <1>6, <1>9, <1>11, <1>13 DEF Moved
<1>15. Moved(m3, m4, 12, {"ECX"}, {}) /\ m4.r["ECX"] = m3.mem[Slot(13)]
  BY <1>4, <1>6, <1>7, <1>14, PopAt
<1>16. m4.r["EAX"] = m.mem[Slot(15)] /\ m4.r["EDX"] = m.mem[Slot(14)] /\ m4.r["ECX"] = m.mem[Slot(13)]
  <2>1. m2.r["EAX"] = m.mem[Slot(15)] /\ m3.r["EDX"] = m.mem[Slot(14)]
    BY <1>10, <1>11, <1>12, <1>13
  <2>2. m3.r["EAX"] = m2.r["EAX"]
    BY <1>7, <1>13 DEF Moved
  <2>3. m4.r["EAX"] = m3.r["EAX"] /\ m4.r["EDX"] = m3.r["EDX"]
    BY <1>7, <1>15 DEF Moved
  <2> QED
    BY <1>14, <1>15, <2>1, <2>2, <2>3
<1>17. Moved(m, m2, 14, {"EAX"}, {}) /\ Moved(m2, m4, 12, {"EDX", "ECX"}, {})
  BY <1>9, <1>11, <1>13, <1>15 DEF Moved
<1>18. Framed(m4)
  <2>1. "EBP" \notin {"EAX"} /\ "EBP" \notin {"EDX", "ECX"} /\ {} \subseteq 6 .. 20
    OBVIOUS
  <2>2. Framed(m2)
    BY <1>17, <2>1, FramedMoved
  <2> QED
    BY <1>17, <2>1, <2>2, FramedMoved
<1>19. \A q \in General \ {"EAX", "ECX", "EDX"} : m4.r[q] = m.r[q]
  BY <1>17, RegsAre DEF Moved
<1> QED
  BY <1>5, <1>16, <1>17, <1>18, <1>19 DEF Moved

\* The stub of a jump to a constant place overwrites the call to it, and goes there.
LEMMA Load0cPatches ==
  ASSUME NEW m, Framed(m), m.r["ESP"] = Slot(16), NEW site \in Nat, m.mem[Slot(13)] = site,
         5 <= site, site < Modulus, NEW to \in Nat, m.r["EAX"] = to
  PROVE  \E n : /\ n = DoAll(m, co_load_0cThen) /\ Kept(n) /\ n.r["ESP"] = Slot(12)
                /\ n.eip = site - 5
                /\ n.patch = [at |-> site - 5, jump |-> Ins("jmp", Long(to - site), 5)]
<1> DEFINE a == Pop(12)
           b == <<"popr", "EDX">>
           c == <<"subrr", "EAX", "EDX">>
           d == Immediate("EDX", e_subri(FALSE, 5))
           e == <<"patch">>
           f == <<"jmpr", "EDX">>
<1>1. PICK m1 : m1 = Do(m, a)
  OBVIOUS
<1>2. PICK m2 : m2 = Do(m1, b)
  OBVIOUS
<1>3. PICK m3 : m3 = Do(m2, c)
  OBVIOUS
<1>4. PICK m4 : m4 = Do(m3, d)
  OBVIOUS
<1>5. PICK m5 : m5 = Do(m4, e)
  OBVIOUS
<1>6. PICK m6 : m6 = Do(m5, f)
  OBVIOUS
<1>7. DoAll(m, co_load_0cThen) = m6
  <2>1. co_load_0cThen = <<a, b, c, d, e, f>>
    BY DEF co_load_0cThen
  <2> HIDE DEF a, b, c, d, e, f
  <2> QED
    BY <1>1, <1>2, <1>3, <1>4, <1>5, <1>6, <2>1, DoSix
<1>8. {"EAX", "EDX"} \subseteq Regs \ {"ESP", "EBP"} /\ "EAX" # "EDX"
  BY DEF Regs
<1>9. m \in Machine
  BY DEF Framed
<1>10. Moved(m, m1, 13, {}, {})
  <2>1. 16 \in Depths /\ 3 \in 1 .. 4 /\ 3 <= 16 /\ 4 * 3 = 12 /\ 16 - 3 = 13
    BY DEF Depths
  <2>2. Moved(m, Do(m, Pop(4 * 3)), 16 - 3, {}, {})
    BY <1>9, <2>1, DropIs
  <2> QED
    BY <1>1, <2>1, <2>2
<1>11. m1 \in Machine /\ m1.r["ESP"] = Slot(13) /\ m1.mem[Slot(13)] = site /\ m1.r["EAX"] = to
  <2>1. 13 \in Depths
    BY DEF Depths
  <2> QED
    BY <1>8, <1>10, <2>1 DEF Moved
<1>12. Moved(m1, m2, 12, {"EDX"}, {}) /\ m2.r["EDX"] = site
  <2>1. 13 \in Depths /\ 13 > 0 /\ 12 = 13 - 1
    BY DEF Depths
  <2> QED
    BY <1>2, <1>8, <1>11, <2>1, PopAt
<1>13. m2 \in Machine /\ m2.r["ESP"] = Slot(12) /\ m2.r["EAX"] = to
  BY <1>8, <1>11, <1>12 DEF Moved
<1>14. IsGiven(m2, m3, "EAX", Long(to - site))
  <2>1. IsGiven(m2, Do(m2, c), "EAX", Long(m2.r["EAX"] - m2.r["EDX"]))
    BY <1>8, <1>13, SubIs
  <2> QED
    BY <1>3, <1>12, <1>13, <2>1
<1>15. m3 \in Machine /\ m3.r["EDX"] = site /\ m3.r["EAX"] = Long(to - site)
  BY <1>8, <1>12, <1>14 DEF IsGiven
<1>16. IsGiven(m3, m4, "EDX", site - 5)
  <2>1. ExecAll(site, e_subri(FALSE, 5)) = site - 5
    <3>1. 5 \in {5, 8, 28}
      OBVIOUS
    <3> QED
      BY <3>1, EspSubtracted
  <2>2. m3.r["EDX"] = site
    BY <1>15
  <2>3. ExecAll(m3.r["EDX"], e_subri(FALSE, 5)) = site - 5
    BY <2>1, <2>2
  <2>4. site - 5 \in Nat
    OBVIOUS
  <2> QED
    BY <1>4, <1>8, <1>15, <2>3, <2>4, ImmIs
<1>17. m4 \in Machine /\ m4.r["EDX"] = site - 5 /\ m4.r["EAX"] = Long(to - site)
  BY <1>8, <1>15, <1>16 DEF IsGiven
<1>18. /\ m5 \in Machine /\ m5.patch = [at |-> m4.r["EDX"], jump |-> Ins("jmp", m4.r["EAX"], 5)]
       /\ m5.r = m4.r /\ m5.mem = m4.mem
  BY <1>5, <1>17, PatchIs
<1>19. m6 \in Machine /\ m6.eip = m5.r["EDX"] /\ m6.r = m5.r /\ m6.mem = m5.mem /\ m6.patch = m5.patch
  BY <1>6, <1>8, <1>18, GoIs
<1>20. m6.eip = site - 5 /\ m6.patch = [at |-> site - 5, jump |-> Ins("jmp", Long(to - site), 5)]
  BY <1>17, <1>18, <1>19
<1>21. Framed(m2)
  <2>1. "EBP" \notin {} /\ "EBP" \notin {"EDX"} /\ {} \subseteq 6 .. 20
    OBVIOUS
  <2>2. Framed(m1)
    BY <1>10, <2>1, FramedMoved
  <2> QED
    BY <1>12, <2>1, <2>2, FramedMoved
<1>22. m6.mem = m2.mem /\ m6.r["ESP"] = Slot(12) /\ m6.r["EBP"] = m2.r["EBP"]
  BY <1>8, <1>13, <1>14, <1>16, <1>18, <1>19, RegsAre DEF IsGiven
<1>23. Kept(m6)
  BY <1>19, <1>21, <1>22 DEF Framed, Kept
<1> QED
  BY <1>7, <1>20, <1>22, <1>23

\* Five instructions.
LEMMA DoFive ==
  ASSUME NEW m, NEW a, NEW b, NEW c, NEW d, NEW e
  PROVE  DoAll(m, <<a, b, c, d, e>>) = Do(Do(Do(Do(Do(m, a), b), c), d), e)
<1> DEFINE s == <<a, b, c>>
           t == <<d, e>>
           u == <<a, b, c, d, e>>
<1>1. Len(s) = 3 /\ Len(t) = 2 /\ Len(u) = 5
  OBVIOUS
<1>2. /\ u[1] = s[1] /\ u[2] = s[2] /\ u[3] = s[3]
      /\ u[4] = t[1] /\ u[5] = t[2]
  OBVIOUS
<1>3. DoAll(m, s) = Do(Do(Do(m, a), b), c) /\ \A n : DoAll(n, t) = Do(Do(n, d), e)
  BY DoAll2, DoAll3
<1> HIDE DEF s, t, u
<1>4. \A k \in 1 .. Len(s) : u[k] = s[k]
  BY <1>1, <1>2
<1>5. \A k \in 1 .. Len(t) : u[Len(s) + k] = t[k]
  <2>1. ASSUME NEW k \in 1 .. 2 PROVE u[3 + k] = t[k]
    <3>1. CASE k = 1
      <4>1. 3 + k = 4
        BY <3>1
      <4> QED
        BY <1>2, <3>1, <4>1
    <3>2. CASE k = 2
      <4>1. 3 + k = 5
        BY <3>2
      <4> QED
        BY <1>2, <3>2, <4>1
    <3> QED
      BY <3>1, <3>2
  <2> QED
    BY <1>1, <2>1
<1>6. Len(s) \in Nat /\ Len(t) \in Nat /\ Len(u) = Len(s) + Len(t)
  BY <1>1
<1>7. DoAll(m, u) = DoAll(DoAll(m, s), t)
  BY <1>4, <1>5, <1>6, DoAllParts
<1>8. DoAll(m, u) = Do(Do(Do(Do(Do(m, a), b), c), d), e)
  BY <1>3, <1>7
<1> QED
  BY <1>8 DEF u

\* A halt leaves the frame behind.
LEMMA HaltIs ==
  ASSUME NEW m, Framed(m), m.r["ESP"] = Slot(12)
  PROVE  \E n : /\ n = DoAll(m, co_halt) /\ n \in Machine /\ n.eip = The["umc_start"]
                /\ n.r["EAX"] = 0 /\ n.r["ESP"] = Slot(0) /\ n.r["EBP"] = The["EBP"]
<1> DEFINE a == Immediate("EAX", e_movri(0))
           b == Pop(12)
           c == <<"popr", "EDI">>
           d == <<"popr", "ESI">>
           e == <<"popr", "EBX">>
           f == <<"movrr", "ESP", "EBP">>
           g == <<"popr", "EBP">>
           h == <<"ret">>
<1>1. PICK m1 : m1 = Do(m, a)
  OBVIOUS
<1>2. PICK m2 : m2 = Do(m1, b)
  OBVIOUS
<1>3. PICK m3 : m3 = Do(m2, c)
  OBVIOUS
<1>4. PICK m4 : m4 = Do(m3, d)
  OBVIOUS
<1>5. PICK m5 : m5 = Do(m4, e)
  OBVIOUS
<1>6. PICK m6 : m6 = Do(m5, f)
  OBVIOUS
<1>7. PICK m7 : m7 = Do(m6, g)
  OBVIOUS
<1>8. PICK m8 : m8 = Do(m7, h)
  OBVIOUS
<1>9. DoAll(m, co_halt) = m8
  <2> DEFINE first == <<a, b, c, d, e>>
             then == <<f, g>>
             last == <<h>>
             S == {a, b, c, d, e, f, g, h}
  <2>1. co_halt = (first \o then) \o last
    BY DEF co_halt, e_leave
  <2> HIDE DEF a, b, c, d, e, f, g, h
  <2>2. first \in Seq(S) /\ then \in Seq(S) /\ last \in Seq(S)
    OBVIOUS
  <2>3. DoAll(m, first) = m5 /\ DoAll(m5, then) = m7 /\ DoAll(m7, last) = m8
    BY <1>1, <1>2, <1>3, <1>4, <1>5, <1>6, <1>7, <1>8, DoFive, DoAll2, DoAll1
  <2> HIDE DEF first, then, last, S
  <2>4. PICK both \in Seq(S) : both = first \o then
    BY <2>2, ConcatProperties
  <2>5. DoAll(m, both \o last) = DoAll(DoAll(m, both), last)
    BY <2>2, DoThen
  <2>6. DoAll(m, first \o then) = DoAll(DoAll(m, first), then)
    BY <2>2, DoThen
  <2> QED
    BY <2>1, <2>3, <2>4, <2>5, <2>6
<1>10. {"EAX", "EBX", "ESI", "EDI"} \subseteq Regs \ {"ESP", "EBP"} /\ "EAX" \notin {"EBX", "ESI", "EDI"}
  BY DEF Regs
<1>11. m \in Machine
  BY DEF Framed
<1>12. IsGiven(m, m1, "EAX", 0)
  <2>1. PICK x : x = m.r["EAX"]
    OBVIOUS
  <2>2. e_movri(0) = <<Ins("mov", 0, 2)>>
    BY DEF e_movri, Clear
  <2>3. ExecAll(x, <<Ins("mov", 0, 2)>>) = Exec(x, Ins("mov", 0, 2))
    BY ExecAll1
  <2>4. Exec(x, Ins("mov", 0, 2)) = 0
    BY ExecIs
  <2>5. ExecAll(m.r["EAX"], e_movri(0)) = 0
    BY <2>1, <2>2, <2>3, <2>4
  <2>6. 0 \in Nat /\ "EAX" \in Regs
    BY <1>10
  <2> QED
    BY <1>1, <1>11, <2>5, <2>6, ImmIs
<1>13. m1 \in Machine /\ m1.r["ESP"] = Slot(12) /\ m1.r["EAX"] = 0
  BY <1>10, <1>12, RegsAre DEF IsGiven
<1>14. Moved(m1, m2, 9, {}, {})
  <2>1. 12 \in Depths /\ 3 \in 1 .. 4 /\ 3 <= 12 /\ 4 * 3 = 12 /\ 12 - 3 = 9
    BY DEF Depths
  <2>2. Moved(m1, Do(m1, Pop(4 * 3)), 12 - 3, {}, {})
    BY <1>13, <2>1, DropIs
  <2> QED
    BY <1>2, <2>1, <2>2
<1>15. {7, 8, 9} \subseteq Depths /\ 8 = 9 - 1 /\ 7 = 8 - 1 /\ 6 = 7 - 1 /\ \A k \in {7, 8, 9} : k > 0
  BY DEF Depths
<1>16. m2 \in Machine /\ m2.r["ESP"] = Slot(9)
  BY <1>14 DEF Moved
<1>17. Moved(m2, m3, 8, {"EDI"}, {})
  BY <1>3, <1>10, <1>15, <1>16, PopAt
<1>18. m3 \in Machine /\ m3.r["ESP"] = Slot(8)
  BY <1>17 DEF Moved
<1>19. Moved(m3, m4, 7, {"ESI"}, {})
  BY <1>4, <1>10, <1>15, <1>18, PopAt
<1>20. m4 \in Machine /\ m4.r["ESP"] = Slot(7)
  BY <1>19 DEF Moved
<1>21. Moved(m4, m5, 6, {"EBX"}, {})
  BY <1>5, <1>10, <1>15, <1>20, PopAt
<1>22. /\ m5 \in Machine /\ m5.r["EBP"] = Slot(2) /\ m5.r["EAX"] = 0
       /\ m5.mem[Slot(1)] = The["umc_start"] /\ m5.mem[Slot(2)] = The["EBP"]
  <2>1. Moved(m1, m3, 8, {"EDI"}, {}) /\ Moved(m3, m5, 6, {"ESI", "EBX"}, {})
    BY <1>14, <1>17, <1>19, <1>21 DEF Moved
  <2>2. m1.r["EBP"] = Slot(2) /\ m1.mem = m.mem
    BY <1>12, RegsAre DEF Framed, IsGiven
  <2>3. m.mem[Slot(1)] = The["umc_start"] /\ m.mem[Slot(2)] = The["EBP"]
    <3>1. 1 \in 1 .. 5 /\ 2 \in 1 .. 5 /\ Saved[1] = "umc_start" /\ Saved[2] = "EBP"
      BY DEF Saved
    <3> QED
      BY <3>1 DEF Framed
  <2>4. m3.r["EBP"] = Slot(2) /\ m3.r["EAX"] = 0
    BY <1>10, <1>13, <2>1, <2>2, RegsAre DEF Moved
  <2>5. {1, 2} \subseteq Depths
    BY DEF Depths
  <2> QED
    BY <1>10, <2>1, <2>2, <2>3, <2>4, <2>5, RegsAre DEF Moved
<1>23. IsGiven(m5, m6, "ESP", Slot(2))
  <2>1. IsGiven(m5, Do(m5, f), "ESP", m5.r["EBP"])
    BY <1>22, RegsAre, MoveIs
  <2> QED
    BY <1>6, <1>22, <2>1
<1>24. m6 \in Machine /\ m6.r["ESP"] = Slot(2) /\ m6.mem = m5.mem /\ m6.r["EAX"] = 0
  BY <1>10, <1>22, <1>23 DEF IsGiven
<1>25. Moved(m6, m7, 1, {"EBP"}, {}) /\ m7.r["EBP"] = The["EBP"]
  <2>1. 2 \in Depths /\ 2 > 0 /\ 1 = 2 - 1
    BY DEF Depths
  <2> QED
    BY <1>7, <1>22, <1>24, <2>1, RegsAre, PopAt
<1>26. /\ m7 \in Machine /\ m7.r["ESP"] = Slot(1) /\ m7.r["EAX"] = 0
       /\ m7.mem[Slot(1)] = The["umc_start"]
  <2>1. 1 \in Depths
    BY DEF Depths
  <2> QED
    BY <1>10, <1>22, <1>24, <1>25, <2>1, RegsAre DEF Moved
<1>27. PICK s, y : s = Shrunk(m7) /\ y = Popped(m7)
  OBVIOUS
<1>28. IsGiven(m7, s, "ESP", Slot(0)) /\ y = The["umc_start"] /\ y \in Nat
  <2>1. 1 \in Depths /\ 1 > 0 /\ 1 - 1 = 0
    BY DEF Depths
  <2>2. IsGiven(m7, Shrunk(m7), "ESP", Slot(1 - 1)) /\ Popped(m7) = m7.mem[Slot(1)] /\ Popped(m7) \in Nat
    BY <1>26, <2>1, ShrunkIs
  <2> QED
    BY <1>26, <1>27, <2>1, <2>2
<1>29. s \in Machine /\ s.r["ESP"] = Slot(0) /\ s.r["EAX"] = 0 /\ s.r["EBP"] = The["EBP"]
  BY <1>10, <1>25, <1>26, <1>28, RegsAre DEF IsGiven
<1>30. PICK n : /\ n = [s EXCEPT !.eip = y] /\ n \in Machine /\ n.eip = y
                /\ n.r = s.r /\ n.mem = s.mem /\ n.patch = s.patch
  BY <1>28, <1>29, JumpIs
<1>31. m8 = n
  <2>1. h[1] = "ret"
    OBVIOUS
  <2> HIDE DEF h
  <2>2. Do(m7, h) = [Shrunk(m7) EXCEPT !.eip = Popped(m7)]
    BY <2>1, DoRet
  <2> QED
    BY <1>8, <1>27, <1>30, <2>2
<1> QED
  BY <1>9, <1>28, <1>29, <1>30, <1>31, ZenonT(60)

\* A call that returns leaves the frame as it was, goes where it should, and puts the
\* registers back if it is the one out of line for more memory.
LEMMA ReturnIs ==
  ASSUME NEW m, NEW c, InCall(m, c), c.stub \in StubNames, c.ret \in Nat, c.site \in Nat, c.to \in Nat,
         c.stub = "input" => c.to = 0, c.stub \in {"load_0", "load_0c"} => c.to # 0,
         c.stub = "load_0c" => 5 <= c.site /\ c.site < Modulus
  PROVE  \E n : /\ n = DoAll(Returned(m, c.stub, c.to), Stubs[c.stub].after)
                /\ Kept(n) /\ n.r["ESP"] = Slot(12)
                /\ c.stub # "load_0c" =>
                     /\ n.patch = NoPatch
                     /\ n.eip = IF c.to # 0 /\ (TakesRtnp(c.stub) \/ c.stub = "load_0") THEN c.to ELSE c.ret
                /\ c.stub = "load_0c" =>
                     /\ n.eip = c.site - 5
                     /\ n.patch = [at |-> c.site - 5, jump |-> Ins("jmp", Long(c.to - c.site), 5)]
                /\ c.stub = "reload" => \A q \in General : n.r[q] = c.r[q]
<1>1. PICK s, to, d : s = c.stub /\ to = c.to /\ d = Depth(s)
  OBVIOUS
<1>2. PICK o : o = Returned(m, s, to)
  OBVIOUS
<1>3. /\ Framed(o) /\ o.r["ESP"] = Slot(d - 1)
      /\ o.eip = IF to # 0 /\ TakesRtnp(s) THEN to ELSE c.ret
      /\ to # 0 => o.r["EAX"] = to
      /\ \A q \in General \ {"EAX", "ECX", "EDX"} : o.r[q] = m.r[q]
      /\ s = "load_0c" => o.mem[Slot(13)] = c.site
      /\ s = "reload" => \A k \in {13, 14, 15} : o.mem[Slot(k)] = m.mem[Slot(k)]
  BY <1>1, <1>2, ReturnedIs
<1>4. o \in Machine
  BY <1>3 DEF Framed
<1>5. CASE s = "load_0c"
  <2>1. o.r["ESP"] = Slot(16) /\ o.r["EAX"] = to /\ Stubs[s].after = co_load_0cThen
    <3>1. d - 1 = 16
      BY <1>1, <1>5 DEF Depth
    <3> QED
      BY <1>1, <1>3, <1>5, <3>1, Stub_load_0c
  <2>2. PICK site \in Nat : site = c.site /\ 5 <= site /\ site < Modulus
    BY <1>1, <1>5
  <2>3. PICK n : /\ n = DoAll(o, co_load_0cThen) /\ Kept(n) /\ n.r["ESP"] = Slot(12)
                 /\ n.eip = site - 5
                 /\ n.patch = [at |-> site - 5, jump |-> Ins("jmp", Long(to - site), 5)]
    <3>1. o.mem[Slot(13)] = site /\ to \in Nat
      BY <1>1, <1>3, <1>5, <2>2
    <3> QED
      BY <1>3, <2>1, <2>2, <3>1, Load0cPatches
  <2> QED
    BY <1>1, <1>2, <1>5, <2>1, <2>2, <2>3
<1>6. CASE s = "reload"
  <2>1. o.r["ESP"] = Slot(16) /\ Stubs[s].after = ReloadThen
    <3>1. d - 1 = 16
      BY <1>1, <1>6 DEF Depth
    <3> QED
      BY <1>3, <1>6, <3>1, Stub_reload
  <2>2. PICK n : /\ n = DoAll(o, ReloadThen) /\ Framed(n) /\ n.r["ESP"] = Slot(12) /\ n.eip = o.eip
                 /\ n.r["ECX"] = o.mem[Slot(13)] /\ n.r["EDX"] = o.mem[Slot(14)]
                 /\ n.r["EAX"] = o.mem[Slot(15)]
                 /\ \A q \in General \ {"EAX", "ECX", "EDX"} : n.r[q] = o.r[q]
    BY <1>3, <2>1, ReloadRestores
  <2>3. \A q \in General : n.r[q] = c.r[q]
    <3>1. /\ m.mem[Slot(13)] = c.r["ECX"] /\ m.mem[Slot(14)] = c.r["EDX"]
          /\ m.mem[Slot(15)] = c.r["EAX"] /\ \A q \in General : m.r[q] = c.r[q]
      BY <1>1, <1>6 DEF InCall
    <3>2. n.r["ECX"] = c.r["ECX"] /\ n.r["EDX"] = c.r["EDX"] /\ n.r["EAX"] = c.r["EAX"]
      BY <1>3, <1>6, <2>2, <3>1
    <3> QED
      BY <1>3, <2>2, <3>1, <3>2
  <2>4. n.eip = c.ret /\ Kept(n) /\ n.patch = NoPatch
    BY <1>3, <1>6, <2>2, KeptIs DEF TakesRtnp
  <2>5. ~(to # 0 /\ (TakesRtnp(s) \/ s = "load_0"))
    BY <1>6 DEF TakesRtnp
  <2>6. n.eip = IF to # 0 /\ (TakesRtnp(s) \/ s = "load_0") THEN to ELSE c.ret
    BY <2>4, <2>5
  <2>7. n = DoAll(Returned(m, c.stub, c.to), Stubs[c.stub].after)
    BY <1>1, <1>2, <2>1, <2>2
  <2>8. n.r["ESP"] = Slot(12) /\ s # "load_0c"
    BY <1>6, <2>2
  <2> QED
    BY <1>1, <2>3, <2>4, <2>6, <2>7, <2>8
<1>7. CASE s = "load_0"
  <2>1. o.r["ESP"] = Slot(12) /\ to # 0 /\ Stubs[s].after = << <<"jmpr", "EAX">> >>
    <3>1. d - 1 = 12
      BY <1>1, <1>7 DEF Depth
    <3> QED
      BY <1>1, <1>3, <1>7, <3>1, Stub_load_0 DEF co_load_0Then
  <2>2. PICK n : n = Do(o, <<"jmpr", "EAX">>)
    OBVIOUS
  <2>3. "EAX" \in Regs
    BY DEF Regs
  <2>4. n \in Machine /\ n.eip = o.r["EAX"] /\ n.r = o.r /\ n.mem = o.mem /\ n.patch = o.patch
    BY <1>4, <2>2, <2>3, GoIs
  <2>5. Kept(n) /\ n.patch = NoPatch /\ n.eip = to /\ n.r["ESP"] = Slot(12)
    BY <1>3, <2>1, <2>4 DEF Framed, Kept
  <2>6. DoAll(o, Stubs[s].after) = n
    BY <2>1, <2>2, DoAll1
  <2> QED
    BY <1>1, <1>2, <1>7, <2>1, <2>5, <2>6
<1>8. CASE s \notin {"load_0c", "reload", "load_0"}
  <2>1. o.r["ESP"] = Slot(12)
    <3>1. d - 1 = 12
      BY <1>1, <1>8 DEF Depth
    <3> QED
      BY <1>3, <3>1
  <2>2. Stubs[s].after = <<>>
    <3>1. CASE s \in {"postwrite", "fltnoex", "loadguard", "badness"}
      BY <3>1, Stub_postwrite, Stub_fltnoex, Stub_loadguard, Stub_badness
    <3>2. CASE s \in {"alloc", "output", "input"}
      BY <3>2, Stub_alloc, Stub_output, Stub_input
    <3> QED
      BY <1>1, <1>8, <3>1, <3>2 DEF StubNames
  <2>3. DoAll(o, Stubs[s].after) = o
    BY <2>2, DoAll0
  <2>4. Kept(o) /\ o.patch = NoPatch
    BY <1>3, KeptIs
  <2> QED
    BY <1>1, <1>2, <1>3, <1>8, <2>1, <2>3, <2>4
<1> QED
  BY <1>5, <1>6, <1>7, <1>8

-----------------------------------------------------------------------------
(* The invariant of the calls *)

\* The functions called that have a block to go to.
MayGo == {"postwrite", "fltnoex", "loadguard", "load_0", "load_0c"}

IsCall(c) == c = Call(c.stub, c.live, c.ret, c.site, c.to, c.r)

CallTypeOK ==
  /\ call.stub \in StubNames \cup {"none", "start", "halt"} /\ call.live \in BOOLEAN
  /\ call.ret \in Nat /\ call.site \in Nat /\ call.to \in Nat
  /\ call.stub \in StubNames /\ call.to # 0 => call.stub \in MayGo
  /\ call.stub \in {"start", "load_0", "load_0c"} /\ ~call.live => call.to # 0
  /\ call.stub = "start" => call.to # 0
  /\ IsCall(call)

\* What a call has left, and where control goes from there.
After(m, c) ==
  /\ Kept(m) /\ m.r["ESP"] = Slot(12)
  /\ c.stub # "load_0c" =>
       /\ m.patch = NoPatch
       /\ m.eip = IF c.to # 0 THEN c.to ELSE c.ret
  /\ c.stub = "load_0c" =>
       /\ m.eip = c.site - 5
       /\ m.patch = [at |-> c.site - 5, jump |-> Ins("jmp", Long(c.to - c.site), 5)]
  /\ c.stub = "reload" => \A q \in General : m.r[q] = c.r[q]

Halted(m) ==
  /\ m.eip = The["umc_start"] /\ m.r["EAX"] = 0
  /\ m.r["ESP"] = Slot(0) /\ m.r["EBP"] = The["EBP"]

\* What the processor is, by the call.
CpuIs ==
  /\ call.stub \in {"none", "start"} /\ (call.stub = "start" => call.live) => cpu = Started
  /\ call.stub \in StubNames \cup {"start"} /\ ~call.live => After(cpu, call)
  /\ call.stub \in StubNames /\ call.live => InCall(cpu, call)
  /\ call.stub = "halt" => ~call.live /\ Halted(cpu)

\* The addresses of a call are of code that is mapped, until there is another world.
CallHeld ==
  mode \in Up =>
    /\ call.stub # "none"
    /\ call.to # 0 => Mapped(call.to)
    /\ call.stub \in StubNames /\ call.to = 0 => Mapped(call.ret)
    /\ call.stub = "load_0c" => call.site >= 5 /\ Mapped(call.site - 5)

OffIsStarted == mode = "off" => call = NoCall

CallInv == CallTypeOK /\ CpuIs /\ CallHeld /\ OffIsStarted

-----------------------------------------------------------------------------
(* Addresses of code *)

\* An address of code is not 0, and a jump after it is below the modulus.
LEMMA MappedIs ==
  ASSUME mapped \subseteq Bases, NEW a \in Nat, Mapped(a)
  PROVE  a # 0 /\ a + 5 < Modulus
<1>1. PICK b \in mapped : a \in b .. b + COD_SEG - 1
  BY DEF Mapped
<1>2. b \in Nat /\ b > 0 /\ b + COD_SEG + 5 <= Modulus
  BY CodeSegAssumption, ProcessAssumption
<1>3. COD_SEG \in Nat /\ Modulus \in Nat
  BY LengthsAre, ModulusType
<1> QED
  BY <1>1, <1>2, <1>3

\* An address stays one of code while more is mapped.
LEMMA MoreMapped ==
  ASSUME mapped \subseteq mapped'
  PROVE  \A a : Mapped(a) => Mapped(a)'
BY DEF Mapped

\* What has been written lies in its segment, with room for a link.
LEMMA WrittenAre ==
  ASSUME SegInv, mode \in Up, NEW c \in Chains, NEW w \in Written(cod[c])
  PROVE  w[1] \in mapped /\ w[1] \in Nat /\ w[1] > 0 /\ w[2] \in Int /\ w[2] + 5 <= w[1] + COD_SEG
<1>1. PICK s : s = cod[c] /\ s \in Segment /\ OlderFit(s) /\ Fits(s, LinkLen) /\ Held(s) \subseteq mapped
  <2>1. c = "inl" \/ c = "outl"
    BY DEF Chains
  <2> QED
    BY <2>1, UpHas
<1>2. LinkLen = 5 /\ COD_SEG \in Nat
  BY ProcessAssumption, LengthsAre
<1>3. Held(s) \subseteq mapped
  BY <1>1
<1>4. w = <<s.base, s.next>> \/ \E k \in DOMAIN s.cdr : w = <<s.cdr[k].base, s.cdr[k].next - LinkLen>>
  BY <1>1 DEF Written
<1>5. \E x, y : w = <<x, y>> /\ x \in Held(s) /\ x \in Nat /\ y \in Int /\ y + 5 <= x + COD_SEG
  <2>1. CASE w = <<s.base, s.next>>
    <3>1. s.base \in Held(s) /\ s.base \in Nat /\ s.next \in Nat /\ s.next + 5 <= s.base + COD_SEG
      BY <1>1, <1>2 DEF Held, Fits, Segment
    <3> QED
      BY <2>1, <3>1
  <2>2. ASSUME NEW k \in DOMAIN s.cdr, w = <<s.cdr[k].base, s.cdr[k].next - LinkLen>>
        PROVE  \E x, y : w = <<x, y>> /\ x \in Held(s) /\ x \in Nat /\ y \in Int /\ y + 5 <= x + COD_SEG
    <3>1. PICK o \in Older : o = s.cdr[k]
      BY <1>1, DomainIsRange DEF Segment
    <3>2. o.base \in Held(s) /\ o.next <= o.base + COD_SEG
      BY <1>1, <3>1 DEF Held, OlderFit
    <3>3. o.base \in Nat /\ o.next - 5 \in Int /\ (o.next - 5) + 5 <= o.base + COD_SEG
      BY <1>2, <3>2 DEF Older
    <3>4. w = <<o.base, o.next - 5>>
      BY <1>2, <2>2, <3>1
    <3> QED
      BY <3>2, <3>3, <3>4
  <2> QED
    BY <1>4, <2>1, <2>2
<1>6. mapped \subseteq Bases
  BY DEF SegInv, SegTypeOK
<1>7. PICK x, y : w = <<x, y>> /\ x \in Held(s) /\ x \in Nat /\ y \in Int /\ y + 5 <= x + COD_SEG
  BY <1>5
<1>8. x \in mapped /\ x > 0
  BY <1>3, <1>6, <1>7, ProcessAssumption
<1> QED
  BY <1>7, <1>8

\* A call returns to code, and so does the call that a stub has been called by.
LEMMA ReturnsAre ==
  ASSUME SegInv, mode \in Up, NEW c \in Chains, NEW a \in Returns(c)
  PROVE  a \in Nat /\ a >= 5 /\ Mapped(a) /\ a - 5 \in Nat /\ Mapped(a - 5)
<1>1. PICK w \in Written(cod[c]) :
        a = w[2] /\ w[1] + (IF c = "inl" THEN EnterLen ELSE 0) + CallLen <= w[2]
  BY DEF Returns
<1>2. w[1] \in mapped /\ w[1] \in Nat /\ w[1] > 0 /\ w[2] \in Int /\ w[2] + 5 <= w[1] + COD_SEG
  BY WrittenAre
<1>3. PICK x, y : x = w[1] /\ y = w[2]
  OBVIOUS
<1>4. x + 5 <= y
  <2>1. PICK e \in Nat : e = IF c = "inl" THEN EnterLen ELSE 0
    BY LengthsAre
  <2>2. x + e + 5 <= y
    BY <1>1, <1>3, <2>1 DEF CallLen
  <2> QED
    BY <1>2, <1>3, <2>1, <2>2
<1>5. a = y /\ x \in mapped /\ x \in Nat /\ y \in Int /\ y + 5 <= x + COD_SEG /\ COD_SEG \in Nat
  BY <1>1, <1>2, <1>3, LengthsAre
<1>6. a \in x .. x + COD_SEG - 1 /\ a - 5 \in x .. x + COD_SEG - 1 /\ a \in Nat /\ a >= 5 /\ a - 5 \in Nat
  BY <1>4, <1>5
<1> QED
  BY <1>5, <1>6 DEF Mapped

\* So does a block in the table.
LEMMA BeginningsAre ==
  ASSUME SegInv, mode \in Up, NEW a \in Beginnings(cod.inl)
  PROVE  a \in Nat /\ a # 0 /\ Mapped(a)
<1>1. PICK w \in Written(cod["inl"]) : a = w[1] + EnterLen /\ w[1] + EnterLen < w[2]
  BY DEF Beginnings
<1>2. w[1] \in mapped /\ w[1] \in Nat /\ w[1] > 0 /\ w[2] \in Int /\ w[2] + 5 <= w[1] + COD_SEG
  BY WrittenAre DEF Chains
<1>3. PICK x, y : x = w[1] /\ y = w[2]
  OBVIOUS
<1>4. /\ a = x + EnterLen /\ a < y /\ x \in mapped /\ x \in Nat /\ x > 0 /\ y \in Int
      /\ y + 5 <= x + COD_SEG /\ COD_SEG \in Nat /\ EnterLen \in Nat
  BY <1>1, <1>2, <1>3, LengthsAre
<1>5. a \in x .. x + COD_SEG - 1 /\ a \in Nat /\ a # 0
  BY <1>4
<1> QED
  BY <1>4, <1>5 DEF Mapped

\* A block made begins where there is room for it.
LEMMA NextPlace ==
  ASSUME SegInv, mode \in Up
  PROVE  cod.inl.next \in Nat /\ cod.inl.next # 0 /\ Mapped(cod.inl.next)
<1>1. PICK s : s = cod.inl /\ s \in Segment /\ Fits(s, LinkLen) /\ Held(s) \subseteq mapped
  BY UpHas
<1>2. s.base \in mapped /\ s.base \in Nat /\ s.next \in Nat
  BY <1>1 DEF Held, Segment
<1>3. s.base > 0
  BY <1>2, ProcessAssumption DEF SegInv, SegTypeOK
<1>4. LinkLen = 5 /\ COD_SEG \in Nat
  BY ProcessAssumption, LengthsAre
<1>5. s.next \in s.base .. s.base + COD_SEG - 1 /\ s.next # 0
  BY <1>1, <1>2, <1>3, <1>4 DEF Fits
<1> QED
  BY <1>1, <1>2, <1>5 DEF Mapped

\* The same of the next state.
LEMMA NextPlaceThen ==
  SegInv' /\ mode' \in Up => cod'.inl.next \in Nat /\ cod'.inl.next # 0 /\ Mapped(cod.inl.next)'
<1>1. SegInv /\ mode \in Up => cod.inl.next \in Nat /\ cod.inl.next # 0 /\ Mapped(cod.inl.next)
  BY NextPlace
<1>2. (SegInv /\ mode \in Up => cod.inl.next \in Nat /\ cod.inl.next # 0 /\ Mapped(cod.inl.next))'
  BY <1>1, PTL
<1> QED
  BY <1>2

-----------------------------------------------------------------------------
(* Every step keeps the invariant *)

\* What is made as a call is one.
LEMMA CallIsCall ==
  ASSUME NEW s, NEW live, NEW ret, NEW site, NEW to, NEW r, NEW c,
         c = Call(s, live, ret, site, to, r)
  PROVE  IsCall(c)
BY DEF IsCall, Call

\* A call that is told where to go.
LEMMA ToldIs ==
  ASSUME NEW c, IsCall(c), NEW to, NEW d, d = [c EXCEPT !.to = to]
  PROVE  /\ d.stub = c.stub /\ (d.live <=> c.live) /\ d.ret = c.ret /\ d.site = c.site /\ d.to = to
         /\ d.r = c.r /\ d.live = c.live /\ IsCall(d)
<1>1. PICK s, live, ret, site, was, r :
        /\ s = c.stub /\ live = c.live /\ ret = c.ret /\ site = c.site /\ was = c.to /\ r = c.r
  OBVIOUS
<1>2. c = [stub |-> s, live |-> live, ret |-> ret, site |-> site, to |-> was, r |-> r]
  BY <1>1 DEF IsCall, Call
<1>3. d = [stub |-> s, live |-> live, ret |-> ret, site |-> site, to |-> to, r |-> r]
  BY <1>2
<1>4. IsCall(d)
  BY <1>3, CallIsCall DEF Call
<1> QED
  BY <1>1, <1>3, <1>4

\* A call that has returned.
LEMMA DoneIs ==
  ASSUME NEW c, IsCall(c), NEW d, d = [c EXCEPT !.live = FALSE]
  PROVE  /\ d.stub = c.stub /\ d.live = FALSE /\ d.ret = c.ret /\ d.site = c.site /\ d.to = c.to
         /\ d.r = c.r /\ IsCall(d)
<1>1. PICK s, live, ret, site, to, r :
        /\ s = c.stub /\ live = c.live /\ ret = c.ret /\ site = c.site /\ to = c.to /\ r = c.r
  OBVIOUS
<1>2. c = [stub |-> s, live |-> live, ret |-> ret, site |-> site, to |-> to, r |-> r]
  BY <1>1 DEF IsCall, Call
<1>3. d = [stub |-> s, live |-> FALSE, ret |-> ret, site |-> site, to |-> to, r |-> r]
  BY <1>2
<1>4. IsCall(d)
  BY <1>3, CallIsCall DEF Call
<1> QED
  BY <1>1, <1>3, <1>4

\* Where code runs or is compiled, it is there.
LEMMA ModesAre ==
  /\ Runs => mode \in Up /\ mode # "off"
  /\ Compiling => mode \in Up /\ mode # "off"
  /\ ~ ({"off", "ended", "aborted", "spinning"} \cap Up # {})
BY DEF Runs, Compiling, Up

\* Between calls.
LEMMA InCodeIs ==
  ASSUME CallInv, InCode
  PROVE  mode \in Up /\ call.stub \in StubNames \cup {"start"} /\ ~call.live /\ After(cpu, call)
<1>1. mode \in Up /\ ~call.live /\ call.stub # "halt"
  BY ModesAre DEF InCode
<1>2. call.stub \in StubNames \cup {"start"}
  BY <1>1 DEF CallInv, CallTypeOK, CallHeld
<1> QED
  BY <1>1, <1>2 DEF CallInv, CpuIs

\* Nothing of the calls changes while more code is mapped.
LEMMA CallSame ==
  ASSUME CallInv, UNCHANGED <<cpu, call>>, mode' # "off" \/ mode = "off",
         mode' \in Up => mode \in Up /\ mapped \subseteq mapped'
  PROVE  CallInv'
<1>1. CallTypeOK' /\ CpuIs'
  BY DEF CallInv, CallTypeOK, CpuIs
<1>2. CallHeld'
  BY MoreMapped DEF CallInv, CallHeld
<1>3. OffIsStarted'
  BY DEF CallInv, OffIsStarted
<1> QED
  BY <1>1, <1>2, <1>3 DEF CallInv

\* There is no call.
LEMMA NoCallIs ==
  ASSUME call.stub = "none", call.live = FALSE, call.ret = 0, call.site = 0, call.to = 0,
         IsCall(call)
  PROVE  CallTypeOK
<1>1. call.stub \in StubNames \cup {"none", "start", "halt"}
  OBVIOUS
<1>2. call.live \in BOOLEAN
  OBVIOUS
<1>3. call.ret \in Nat /\ call.site \in Nat /\ call.to \in Nat
  OBVIOUS
<1>4. call.stub \notin {"start", "load_0", "load_0c"} /\ ~(call.to # 0)
  OBVIOUS
<1>5. call.stub \in {"start", "load_0", "load_0c"} /\ ~call.live => call.to # 0
  BY <1>4
<1>6. /\ call.stub \in StubNames /\ call.to # 0 => call.stub \in MayGo
      /\ call.stub = "start" => call.to # 0
  BY <1>4
<1> QED
  BY <1>1, <1>2, <1>3, <1>5, <1>6 DEF CallTypeOK

\* The process is gone.
LEMMA ExitCall ==
  ASSUME Exit, mode' = "ended"
  PROVE  CallInv'
<1>1. call'.stub = "none" /\ call'.live = FALSE /\ call'.ret = 0 /\ call'.site = 0 /\ call'.to = 0
  BY DEF Exit, NoCall, Call
<1>2. CallTypeOK'
  <2>1. (call.stub = "none" /\ call.live = FALSE /\ call.ret = 0 /\ call.site = 0 /\ call.to = 0
         /\ IsCall(call) => CallTypeOK)'
    BY NoCallIs, PTL
  <2>2. IsCall(call')
    BY CallIsCall DEF Exit, NoCall
  <2> QED
    BY <1>1, <2>1, <2>2
<1>3. "none" \notin StubNames
  BY DEF StubNames
<1>4. CpuIs'
  BY <1>1, <1>3 DEF CpuIs, Exit
<1>5. CallHeld' /\ OffIsStarted'
  BY ModesAre DEF CallHeld, OffIsStarted, Up
<1> QED
  BY <1>2, <1>4, <1>5 DEF CallInv

\* At first there is no call.
LEMMA CallInit ==
  ASSUME Init
  PROVE  CallInv
<1>1. /\ call = NoCall /\ call.stub = "none" /\ call.live = FALSE /\ call.ret = 0 /\ call.site = 0
      /\ call.to = 0
  BY DEF Init, NoCall, Call
<1>2. CallTypeOK
  BY <1>1, NoCallIs, CallIsCall DEF NoCall
<1>3. "none" \notin StubNames
  BY DEF StubNames
<1>4. CpuIs
  BY <1>1, <1>3 DEF CpuIs, Init
<1>5. CallHeld /\ OffIsStarted
  BY <1>1 DEF CallHeld, OffIsStarted, Init, SegInit, Up
<1> QED
  BY <1>2, <1>4, <1>5 DEF CallInv

\* Nor does one begin while the program is loaded.
LEMMA LoadCall ==
  ASSUME CallInv, Load
  PROVE  CallInv'
<1>1. UNCHANGED <<cpu, call, mode, mapped>>
  BY DEF Load, segvars
<1> QED
  BY <1>1, CallSame

\* umc_start calls the code of co_enter.
LEMMA BootCall ==
  ASSUME CallInv, SegInv', Boot
  PROVE  CallInv'
<1>1. /\ mode = "off" /\ mode' = "entered" /\ cpu' = cpu
      /\ call' = Call("start", TRUE, 0, 0, cod'.inl.next, Started.r)
  BY DEF Boot, Start
<1>2. mode' \in Up
  BY <1>1 DEF Up
<1>3. cpu' = Started
  <2>1. call = NoCall
    BY <1>1 DEF CallInv, OffIsStarted
  <2>2. call.stub = "none"
    BY <2>1 DEF NoCall, Call
  <2> QED
    BY <1>1, <2>2 DEF CallInv, CpuIs
<1>4. /\ call'.stub = "start" /\ call'.live = TRUE /\ call'.ret = 0 /\ call'.site = 0
      /\ call'.to = cod'.inl.next
  BY <1>1 DEF Call
<1>5. "start" \notin StubNames
  BY DEF StubNames
<1>6. call'.to \in Nat /\ call'.to # 0 /\ Mapped(call.to)'
  BY <1>2, <1>4, NextPlaceThen
<1>7. CallTypeOK'
  <2>1. call'.stub \in StubNames \cup {"none", "start", "halt"}
    BY <1>4
  <2>2. call'.live \in BOOLEAN
    BY <1>4
  <2>3. call'.ret \in Nat /\ call'.site \in Nat
    BY <1>4
  <2>4. /\ call'.stub \in StubNames /\ call'.to # 0 => call'.stub \in MayGo
        /\ call'.stub \in {"start", "load_0", "load_0c"} /\ ~call'.live => call'.to # 0
    BY <1>4, <1>5, <1>6
  <2>5. IsCall(call')
    BY <1>1, CallIsCall
  <2> QED
    BY <1>6, <2>1, <2>2, <2>3, <2>4, <2>5 DEF CallTypeOK
<1>8. CpuIs'
  BY <1>3, <1>4, <1>5 DEF CpuIs
<1>9. CallHeld' /\ OffIsStarted'
  BY <1>1, <1>4, <1>5, <1>6 DEF CallHeld, OffIsStarted
<1> QED
  BY <1>7, <1>8, <1>9 DEF CallInv

\* The compiler makes no call.
LEMMA CompileCall ==
  ASSUME CallInv, Compile
  PROVE  CallInv'
<1>1. UNCHANGED <<cpu, call>> /\ Compiling
  BY DEF Compile, CompilePlatter, CompileBad, CompileFall, Compiling
<1>2. mapped \subseteq mapped' /\ mode' \in Up
  <2>1. CASE CompilePlatter
    BY <2>1 DEF CompilePlatter, Up
  <2>2. CASE CompileBad
    BY <2>2 DEF CompileBad, Inline, Up
  <2>3. CASE CompileFall
    BY <2>3 DEF CompileFall, Inline, Up
  <2> QED
    BY <2>1, <2>2, <2>3 DEF Compile
<1>3. mode' # "off" /\ mode \in Up
  BY <1>1, <1>2, ModesAre DEF Up
<1> QED
  BY <1>1, <1>2, <1>3, CallSame

\* The ways to end.
LEMMA NoMapCall ==
  ASSUME NoMap
  PROVE  CallInv'
BY ExitCall DEF NoMap, CompileNoMap

LEMMA StopCall ==
  ASSUME Stop
  PROVE  CallInv'
BY ExitCall DEF Stop, End

LEMMA DestroyLongCall ==
  ASSUME CallInv, DestroyLong
  PROVE  CallInv'
<1>1. UNCHANGED <<cpu, call>> /\ mode' \in {"aborted", "spinning"}
  BY DEF DestroyLong, Botch
<1>2. mode' \notin Up /\ mode' # "off"
  BY <1>1 DEF Up
<1> QED
  BY <1>1, <1>2, CallSame

\* The code of co_enter makes the frame.
LEMMA BeginCall ==
  ASSUME CallInv, Begin
  PROVE  CallInv'
<1>1. /\ mode \in Up /\ mode # "off" /\ call.stub = "start" /\ call.live
      /\ cpu' = [DoAll(cpu, co_enter) EXCEPT !.eip = call.to]
      /\ call' = [call EXCEPT !.live = FALSE] /\ mode' = mode /\ mapped' = mapped
  BY ModesAre DEF Begin, segvars
<1>2. cpu = Started /\ call.to \in Nat /\ call.to # 0
  BY <1>1 DEF CallInv, CpuIs, CallTypeOK
<1>3. "start" \notin StubNames
  BY DEF StubNames
<1>4. PICK n : /\ n = [DoAll(Started, co_enter) EXCEPT !.eip = call.to] /\ Framed(n)
               /\ n.r["ESP"] = Slot(12) /\ n.eip = call.to
  BY <1>2, EnterIs
<1>5. cpu' = n /\ Kept(n) /\ n.patch = NoPatch
  BY <1>1, <1>2, <1>4, KeptIs
<1>6. /\ call'.stub = call.stub /\ call'.to = call.to /\ call'.ret = call.ret
      /\ call'.site = call.site /\ call'.live = FALSE /\ IsCall(call')
  BY <1>1, DoneIs DEF CallInv, CallTypeOK
<1>7. CallTypeOK'
  BY <1>1, <1>2, <1>3, <1>6 DEF CallInv, CallTypeOK
<1>8. After(cpu, call)'
  BY <1>1, <1>2, <1>4, <1>5, <1>6 DEF After
<1>9. CpuIs'
  BY <1>1, <1>3, <1>6, <1>8 DEF CpuIs
<1>10. CallHeld'
  BY <1>1, <1>2, <1>3, <1>6, MoreMapped DEF CallInv, CallHeld
<1>11. OffIsStarted'
  BY <1>1 DEF OffIsStarted
<1> QED
  BY <1>7, <1>9, <1>10, <1>11 DEF CallInv

\* A call that is made.
LEMMA CallOutCall ==
  ASSUME CallInv, SegInv, NEW s \in DOMAIN Stubs, CallOut(s)
  PROVE  CallInv'
<1>1. InCode /\ mode' = mode /\ mapped' = mapped
  BY DEF CallOut, segvars
<1>2. /\ mode \in Up /\ mode # "off" /\ Kept(cpu) /\ cpu.r["ESP"] = Slot(12)
      /\ s \in StubNames
  BY <1>1, InCodeIs, ModesAre, StubNamesAre DEF After, InCode
<1>3. PICK c \in Sections(s) : \E ret \in Returns(c) :
        \E site \in (IF s = "load_0c" THEN Returns("inl") ELSE {0}) :
          /\ cpu' = Pushed(DoAll(From(s, site), Stubs[s].before), ret)
          /\ call' = Call(s, TRUE, ret, site, 0, From(s, site).r)
  BY DEF CallOut, From
<1>4. PICK ret \in Returns(c) :
        \E site \in (IF s = "load_0c" THEN Returns("inl") ELSE {0}) :
          /\ cpu' = Pushed(DoAll(From(s, site), Stubs[s].before), ret)
          /\ call' = Call(s, TRUE, ret, site, 0, From(s, site).r)
  BY <1>3
<1>5. PICK site \in (IF s = "load_0c" THEN Returns("inl") ELSE {0}) :
          /\ cpu' = Pushed(DoAll(From(s, site), Stubs[s].before), ret)
          /\ call' = Call(s, TRUE, ret, site, 0, From(s, site).r)
  BY <1>4
<1>6. c \in Chains /\ "inl" \in Chains
  BY DEF Sections, Chains
<1>7. ret \in Nat /\ Mapped(ret)
  BY <1>2, <1>6, ReturnsAre
<1>8. site \in Nat /\ (s = "load_0c" => site >= 5 /\ Mapped(site - 5))
  <2>1. CASE s = "load_0c"
    <3>1. site \in Returns("inl")
      BY <1>5, <2>1
    <3> QED
      BY <1>2, <1>6, <3>1, ReturnsAre
  <2>2. CASE s # "load_0c"
    <3>1. site = 0
      BY <1>5, <2>2
    <3> QED
      BY <2>2, <3>1
  <2> QED
    BY <2>1, <2>2
<1>9. InCall(cpu', call')
  BY <1>2, <1>5, <1>7, <1>8, CallOutIs
<1>10. /\ call'.stub = s /\ call'.live = TRUE /\ call'.ret = ret /\ call'.site = site
       /\ call'.to = 0
  BY <1>5 DEF Call
<1>11. s \notin {"none", "start", "halt"}
  BY <1>2 DEF StubNames
<1>12. CallTypeOK'
  <2>1. call'.stub \in StubNames \cup {"none", "start", "halt"}
    BY <1>2, <1>10
  <2>2. call'.live \in BOOLEAN
    BY <1>10
  <2>3. call'.ret \in Nat /\ call'.site \in Nat /\ call'.to \in Nat
    BY <1>7, <1>8, <1>10
  <2>4. /\ call'.stub \in StubNames /\ call'.to # 0 => call'.stub \in MayGo
        /\ call'.stub \in {"start", "load_0", "load_0c"} /\ ~call'.live => call'.to # 0
        /\ call'.stub = "start" => call'.to # 0
    BY <1>10, <1>11
  <2>5. IsCall(call')
    BY <1>5, CallIsCall
  <2> QED
    BY <2>1, <2>2, <2>3, <2>4, <2>5 DEF CallTypeOK
<1>13. CpuIs'
  <2>1. /\ call'.stub \in StubNames /\ call'.live => InCall(cpu', call')
        /\ ~ (call'.stub \in {"none", "start"}) /\ call'.stub # "halt" /\ call'.live
    BY <1>9, <1>10, <1>11
  <2> QED
    BY <2>1 DEF CpuIs
<1>14. CallHeld'
  <2>1. Mapped(ret)' /\ (s = "load_0c" => Mapped(site - 5)')
    BY <1>1, <1>7, <1>8 DEF Mapped
  <2> QED
    BY <1>8, <1>10, <1>11, <2>1 DEF CallHeld
<1>15. OffIsStarted'
  BY <1>1, <1>2 DEF OffIsStarted
<1> QED
  BY <1>12, <1>13, <1>14, <1>15 DEF CallInv

\* The code of a halt.
LEMMA HaltCall ==
  ASSUME CallInv, Halt
  PROVE  CallInv'
<1>1. /\ InCode /\ mode' = mode /\ cpu' = DoAll(Settled, co_halt)
      /\ call' = Call("halt", FALSE, 0, 0, 0, cpu.r)
  BY DEF Halt, segvars
<1>2. mode \in Up /\ mode # "off" /\ Kept(cpu) /\ cpu.r["ESP"] = Slot(12)
  BY <1>1, InCodeIs, ModesAre DEF After, InCode
<1>3. Halted(cpu')
  <2>1. Framed(Settled) /\ Settled.r["ESP"] = Slot(12)
    BY <1>2, SettledIs
  <2>2. PICK m : m = Settled
    OBVIOUS
  <2>3. \E n : /\ n = DoAll(m, co_halt) /\ n \in Machine /\ n.eip = The["umc_start"]
               /\ n.r["EAX"] = 0 /\ n.r["ESP"] = Slot(0) /\ n.r["EBP"] = The["EBP"]
    BY <2>1, <2>2, HaltIs
  <2> QED
    BY <1>1, <2>2, <2>3 DEF Halted
<1>4. /\ call'.stub = "halt" /\ call'.live = FALSE /\ call'.ret = 0 /\ call'.site = 0
      /\ call'.to = 0
  BY <1>1 DEF Call
<1>5. "halt" \notin StubNames
  BY DEF StubNames
<1>6. CallTypeOK'
  <2>1. call'.stub \in StubNames \cup {"none", "start", "halt"}
    BY <1>4
  <2>2. call'.live \in BOOLEAN
    BY <1>4
  <2>3. call'.ret \in Nat /\ call'.site \in Nat /\ call'.to \in Nat
    BY <1>4
  <2>4. /\ call'.stub \in StubNames /\ call'.to # 0 => call'.stub \in MayGo
        /\ call'.stub \in {"start", "load_0", "load_0c"} /\ ~call'.live => call'.to # 0
        /\ call'.stub = "start" => call'.to # 0
    BY <1>4, <1>5
  <2>5. IsCall(call')
    BY <1>1, CallIsCall
  <2> QED
    BY <2>1, <2>2, <2>3, <2>4, <2>5 DEF CallTypeOK
<1>7. CpuIs'
  BY <1>3, <1>4, <1>5 DEF CpuIs
<1>8. CallHeld'
  BY <1>4, <1>5 DEF CallHeld
<1>9. OffIsStarted'
  BY <1>1, <1>2 DEF OffIsStarted
<1> QED
  BY <1>6, <1>7, <1>8, <1>9 DEF CallInv

\* The function called has a block to go to.
LEMMA GoToCall ==
  ASSUME CallInv, NEW to \in Nat, to # 0, GoTo(to), Mapped(to)', cpu' = cpu, call.live,
         call.stub \in MayGo, mode' # "off",
         call.stub = "load_0c" => mode \in Up /\ mapped \subseteq mapped'
  PROVE  CallInv'
<1>1. call' = [call EXCEPT !.to = to]
  BY DEF GoTo
<1>2. /\ call'.stub = call.stub /\ call'.live = call.live /\ call'.ret = call.ret
      /\ call'.site = call.site /\ call'.to = to /\ call'.r = call.r
      /\ (call'.live <=> call.live) /\ IsCall(call')
  <2>1. IsCall(call)
    BY DEF CallInv, CallTypeOK
  <2>2. PICK c, d : c = call /\ d = call'
    OBVIOUS
  <2>3. IsCall(c) /\ d = [c EXCEPT !.to = to]
    BY <1>1, <2>1, <2>2
  <2>4. /\ d.stub = c.stub /\ (d.live <=> c.live) /\ d.ret = c.ret /\ d.site = c.site
        /\ d.to = to /\ d.r = c.r /\ d.live = c.live /\ IsCall(d)
    BY <2>3, ToldIs
  <2> QED
    BY <2>2, <2>4
<1>3. call.stub \in StubNames /\ call.stub \notin {"none", "start", "halt"}
  BY DEF MayGo, StubNames
<1>4. CallTypeOK'
  <2>1. call'.stub \in StubNames \cup {"none", "start", "halt"}
    BY <1>2, <1>3
  <2>2. call'.live \in BOOLEAN
    BY <1>2 DEF CallInv, CallTypeOK
  <2>3. call'.ret \in Nat /\ call'.site \in Nat /\ call'.to \in Nat
    BY <1>2 DEF CallInv, CallTypeOK
  <2>4. /\ call'.stub \in StubNames /\ call'.to # 0 => call'.stub \in MayGo
        /\ call'.stub \in {"start", "load_0", "load_0c"} /\ ~call'.live => call'.to # 0
        /\ call'.stub = "start" => call'.to # 0
    BY <1>2
  <2>5. IsCall(call')
    BY <1>2
  <2> QED
    BY <2>1, <2>2, <2>3, <2>4, <2>5 DEF CallTypeOK
<1>5. InCall(cpu', call')
  <2>1. InCall(cpu, call)
    BY <1>3 DEF CallInv, CpuIs
  <2> QED
    BY <1>2, <2>1 DEF InCall
<1>6. CpuIs'
  BY <1>2, <1>3, <1>5 DEF CpuIs
<1>7. CallHeld'
  <2>1. ASSUME call.stub = "load_0c"
        PROVE  call.site >= 5 /\ Mapped(call.site - 5)'
    <3>1. mode \in Up /\ mapped \subseteq mapped'
      BY <2>1
    <3>2. call.site >= 5 /\ Mapped(call.site - 5)
      BY <2>1, <3>1 DEF CallInv, CallHeld
    <3>3. Mapped(call.site - 5)'
      BY <1>2, <3>1, <3>2 DEF Mapped
    <3> QED
      BY <3>2, <3>3
  <2> QED
    BY <1>2, <1>3, <2>1 DEF CallHeld, Mapped
<1>8. OffIsStarted'
  BY DEF OffIsStarted
<1> QED
  BY <1>4, <1>6, <1>7, <1>8 DEF CallInv

\* Which stubs the functions are called by.
LEMMA CalledBy ==
  /\ Called({"um_enter", "um_enterdep"}) => call.stub \in {"load_0", "load_0c"}
  /\ Called({"um_enter", "um_enterdep", "um_postwrite"}) => call.stub \in {"load_0", "load_0c", "postwrite"}
  /\ Called({"um_destroy_and_go", "um_postwrite"}) => call.stub \in {"fltnoex", "postwrite"}
  /\ Called({"um_loadfar"}) => call.stub = "loadguard"
  /\ Called({"um_postwrite", "um_alloc", "salloc_reload", "putchar", "getchar"}) =>
       call.stub \notin {"load_0", "load_0c"}
<1>1. Called({"um_enter", "um_enterdep"}) => call.stub \in {"load_0", "load_0c"}
  BY DEF Called, Stubs, Stub
<1>2. Called({"um_enter", "um_enterdep", "um_postwrite"}) => call.stub \in {"load_0", "load_0c", "postwrite"}
  BY DEF Called, Stubs, Stub
<1>3. Called({"um_destroy_and_go", "um_postwrite"}) => call.stub \in {"fltnoex", "postwrite"}
  BY DEF Called, Stubs, Stub
<1>4. Called({"um_loadfar"}) => call.stub = "loadguard"
  BY DEF Called, Stubs, Stub
<1>5. Called({"um_postwrite", "um_alloc", "salloc_reload", "putchar", "getchar"}) =>
        call.stub \notin {"load_0", "load_0c"}
  BY DEF Called, Stubs, Stub
<1> QED
  BY <1>1, <1>2, <1>3, <1>4, <1>5

\* um_enter and um_enterdep, and um_postwrite, have a block to go to.
LEMMA FoundCall ==
  ASSUME CallInv, SegInv, Found
  PROVE  CallInv'
<1>1. PICK to \in Beginnings(cod.inl) : GoTo(to)
  BY DEF Found
<1>2. /\ mode \in Up /\ mode # "off" /\ mode' = mode /\ mapped' = mapped /\ cpu' = cpu
      /\ call.live /\ Called({"um_enter", "um_enterdep"})
  BY ModesAre DEF Found, segvars, Undecided, Called
<1>3. call.stub \in MayGo
  BY <1>2, CalledBy DEF MayGo
<1>4. to \in Nat /\ to # 0 /\ Mapped(to)
  BY <1>2, BeginningsAre
<1>5. Mapped(to)'
  BY <1>2, <1>4 DEF Mapped
<1> QED
  BY <1>1, <1>2, <1>3, <1>4, <1>5, GoToCall

LEMMA MakeCall ==
  ASSUME CallInv, SegInv, Make
  PROVE  CallInv'
<1>1. /\ mode = "idle" /\ mode' = "entered" /\ mapped' = mapped /\ cod' = cod /\ cpu' = cpu
      /\ GoTo(cod.inl.next) /\ call.live
      /\ Called({"um_enter", "um_enterdep", "um_postwrite"})
  BY DEF Make, Enter, Undecided, Called
<1>2. call.stub \in MayGo
  BY <1>1, CalledBy DEF MayGo
<1>3. mode \in Up /\ mode' # "off"
  BY <1>1 DEF Up
<1>4. cod.inl.next \in Nat /\ cod.inl.next # 0 /\ Mapped(cod.inl.next)
  BY <1>3, NextPlace
<1>5. PICK to \in Nat : to = cod.inl.next
  BY <1>4
<1>6. Mapped(to)'
  BY <1>1, <1>4, <1>5 DEF Mapped
<1> QED
  BY <1>1, <1>2, <1>3, <1>4, <1>5, <1>6, GoToCall

\* A new world, and a block in it.
LEMMA RenewCall ==
  ASSUME CallInv, SegInv', Renew, GoTo(cod'.inl.next), cpu' = cpu, call.live,
         call.stub \in MayGo, call.stub # "load_0c"
  PROVE  CallInv'
<1>1. mode' = "entered" /\ mode' \in Up /\ mode' # "off"
  BY DEF Renew, Up
<1>2. cod'.inl.next \in Nat /\ cod'.inl.next # 0 /\ Mapped(cod.inl.next)'
  BY <1>1, NextPlaceThen
<1>3. PICK to \in Nat : to = cod'.inl.next
  BY <1>2
<1>4. Mapped(to)'
  BY <1>2, <1>3 DEF Mapped
<1> QED
  BY <1>1, <1>2, <1>3, <1>4, GoToCall

\* The functions that destroy the world.
LEMMA DestroyCall ==
  ASSUME CallInv, SegInv', Destroy
  PROVE  CallInv'
<1>1. /\ Renew /\ GoTo(cod'.inl.next) /\ cpu' = cpu /\ call.live
      /\ Called({"um_destroy_and_go", "um_postwrite"})
  BY DEF Destroy, Undecided, Called
<1>2. call.stub \in MayGo /\ call.stub # "load_0c"
  BY <1>1, CalledBy DEF MayGo
<1> QED
  BY <1>1, <1>2, RenewCall

LEMMA FarLoadCall ==
  ASSUME CallInv, SegInv', FarLoad
  PROVE  CallInv'
<1>1. /\ Renew /\ GoTo(cod'.inl.next) /\ cpu' = cpu /\ call.live /\ Called({"um_loadfar"})
  BY DEF FarLoad, Undecided, Called
<1>2. call.stub \in MayGo /\ call.stub # "load_0c"
  BY <1>1, CalledBy DEF MayGo
<1> QED
  BY <1>1, <1>2, RenewCall

\* The function called returns.
LEMMA ReturnCall ==
  ASSUME CallInv, SegInv, Return
  PROVE  CallInv'
<1>1. /\ mode \in Up /\ mode # "off" /\ mode' = mode /\ mapped' = mapped /\ call.live
      /\ call.stub \in StubNames /\ Answered
      /\ cpu' = DoAll(Returned(cpu, call.stub, call.to), Stubs[call.stub].after)
      /\ call' = [call EXCEPT !.live = FALSE]
  BY ModesAre, StubNamesAre DEF Return, segvars
<1>2. /\ call'.stub = call.stub /\ call'.live = FALSE /\ call'.ret = call.ret
      /\ call'.site = call.site /\ call'.to = call.to /\ call'.r = call.r
      /\ IsCall(call')
  BY <1>1, DoneIs DEF CallInv, CallTypeOK
<1>3. /\ call.ret \in Nat /\ call.site \in Nat /\ call.to \in Nat
      /\ call.to # 0 => call.stub \in MayGo
  BY <1>1 DEF CallInv, CallTypeOK
<1>4. InCall(cpu, call)
  BY <1>1 DEF CallInv, CpuIs
<1>5. call.stub \notin {"none", "start", "halt"}
  BY <1>1 DEF StubNames
<1>6. call.stub \in {"load_0", "load_0c"} => call.to # 0
  BY <1>1, CalledBy DEF Answered
<1>7. call.stub = "input" => call.to = 0
  BY <1>3 DEF MayGo
<1>8. call.stub = "load_0c" => 5 <= call.site /\ call.site < Modulus
  <2>1. SUFFICES ASSUME call.stub = "load_0c"
                 PROVE  5 <= call.site /\ call.site < Modulus
    OBVIOUS
  <2>2. call.site >= 5 /\ Mapped(call.site - 5)
    BY <1>1, <2>1 DEF CallInv, CallHeld
  <2>3. PICK a \in Nat : a = call.site - 5
    BY <1>3, <2>2
  <2>4. a + 5 < Modulus
    BY <2>2, <2>3, MappedIs DEF SegInv, SegTypeOK
  <2> QED
    BY <1>3, <2>2, <2>3, <2>4
<1>9. PICK n : /\ n = DoAll(Returned(cpu, call.stub, call.to), Stubs[call.stub].after)
               /\ Kept(n) /\ n.r["ESP"] = Slot(12)
               /\ call.stub # "load_0c" =>
                    /\ n.patch = NoPatch
                    /\ n.eip = IF call.to # 0 /\ (TakesRtnp(call.stub) \/ call.stub = "load_0")
                               THEN call.to ELSE call.ret
               /\ call.stub = "load_0c" =>
                    /\ n.eip = call.site - 5
                    /\ n.patch = [at |-> call.site - 5, jump |-> Ins("jmp", Long(call.to - call.site), 5)]
               /\ call.stub = "reload" => \A q \in General : n.r[q] = call.r[q]
  BY <1>1, <1>3, <1>4, <1>6, <1>7, <1>8, ReturnIs
<1>10. cpu' = n
  BY <1>1, <1>9
<1>11. call.stub # "load_0c" => n.eip = IF call.to # 0 THEN call.to ELSE call.ret
  BY <1>3, <1>9 DEF MayGo, TakesRtnp
<1>12. After(n, call)
  BY <1>9, <1>11 DEF After
<1>13. After(cpu', call')
  BY <1>2, <1>10, <1>12 DEF After
<1>14. CpuIs'
  BY <1>2, <1>5, <1>13 DEF CpuIs
<1>15. CallTypeOK'
  <2>1. call'.stub \in StubNames \cup {"none", "start", "halt"}
    BY <1>1, <1>2
  <2>2. call'.live \in BOOLEAN
    BY <1>2
  <2>3. call'.ret \in Nat /\ call'.site \in Nat /\ call'.to \in Nat
    BY <1>2, <1>3
  <2>4. /\ call'.stub \in StubNames /\ call'.to # 0 => call'.stub \in MayGo
        /\ call'.stub \in {"start", "load_0", "load_0c"} /\ ~call'.live => call'.to # 0
        /\ call'.stub = "start" => call'.to # 0
    BY <1>2, <1>3, <1>5, <1>6
  <2>5. IsCall(call')
    BY <1>2
  <2> QED
    BY <2>1, <2>2, <2>3, <2>4, <2>5 DEF CallTypeOK
<1>16. CallHeld'
  <2>1. CallHeld /\ mode \in Up
    BY <1>1 DEF CallInv
  <2> QED
    BY <1>1, <1>2, <1>5, <2>1, MoreMapped DEF CallHeld
<1>17. OffIsStarted'
  BY <1>1 DEF OffIsStarted
<1> QED
  BY <1>14, <1>15, <1>16, <1>17 DEF CallInv

\* The invariant holds after every step.
LEMMA NextCall ==
  ASSUME CallInv, SegInv, SegInv', [Next]_vars
  PROVE  CallInv'
<1>1. CASE Load
  BY <1>1, LoadCall
<1>2. CASE Boot
  BY <1>2, BootCall
<1>3. CASE Compile
  BY <1>3, CompileCall
<1>4. CASE NoMap
  BY <1>4, NoMapCall
<1>5. CASE Begin
  BY <1>5, BeginCall
<1>6. ASSUME NEW s \in DOMAIN Stubs, CallOut(s)
      PROVE  CallInv'
  BY <1>6, CallOutCall
<1>7. CASE Halt
  BY <1>7, HaltCall
<1>8. CASE Found
  BY <1>8, FoundCall
<1>9. CASE Make
  BY <1>9, MakeCall
<1>10. CASE Destroy
  BY <1>10, DestroyCall
<1>11. CASE FarLoad
  BY <1>11, FarLoadCall
<1>12. CASE DestroyLong
  BY <1>12, DestroyLongCall
<1>13. CASE Return
  BY <1>13, ReturnCall
<1>14. CASE Stop
  BY <1>14, StopCall
<1>15. CASE UNCHANGED vars
  <2>1. UNCHANGED <<cpu, call>> /\ mode' = mode /\ mapped' = mapped
    BY <1>15 DEF vars, segvars
  <2> QED
    BY <2>1, CallSame
<1> QED
  BY <1>1, <1>2, <1>3, <1>4, <1>5, <1>6, <1>7, <1>8, <1>9, <1>10, <1>11, <1>12, <1>13,
     <1>14, <1>15 DEF Next

\* Every call of compiled code, of every world, is as the invariant says.
THEOREM CallsKeepInvariant == Spec => []CallInv
<1>1. SegSpec => []SegInv
  BY SegInvariance
<1>2. Spec => []SegInv
  BY <1>1, ImplementsSegments, PTL
<1>3. Init => CallInv
  BY CallInit
<1>4. CallInv /\ SegInv /\ SegInv' /\ [Next]_vars => CallInv'
  BY NextCall
<1> QED
  BY <1>2, <1>3, <1>4, PTL DEF Spec

-----------------------------------------------------------------------------
(* What that says of the calls *)

\* The frame, and what a halt comes back to.
LEMMA FrameFollows ==
  ASSUME CallInv
  PROVE  FrameKept
<1>1. ASSUME InCode
      PROVE  /\ cpu.r["EBP"] = Top - 8 /\ cpu.r["ESP"] = Top - 48
             /\ \A k \in 1 .. 5 :
                  cpu.mem[Top - 4 * k] = The[<<"umc_start", "EBP", "EBX", "ESI", "EDI">>[k]]
             /\ call.stub = "reload" => \A r \in General : cpu.r[r] = call.r[r]
  <2>1. Kept(cpu) /\ cpu.r["ESP"] = Slot(12)
        /\ (call.stub = "reload" => \A q \in General : cpu.r[q] = call.r[q])
    BY <1>1, InCodeIs DEF After
  <2>2. Slot(2) = Top - 8 /\ Slot(12) = Top - 48
    BY TopIs DEF Slot
  <2>3. cpu.r["EBP"] = Slot(2) /\ \A k \in 1 .. 5 : cpu.mem[Slot(k)] = The[Saved[k]]
    BY <2>1 DEF Kept
  <2>4. \A k \in 1 .. 5 :
          cpu.mem[Top - 4 * k] = The[<<"umc_start", "EBP", "EBX", "ESI", "EDI">>[k]]
    BY <2>3 DEF Slot, Saved
  <2> QED
    BY <2>1, <2>2, <2>3, <2>4
<1>2. ASSUME call.stub = "halt"
      PROVE  /\ cpu.eip = The["umc_start"] /\ cpu.r["EAX"] = 0
             /\ cpu.r["ESP"] = Top /\ cpu.r["EBP"] = The["EBP"]
  <2>1. Halted(cpu)
    BY <1>2 DEF CallInv, CpuIs
  <2>2. Slot(0) = Top
    BY TopIs DEF Slot
  <2> QED
    BY <2>1, <2>2 DEF Halted
<1> QED
  BY <1>1, <1>2 DEF FrameKept

\* Parameters, and the alignment of the stack.
LEMMA DeclaredFollows ==
  ASSUME CallInv
  PROVE  CallsAsDeclared
<1>1. SUFFICES ASSUME call.live, call.stub \in DOMAIN Stubs
               PROVE  /\ (cpu.r["ESP"] + 4) % 16 = 0
                      /\ \A k \in DOMAIN Stubs[call.stub].args :
                           Parameter(cpu, k) = IF Stubs[call.stub].args[k] = "rtnp" THEN cpu.r["ESP"]
                                               ELSE The[Stubs[call.stub].args[k]]
  BY DEF CallsAsDeclared
<1>2. call.stub \in StubNames
  BY <1>1, StubNamesAre
<1>3. InCall(cpu, call)
  BY <1>1, <1>2 DEF CallInv, CpuIs
<1>4. PICK s, d : s = call.stub /\ d = Depth(s)
  OBVIOUS
<1>5. s \in StubNames /\ cpu.r["ESP"] = Slot(d) /\ Passes(cpu, s) /\ d \in {13, 17}
  BY <1>2, <1>3, <1>4 DEF InCall, Depth
<1>6. (cpu.r["ESP"] + 4) % 16 = 0
  <2>1. CASE d = 13
    <3>1. cpu.r["ESP"] = Top - 52 /\ Top \in Nat /\ Top % 16 = 0
      BY <1>5, <2>1, TopIs DEF Slot
    <3> QED
      BY <3>1
  <2>2. CASE d = 17
    <3>1. cpu.r["ESP"] = Top - 68 /\ Top \in Nat /\ Top % 16 = 0
      BY <1>5, <2>2, TopIs DEF Slot
    <3> QED
      BY <3>1
  <2> QED
    BY <1>5, <2>1, <2>2
<1>7. ASSUME NEW k \in DOMAIN Stubs[s].args
      PROVE  Parameter(cpu, k) = IF Stubs[s].args[k] = "rtnp" THEN cpu.r["ESP"]
                                 ELSE The[Stubs[s].args[k]]
  <2>1. k \in 1 .. 4
    BY <1>5, ArgsAre
  <2>2. Slot(d) + 4 * k = Slot(d - k)
    BY <1>5, <2>1, TopIs DEF Slot
  <2>3. Parameter(cpu, k) = cpu.mem[Slot(d - k)]
    BY <1>5, <2>2 DEF Parameter
  <2>4. cpu.mem[Slot(d - k)] = IF Stubs[s].args[k] = "rtnp" THEN Slot(d) ELSE The[Stubs[s].args[k]]
    BY <1>4, <1>5 DEF Passes
  <2> QED
    BY <1>5, <2>3, <2>4
<1> QED
  BY <1>4, <1>6, <1>7

\* A jump relative to a place leads there.
LEMMA ThereAndBack ==
  ASSUME NEW x \in Int, NEW to \in Nat, to < Modulus
  PROVE  Long(x + Long(to - x)) = to
<1>1. PICK M \in Nat \ {0} : M = Modulus
  BY ModulusType
<1>2. PICK y \in Int : y = to - x
  OBVIOUS
<1>3. (x + (y % M)) % M = (x + y) % M
  BY ModPlus
<1>4. x + y = to
  BY <1>2
<1>5. to % M = to
  BY <1>1, ModSmall
<1>6. Long(to - x) = y % M
  BY <1>1, <1>2 DEF Long
<1>7. Long(x + (y % M)) = (x + (y % M)) % M
  BY <1>1 DEF Long
<1> QED
  BY <1>3, <1>4, <1>5, <1>6, <1>7

\* Where the jump that has been written leads.
LEMMA PatchLands ==
  ASSUME NEW site \in Nat, site >= 5, NEW to \in Nat, to < Modulus
  PROVE  Lands(site - 5, Ins("jmp", Long(to - site), 5)) = to
<1>1. PICK j : j = Long(to - site)
  OBVIOUS
<1>2. Lands(site - 5, Ins("jmp", j, 5)) = Long((site - 5) + 5 + j)
  BY DEF Lands, Ins
<1>3. (site - 5) + 5 = site
  OBVIOUS
<1>4. Long(site + j) = to
  BY <1>1, ThereAndBack
<1> QED
  BY <1>1, <1>2, <1>3, <1>4

\* Where control is between calls.
LEMMA ControlIs ==
  ASSUME CallInv, SegInv, InCode
  PROVE  /\ Mapped(cpu.eip) /\ Mapped(Control)
         /\ Control = IF call.to # 0 THEN call.to ELSE call.ret
         /\ call.stub = "load_0c" =>
              /\ cpu.patch.at = call.site - CallLen /\ cpu.patch.jump.n = CallLen
              /\ Lands(cpu.patch.at, cpu.patch.jump) = call.to /\ cpu.eip = cpu.patch.at
<1>1. /\ mode \in Up /\ call.stub \in StubNames \cup {"start"} /\ ~call.live /\ After(cpu, call)
      /\ call.ret \in Nat /\ call.site \in Nat /\ call.to \in Nat
  BY InCodeIs DEF CallInv, CallTypeOK
<1>2. /\ call.to # 0 => Mapped(call.to)
      /\ call.stub \in StubNames /\ call.to = 0 => Mapped(call.ret)
      /\ call.stub = "load_0c" => call.site >= 5 /\ Mapped(call.site - 5)
  BY <1>1 DEF CallInv, CallHeld
<1>3. mapped \subseteq Bases
  BY DEF SegInv, SegTypeOK
<1>4. call.stub \in {"start", "load_0c"} => call.to # 0
  BY <1>1 DEF CallInv, CallTypeOK
<1>5. CASE call.stub = "load_0c"
  <2>1. PICK site \in Nat, to \in Nat : site = call.site /\ to = call.to
    BY <1>1
  <2>2. site >= 5 /\ Mapped(site - 5) /\ to # 0 /\ Mapped(to)
    BY <1>2, <1>4, <1>5, <2>1
  <2>3. to < Modulus
    BY <1>3, <2>2, MappedIs, ModulusType
  <2>4. cpu.eip = site - 5 /\ cpu.patch = [at |-> site - 5, jump |-> Ins("jmp", Long(to - site), 5)]
    BY <1>1, <1>5, <2>1 DEF After
  <2>5. Lands(site - 5, Ins("jmp", Long(to - site), 5)) = to
    BY <2>2, <2>3, PatchLands
  <2>6. PICK j : j = Ins("jmp", Long(to - site), 5)
    OBVIOUS
  <2>7. j.n = 5
    BY <2>6 DEF Ins
  <2>8. cpu.patch.at = site - 5 /\ cpu.patch.jump = j
    BY <2>4, <2>6
  <2>9. Control = to /\ Lands(cpu.patch.at, cpu.patch.jump) = to
    BY <2>4, <2>5, <2>6, <2>8 DEF Control
  <2> QED
    BY <1>5, <2>1, <2>2, <2>4, <2>7, <2>8, <2>9 DEF CallLen
<1>6. CASE call.stub # "load_0c"
  <2>1. cpu.patch = NoPatch /\ cpu.eip = IF call.to # 0 THEN call.to ELSE call.ret
    BY <1>1, <1>6 DEF After
  <2>2. Mapped(cpu.eip) /\ cpu.eip \in Nat
    <3>1. CASE call.to # 0
      BY <1>1, <1>2, <2>1, <3>1
    <3>2. CASE call.to = 0
      BY <1>1, <1>2, <1>4, <2>1, <3>2
    <3> QED
      BY <3>1, <3>2
  <2>3. cpu.eip # 0
    BY <1>3, <2>2, MappedIs
  <2>4. cpu.patch.at = 0
    BY <2>1 DEF NoPatch
  <2>5. Control = cpu.eip
    BY <2>3, <2>4 DEF Control
  <2> QED
    BY <1>6, <2>1, <2>2, <2>5
<1> QED
  BY <1>5, <1>6

\* Between calls, in every world, the stack is where co_enter put it, and what it
\* saved is there; the call out of line for more memory is not seen in any register;
\* and a halt gets back to umc_start with its stack and its frame.
THEOREM FrameAlwaysKept == Spec => []FrameKept
BY CallsKeepInvariant, FrameFollows, PTL

\* Every function that compiled code calls finds its parameters where its prototype
\* says, the address of its own return address among them, on an aligned stack.
THEOREM CallsAlwaysAsDeclared == Spec => []CallsAsDeclared
BY CallsKeepInvariant, DeclaredFollows, PTL

\* The invariants of the calls and of the segments, together.
LEMMA InvsAre == Spec => [](CallInv /\ SegInv)
<1>1. SegSpec => []SegInv
  BY SegInvariance
<1> QED
  BY <1>1, CallsKeepInvariant, ImplementsSegments, PTL

\* Control comes back from every call to code that is mapped: to the block found or
\* made, if there is one, or else to where the call was made.
THEOREM AlwaysGoesWhereTold == Spec => []GoesWhereTold
<1>1. CallInv /\ SegInv => GoesWhereTold
  BY ControlIs DEF GoesWhereTold
<1> QED
  BY <1>1, InvsAre, PTL

\* The stub of a jump to a constant place overwrites the call to it, and nothing else,
\* with a jump to where it goes on, however far that is.
THEOREM PatchAlwaysRight == Spec => []PatchRight
<1>1. CallInv /\ SegInv => PatchRight
  BY ControlIs DEF PatchRight
<1> QED
  BY <1>1, InvsAre, PTL

-----------------------------------------------------------------------------
(* The instructions emitted *)

\* Whatever the form, the operand is the one asked for.
LEMMA FormIs ==
  ASSUME NEW op, NEW eax, NEW i \in Int
  PROVE  \E n : e_xxxri(op, eax, i) = <<Ins(op, Long(i), n)>>
<1>1. CASE ISB(i)
  <2>1. Byte(i) = i
    BY <1>1 DEF ISB, Byte
  <2> QED
    BY <1>1, <2>1 DEF e_xxxri
<1>2. CASE ~ISB(i)
  BY <1>2 DEF e_xxxri
<1> QED
  BY <1>1, <1>2

\* A remainder may be taken of an operand first.
LEMMA LongPlus ==
  ASSUME NEW x \in Int, NEW i \in Int
  PROVE  Long(x + Long(i)) = Long(x + i) /\ Long(x - Long(i)) = Long(x - i)
<1>1. PICK d \in Nat \ {0} : d = Modulus
  BY ModulusType
<1>2. (x + (i % d)) % d = (x + i) % d
  BY ModPlus
<1>3. (x - (i % d)) % d = (x - i) % d
  BY ModMinus
<1> QED
  BY <1>1, <1>2, <1>3 DEF Long

\* Every form of a subtraction but the three that are followed by the general one.
LEMMA SubtractsRight ==
  ASSUME NEW x \in Word, NEW eax, NEW i \in Int \ {-1, 1, 128}
  PROVE  ExecAll(x, e_subri(eax, i)) = Long(x - i)
<1>1. PICK n : e_xxxri("sub", eax, i) = <<Ins("sub", Long(i), n)>>
  BY FormIs
<1>2. PICK a : a = Ins("sub", Long(i), n)
  OBVIOUS
<1>3. e_subri(eax, i) = <<>> \o <<a>>
  <2>1. i # 1 /\ i # -1 /\ i # 128
    OBVIOUS
  <2> QED
    BY <1>1, <1>2, <2>1, Zenon DEF e_subri
<1>4. <<>> \o <<a>> = <<a>>
  OBVIOUS
<1>5. ExecAll(x, e_subri(eax, i)) = Exec(x, a)
  BY <1>3, <1>4, ExecAll1
<1>6. Exec(x, a) = Long(x - Long(i))
  BY <1>2, ExecIs
<1>7. x \in Int
  BY ModulusType
<1> QED
  BY <1>5, <1>6, <1>7, LongPlus

\* Every form of an addition.
LEMMA AddsRight ==
  ASSUME NEW x \in Word, NEW eax, NEW i \in Int
  PROVE  ExecAll(x, e_addri(eax, i)) = Long(x + i)
<1>1. x \in Int
  BY ModulusType
<1>2. CASE i = 1
  <2>1. e_addri(eax, i) = <<Ins("add", 1, 1)>>
    BY <1>2 DEF e_addri
  <2>2. ExecAll(x, <<Ins("add", 1, 1)>>) = Exec(x, Ins("add", 1, 1))
    BY ExecAll1
  <2>3. Exec(x, Ins("add", 1, 1)) = Add(x, 1)
    BY ExecIs
  <2> QED
    BY <1>2, <2>1, <2>2, <2>3 DEF Add, Long
<1>3. CASE i = -1
  <2>1. e_addri(eax, i) = <<Ins("sub", 1, 1)>>
    BY <1>3 DEF e_addri
  <2>2. ExecAll(x, <<Ins("sub", 1, 1)>>) = Exec(x, Ins("sub", 1, 1))
    BY ExecAll1
  <2>3. Exec(x, Ins("sub", 1, 1)) = Long(x - 1)
    BY ExecIs
  <2>4. x + i = x - 1
    BY <1>1, <1>3
  <2> QED
    BY <2>1, <2>2, <2>3, <2>4
<1>4. CASE i = 128
  <2>1. e_addri(eax, i) = e_subri(eax, -i)
    BY <1>4 DEF e_addri
  <2>2. PICK j \in Int \ {-1, 1, 128} : j = -i
    BY <1>4
  <2>3. ExecAll(x, e_subri(eax, j)) = Long(x - j)
    BY SubtractsRight
  <2>4. x - j = x + i
    BY <1>1, <2>2
  <2> QED
    BY <2>1, <2>2, <2>3, <2>4
<1>5. CASE i \notin {1, -1, 128}
  <2>1. PICK n : e_xxxri("add", eax, i) = <<Ins("add", Long(i), n)>>
    BY FormIs
  <2>2. e_addri(eax, i) = e_xxxri("add", eax, i)
    <3>1. i # 1 /\ i # -1 /\ i # 128
      BY <1>5
    <3> QED
      BY <3>1, Zenon DEF e_addri
  <2>3. PICK l : l = Long(i)
    OBVIOUS
  <2>4. ExecAll(x, <<Ins("add", l, n)>>) = Exec(x, Ins("add", l, n))
    BY ExecAll1
  <2>5. Exec(x, Ins("add", l, n)) = Add(x, l)
    BY ExecIs
  <2>6. Add(x, l) = Long(x + l)
    BY DEF Add, Long
  <2> QED
    BY <1>1, <2>1, <2>2, <2>3, <2>4, <2>5, <2>6, LongPlus
<1> QED
  BY <1>2, <1>3, <1>4, <1>5

\* Every form of a conjunction.
LEMMA AndsRight ==
  ASSUME NEW x \in Word, NEW eax, NEW i \in Int
  PROVE  ExecAll(x, e_andri(eax, i)) = And(x, Long(i))
<1>1. CASE i = 0
  <2>1. e_andri(eax, i) = <<Ins("mov", 0, 2)>>
    BY <1>1 DEF e_andri, Clear
  <2>2. ExecAll(x, <<Ins("mov", 0, 2)>>) = Exec(x, Ins("mov", 0, 2))
    BY ExecAll1
  <2>3. Exec(x, Ins("mov", 0, 2)) = 0
    BY ExecIs
  <2>4. Long(i) = 0
    BY <1>1, ModSmall, WordsAre
  <2> QED
    BY <2>1, <2>2, <2>3, <2>4, AndNothing
<1>2. CASE i = -1
  <2>1. e_andri(eax, i) = <<>>
    BY <1>2 DEF e_andri
  <2>2. Long(i) = Modulus - 1
    <3>1. PICK d \in Nat \ {0} : d = Modulus
      BY ModulusType
    <3>2. -1 = (-1) * d + (d - 1) /\ d - 1 \in 0 .. d - 1 /\ -1 \in Int
      OBVIOUS
    <3>3. PICK q \in Int, r \in 0 .. d - 1 : q = -1 /\ r = d - 1
      BY <3>2
    <3>4. q = q * d + r
      BY <3>2, <3>3
    <3>5. q % d = r
      BY <3>4, ModIs
    <3> QED
      BY <1>2, <3>1, <3>3, <3>5 DEF Long
  <2> QED
    BY <2>1, <2>2, AndAll, ExecAll0
<1>3. CASE i \notin {0, -1}
  <2>1. PICK n : e_xxxri("and", eax, i) = <<Ins("and", Long(i), n)>>
    BY FormIs
  <2>2. e_andri(eax, i) = e_xxxri("and", eax, i)
    <3>1. i # 0 /\ i # -1
      BY <1>3
    <3> QED
      BY <3>1, Zenon DEF e_andri
  <2>3. PICK l : l = Long(i)
    OBVIOUS
  <2>4. ExecAll(x, <<Ins("and", l, n)>>) = Exec(x, Ins("and", l, n))
    BY ExecAll1
  <2>5. Exec(x, Ins("and", l, n)) = And(x, l)
    BY ExecIs
  <2> QED
    BY <2>1, <2>2, <2>3, <2>4, <2>5
<1> QED
  BY <1>1, <1>2, <1>3

\* Both forms of a move.
LEMMA MovesRight ==
  ASSUME NEW x, NEW i \in Int
  PROVE  ExecAll(x, e_movri(i)) = Long(i)
<1>1. CASE i = 0
  <2>1. e_movri(i) = <<Ins("mov", 0, 2)>>
    BY <1>1 DEF e_movri, Clear
  <2>2. ExecAll(x, <<Ins("mov", 0, 2)>>) = Exec(x, Ins("mov", 0, 2))
    BY ExecAll1
  <2>3. Exec(x, Ins("mov", 0, 2)) = 0
    BY ExecIs
  <2>4. Long(i) = 0
    BY <1>1, ModSmall, WordsAre
  <2> QED
    BY <2>1, <2>2, <2>3, <2>4
<1>2. CASE i # 0
  <2>1. PICK l : l = Long(i)
    OBVIOUS
  <2>2. e_movri(i) = <<Ins("mov", l, 5)>>
    BY <1>2, <2>1 DEF e_movri
  <2>3. ExecAll(x, <<Ins("mov", l, 5)>>) = Exec(x, Ins("mov", l, 5))
    BY ExecAll1
  <2>4. Exec(x, Ins("mov", l, 5)) = l
    BY ExecIs
  <2> QED
    BY <2>1, <2>2, <2>3, <2>4
<1> QED
  BY <1>1, <1>2

\* Every form of a shift.
LEMMA ShiftsRight ==
  ASSUME NEW x \in Word, NEW z \in Nat
  PROVE  /\ ExecAll(x, e_shxri("shl", z)) = Mul(x, Pow2[z])
         /\ ExecAll(x, e_shxri("shr", z)) = x \div Pow2[z]
<1>1. x \in Nat /\ x < Modulus
  BY ModulusType DEF Word
<1>2. CASE z = 0
  <2>1. e_shxri("shl", z) = <<>> /\ e_shxri("shr", z) = <<>>
    BY <1>2 DEF e_shxri
  <2>2. Pow2[z] = 1
    BY <1>2, Pow2Type
  <2>3. Mul(x, 1) = x
    <3>1. x * 1 = x
      BY <1>1
    <3> QED
      BY <1>1, <3>1, ModSmall DEF Mul
  <2>4. x \div 1 = x
    BY <1>1
  <2> QED
    BY <2>1, <2>2, <2>3, <2>4, ExecAll0
<1>3. CASE z # 0
  <2>1. \A op : \E n : e_shxri(op, z) = <<Ins(op, z, n)>>
    <3>1. CASE z = 1
      BY <3>1 DEF e_shxri
    <3>2. CASE z # 1
      BY <1>3, <3>2, Zenon DEF e_shxri
    <3> QED
      BY <3>1, <3>2
  <2>2. PICK n : e_shxri("shl", z) = <<Ins("shl", z, n)>>
    BY <2>1
  <2>3. PICK k : e_shxri("shr", z) = <<Ins("shr", z, k)>>
    BY <2>1
  <2>4. ExecAll(x, <<Ins("shl", z, n)>>) = Exec(x, Ins("shl", z, n))
    BY ExecAll1
  <2>5. ExecAll(x, <<Ins("shr", z, k)>>) = Exec(x, Ins("shr", z, k))
    BY ExecAll1
  <2>6. Exec(x, Ins("shl", z, n)) = Mul(x, Pow2[z]) /\ Exec(x, Ins("shr", z, k)) = x \div Pow2[z]
    BY ExecIs
  <2> QED
    BY <2>2, <2>3, <2>4, <2>5, <2>6
<1> QED
  BY <1>2, <1>3

\* The places that a multiplier is shifted by, and what is shifted.
LEMMA ZerosIs ==
  ASSUME NEW m \in Word, m # 0
  PROVE  /\ Zeros(m) \in Nat /\ Odd(m) \in Nat /\ m = Odd(m) * Pow2[Zeros(m)]
         /\ Zeros(m) \in 0 .. WordBits - 1
<1>1. m \in Nat \ {0} /\ m < Pow2[WordBits] /\ WordBits \in Nat
  BY ModulusType, WordBitsAssumption DEF Word, Modulus
<1>2. PICK z \in 0 .. WordBits - 1, o \in Nat : o % 2 = 1 /\ m = o * Pow2[z]
  BY <1>1, OddShifted
<1>3. z \in Bits(m) /\ m % Pow2[z] = 0
  <2>1. PICK d \in Nat \ {0} : d = Pow2[z]
    BY <1>1, Pow2Type
  <2>2. m = o * d + 0 /\ 0 \in 0 .. d - 1
    BY <1>1, <1>2, <2>1
  <2>3. m \div d = o /\ m % d = 0
    BY <1>1, <2>2, QuotientIs, ModIs
  <2> QED
    BY <1>2, <2>1, <2>3 DEF Bits
<1>4. Zeros(m) \in 0 .. WordBits - 1 /\ m % Pow2[Zeros(m)] = 0
  BY <1>3 DEF Zeros
<1>5. PICK y \in Nat : y = Zeros(m)
  BY <1>1, <1>4
<1>6. PICK d \in Nat \ {0} : d = Pow2[y]
  BY <1>5, Pow2Type
<1>7. PICK q \in Nat, r \in 0 .. d - 1 : m = q * d + r /\ r = m % d /\ q = m \div d
  BY <1>1, Quotient
<1>8. r = 0
  BY <1>4, <1>5, <1>6, <1>7
<1>9. PICK a \in Nat : a = q * d
  OBVIOUS
<1>10. m = a
  <2>1. m = a + r
    BY <1>7, <1>9
  <2> QED
    BY <1>8, <2>1
<1> QED
  BY <1>4, <1>5, <1>6, <1>7, <1>9, <1>10 DEF Odd

\* One operation after another.
LEMMA OneThenOne ==
  ASSUME NEW x, NEW a, NEW b
  PROVE  ExecAll(x, <<a>> \o <<b>>) = Exec(Exec(x, a), b)
<1> DEFINE S == {a, b}
           s == <<a>>
           t == <<b>>
<1>1. /\ s \in Seq(S) /\ t \in Seq(S) /\ Len(s) = 1 /\ Len(t) = 1 /\ s[1] = a /\ t[1] = b
      /\ 1 \in 1 .. 1 /\ 1 + 1 = 2
  OBVIOUS
<1> HIDE DEF S, s, t
<1>2. /\ Len(s \o t) = Len(s) + Len(t) /\ \A i \in 1 .. Len(s) : (s \o t)[i] = s[i]
      /\ \A i \in 1 .. Len(t) : (s \o t)[Len(s) + i] = t[i]
  BY <1>1, ConcatProperties
<1>3. PICK u : u = s \o t
  OBVIOUS
<1>4. Len(u) = 2 /\ u[1] = a /\ u[1 + 1] = b
  BY <1>1, <1>2, <1>3
<1>5. Len(u) \in 0 .. 2 /\ Len(u) # 0 /\ Len(u) # 1 /\ u[2] = b
  BY <1>1, <1>4
<1>6. ExecAll(x, u) = Exec(Exec(x, a), b)
  BY <1>4, <1>5, ExecAllIs
<1> QED
  BY <1>3, <1>6 DEF s, t

\* Every form of a multiplication: shifts, sums of two shifts, and the instruction.
LEMMA MultipliesRight ==
  ASSUME NEW x \in Word, NEW m \in Word
  PROVE  ExecAll(x, e_mulri(m)) = Mul(x, m)
<1>1. x \in Nat /\ m \in Nat /\ x < Modulus /\ m < Modulus
  BY ModulusType DEF Word
<1>2. CASE m = 0
  <2>1. e_mulri(m) = <<Ins("mov", 0, 2)>>
    BY <1>2 DEF e_mulri, Clear
  <2>2. ExecAll(x, <<Ins("mov", 0, 2)>>) = Exec(x, Ins("mov", 0, 2))
    BY ExecAll1
  <2>3. Exec(x, Ins("mov", 0, 2)) = 0
    BY ExecIs
  <2>4. Mul(x, m) = 0
    <3>1. x * m = 0
      BY <1>1, <1>2
    <3>2. 0 % Modulus = 0
      BY ModSmall, WordsAre
    <3> QED
      BY <3>1, <3>2 DEF Mul
  <2> QED
    BY <2>1, <2>2, <2>3, <2>4
<1>3. CASE m # 0
  <2>1. PICK o \in Nat, z \in Nat : o = Odd(m) /\ z = Zeros(m) /\ m = o * Pow2[z]
    BY <1>3, ZerosIs
  <2>2. PICK p \in Nat : p = Pow2[z]
    BY <2>1, Pow2Type
  <2>3. m = o * p
    BY <2>1, <2>2
  <2>4. CASE o = 1
    <3>1. e_mulri(m) = e_shxri("shl", z)
      <4>1. Odd(m) = 1 /\ Odd(m) \notin {3, 5, 9}
        BY <2>1, <2>4
      <4>2. e_mulri(m) = e_shxri("shl", Zeros(m))
        BY <1>3, <4>1, Zenon DEF e_mulri
      <4> QED
        BY <2>1, <4>2
    <3>2. m = Pow2[z]
      BY <2>2, <2>3, <2>4
    <3> QED
      BY <3>1, <3>2, ShiftsRight
  <2>5. CASE o \in {3, 5, 9}
    <3>1. e_mulri(m) = <<Ins("lea", o - 1, 3)>> \o e_shxri("shl", z)
      <4>1. o # 1
        BY <2>5
      <4> QED
        BY <1>3, <2>1, <2>5, <4>1, Zenon DEF e_mulri
    <3>2. PICK a : a = Ins("lea", o - 1, 3)
      OBVIOUS
    <3>3. PICK y : y = Exec(x, a)
      OBVIOUS
    <3>4. y = Mul(x, o) /\ y \in Word
      <4>1. y = Add(x, Mul(x, o - 1))
        BY <3>2, <3>3, ExecIs
      <4>2. PICK d \in Nat \ {0} : d = Modulus
        BY ModulusType
      <4>3. PICK k \in Int : k = x * (o - 1)
        BY <1>1, <2>5
      <4>4. (x + (k % d)) % d = (x + k) % d
        <5>1. x \in Int
          BY <1>1
        <5> QED
          BY <5>1, ModPlus
      <4>5. x + k = x * o
        BY <1>1, <2>5, <4>3
      <4>6. y = Mul(x, o)
        BY <4>1, <4>2, <4>3, <4>4, <4>5 DEF Add, Mul
      <4>7. PICK n \in Nat : n = x * o
        BY <1>1
      <4>8. n % d \in 0 .. d - 1
        OBVIOUS
      <4> QED
        BY <4>2, <4>6, <4>7, <4>8 DEF Mul, Word
    <3>5. ExecAll(x, <<a>> \o e_shxri("shl", z)) = ExecAll(y, e_shxri("shl", z))
      <4>1. CASE z = 0
        <5>1. e_shxri("shl", z) = <<>>
          BY <4>1 DEF e_shxri
        <5>2. <<a>> \o <<>> = <<a>>
          OBVIOUS
        <5> QED
          BY <3>3, <5>1, <5>2, ExecAll0, ExecAll1
      <4>2. CASE z # 0
        <5>1. \E n : e_shxri("shl", z) = <<Ins("shl", z, n)>>
          <6>1. CASE z = 1
            BY <6>1 DEF e_shxri
          <6>2. CASE z # 1
            BY <4>2, <6>2, Zenon DEF e_shxri
          <6> QED
            BY <6>1, <6>2
        <5>2. PICK b : e_shxri("shl", z) = <<b>>
          BY <5>1
        <5>3. ExecAll(x, <<a>> \o <<b>>) = Exec(y, b)
          BY <3>3, OneThenOne
        <5>4. ExecAll(y, <<b>>) = Exec(y, b)
          BY ExecAll1
        <5> QED
          BY <5>2, <5>3, <5>4
      <4> QED
        BY <4>1, <4>2
    <3>6. ExecAll(y, e_shxri("shl", z)) = Mul(y, p)
      BY <2>2, <3>4, ShiftsRight
    <3>7. Mul(y, p) = Mul(x, m)
      <4>1. PICK d \in Nat \ {0} : d = Modulus
        BY ModulusType
      <4>2. PICK n \in Nat : n = x * o
        BY <1>1
      <4>3. (p * (n % d)) % d = (p * n) % d
        <5>1. p \in Int /\ n \in Int
          OBVIOUS
        <5> QED
          BY <5>1, ModTimes
      <4>4. p * n = x * m
        BY <1>1, <2>3, <4>2
      <4>5. y = n % d
        BY <3>4, <4>1, <4>2 DEF Mul
      <4>6. y * p = p * (n % d)
        <5>1. y \in Nat
          BY <3>4, ModulusType
        <5> QED
          BY <4>5, <5>1
      <4> QED
        BY <4>1, <4>3, <4>4, <4>6 DEF Mul
    <3> QED
      BY <3>1, <3>2, <3>5, <3>6, <3>7
  <2>6. CASE o \notin {1, 3, 5, 9}
    <3>1. e_mulri(m) = <<IF m < 128 THEN Ins("mul", Long(Byte(m)), 3) ELSE Ins("mul", m, 6)>>
      <4>1. o # 1 /\ o \notin {3, 5, 9}
        BY <2>6
      <4> QED
        BY <1>3, <2>1, <4>1, Zenon DEF e_mulri
    <3>2. m < 128 => Long(Byte(m)) = m
      <4>1. m < 128 => Byte(m) = m
        BY <1>1 DEF Byte
      <4> QED
        BY <1>1, <4>1, ModSmall
    <3>3. PICK n : e_mulri(m) = <<Ins("mul", m, n)>>
      BY <3>1, <3>2
    <3>4. ExecAll(x, <<Ins("mul", m, n)>>) = Exec(x, Ins("mul", m, n))
      BY ExecAll1
    <3> QED
      BY <3>3, <3>4, ExecIs
  <2> QED
    BY <2>4, <2>5, <2>6
<1> QED
  BY <1>2, <1>3

\* A jump leads where it should.
LEMMA JumpsRight ==
  ASSUME NEW x \in Int, NEW to \in Word
  PROVE  Lands(x, e_jmpi(x, to)) = to /\ Lands(x, e_jcc(x, to)) = to
<1>1. to \in Nat /\ to < Modulus /\ Long(to) = to
  BY ModulusType, ModSmall DEF Word
<1>2. PICK d \in Int : d = to - (x + 2)
  BY <1>1
<1>3. CASE ISB(d)
  <2>1. Byte(d) = d
    BY <1>3 DEF ISB, Byte
  <2>2. e_jmpi(x, to) = Ins("jmp", d, 2) /\ e_jcc(x, to) = Ins("jcc", d, 2)
    BY <1>2, <1>3, <2>1 DEF e_jmpi, e_jcc
  <2>3. x + 2 + d = to
    BY <1>1, <1>2
  <2> QED
    BY <1>1, <2>2, <2>3 DEF Lands, Ins
<1>4. CASE ~ISB(d)
  <2>1. PICK e \in Int, f \in Int : e = x + 5 /\ f = x + 6
    OBVIOUS
  <2>2. PICK j, k : j = Long(to - e) /\ k = Long(to - f)
    OBVIOUS
  <2>3. e_jmpi(x, to) = Ins("jmp", j, 5) /\ e_jcc(x, to) = Ins("jcc", k, 6)
    BY <1>2, <1>4, <2>1, <2>2 DEF e_jmpi, e_jcc
  <2>4. Long(e + j) = to /\ Long(f + k) = to
    BY <1>1, <2>2, ThereAndBack
  <2> QED
    BY <2>1, <2>3, <2>4 DEF Lands, Ins
<1> QED
  BY <1>3, <1>4

\* All of them, for the samples.
LEMMA EncodesIs == EncodesRight
<1>1. SUFFICES ASSUME NEW x \in Samples, NEW eax \in BOOLEAN
               PROVE  /\ \A i \in Ints :
                           /\ ExecAll(x, e_addri(eax, i)) = Long(x + i)
                           /\ ExecAll(x, e_andri(eax, i)) = And(x, Long(i))
                           /\ ExecAll(x, e_movri(i)) = Long(i)
                           /\ ExecAll(x, e_mulri(Long(i))) = Mul(x, Long(i))
                      /\ \A i \in Subtracted : ExecAll(x, e_subri(eax, i)) = Long(x - i)
                      /\ \A z \in 0 .. WordBits - 1 : ExecAll(x, e_shxri("shr", z)) = x \div Pow2[z]
                      /\ \A k \in Word : IsPowerOf2(k) => ExecAll(x, e_shxri("shr", Zeros(k))) = Div(x, k)
                      /\ \A to \in Word : Lands(x, e_jmpi(x, to)) = to /\ Lands(x, e_jcc(x, to)) = to
                      /\ \A n \in SkippedLen : Lands(x, JccOver(x, n)) = Long(x + 2 + n)
  BY DEF EncodesRight
<1>2. x \in Word /\ x \in Int
  <2>1. Modulus \in Nat /\ Modulus >= 1024
    BY WordsAre
  <2> QED
    BY <2>1 DEF Samples, Word
<1>3. ASSUME NEW i \in Ints
      PROVE  /\ ExecAll(x, e_addri(eax, i)) = Long(x + i)
             /\ ExecAll(x, e_andri(eax, i)) = And(x, Long(i))
             /\ ExecAll(x, e_movri(i)) = Long(i)
             /\ ExecAll(x, e_mulri(Long(i))) = Mul(x, Long(i))
  <2>1. i \in Int
    BY DEF Ints
  <2>2. Long(i) \in Word
    <3>1. PICK d \in Nat \ {0} : d = Modulus
      BY ModulusType
    <3>2. i % d \in 0 .. d - 1
      BY <2>1
    <3> QED
      BY <3>1, <3>2 DEF Long, Word
  <2> QED
    BY <1>2, <2>1, <2>2, AddsRight, AndsRight, MovesRight, MultipliesRight
<1>4. ASSUME NEW i \in Subtracted PROVE ExecAll(x, e_subri(eax, i)) = Long(x - i)
  <2>1. i \in Int \ {-1, 1, 128}
    <3>1. CASE i \in {28, 8, 5, 4}
      BY <3>1
    <3>2. ASSUME NEW c \in 0 .. 33 \ {29}, i = AllocLen(c) + 8
          PROVE  i \in Int \ {-1, 1, 128}
      BY <3>2 DEF AllocLen
    <3> QED
      BY <3>1, <3>2 DEF Subtracted
  <2> QED
    BY <1>2, <2>1, SubtractsRight
<1>5. ASSUME NEW z \in 0 .. WordBits - 1 PROVE ExecAll(x, e_shxri("shr", z)) = x \div Pow2[z]
  <2>1. z \in Nat
    BY WordBitsAssumption
  <2> QED
    BY <1>2, <2>1, ShiftsRight
<1>6. ASSUME NEW k \in Word, IsPowerOf2(k) PROVE ExecAll(x, e_shxri("shr", Zeros(k))) = Div(x, k)
  <2>1. k # 0 /\ k = Pow2[Zeros(k)]
    BY <1>6 DEF IsPowerOf2
  <2>2. Zeros(k) \in 0 .. WordBits - 1
    BY <2>1, ZerosIs
  <2> QED
    BY <1>5, <2>1, <2>2 DEF Div
<1>7. ASSUME NEW n \in SkippedLen PROVE Lands(x, JccOver(x, n)) = Long(x + 2 + n)
  <2>1. n \in {2, 9, 12}
    BY DEF SkippedLen, StoreLen, CallLen
  <2>2. Byte(n) = n
    BY <2>1 DEF Byte
  <2> QED
    BY <2>2 DEF Lands, JccOver, Ins
<1> QED
  BY <1>2, <1>3, <1>4, <1>5, <1>6, <1>7, JumpsRight

\* The forms of the instructions, for words of every length above nine bits: whatever
\* form an immediate operand gets, what is computed is the platter's function of it,
\* and every jump, short or long, leads where it should.
THEOREM EncodesAlwaysRight == Spec => []EncodesRight
BY EncodesIs, PTL

-----------------------------------------------------------------------------
(* The lengths of code *)

\* The sum of numbers none of which is more than 6.
LEMMA TotalSix ==
  ASSUME NEW s \in Seq(Nat), \A k \in 1 .. Len(s) : s[k] <= 6
  PROVE  Total(s) \in Nat /\ Total(s) <= 6 * Len(s)
<1>1. PICK f \in [0 .. Len(s) -> Nat] :
        /\ Total(s) = f[Len(s)] /\ f[0] = 0
        /\ \A k \in 1 .. Len(s) : f[k] = f[k - 1] + s[k]
  BY TotalIs
<1> DEFINE Few == {n \in Nat : n <= Len(s) => f[n] <= 6 * n}
<1>2. 0 \in Few
  BY <1>1
<1>3. ASSUME NEW n \in Few PROVE n + 1 \in Few
  <2>1. SUFFICES ASSUME n + 1 <= Len(s) PROVE f[n + 1] <= 6 * (n + 1)
    OBVIOUS
  <2>2. /\ n \in Nat /\ n \in 0 .. Len(s) /\ f[n] <= 6 * n /\ n + 1 \in 1 .. Len(s)
        /\ (n + 1) - 1 = n
    BY <2>1
  <2>3. PICK j \in 1 .. Len(s) : j = n + 1 /\ j - 1 = n
    BY <2>2
  <2>4. f[j] = f[n] + s[j] /\ s[j] <= 6
    <3>1. f[j] = f[j - 1] + s[j]
      BY <1>1
    <3> QED
      BY <2>3, <3>1
  <2>5. f[n] \in Nat
    BY <1>1, <2>2
  <2>6. s[j] \in Nat
    BY <2>3
  <2> QED
    BY <2>2, <2>3, <2>4, <2>5, <2>6
<1>4. Few = Nat
  <2> HIDE DEF Few
  <2>1. Few \in SUBSET Nat
    BY DEF Few
  <2> QED
    BY <1>2, <1>3, <2>1, NatSetInduction
<1>5. Len(s) \in Few /\ Len(s) \in 0 .. Len(s)
  BY <1>4
<1> QED
  BY <1>1, <1>5

\* An instruction of 6 bytes or fewer: 12 is enough for it, and for two.
LEMMA LengthOne ==
  ASSUME NEW a, a.n \in 0 .. 6
  PROVE  Length(<<a>>) \in 0 .. 12
<1> DEFINE code == <<a>>
           s == [k \in DOMAIN code |-> code[k].n]
<1>1. DOMAIN code = 1 .. 1 /\ code[1] = a
  OBVIOUS
<1>2. DOMAIN s = 1 .. 1 /\ s[1] = a.n
  BY <1>1
<1>3. Length(code) = Total(s)
  BY DEF Length
<1>4. s = [k \in 1 .. 1 |-> s[k]]
  BY <1>1
<1> HIDE DEF s, code
<1>5. \A k \in 1 .. 1 : s[k] \in Nat /\ s[k] <= 6
  BY <1>2
<1>6. s \in Seq(Nat) /\ Len(s) = 1
  BY <1>4, <1>5
<1>7. Total(s) \in Nat /\ Total(s) <= 6 * Len(s)
  BY <1>5, <1>6, TotalSix
<1>8. PICK t, l : t = Total(s) /\ l = Len(s)
  OBVIOUS
<1>9. t \in Nat /\ t <= 6 * l /\ l = 1
  BY <1>6, <1>7, <1>8, Zenon
<1>10. t \in 0 .. 12
  BY <1>9
<1> QED
  BY <1>3, <1>8, <1>10 DEF code

\* The same of two.
LEMMA LengthTwo ==
  ASSUME NEW a, NEW b, a.n \in 0 .. 6, b.n \in 0 .. 6
  PROVE  Length(<<a, b>>) \in 0 .. 12
<1> DEFINE code == <<a, b>>
           s == [k \in DOMAIN code |-> code[k].n]
<1>1. DOMAIN code = 1 .. 2 /\ code[1] = a /\ code[2] = b
  OBVIOUS
<1>2. DOMAIN s = 1 .. 2 /\ s[1] = a.n /\ s[2] = b.n
  BY <1>1
<1>3. Length(code) = Total(s)
  BY DEF Length
<1>4. s = [k \in 1 .. 2 |-> s[k]]
  BY <1>1
<1> HIDE DEF s, code
<1>5. \A k \in 1 .. 2 : s[k] \in Nat /\ s[k] <= 6
  BY <1>2
<1>6. s \in Seq(Nat) /\ Len(s) = 2
  BY <1>4, <1>5
<1>7. Total(s) \in Nat /\ Total(s) <= 6 * Len(s)
  BY <1>5, <1>6, TotalSix
<1>8. PICK t, l : t = Total(s) /\ l = Len(s)
  OBVIOUS
<1>9. t \in Nat /\ t <= 6 * l /\ l = 2
  BY <1>6, <1>7, <1>8, Zenon
<1>10. t \in 0 .. 12
  BY <1>9
<1> QED
  BY <1>3, <1>8, <1>10 DEF code

\* The forms of an operation on an immediate operand.
LEMMA FormShort ==
  ASSUME NEW op, NEW eax \in BOOLEAN, NEW i
  PROVE  \E a : a.n \in 0 .. 6 /\ e_xxxri(op, eax, i) = <<a>>
<1>1. \A x : Ins(op, x, 3).n = 3 /\ Ins(op, x, 5).n = 5 /\ Ins(op, x, 6).n = 6
  BY DEF Ins
<1>2. CASE ISB(i)
  BY <1>1, <1>2 DEF e_xxxri
<1>3. CASE ~ISB(i)
  BY <1>1, <1>3 DEF e_xxxri
<1> QED
  BY <1>2, <1>3

\* A subtraction of a constant has 12 bytes at most: two instructions.
LEMMA SubtractionShort ==
  ASSUME NEW eax \in BOOLEAN, NEW j \in Int
  PROVE  Length(e_subri(eax, j)) \in 0 .. 12
<1>1. PICK a : a.n \in 0 .. 6 /\ e_xxxri("sub", eax, j) = <<a>>
  BY FormShort
<1>2. PICK b : b.n \in 0 .. 6 /\ e_xxxri("add", eax, -j) = <<b>>
  BY FormShort
<1>3. PICK u : u = Ins("add", 1, 1)
  OBVIOUS
<1>4. PICK v : v = Ins("sub", 1, 1)
  OBVIOUS
<1>5. u.n \in 0 .. 6 /\ v.n \in 0 .. 6
  BY <1>3, <1>4 DEF Ins
<1>6. ASSUME NEW c PROVE <<c>> \o <<a>> = <<c, a>>
  <2> DEFINE w == <<c>> \o <<a>>
  <2>1. PICK S : S = {a, c}
    OBVIOUS
  <2>2. <<c>> \in Seq(S) /\ <<a>> \in Seq(S)
    BY <2>1
  <2>3. w \in Seq(S) /\ Len(w) = 2 /\ w[1] = c /\ w[2] = a
    BY <2>2
  <2>4. <<c, a>> \in Seq(S)
    BY <2>1
  <2> HIDE DEF w
  <2>5. w = <<c, a>>
    BY <2>3, <2>4
  <2> QED
    BY <2>5 DEF w
<1>7. <<>> \o <<a>> = <<a>>
  OBVIOUS
<1>8. CASE j = -1
  <2>1. j # 1 /\ j # 128
    BY <1>8
  <2>2. e_subri(eax, j) = <<u>> \o <<a>>
    BY <1>1, <1>3, <1>8, <2>1, Zenon DEF e_subri
  <2> QED
    BY <1>1, <1>5, <1>6, <2>2, LengthTwo
<1>9. CASE j = 1
  <2>1. j # -1 /\ j # 128
    BY <1>9
  <2>2. e_subri(eax, j) = <<v>> \o <<a>>
    BY <1>1, <1>4, <1>9, <2>1, Zenon DEF e_subri
  <2> QED
    BY <1>1, <1>5, <1>6, <2>2, LengthTwo
<1>10. CASE j = 128
  <2>1. e_subri(eax, j) = <<b>> \o <<a>>
    BY <1>1, <1>2, <1>10 DEF e_subri
  <2> QED
    BY <1>1, <1>2, <1>6, <2>1, LengthTwo
<1>11. CASE j \notin {-1, 1, 128}
  <2>1. j # -1 /\ j # 1 /\ j # 128
    BY <1>11
  <2>2. e_subri(eax, j) = <<>> \o <<a>>
    BY <1>1, <2>1, Zenon DEF e_subri
  <2> QED
    BY <1>1, <1>7, <2>2, LengthOne
<1> QED
  BY <1>8, <1>9, <1>10, <1>11

\* An addition too, which may be a subtraction.
LEMMA AdditionShort ==
  ASSUME NEW eax \in BOOLEAN, NEW i \in Int
  PROVE  Length(e_addri(eax, i)) \in 0 .. 12
<1>1. PICK b : b.n \in 0 .. 6 /\ e_xxxri("add", eax, i) = <<b>>
  BY FormShort
<1>2. PICK u : u = Ins("add", 1, 1)
  OBVIOUS
<1>3. PICK v : v = Ins("sub", 1, 1)
  OBVIOUS
<1>4. u.n \in 0 .. 6 /\ v.n \in 0 .. 6
  BY <1>2, <1>3 DEF Ins
<1>5. CASE i = 1
  <2>1. e_addri(eax, i) = <<u>>
    BY <1>2, <1>5 DEF e_addri
  <2> QED
    BY <1>4, <2>1, LengthOne
<1>6. CASE i = -1
  <2>1. e_addri(eax, i) = <<v>>
    BY <1>3, <1>6 DEF e_addri
  <2> QED
    BY <1>4, <2>1, LengthOne
<1>7. CASE i = 128
  <2>1. e_addri(eax, i) = e_subri(eax, -i)
    BY <1>7 DEF e_addri
  <2>2. -i \in Int
    OBVIOUS
  <2> QED
    BY <2>1, <2>2, SubtractionShort
<1>8. CASE i \notin {-1, 1, 128}
  <2>1. i # -1 /\ i # 1 /\ i # 128
    BY <1>8
  <2>2. e_addri(eax, i) = <<b>>
    BY <1>1, <2>1, Zenon DEF e_addri
  <2> QED
    BY <1>1, <2>2, LengthOne
<1> QED
  BY <1>5, <1>6, <1>7, <1>8

\* And a move.
LEMMA MoveShort ==
  ASSUME NEW i
  PROVE  Length(e_movri(i)) \in 0 .. 12
<1>1. PICK a : a = Ins("mov", 0, 2)
  OBVIOUS
<1>2. PICK b : b = Ins("mov", Long(i), 5)
  OBVIOUS
<1>3. a.n \in 0 .. 6 /\ b.n \in 0 .. 6
  BY <1>1, <1>2 DEF Ins
<1>4. e_movri(i) = <<a>> \/ e_movri(i) = <<b>>
  BY <1>1, <1>2 DEF e_movri, Clear
<1> QED
  BY <1>3, <1>4, LengthOne

\* What co_alloc clears, up to 33 words, by stores of 6 bytes at most.
LEMMA ClearedShort ==
  ASSUME NEW c \in 0 .. 33
  PROVE  Total(Cleared(AllocLen(c))) \in 0 .. 198
<1> DEFINE n == AllocLen(c) \div 4 - 1
           s == Cleared(AllocLen(c))
<1>1. n \in 1 .. 33
  <2>1. CASE c = 0
    BY <2>1 DEF AllocLen
  <2>2. CASE c # 0
    BY <2>2 DEF AllocLen
  <2> QED
    BY <2>1, <2>2
<1>2. s = [k \in 1 .. n |-> 1 + e_xxxrd(4 * (k - 1))]
  BY DEF Cleared
<1> HIDE DEF n, s
<1>3. ASSUME NEW k \in 1 .. n PROVE s[k] \in Nat /\ s[k] <= 6
  <2>1. PICK e : e = e_xxxrd(4 * (k - 1))
    OBVIOUS
  <2>2. e \in 1 .. 5
    BY <2>1 DEF e_xxxrd
  <2>3. s[k] = 1 + e
    BY <1>2, <2>1
  <2> QED
    BY <2>2, <2>3
<1>4. s = [k \in 1 .. n |-> s[k]]
  BY <1>2
<1>5. s \in Seq(Nat) /\ Len(s) = n
  <2>1. n \in Nat
    BY <1>1
  <2>2. s \in [1 .. n -> Nat]
    BY <1>3, <1>4
  <2> QED
    BY <2>1, <2>2
<1>6. Total(s) \in Nat /\ Total(s) <= 6 * n
  BY <1>3, <1>5, TotalSix
<1> QED
  BY <1>1, <1>6 DEF s

\* No case of the switch of umc_mkblk comes to more than 40 instructions.
LEMMA InstructionsFew == \A k \in DOMAIN Instructions : Instructions[k] \in 0 .. 40
  BY DEF Instructions

\* The code of any platter, and what follows it, fits the 1024 bytes that umc_mkblk
\* asks getcod for: what the theorems about the segments rely on.
THEOREM RoomIsAhead == Spec => []RoomAhead
<1>1. RoomAhead
  <2>1. 4 \in Int /\ 8 \in Int /\ 12 \in Int /\ FALSE \in BOOLEAN /\ TRUE \in BOOLEAN
    OBVIOUS
  <2>2. PICK u \in 0 .. 12 : u = Length(e_addri(FALSE, 12))
    BY <2>1, AdditionShort, Zenon
  <2>3. PICK v \in 0 .. 12 : v = Length(e_subri(TRUE, 8))
    BY <2>1, SubtractionShort, Zenon
  <2>4. NoexLen = u + 2 * 5 + 2 + v + 1 + 5
    BY <2>2, <2>3, Zenon DEF NoexLen, PushLen, CallLen
  <2>5. FlushLen = 8 * 7
    BY DEF FlushLen, StoreLen
  <2>6. PICK after \in 0 .. 145 : after = FlushLen + 2 * NoexLen + 5
    BY <2>4, <2>5
  <2>7. ASSUME NEW c \in 0 .. 33
        PROVE  AllocBytes(c) + after <= 1024
    <3>1. PICK l \in Int : l = AllocLen(c) + 8
      BY DEF AllocLen
    <3>2. PICK p \in 0 .. 12 : p = Length(e_subri(FALSE, l))
      BY <2>1, SubtractionShort, Zenon
    <3>3. PICK q \in 0 .. 12 : q = Length(e_addri(FALSE, 8))
      BY <2>1, AdditionShort, Zenon
    <3>4. PICK r \in 0 .. 12 : r = Length(e_addri(FALSE, 4))
      BY <2>1, AdditionShort, Zenon
    <3>5. PICK t \in 0 .. 12 : t = Length(e_movri(0))
      BY MoveShort, Zenon
    <3>6. PICK w \in 0 .. 198 : w = Total(Cleared(AllocLen(c)))
      BY ClearedShort, Zenon
    <3>7. e_xxxrd(0) = 1
      BY DEF e_xxxrd
    <3>8. AllocBytes(c) = 2 * 7 + 3 * 6 + p + 6 + q + 1 + 1 + 4 + r + t + w
      BY <3>1, <3>2, <3>3, <3>4, <3>5, <3>6, <3>7, Zenon
         DEF AllocBytes, StoreLen, Absolute, JccLen
    <3> QED
      BY <3>8
  <2>8. ASSUME NEW k \in DOMAIN Instructions
        PROVE  LongestIns * Instructions[k] + after <= 1024
    <3>1. PICK n \in 0 .. 40 : n = Instructions[k]
      BY InstructionsFew
    <3>2. 7 * n + after <= 1024
      OBVIOUS
    <3> QED
      BY <3>1, <3>2, Zenon DEF LongestIns
  <2> QED
    BY <2>6, <2>7, <2>8 DEF RoomAhead, Inlined
<1> QED
  BY <1>1, PTL

=============================================================================
