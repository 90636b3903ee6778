--------------------------- MODULE CodegenProofs ---------------------------
(***************************************************************************)
(* Proofs about Codegen, for any number of vregs, of mregs, and any length *)
(* of blocks.                                                              *)
(***************************************************************************)
EXTENDS Codegen, WordsProofs, SequenceTheorems, TLAPS

-----------------------------------------------------------------------------
(* The tables of the register allocator *)

Fields == {"con", "cset", "z", "nz", "rset", "vtom", "mset", "mtov", "mlru", "time",
           "c", "at", "m", "gpr", "ok", "io", "facts"}

Typed(w) ==
  /\ DOMAIN w = Fields
  /\ w.con \in [VRegs -> Word] /\ w.gpr \in [VRegs -> Word] /\ w.m \in [MRegs -> Word]
  /\ w.cset \subseteq VRegs /\ w.z \subseteq VRegs /\ w.nz \subseteq VRegs
  /\ w.rset \subseteq VRegs /\ w.mset \subseteq VRegs
  /\ w.vtom \in [VRegs -> MRegs \cup {Free}]
  /\ w.mtov \in [MRegs -> VRegs \cup {Free, Held}]
  /\ w.time \in Nat /\ w.mlru \in [MRegs -> Nat] /\ \A m \in MRegs : w.mlru[m] <= w.time
  /\ w.ok \in BOOLEAN

\* vtom and mtov are inverse to each other, but for the vregs of L, which are between
\* two mregs.  An mreg may be held, for no vreg.
Mirrored(w, L) ==
  /\ \A v \in w.rset \ L : w.vtom[v] \in MRegs /\ w.mtov[w.vtom[v]] = v
  /\ \A m \in MRegs : w.mtov[m] \in VRegs =>
       w.mtov[m] \in w.rset \ L /\ w.vtom[w.mtov[m]] = m

Somewhere(w, L) == VRegs \subseteq w.rset \cup w.mset \cup w.cset \cup L

Loose(w, L) == Typed(w) /\ Mirrored(w, L) /\ Somewhere(w, L)
Tables(w)   == Loose(w, {})

\* The mregs that the platter being compiled uses: ra_mget does not eject them.
Busy(w) == {m \in MRegs : w.mtov[m] # Free /\ (w.mtov[m] = Held \/ w.mlru[m] = w.time)}
Spare(w) == MRegs \ Busy(w) # {}

\* The vreg is in an mreg that the platter uses.
Pinned(w, v) == v \in w.rset /\ w.vtom[v] \in Busy(w)

\* The mregs are named as the code needs them, and Free and Held name no vreg.
LEMMA Names ==
  /\ "EAX" \in MRegs /\ "EDX" \in MRegs /\ Free \notin VRegs /\ Held \notin VRegs /\ Free # Held
  /\ MRegs = {regpref[i] : i \in 1 .. Len(regpref)} /\ Len(regpref) \in Nat
  /\ DOMAIN regpref = 1 .. Len(regpref)
<1>1. regpref \in Seq(STRING)
  BY RegAllocAssumption
<1>2. Len(regpref) \in Nat /\ DOMAIN regpref = 1 .. Len(regpref)
  BY <1>1, LenProperties
<1>. QED
  BY <1>2, RegAllocAssumption DEF MRegs, ToSet, Free, Held

\* An mreg is worth ejecting if the platter does not use it.
LEMMA DislikeSign ==
  ASSUME NEW w, Typed(w), NEW m \in MRegs
  PROVE  ra__dislike(w, m) \in Int /\ (ra__dislike(w, m) > 0 <=> m \notin Busy(w))
<1> DEFINE t == w.time - w.mlru[m]
           d == 4 * t
<1>1. t \in Nat /\ (t = 0 <=> w.mlru[m] = w.time) /\ w.mlru[m] \in Nat /\ w.time \in Nat
  BY DEF Typed
<1> HIDE DEF t
<1>2. d \div 2 = 2 * t /\ d \div 4 = t
  BY <1>1
<1>3. ra__dislike(w, m) =
        CASE w.mtov[m] = Held -> -1
          [] w.mtov[m] = Free -> 2 ^ 30
          [] OTHER -> LET off == IF w.mtov[m] \in w.cset THEN d \div 2 ELSE d \div 4
                      IN  IF w.mtov[m] \in w.mset THEN d + off ELSE d - off
  BY DEF ra__dislike, t
<1> HIDE DEF d
<1>4. d = 4 * t
  BY DEF d
<1>5. CASE w.mtov[m] \in {Held, Free}
  BY <1>3, <1>5, Names, 2 ^ 30 = 1073741824 DEF Busy
<1>6. CASE w.mtov[m] \notin {Held, Free}
  <2>1. \/ ra__dislike(w, m) = d + d \div 2
        \/ ra__dislike(w, m) = d + d \div 4
        \/ ra__dislike(w, m) = d - d \div 2
        \/ ra__dislike(w, m) = d - d \div 4
    BY <1>3, <1>6
  <2>2. ra__dislike(w, m) \in Int /\ (ra__dislike(w, m) > 0 <=> t # 0)
    BY <1>1, <1>2, <1>4, <2>1
  <2>. QED
    BY <1>1, <1>6, <2>2 DEF Busy
<1>. QED
  BY <1>5, <1>6

\* Of the dislikes of the mregs one is the greatest, and the first that is.
LEMMA MostDislikedIsMost ==
  ASSUME NEW d \in [DOMAIN regpref -> Int]
  PROVE  \E i \in DOMAIN regpref : /\ MostDisliked(d) = regpref[i]
                                   /\ \A j \in DOMAIN regpref : d[i] >= d[j]
<1> DEFINE n == Len(regpref)
           Best(i, k) == \A j \in 1 .. k : d[i] >= d[j] /\ (j < i => d[i] > d[j])
           X == {k \in Nat : k = 0 \/ k > n \/ \E i \in 1 .. k : Best(i, k)}
<1>1. n \in Nat /\ DOMAIN regpref = 1 .. n /\ n # 0
  BY Names
<1> HIDE DEF n
<1>2. d \in [1 .. n -> Int]
  BY <1>1
<1>3. 0 \in X
  OBVIOUS
<1>4. ASSUME NEW k \in X PROVE k + 1 \in X
  <2>1. k \in Nat
    OBVIOUS
  <2>2. CASE k = 0
    <3>1. Best(1, 1)
      BY <1>1, <1>2
    <3>2. 1 \in X
      BY <3>1
    <3>. QED
      BY <2>2, <3>2
  <2>3. CASE k + 1 > n
    BY <2>1, <2>3
  <2>4. CASE k # 0 /\ k + 1 <= n
    <3>1. PICK i \in 1 .. k : Best(i, k)
      BY <1>1, <2>1, <2>4
    <3>2. d[i] \in Int /\ d[k + 1] \in Int /\ \A j \in 1 .. k : d[j] \in Int
      BY <1>1, <1>2, <2>1, <2>4
    <3>3. \A j \in 1 .. k + 1 : j \in 1 .. k \/ j = k + 1
      BY <2>1
    <3>4. CASE d[i] >= d[k + 1]
      <4>1. Best(i, k + 1)
        BY <2>1, <3>1, <3>2, <3>3, <3>4
      <4>. QED
        BY <2>1, <4>1
    <3>5. CASE d[k + 1] > d[i]
      <4>1. \A j \in 1 .. k : d[k + 1] > d[j]
        BY <3>1, <3>2, <3>5
      <4>2. Best(k + 1, k + 1)
        BY <2>1, <3>2, <3>3, <4>1
      <4>. QED
        BY <2>1, <4>2
    <3>. QED
      BY <3>2, <3>4, <3>5
  <2>. QED
    BY <1>1, <2>1, <2>2, <2>3, <2>4
<1>5. X = Nat
  BY <1>3, <1>4, NatSetInduction
<1>6. \E i \in 1 .. n : Best(i, n)
  <2>1. n \in X
    BY <1>1, <1>5
  <2>. QED
    BY <1>1, <2>1
<1>. QED
  BY <1>1, <1>6 DEF MostDisliked

\* What ra_mget ejects is in use only if every mreg is.
LEMMA VictimSpare ==
  ASSUME NEW w, Typed(w)
  PROVE  Victim(w) \in MRegs /\ (Spare(w) => Victim(w) \notin Busy(w))
<1> DEFINE d == [i \in DOMAIN regpref |-> ra__dislike(w, regpref[i])]
<1>1. \A i \in DOMAIN regpref : regpref[i] \in MRegs
  BY Names
<1>2. d \in [DOMAIN regpref -> Int]
  BY <1>1, DislikeSign
<1>3. Victim(w) = MostDisliked(d)
  BY DEF Victim
<1>4. \A i \in DOMAIN regpref : d[i] = ra__dislike(w, regpref[i])
  OBVIOUS
<1> HIDE DEF d
<1>5. PICK i \in DOMAIN regpref : /\ MostDisliked(d) = regpref[i]
                                  /\ \A j \in DOMAIN regpref : d[i] >= d[j]
  BY <1>2, MostDislikedIsMost
<1>6. ASSUME NEW m \in MRegs \ Busy(w) PROVE regpref[i] \notin Busy(w)
  <2>1. PICK j \in DOMAIN regpref : m = regpref[j]
    BY Names
  <2>2. d[j] > 0 /\ d[j] \in Int /\ d[i] \in Int /\ d[i] >= d[j]
    BY <1>1, <1>2, <1>4, <1>5, <1>6, <2>1, DislikeSign
  <2>3. d[i] > 0
    BY <2>2
  <2>. QED
    BY <1>1, <1>4, <2>3, DislikeSign
<1>. QED
  BY <1>1, <1>3, <1>5, <1>6 DEF Spare

\* What the allocator leaves alone.
Keeps(w, x) ==
  /\ x.con = w.con /\ x.cset = w.cset /\ x.z = w.z /\ x.nz = w.nz /\ x.time = w.time
  /\ x.c = w.c /\ x.at = w.at /\ x.io = w.io /\ x.facts = w.facts

\* The vreg has the value x, wherever it is.
Holds(w, v, x) ==
  /\ v \in w.rset => Reg(w, v) = x
  /\ v \in w.mset => w.gpr[v] = x
  /\ v \in w.cset => w.con[v] = x

\* What is done to the tables does not change the values of the vregs.
Sound(w, x) == Live(w) => \A v \in VRegs : \A val : Holds(w, v, val) => Holds(x, v, val)

-----------------------------------------------------------------------------
(* The functions of the register allocator *)

\* ra_vflush: the tables stay right, and the mregs are as they were.
LEMMA VflushIs ==
  ASSUME NEW w, NEW L, Loose(w, L), NEW v \in VRegs \ L
  PROVE  LET x == ra_vflush(w, v)
         IN  /\ Loose(x, L) /\ Keeps(w, x) /\ Sound(w, x)
             /\ x.m = w.m /\ x.vtom = w.vtom /\ x.mlru = w.mlru /\ x.ok = w.ok
             /\ x.mtov = w.mtov /\ x.rset = w.rset /\ x.mset = w.mset \cup {v}
             /\ w.mset = VRegs => x.gpr = w.gpr
<1> DEFINE x == ra_vflush(w, v)
           y == SetGpr(w, v, Deferred(w, v))
<1>1. Typed(w) /\ Mirrored(w, L) /\ Somewhere(w, L)
  BY DEF Loose
<1>2. CASE v \in w.mset
  <2>1. x = w
    BY <1>2 DEF ra_vflush
  <2>2. w.mset = w.mset \cup {v}
    BY <1>2
  <2>. QED
    BY <1>1, <1>2, <2>1, <2>2 DEF Loose, Keeps, Sound
<1>3. CASE v \notin w.mset
  <2>1. Deferred(w, v) \in Word
    BY <1>1, <1>3 DEF Typed, Mirrored, Somewhere, Deferred, Reg
  <2>2. x = [y EXCEPT !.mset = @ \cup {v}]
    BY <1>3 DEF ra_vflush
  <2>3. y = w \/ y = [w EXCEPT !.gpr[v] = Deferred(w, v)]
    BY DEF SetGpr
  <2>4. /\ DOMAIN y = Fields /\ y.gpr \in [VRegs -> Word]
        /\ \A f \in Fields : f # "gpr" => y[f] = w[f]
        /\ \A u \in VRegs : u # v => y.gpr[u] = w.gpr[u]
        /\ Live(w) => y.gpr[v] = Deferred(w, v)
    BY <1>1, <2>1, <2>3 DEF Typed, Fields, SetGpr
  <2> HIDE DEF y
  <2>5. /\ DOMAIN x = Fields /\ x.mset = w.mset \cup {v}
        /\ \A f \in Fields : f # "gpr" /\ f # "mset" => x[f] = w[f]
        /\ x.gpr = y.gpr
    BY <1>1, <2>2, <2>4 DEF Fields
  <2> HIDE DEF x
  <2>6. Keeps(w, x) /\ x.m = w.m /\ x.vtom = w.vtom /\ x.mlru = w.mlru /\ x.ok = w.ok
        /\ x.mtov = w.mtov /\ x.rset = w.rset
    BY <2>5 DEF Keeps, Fields
  <2>7. Typed(x)
    BY <1>1, <2>4, <2>5, <2>6 DEF Typed, Keeps
  <2>8. Mirrored(x, L) /\ Somewhere(x, L)
    BY <1>1, <2>5, <2>6 DEF Mirrored, Somewhere, Keeps
  <2>9. ASSUME Live(w), NEW u \in VRegs, NEW val, Holds(w, u, val) PROVE Holds(x, u, val)
    <3>1. u = v => Deferred(w, v) = val
      BY <1>1, <1>3, <2>9 DEF Holds, Deferred, Somewhere
    <3>. QED
      BY <2>4, <2>5, <2>6, <2>9, <3>1 DEF Holds, Reg, Keeps
  <2>10. Sound(w, x)
    BY <2>9 DEF Sound
  <2>. QED
    BY <1>3, <2>4, <2>5, <2>6, <2>7, <2>8, <2>10 DEF Loose, x
<1>. QED
  BY <1>2, <1>3

\* x is w once the vreg of m, if any, has gone to memory.
Cleared(w, x, L, m) ==
  /\ Loose(x, L) /\ Keeps(w, x) /\ Sound(w, x)
  /\ x.m = w.m /\ x.vtom = w.vtom /\ x.mlru = w.mlru
  /\ \A k \in MRegs : k # m => x.mtov[k] = w.mtov[k]
  /\ x.rset = {v \in w.rset : v \in L \/ w.vtom[v] # m} /\ w.mset \subseteq x.mset
  /\ x.mset \subseteq w.mset \cup {w.mtov[m]}
  /\ w.mset = VRegs => x.gpr = w.gpr

\* ra_mclear: the mreg is free, and what was in it is somewhere else.
LEMMA MclearIs ==
  ASSUME NEW w, NEW L, Loose(w, L), NEW m \in MRegs
  PROVE  LET x == ra_mclear(w, m)
         IN  /\ Cleared(w, x, L, m) /\ x.ok = w.ok
             /\ x.mtov[m] = IF w.mtov[m] = Held THEN Held ELSE Free
<1> DEFINE x == ra_mclear(w, m)
           v == w.mtov[m]
           y == ra_vflush(w, v)
<1>1. Typed(w) /\ Mirrored(w, L) /\ Somewhere(w, L)
  BY DEF Loose
<1>2. CASE v \notin VRegs
  <2>1. x = w /\ (v = Held \/ v = Free)
    BY <1>1, <1>2 DEF ra_mclear, Typed
  <2>2. w.rset = {u \in w.rset : u \in L \/ w.vtom[u] # m}
    BY <1>1, <1>2 DEF Mirrored, Typed
  <2>. QED
    BY <1>1, <2>1, <2>2, Names DEF Cleared, Loose, Keeps, Sound
<1>3. CASE v \in VRegs
  <2>1. v \in w.rset \ L /\ w.vtom[v] = m
    BY <1>1, <1>3 DEF Mirrored
  <2>2. /\ Loose(y, L) /\ Keeps(w, y) /\ Sound(w, y)
        /\ y.m = w.m /\ y.vtom = w.vtom /\ y.mlru = w.mlru /\ y.ok = w.ok
        /\ y.mtov = w.mtov /\ y.rset = w.rset /\ y.mset = w.mset \cup {v}
        /\ w.mset = VRegs => y.gpr = w.gpr
    BY <1>3, <2>1, VflushIs
  <2>3. x = [y EXCEPT !.rset = @ \ {v}, !.mtov[m] = Free]
    BY <1>3 DEF ra_mclear
  <2> HIDE DEF y, v
  <2>5. Typed(y) /\ Mirrored(y, L) /\ Somewhere(y, L)
    BY <2>2 DEF Loose
  <2>6. /\ DOMAIN x = Fields /\ x.rset = y.rset \ {v} /\ x.mtov = [y.mtov EXCEPT ![m] = Free]
        /\ \A f \in Fields : f # "rset" /\ f # "mtov" => x[f] = y[f]
    BY <2>3, <2>5 DEF Fields, Typed
  <2> HIDE DEF x
  <2>7. /\ Keeps(w, x) /\ x.m = w.m /\ x.vtom = w.vtom /\ x.mlru = w.mlru /\ x.ok = w.ok
        /\ x.mset = w.mset \cup {v} /\ x.rset = w.rset \ {v} /\ x.gpr = y.gpr
        /\ x.mtov[m] = Free /\ \A k \in MRegs : k # m => x.mtov[k] = w.mtov[k]
    BY <2>2, <2>5, <2>6 DEF Keeps, Fields, Typed
  <2>8. x.rset = {u \in w.rset : u \in L \/ w.vtom[u] # m}
    BY <1>1, <2>1, <2>7 DEF Mirrored, v
  <2>9. Typed(x)
    BY <1>1, <1>3, <2>5, <2>6, <2>7 DEF Typed, Keeps
  <2>10. Mirrored(x, L)
    <3>1. ASSUME NEW u \in x.rset \ L PROVE x.vtom[u] \in MRegs /\ x.mtov[x.vtom[u]] = u
      BY <1>1, <2>7, <2>8 DEF Mirrored
    <3>2. ASSUME NEW k \in MRegs, x.mtov[k] \in VRegs
          PROVE  x.mtov[k] \in x.rset \ L /\ x.vtom[x.mtov[k]] = k
      <4>1. k # m /\ x.mtov[k] = w.mtov[k]
        BY <2>7, <3>2, Names
      <4>. QED
        BY <1>1, <2>7, <2>8, <3>2, <4>1 DEF Mirrored
    <3>. QED
      BY <3>1, <3>2 DEF Mirrored
  <2>11. Somewhere(x, L)
    BY <1>1, <2>7 DEF Somewhere, Keeps
  <2>12. ASSUME Live(w), NEW u \in VRegs, NEW val, Holds(w, u, val) PROVE Holds(x, u, val)
    <3>1. Holds(y, u, val)
      BY <2>2, <2>12 DEF Sound
    <3>. QED
      BY <2>2, <2>7, <3>1 DEF Holds, Reg, Keeps
  <2>13. Sound(w, x)
    BY <2>12 DEF Sound
  <2>14. v # Held
    BY <1>3, Names
  <2>. QED
    BY <2>2, <2>7, <2>8, <2>9, <2>10, <2>11, <2>13, <2>14 DEF Cleared, Loose, v, x
<1>. QED
  BY <1>2, <1>3

\* A vreg that is in no mreg may as well be between two.
LEMMA LooseMore ==
  ASSUME NEW w, Tables(w), NEW v, v \notin w.rset
  PROVE  Loose(w, {v})
BY DEF Tables, Loose, Mirrored, Somewhere

\* ra_mget: an mreg that is free and was not in use, if there is one to spare.
LEMMA MgetIs ==
  ASSUME NEW w, Tables(w), Spare(w)
  PROVE  LET m == Victim(w)
             x == ra_mget(w)
         IN  /\ m \in MRegs \ Busy(w)
             /\ Cleared(w, x, {}, m) /\ x.ok = w.ok /\ x.mtov[m] = Free
<1> DEFINE m == Victim(w)
           y == ra_mclear(w, m)
           x == ra_mget(w)
<1>1. Typed(w)
  BY DEF Tables, Loose
<1>2. m \in MRegs \ Busy(w)
  BY <1>1, VictimSpare
<1>3. ra__dislike(w, m) > 0 /\ w.mtov[m] # Held
  BY <1>1, <1>2, DislikeSign, Names DEF Busy
<1>4. x = [y EXCEPT !.ok = @ /\ ra__dislike(w, m) > 0]
  BY DEF ra_mget, Eject
<1> HIDE DEF m
<1>5. Cleared(w, y, {}, m) /\ y.ok = w.ok /\ y.mtov[m] = Free
  BY <1>2, <1>3, MclearIs DEF Tables
<1> HIDE DEF y, x
<1>6. Typed(y) /\ Mirrored(y, {}) /\ Somewhere(y, {}) /\ y.ok \in BOOLEAN
  BY <1>5 DEF Cleared, Loose, Typed
<1>7. DOMAIN x = Fields /\ x.ok = y.ok /\ \A f \in Fields : f # "ok" => x[f] = y[f]
  BY <1>3, <1>4, <1>6 DEF Fields, Typed
<1>8. /\ x.con = y.con /\ x.cset = y.cset /\ x.z = y.z /\ x.nz = y.nz /\ x.rset = y.rset
      /\ x.vtom = y.vtom /\ x.mset = y.mset /\ x.mtov = y.mtov /\ x.mlru = y.mlru
      /\ x.time = y.time /\ x.c = y.c /\ x.at = y.at /\ x.m = y.m /\ x.gpr = y.gpr
      /\ x.io = y.io /\ x.facts = y.facts
  BY <1>7 DEF Fields
<1>9. Loose(x, {})
  BY <1>6, <1>7, <1>8 DEF Loose, Typed, Mirrored, Somewhere
<1>10. Keeps(w, x) /\ Sound(w, x)
  BY <1>5, <1>8 DEF Cleared, Keeps, Sound, Holds, Reg
<1>. QED
  BY <1>2, <1>5, <1>7, <1>8, <1>9, <1>10 DEF Cleared, m, x

\* A vreg that was between two mregs is put in a free one.
LEMMA BindIs ==
  ASSUME NEW w, NEW v \in VRegs, Loose(w, {v}), NEW m \in MRegs, w.mtov[m] = Free
  PROVE  LET x == Bind(w, v, m)
         IN  /\ Tables(x) /\ Keeps(w, x)
             /\ x.m = w.m /\ x.gpr = w.gpr /\ x.mset = w.mset /\ x.ok = w.ok
             /\ x.rset = w.rset \cup {v}
             /\ x.vtom = [w.vtom EXCEPT ![v] = m]
             /\ x.mtov = [w.mtov EXCEPT ![m] = v]
             /\ x.mlru = [w.mlru EXCEPT ![m] = w.time]
<1> DEFINE x == Bind(w, v, m)
<1>1. Typed(w) /\ Mirrored(w, {v}) /\ Somewhere(w, {v})
  BY DEF Loose
<1>2. /\ DOMAIN x = Fields
      /\ x.rset = w.rset \cup {v} /\ x.vtom = [w.vtom EXCEPT ![v] = m]
      /\ x.mtov = [w.mtov EXCEPT ![m] = v] /\ x.mlru = [w.mlru EXCEPT ![m] = w.time]
      /\ \A f \in Fields \ {"rset", "vtom", "mtov", "mlru"} : x[f] = w[f]
  BY <1>1 DEF Bind, Touch, Typed, Fields
<1> HIDE DEF x
<1>3. Keeps(w, x) /\ x.m = w.m /\ x.gpr = w.gpr /\ x.mset = w.mset /\ x.ok = w.ok
  BY <1>2 DEF Keeps, Fields
<1>4. /\ x.vtom[v] = m /\ \A u \in VRegs \ {v} : x.vtom[u] = w.vtom[u]
      /\ x.mtov[m] = v /\ \A k \in MRegs \ {m} : x.mtov[k] = w.mtov[k]
  BY <1>1, <1>2 DEF Typed
<1>5. Typed(x)
  BY <1>1, <1>2, <1>3 DEF Typed, Keeps
<1>6. ASSUME NEW u \in x.rset PROVE x.vtom[u] \in MRegs /\ x.mtov[x.vtom[u]] = u
  <2>1. CASE u # v
    <3>1. u \in w.rset \ {v} /\ u \in VRegs /\ w.vtom[u] # m
      BY <1>1, <1>2, <2>1, Names DEF Mirrored, Typed
    <3>. QED
      BY <1>1, <1>4, <2>1, <3>1 DEF Mirrored
  <2>. QED
    BY <1>4, <2>1
<1>7. ASSUME NEW k \in MRegs, x.mtov[k] \in VRegs
      PROVE  x.mtov[k] \in x.rset /\ x.vtom[x.mtov[k]] = k
  <2>1. CASE k # m
    BY <1>1, <1>2, <1>4, <1>7, <2>1 DEF Mirrored
  <2>. QED
    BY <1>2, <1>4, <2>1
<1>8. Mirrored(x, {}) /\ Somewhere(x, {})
  BY <1>1, <1>2, <1>3, <1>6, <1>7 DEF Mirrored, Somewhere, Keeps
<1>. QED
  BY <1>2, <1>3, <1>5, <1>8 DEF Tables, Loose, x

\* x is w once v is in an mreg, for the use of the platter, and what other vregs
\* the platter uses still are.
Got(w, x, v) ==
  /\ Tables(x) /\ Keeps(w, x) /\ x.ok = w.ok
  /\ Pinned(x, v)
  /\ \A u : Pinned(w, u) => Pinned(x, u) /\ x.vtom[u] = w.vtom[u]
  /\ Busy(x) \subseteq Busy(w) \cup {x.vtom[v]}
  /\ \A k \in MRegs : x.mtov[k] = Held <=> w.mtov[k] = Held

\* What is written to an mreg changes no table.
LEMMA SetMIs ==
  ASSUME NEW w, NEW L, Loose(w, L), NEW m \in MRegs, NEW d \in Word
  PROVE  LET x == SetM(w, m, d)
         IN  /\ Loose(x, L) /\ Keeps(w, x)
             /\ x.gpr = w.gpr /\ x.ok = w.ok /\ x.rset = w.rset /\ x.vtom = w.vtom
             /\ x.mset = w.mset /\ x.mtov = w.mtov /\ x.mlru = w.mlru
             /\ x.m[m] = (IF Live(w) THEN d ELSE w.m[m])
             /\ \A k \in MRegs : k # m => x.m[k] = w.m[k]
<1> DEFINE x == SetM(w, m, d)
<1>1. Typed(w) /\ Mirrored(w, L) /\ Somewhere(w, L)
  BY DEF Loose
<1>2. /\ DOMAIN x = Fields /\ x.m \in [MRegs -> Word]
      /\ x.m[m] = (IF Live(w) THEN d ELSE w.m[m])
      /\ \A k \in MRegs : k # m => x.m[k] = w.m[k]
      /\ \A f \in Fields \ {"m"} : x[f] = w[f]
  BY <1>1 DEF SetM, Typed, Fields
<1> HIDE DEF x
<1>3. /\ Keeps(w, x)
      /\ x.gpr = w.gpr /\ x.ok = w.ok /\ x.rset = w.rset /\ x.vtom = w.vtom
      /\ x.mset = w.mset /\ x.mtov = w.mtov /\ x.mlru = w.mlru
  BY <1>2 DEF Keeps, Fields
<1>4. Typed(x)
  BY <1>1, <1>2, <1>3 DEF Typed, Keeps
<1>5. Mirrored(x, L) /\ Somewhere(x, L)
  BY <1>1, <1>3 DEF Mirrored, Somewhere, Keeps
<1>. QED
  BY <1>2, <1>3, <1>4, <1>5 DEF Loose, x

\* Load: the vreg comes to be in that mreg, with its value, and nothing else changes.
LEMMA LoadIs ==
  ASSUME NEW w, Tables(w), NEW v \in VRegs, NEW m \in MRegs, w.mtov[m] = Free
  PROVE  LET x == Load(w, v, m)
         IN  /\ Tables(x) /\ Keeps(w, x) /\ Sound(w, x) /\ x.ok = w.ok
             /\ x.gpr = w.gpr /\ x.mset = w.mset
             /\ v \in x.rset /\ x.vtom[v] = m /\ x.mtov[m] = v /\ x.mlru[m] = x.time
             /\ x.rset = w.rset \cup {v}
             /\ \A u \in VRegs \ {v} : x.vtom[u] = w.vtom[u]
             /\ \A k \in MRegs \ {m} : x.mtov[k] \in {w.mtov[k], Free} /\ x.mlru[k] = w.mlru[k]
             /\ \A k \in MRegs \ {m} : w.mtov[k] \notin VRegs => x.mtov[k] = w.mtov[k]
<1> DEFINE x == Load(w, v, m)
<1>1. Typed(w) /\ Mirrored(w, {}) /\ Somewhere(w, {})
  BY DEF Tables, Loose
<1>2. \A u \in w.rset : w.vtom[u] # m
  BY <1>1, Names DEF Mirrored, Typed
<1>3. CASE v \in w.rset
  <2> DEFINE om == w.vtom[v]
             d == Reg(w, v)
             y == SetM(w, m, d)
             b == [y EXCEPT !.mtov[om] = Free]
  <2>1. om \in MRegs /\ om # m /\ d \in Word /\ w.mtov[om] = v
    BY <1>1, <1>2, <1>3 DEF Mirrored, Typed, Reg
  <2>2. x = Bind(b, v, m)
    BY <1>3 DEF Load
  <2> HIDE DEF om, d
  <2>3. /\ Tables(y) /\ Keeps(w, y)
        /\ y.gpr = w.gpr /\ y.ok = w.ok /\ y.rset = w.rset /\ y.vtom = w.vtom
        /\ y.mset = w.mset /\ y.mtov = w.mtov /\ y.mlru = w.mlru
        /\ y.m[m] = (IF Live(w) THEN d ELSE w.m[m])
        /\ \A k \in MRegs : k # m => y.m[k] = w.m[k]
    BY <2>1, SetMIs DEF Tables
  <2> HIDE DEF y
  <2>4. Typed(y) /\ Mirrored(y, {}) /\ Somewhere(y, {})
    BY <2>3 DEF Tables, Loose
  <2>5. /\ DOMAIN b = Fields /\ b.mtov = [y.mtov EXCEPT ![om] = Free]
        /\ \A f \in Fields \ {"mtov"} : b[f] = y[f]
    BY <2>1, <2>4 DEF Fields, Typed
  <2> HIDE DEF b
  <2>6. /\ Keeps(w, b) /\ b.gpr = w.gpr /\ b.ok = w.ok /\ b.rset = w.rset /\ b.vtom = w.vtom
        /\ b.mset = w.mset /\ b.mlru = w.mlru /\ b.m = y.m
        /\ b.mtov[om] = Free /\ \A k \in MRegs : k # om => b.mtov[k] = w.mtov[k]
    BY <2>1, <2>3, <2>4, <2>5 DEF Keeps, Fields, Typed
  <2>7. Typed(b)
    BY <2>1, <2>4, <2>5 DEF Typed, Fields
  <2>8. Mirrored(b, {v})
    <3>1. ASSUME NEW u \in b.rset \ {v} PROVE b.vtom[u] \in MRegs /\ b.mtov[b.vtom[u]] = u
      BY <1>1, <2>1, <2>6 DEF Mirrored
    <3>2. ASSUME NEW k \in MRegs, b.mtov[k] \in VRegs
          PROVE  b.mtov[k] \in b.rset \ {v} /\ b.vtom[b.mtov[k]] = k
      <4>1. k # om /\ b.mtov[k] = w.mtov[k]
        BY <2>6, <3>2, Names
      <4>. QED
        BY <1>1, <2>6, <3>2, <4>1 DEF Mirrored, om
    <3>. QED
      BY <3>1, <3>2 DEF Mirrored
  <2>9. Loose(b, {v}) /\ b.mtov[m] = Free
    BY <1>1, <2>1, <2>6, <2>7, <2>8 DEF Loose, Somewhere, Keeps
  <2>10. /\ Tables(x) /\ Keeps(b, x)
         /\ x.m = b.m /\ x.gpr = b.gpr /\ x.mset = b.mset /\ x.ok = b.ok
         /\ x.rset = b.rset \cup {v}
         /\ x.vtom = [b.vtom EXCEPT ![v] = m]
         /\ x.mtov = [b.mtov EXCEPT ![m] = v]
         /\ x.mlru = [b.mlru EXCEPT ![m] = b.time]
    BY <2>2, <2>9, BindIs
  <2> HIDE DEF x
  <2>11. /\ x.vtom[v] = m /\ \A u \in VRegs \ {v} : x.vtom[u] = w.vtom[u]
         /\ x.mtov[m] = v /\ \A k \in MRegs \ {m} : x.mtov[k] = b.mtov[k]
         /\ x.mlru[m] = w.time /\ \A k \in MRegs \ {m} : x.mlru[k] = w.mlru[k]
         /\ Keeps(w, x)
    BY <2>6, <2>7, <2>10 DEF Typed, Keeps
  <2>12. ASSUME Live(w), NEW u \in VRegs, NEW val, Holds(w, u, val) PROVE Holds(x, u, val)
    <3>1. CASE u = v
      BY <1>3, <2>3, <2>6, <2>10, <2>11, <2>12, <3>1 DEF Holds, Reg, Keeps, d
    <3>2. CASE u # v
      <4>1. u \in x.rset => u \in w.rset /\ x.vtom[u] = w.vtom[u] /\ w.vtom[u] \in MRegs \ {m}
        BY <1>1, <1>2, <2>6, <2>10, <2>11, <3>2 DEF Mirrored
      <4>. QED
        BY <2>3, <2>6, <2>10, <2>11, <2>12, <4>1 DEF Holds, Reg, Keeps
    <3>. QED
      BY <3>1, <3>2
  <2>13. Sound(w, x)
    BY <2>12 DEF Sound
  <2>14. \A k \in MRegs \ {m} : /\ x.mtov[k] \in {w.mtov[k], Free}
                                /\ w.mtov[k] \notin VRegs => x.mtov[k] = w.mtov[k]
    BY <2>1, <2>6, <2>11
  <2>. QED
    BY <2>6, <2>10, <2>11, <2>13, <2>14 DEF Keeps, x
<1>4. CASE v \notin w.rset
  <2> DEFINE d == IF v \in w.cset THEN w.con[v] ELSE w.gpr[v]
             b == SetM(w, m, d)
  <2>1. d \in Word
    BY <1>1 DEF Typed
  <2>2. x = Bind(b, v, m)
    BY <1>4 DEF Load
  <2> HIDE DEF d
  <2>3. /\ Tables(b) /\ Keeps(w, b)
        /\ b.gpr = w.gpr /\ b.ok = w.ok /\ b.rset = w.rset /\ b.vtom = w.vtom
        /\ b.mset = w.mset /\ b.mtov = w.mtov /\ b.mlru = w.mlru
        /\ b.m[m] = (IF Live(w) THEN d ELSE w.m[m])
        /\ \A k \in MRegs : k # m => b.m[k] = w.m[k]
    BY <2>1, SetMIs DEF Tables
  <2> HIDE DEF b
  <2>4. Loose(b, {v}) /\ Typed(b)
    BY <1>4, <2>3, LooseMore DEF Loose
  <2>5. /\ Tables(x) /\ Keeps(b, x)
        /\ x.m = b.m /\ x.gpr = b.gpr /\ x.mset = b.mset /\ x.ok = b.ok
        /\ x.rset = b.rset \cup {v}
        /\ x.vtom = [b.vtom EXCEPT ![v] = m]
        /\ x.mtov = [b.mtov EXCEPT ![m] = v]
        /\ x.mlru = [b.mlru EXCEPT ![m] = b.time]
    <3>1. /\ Loose(b, {v}) /\ m \in MRegs /\ b.mtov[m] = w.mtov[m] /\ x = Bind(b, v, m)
      BY <2>2, <2>3, <2>4
    <3>. QED
      BY <2>3, <3>1, BindIs, SMTT(30)
  <2> HIDE DEF x
  <2>6. /\ x.vtom[v] = m /\ \A u \in VRegs \ {v} : x.vtom[u] = w.vtom[u]
        /\ x.mtov[m] = v /\ \A k \in MRegs \ {m} : x.mtov[k] = w.mtov[k]
        /\ x.mlru[m] = w.time /\ \A k \in MRegs \ {m} : x.mlru[k] = w.mlru[k]
        /\ Keeps(w, x)
    BY <2>3, <2>4, <2>5 DEF Typed, Keeps
  <2>7. ASSUME Live(w), NEW u \in VRegs, NEW val, Holds(w, u, val) PROVE Holds(x, u, val)
    <3>1. CASE u = v
      <4>1. d = val
        BY <1>1, <1>4, <2>7, <3>1 DEF Holds, Somewhere, d
      <4>. QED
        BY <2>3, <2>5, <2>6, <2>7, <3>1, <4>1 DEF Holds, Reg, Keeps
    <3>2. CASE u # v
      <4>1. u \in x.rset => u \in w.rset /\ x.vtom[u] = w.vtom[u] /\ w.vtom[u] \in MRegs \ {m}
        BY <1>1, <1>2, <2>3, <2>5, <2>6, <3>2 DEF Mirrored
      <4>. QED
        BY <2>3, <2>5, <2>6, <2>7, <4>1 DEF Holds, Reg, Keeps
    <3>. QED
      BY <3>1, <3>2
  <2>8. Sound(w, x)
    BY <2>7 DEF Sound
  <2>. QED
    BY <2>3, <2>5, <2>6, <2>8 DEF Keeps, x
<1>. QED
  BY <1>3, <1>4

\* Of what the platter uses, what ra_mclear clears and Load replaces is not in use.
LEMMA LdvmIs ==
  ASSUME NEW w, Tables(w), NEW v \in VRegs, NEW m \in MRegs \ Busy(w), ~Pinned(w, v)
  PROVE  LET x == ra_ldvm(w, v, m)
         IN  /\ Got(w, x, v) /\ Sound(w, x) /\ x.vtom[v] = m
             /\ w.mset = VRegs => x.gpr = w.gpr /\ x.mset = VRegs
<1> DEFINE y == ra_mclear(w, m)
           x == ra_ldvm(w, v, m)
<1>1. Typed(w) /\ Mirrored(w, {}) /\ w.mtov[m] # Held
  BY Names DEF Tables, Loose, Busy
<1>2. Cleared(w, y, {}, m) /\ y.ok = w.ok /\ y.mtov[m] = Free
  BY <1>1, MclearIs DEF Tables
<1>3. x = Load(y, v, m)
  BY DEF ra_ldvm
<1> HIDE DEF y, x
<1>4. /\ Tables(y) /\ Keeps(w, y) /\ Sound(w, y)
      /\ y.m = w.m /\ y.vtom = w.vtom /\ y.mlru = w.mlru
      /\ \A k \in MRegs : k # m => y.mtov[k] = w.mtov[k]
      /\ y.rset = {u \in w.rset : w.vtom[u] # m} /\ w.mset \subseteq y.mset
      /\ w.mset = VRegs => y.gpr = w.gpr
  BY <1>2 DEF Cleared, Tables
<1>5. /\ Tables(x) /\ Keeps(y, x) /\ Sound(y, x) /\ x.ok = y.ok
      /\ x.gpr = y.gpr /\ x.mset = y.mset
      /\ v \in x.rset /\ x.vtom[v] = m /\ x.mtov[m] = v /\ x.mlru[m] = x.time
      /\ x.rset = y.rset \cup {v}
      /\ \A u \in VRegs \ {v} : x.vtom[u] = y.vtom[u]
      /\ \A k \in MRegs \ {m} : x.mtov[k] \in {y.mtov[k], Free} /\ x.mlru[k] = y.mlru[k]
      /\ \A k \in MRegs \ {m} : y.mtov[k] \notin VRegs => x.mtov[k] = y.mtov[k]
  BY <1>2, <1>3, <1>4, LoadIs
<1>6. Keeps(w, x) /\ x.ok = w.ok
  BY <1>2, <1>4, <1>5 DEF Keeps
<1>7. Sound(w, x)
  BY <1>4, <1>5 DEF Sound, Keeps, Live
<1>8. Pinned(x, v)
  BY <1>5, Names DEF Pinned, Busy
<1>9. ASSUME NEW u, Pinned(w, u) PROVE Pinned(x, u) /\ x.vtom[u] = w.vtom[u]
  <2>1. u \in w.rset /\ u # v /\ w.vtom[u] \in MRegs \ {m} /\ u \in VRegs
    BY <1>1, <1>9 DEF Pinned, Typed, Busy
  <2>2. u \in x.rset /\ x.vtom[u] = w.vtom[u] /\ w.mtov[w.vtom[u]] = u
    BY <1>1, <1>4, <1>5, <2>1 DEF Mirrored
  <2>3. x.mtov[x.vtom[u]] = u
    BY <1>5, <2>2 DEF Tables, Loose, Mirrored
  <2>4. x.mlru[x.vtom[u]] = x.time
    BY <1>4, <1>5, <1>6, <1>9, <2>1, <2>2, Names DEF Pinned, Busy, Keeps
  <2>. QED
    BY <2>1, <2>2, <2>3, <2>4, Names DEF Pinned, Busy
<1>10. Busy(x) \subseteq Busy(w) \cup {m}
  BY <1>4, <1>5, <1>6 DEF Busy, Keeps
<1>11. \A k \in MRegs : x.mtov[k] = Held <=> w.mtov[k] = Held
  <2>1. ASSUME NEW k \in MRegs, k # m PROVE x.mtov[k] = Held <=> w.mtov[k] = Held
    BY <1>4, <1>5, <2>1, Names
  <2>. QED
    BY <1>1, <1>5, <2>1, Names
<1>12. w.mset = VRegs => x.gpr = w.gpr /\ x.mset = VRegs
  BY <1>4, <1>5 DEF Tables, Loose, Typed
<1>. QED
  BY <1>5, <1>6, <1>7, <1>8, <1>9, <1>10, <1>11, <1>12 DEF Got, x

\* Marking an mreg as used.
LEMMA TouchIs ==
  ASSUME NEW w, Tables(w), NEW v \in w.rset
  PROVE  LET x == Touch(w, w.vtom[v])
         IN  /\ Got(w, x, v) /\ Sound(w, x)
             /\ x.m = w.m /\ x.vtom = w.vtom /\ x.rset = w.rset /\ x.mtov = w.mtov
             /\ x.gpr = w.gpr /\ x.mset = w.mset
<1> DEFINE m == w.vtom[v]
           x == Touch(w, m)
<1>1. Typed(w) /\ Mirrored(w, {}) /\ Somewhere(w, {}) /\ m \in MRegs /\ w.mtov[m] = v /\ v \in VRegs
  BY DEF Tables, Loose, Mirrored, Typed
<1> HIDE DEF m
<1>2. /\ DOMAIN x = Fields /\ x.mlru = [w.mlru EXCEPT ![m] = w.time]
      /\ \A f \in Fields \ {"mlru"} : x[f] = w[f]
  BY <1>1 DEF Touch, Typed, Fields
<1> HIDE DEF x
<1>3. /\ Keeps(w, x) /\ x.ok = w.ok
      /\ x.m = w.m /\ x.vtom = w.vtom /\ x.rset = w.rset /\ x.mtov = w.mtov
      /\ x.gpr = w.gpr /\ x.mset = w.mset
      /\ x.mlru[m] = w.time /\ \A k \in MRegs \ {m} : x.mlru[k] = w.mlru[k]
  BY <1>1, <1>2 DEF Keeps, Fields, Typed
<1>4. Tables(x)
  BY <1>1, <1>2, <1>3 DEF Tables, Loose, Typed, Mirrored, Somewhere, Keeps
<1>5. Sound(w, x)
  BY <1>3 DEF Sound, Holds, Reg, Keeps
<1>6. Pinned(x, v) /\ Busy(x) \subseteq Busy(w) \cup {x.vtom[v]}
  BY <1>1, <1>3, Names DEF Pinned, Busy, Keeps, m
<1>7. \A u : Pinned(w, u) => Pinned(x, u) /\ x.vtom[u] = w.vtom[u]
  BY <1>3 DEF Pinned, Busy, Keeps
<1>. QED
  BY <1>3, <1>4, <1>5, <1>6, <1>7 DEF Got, x, m

\* ra_mgetv: the vreg is in an mreg, and no value has changed.
LEMMA MgetvIs ==
  ASSUME NEW w, Tables(w), NEW v \in VRegs, v \in w.rset \/ Spare(w)
  PROVE  LET x == ra_mgetv(w, v)
         IN  /\ Got(w, x, v) /\ Sound(w, x)
             /\ w.mset = VRegs => x.gpr = w.gpr /\ x.mset = VRegs
<1>1. CASE v \in w.rset
  BY <1>1, TouchIs DEF ra_mgetv
<1>2. CASE v \notin w.rset
  <2> DEFINE m == Victim(w)
             y == ra_mget(w)
             x == ra_ldvm(y, v, m)
  <2>1. /\ m \in MRegs \ Busy(w)
        /\ Cleared(w, y, {}, m) /\ y.ok = w.ok /\ y.mtov[m] = Free
    BY <1>2, MgetIs
  <2>2. ra_mgetv(w, v) = x
    BY <1>2 DEF ra_mgetv
  <2> HIDE DEF m, y
  <2>3. /\ Tables(y) /\ Keeps(w, y) /\ Sound(w, y)
        /\ y.vtom = w.vtom /\ y.mlru = w.mlru
        /\ \A k \in MRegs : k # m => y.mtov[k] = w.mtov[k]
        /\ y.rset = {u \in w.rset : w.vtom[u] # m} /\ w.mset \subseteq y.mset
        /\ w.mset = VRegs => y.gpr = w.gpr
    BY <2>1 DEF Cleared, Tables
  <2>4. Busy(y) = Busy(w)
    BY <2>1, <2>3 DEF Busy, Keeps
  <2>5. ~Pinned(y, v)
    BY <1>2, <2>3 DEF Pinned
  <2>6. /\ Got(y, x, v) /\ Sound(y, x)
        /\ y.mset = VRegs => x.gpr = y.gpr /\ x.mset = VRegs
    BY <2>1, <2>3, <2>4, <2>5, LdvmIs
  <2> HIDE DEF x
  <2>7. \A u : Pinned(w, u) => Pinned(y, u) /\ y.vtom[u] = w.vtom[u]
    BY <2>1, <2>3, <2>4 DEF Pinned
  <2>8. \A k \in MRegs : y.mtov[k] = Held <=> w.mtov[k] = Held
    BY <2>1, <2>3, Names DEF Busy
  <2>9. Got(w, x, v)
    BY <2>1, <2>3, <2>4, <2>6, <2>7, <2>8 DEF Got, Keeps
  <2>10. Sound(w, x)
    BY <2>3, <2>6 DEF Sound, Keeps, Live
  <2>11. w.mset = VRegs => x.gpr = w.gpr /\ x.mset = VRegs
    BY <2>3, <2>6 DEF Tables, Loose, Typed
  <2>. QED
    BY <2>2, <2>9, <2>10, <2>11
<1>. QED
  BY <1>1, <1>2

\* What is done to the tables does not change the values of the other vregs.
OthersSound(w, x, v) ==
  Live(w) => \A u \in VRegs \ {v} : \A val : Holds(w, u, val) => Holds(x, u, val)

\* ra_vdirty: memory no longer has the vreg.
LEMMA VdirtyIs ==
  ASSUME NEW w, NEW L, Loose(w, L), NEW v \in w.rset \cup w.cset \cup L
  PROVE  LET x == ra_vdirty(w, v)
         IN  /\ Loose(x, L) /\ Keeps(w, x) /\ Sound(w, x)
             /\ x.m = w.m /\ x.vtom = w.vtom /\ x.rset = w.rset /\ x.mtov = w.mtov
             /\ x.gpr = w.gpr /\ x.mset = w.mset \ {v} /\ x.mlru = w.mlru /\ x.ok = w.ok
<1> DEFINE x == ra_vdirty(w, v)
<1>1. Typed(w) /\ Mirrored(w, L) /\ Somewhere(w, L)
  BY DEF Loose
<1>2. /\ DOMAIN x = Fields /\ x.mset = w.mset \ {v}
      /\ \A f \in Fields \ {"mset"} : x[f] = w[f]
  BY <1>1 DEF ra_vdirty, Typed, Fields
<1> HIDE DEF x
<1>3. /\ Keeps(w, x) /\ x.ok = w.ok
      /\ x.m = w.m /\ x.vtom = w.vtom /\ x.rset = w.rset /\ x.mtov = w.mtov
      /\ x.gpr = w.gpr /\ x.mlru = w.mlru
  BY <1>1, <1>2 DEF Keeps, Fields
<1>4. Loose(x, L)
  BY <1>1, <1>2, <1>3 DEF Loose, Typed, Mirrored, Somewhere, Keeps
<1>5. Sound(w, x)
  BY <1>2, <1>3 DEF Sound, Holds, Reg, Keeps
<1>. QED
  BY <1>2, <1>3, <1>4, <1>5 DEF x

\* ra_mgetvd: the vreg has an mreg to be written to, and memory no longer has it.
LEMMA MgetvdIs ==
  ASSUME NEW w, Tables(w), NEW v \in VRegs, v \in w.rset \/ Spare(w)
  PROVE  LET x == ra_mgetvd(w, v)
         IN  /\ Got(w, x, v) /\ OthersSound(w, x, v) /\ v \notin x.mset /\ x.m = w.m
             /\ v \in w.rset => x.vtom[v] = w.vtom[v]
<1> DEFINE b == IF v \in w.rset THEN Touch(w, w.vtom[v]) ELSE Bind(ra_mget(w), v, Victim(w))
           x == ra_mgetvd(w, v)
<1>1. /\ Got(w, b, v) /\ OthersSound(w, b, v) /\ b.m = w.m
      /\ v \in w.rset => b.vtom[v] = w.vtom[v]
  <2>1. CASE v \in w.rset
    BY <2>1, TouchIs DEF OthersSound, Sound
  <2>2. CASE v \notin w.rset
    <3> DEFINE m == Victim(w)
               y == ra_mget(w)
               a == Bind(y, v, m)
    <3>1. /\ m \in MRegs \ Busy(w)
          /\ Cleared(w, y, {}, m) /\ y.ok = w.ok /\ y.mtov[m] = Free
      BY <2>2, MgetIs
    <3>2. b = a
      BY <2>2
    <3> HIDE DEF b, m, y
    <3>3. /\ Tables(y) /\ Keeps(w, y) /\ Sound(w, y)
          /\ y.m = w.m /\ y.vtom = w.vtom /\ y.mlru = w.mlru
          /\ \A k \in MRegs : k # m => y.mtov[k] = w.mtov[k]
          /\ y.rset = {u \in w.rset : w.vtom[u] # m} /\ w.mset \subseteq y.mset
      BY <3>1 DEF Cleared, Tables
    <3>4. Loose(y, {v}) /\ Typed(y) /\ Typed(w) /\ Mirrored(w, {})
      BY <2>2, <3>3, LooseMore DEF Loose, Tables
    <3>5. /\ Tables(a) /\ Keeps(y, a)
          /\ a.m = y.m /\ a.gpr = y.gpr /\ a.mset = y.mset /\ a.ok = y.ok
          /\ a.rset = y.rset \cup {v}
          /\ a.vtom = [y.vtom EXCEPT ![v] = m]
          /\ a.mtov = [y.mtov EXCEPT ![m] = v]
          /\ a.mlru = [y.mlru EXCEPT ![m] = y.time]
      BY <3>1, <3>4, BindIs
    <3> HIDE DEF a
    <3>6. /\ a.vtom[v] = m /\ \A u \in VRegs \ {v} : a.vtom[u] = w.vtom[u]
          /\ a.mtov[m] = v /\ \A k \in MRegs \ {m} : a.mtov[k] = w.mtov[k]
          /\ a.mlru[m] = w.time /\ \A k \in MRegs \ {m} : a.mlru[k] = w.mlru[k]
          /\ Keeps(w, a)
      BY <3>1, <3>3, <3>4, <3>5 DEF Typed, Keeps
    <3>7. Pinned(a, v) /\ Busy(a) \subseteq Busy(w) \cup {m}
      BY <3>1, <3>5, <3>6, Names DEF Pinned, Busy, Keeps
    <3>8. ASSUME NEW u, Pinned(w, u) PROVE Pinned(a, u) /\ a.vtom[u] = w.vtom[u]
      <4>1. u \in w.rset /\ u # v /\ w.vtom[u] \in MRegs \ {m} /\ u \in VRegs
        BY <2>2, <3>1, <3>4, <3>8 DEF Pinned, Typed, Busy
      <4>2. u \in a.rset /\ a.vtom[u] = w.vtom[u] /\ w.vtom[u] \in Busy(w)
        BY <3>3, <3>5, <3>6, <3>8, <4>1 DEF Pinned
      <4>. QED
        BY <3>6, <4>1, <4>2 DEF Pinned, Busy, Keeps
    <3>9. \A k \in MRegs : a.mtov[k] = Held <=> w.mtov[k] = Held
      BY <3>1, <3>6, Names DEF Busy
    <3>10. ASSUME Live(w), NEW u \in VRegs \ {v}, NEW val, Holds(w, u, val) PROVE Holds(a, u, val)
      <4>1. Holds(y, u, val)
        BY <3>3, <3>10 DEF Sound
      <4>. QED
        BY <3>3, <3>5, <3>6, <4>1 DEF Holds, Reg, Keeps
    <3>11. OthersSound(w, a, v)
      BY <3>10 DEF OthersSound
    <3>. QED
      BY <2>2, <3>1, <3>2, <3>3, <3>5, <3>6, <3>7, <3>8, <3>9, <3>11 DEF Got
  <2>. QED
    BY <2>1, <2>2
<1>2. x = ra_vdirty(b, v)
  BY DEF ra_mgetvd
<1> HIDE DEF b, x
<1>3. Tables(b) /\ v \in b.rset
  BY <1>1 DEF Got, Pinned
<1>4. /\ Tables(x) /\ Keeps(b, x) /\ Sound(b, x)
      /\ x.m = b.m /\ x.vtom = b.vtom /\ x.rset = b.rset /\ x.mtov = b.mtov
      /\ x.gpr = b.gpr /\ x.mset = b.mset \ {v} /\ x.mlru = b.mlru /\ x.ok = b.ok
  BY <1>2, <1>3, VdirtyIs DEF Tables
<1>5. Busy(x) = Busy(b) /\ \A u : Pinned(b, u) <=> Pinned(x, u)
  BY <1>4 DEF Busy, Pinned, Keeps
<1>6. Got(w, x, v)
  BY <1>1, <1>4, <1>5 DEF Got, Keeps
<1>7. OthersSound(w, x, v)
  BY <1>1, <1>4 DEF OthersSound, Sound, Got, Keeps, Live
<1>. QED
  BY <1>1, <1>4, <1>6, <1>7 DEF x

\* ra_mhold: the mreg is held, for no vreg.
LEMMA MholdIs ==
  ASSUME NEW w, Tables(w), NEW m \in MRegs
  PROVE  LET x == ra_mhold(w, m)
         IN  /\ Cleared(w, x, {}, m) /\ x.ok = w.ok /\ x.mtov[m] = Held
<1> DEFINE y == ra_mclear(w, m)
           x == ra_mhold(w, m)
<1>1. Cleared(w, y, {}, m) /\ y.ok = w.ok
  BY MclearIs DEF Tables
<1>2. x = [y EXCEPT !.mtov[m] = Held]
  BY DEF ra_mhold
<1> HIDE DEF y, x
<1>3. Typed(y) /\ Mirrored(y, {}) /\ Somewhere(y, {}) /\ Typed(w) /\ Mirrored(w, {})
  BY <1>1 DEF Cleared, Loose, Tables
<1>4. /\ DOMAIN x = Fields /\ x.mtov = [y.mtov EXCEPT ![m] = Held]
      /\ \A f \in Fields \ {"mtov"} : x[f] = y[f]
  BY <1>2, <1>3 DEF Fields, Typed
<1>5. /\ Keeps(y, x) /\ x.ok = y.ok
      /\ x.m = y.m /\ x.vtom = y.vtom /\ x.rset = y.rset
      /\ x.gpr = y.gpr /\ x.mset = y.mset /\ x.mlru = y.mlru
      /\ x.mtov[m] = Held /\ \A k \in MRegs \ {m} : x.mtov[k] = y.mtov[k]
  BY <1>3, <1>4 DEF Keeps, Fields, Typed
<1>6. Typed(x)
  BY <1>3, <1>4, <1>5 DEF Typed, Keeps
<1>7. \A u \in y.rset : y.vtom[u] # m
  BY <1>1 DEF Cleared
<1>8. Mirrored(x, {}) /\ Somewhere(x, {})
  <2>1. ASSUME NEW u \in x.rset PROVE x.vtom[u] \in MRegs /\ x.mtov[x.vtom[u]] = u
    BY <1>3, <1>5, <1>7 DEF Mirrored
  <2>2. ASSUME NEW k \in MRegs, x.mtov[k] \in VRegs
        PROVE  x.mtov[k] \in x.rset /\ x.vtom[x.mtov[k]] = k
    <3>1. k # m
      BY <1>5, <2>2, Names
    <3>. QED
      BY <1>3, <1>5, <2>2, <3>1 DEF Mirrored
  <2>3. Mirrored(x, {})
    BY <2>1, <2>2 DEF Mirrored
  <2>. QED
    BY <1>3, <1>5, <2>3 DEF Somewhere, Keeps
<1>9. Sound(w, x)
  BY <1>1, <1>5 DEF Cleared, Sound, Holds, Reg, Keeps
<1>10. Keeps(w, x)
  BY <1>1, <1>5 DEF Cleared, Keeps
<1>. QED
  BY <1>1, <1>5, <1>6, <1>8, <1>9, <1>10 DEF Cleared, Loose, x

\* ra_mrelse: what was held is free, and the assertion holds.
LEMMA MrelseIs ==
  ASSUME NEW w, Tables(w), NEW m \in MRegs, w.mtov[m] = Held
  PROVE  LET x == ra_mrelse(w, m)
         IN  /\ Tables(x) /\ Keeps(w, x) /\ x.ok = w.ok
             /\ x.m = w.m /\ x.vtom = w.vtom /\ x.rset = w.rset /\ x.mset = w.mset
             /\ x.gpr = w.gpr /\ x.mlru = w.mlru
             /\ x.mtov[m] = Free /\ \A k \in MRegs \ {m} : x.mtov[k] = w.mtov[k]
<1> DEFINE x == ra_mrelse(w, m)
<1>1. Typed(w) /\ Mirrored(w, {}) /\ Somewhere(w, {})
  BY DEF Loose, Tables
<1>2. /\ DOMAIN x = Fields /\ x.mtov = [w.mtov EXCEPT ![m] = Free] /\ x.ok = w.ok
      /\ \A f \in Fields \ {"mtov", "ok"} : x[f] = w[f]
  BY <1>1 DEF ra_mrelse, Fields, Typed
<1> HIDE DEF x
<1>3. /\ Keeps(w, x)
      /\ x.m = w.m /\ x.vtom = w.vtom /\ x.rset = w.rset
      /\ x.gpr = w.gpr /\ x.mset = w.mset /\ x.mlru = w.mlru
      /\ x.mtov[m] = Free /\ \A k \in MRegs \ {m} : x.mtov[k] = w.mtov[k]
  BY <1>1, <1>2 DEF Keeps, Fields, Typed
<1>4. Typed(x)
  BY <1>1, <1>2, <1>3 DEF Typed, Keeps
<1>5. Mirrored(x, {}) /\ Somewhere(x, {})
  <2>1. \A u \in w.rset : w.vtom[u] # m /\ u \in VRegs
    BY <1>1, Names DEF Mirrored, Typed
  <2>2. \A k \in MRegs : x.mtov[k] \in VRegs => k # m
    BY <1>3, Names
  <2>3. Mirrored(x, {})
    BY <1>1, <1>3, <2>1, <2>2 DEF Mirrored
  <2>. QED
    BY <1>1, <1>3, <2>3 DEF Somewhere, Keeps
<1>. QED
  BY <1>2, <1>3, <1>4, <1>5 DEF Loose, Tables, x

\* A vreg that leaves its mreg for another.
LEMMA FreedIs ==
  ASSUME NEW w, Tables(w), NEW v \in VRegs
  PROVE  LET x == IF v \in w.rset THEN [w EXCEPT !.mtov[w.vtom[v]] = Free] ELSE w
         IN  /\ Loose(x, {v}) /\ Keeps(w, x) /\ x.ok = w.ok
             /\ x.m = w.m /\ x.vtom = w.vtom /\ x.rset = w.rset /\ x.mset = w.mset
             /\ x.gpr = w.gpr /\ x.mlru = w.mlru
             /\ \A k \in MRegs : x.mtov[k] = IF w.mtov[k] = v THEN Free ELSE w.mtov[k]
<1>1. Typed(w) /\ Mirrored(w, {}) /\ Somewhere(w, {})
  BY DEF Loose, Tables
<1>2. CASE v \notin w.rset
  <2>1. \A k \in MRegs : w.mtov[k] # v
    BY <1>1, <1>2 DEF Mirrored
  <2>. QED
    BY <1>2, <2>1, LooseMore DEF Keeps
<1>3. CASE v \in w.rset
  <2> DEFINE om == w.vtom[v]
             x == [w EXCEPT !.mtov[om] = Free]
  <2>1. om \in MRegs /\ w.mtov[om] = v
    BY <1>1, <1>3 DEF Mirrored
  <2>2. /\ DOMAIN x = Fields /\ x.mtov = [w.mtov EXCEPT ![om] = Free]
        /\ \A f \in Fields \ {"mtov"} : x[f] = w[f]
    BY <1>1, <2>1 DEF Fields, Typed
  <2> HIDE DEF x
  <2>3. \A k \in MRegs : x.mtov[k] = IF w.mtov[k] = v THEN Free ELSE w.mtov[k]
    BY <1>1, <2>1, <2>2 DEF Mirrored, Typed
  <2> HIDE DEF om
  <2>4. /\ Keeps(w, x) /\ x.ok = w.ok
        /\ x.m = w.m /\ x.vtom = w.vtom /\ x.rset = w.rset /\ x.mset = w.mset
        /\ x.gpr = w.gpr /\ x.mlru = w.mlru
    BY <2>2 DEF Keeps, Fields
  <2>5. Typed(x)
    BY <1>1, <2>1, <2>2, <2>4 DEF Typed, Keeps
  <2>6. Mirrored(x, {v})
    BY <1>1, <2>3, <2>4, Names DEF Mirrored
  <2>7. Somewhere(x, {v})
    BY <1>1, <2>4 DEF Somewhere, Keeps
  <2>. QED
    BY <1>3, <2>3, <2>4, <2>5, <2>6, <2>7 DEF Loose, x, om
<1>. QED
  BY <1>2, <1>3

\* ra_mchange: the mreg of one vreg becomes that of another.
LEMMA MchangeIs ==
  ASSUME NEW w, Tables(w), NEW m \in MRegs, NEW v \in VRegs, w.mtov[m] # Held
  PROVE  LET x == ra_mchange(w, m, v)
         IN  /\ Tables(x) /\ Keeps(w, x) /\ OthersSound(w, x, v) /\ x.ok = w.ok
             /\ x.m = w.m /\ x.vtom[v] = m /\ v \notin x.mset
             /\ Pinned(x, v) /\ Busy(x) \subseteq Busy(w) \cup {m}
             /\ \A k \in MRegs : x.mtov[k] \in {v, Free, w.mtov[k]}
             /\ \A k \in MRegs : x.mtov[k] = Held <=> w.mtov[k] = Held
<1> DEFINE f == IF v \in w.rset THEN [w EXCEPT !.mtov[w.vtom[v]] = Free] ELSE w
           y == ra_mclear(f, m)
           b == IF v \in w.rset /\ w.vtom[v] = m THEN Touch(w, m) ELSE Bind(y, v, m)
           x == ra_mchange(w, m, v)
<1>1. x = ra_vdirty(b, v)
  BY DEF ra_mchange
<1>2. /\ Tables(b) /\ Keeps(w, b) /\ OthersSound(w, b, v) /\ b.ok = w.ok
      /\ b.m = w.m /\ b.vtom[v] = m
      /\ Pinned(b, v) /\ Busy(b) \subseteq Busy(w) \cup {m}
      /\ \A k \in MRegs : b.mtov[k] \in {v, Free, w.mtov[k]}
      /\ \A k \in MRegs : b.mtov[k] = Held <=> w.mtov[k] = Held
  <2>1. CASE v \in w.rset /\ w.vtom[v] = m
    BY <2>1, TouchIs DEF Got, OthersSound, Sound
  <2>2. CASE ~(v \in w.rset /\ w.vtom[v] = m)
    <3>1. b = Bind(y, v, m)
      BY <2>2
    <3>2. /\ Loose(f, {v}) /\ Keeps(w, f) /\ f.ok = w.ok
          /\ f.m = w.m /\ f.vtom = w.vtom /\ f.rset = w.rset /\ f.mset = w.mset
          /\ f.gpr = w.gpr /\ f.mlru = w.mlru
          /\ \A k \in MRegs : f.mtov[k] = IF w.mtov[k] = v THEN Free ELSE w.mtov[k]
      BY FreedIs
    <3> HIDE DEF f, b
    <3>3. f.mtov[m] # Held
      BY <3>2, Names
    <3>4. Cleared(f, y, {v}, m) /\ y.ok = f.ok /\ y.mtov[m] = Free
      BY <3>2, <3>3, MclearIs
    <3> HIDE DEF y
    <3>5. /\ Loose(y, {v}) /\ Typed(y) /\ Keeps(f, y) /\ Sound(f, y)
          /\ y.m = f.m /\ y.vtom = f.vtom /\ y.mlru = f.mlru
          /\ \A k \in MRegs : k # m => y.mtov[k] = f.mtov[k]
          /\ y.rset = {u \in f.rset : u \in {v} \/ f.vtom[u] # m} /\ f.mset \subseteq y.mset
      BY <3>4 DEF Cleared, Loose
    <3>6. /\ Tables(b) /\ Keeps(y, b)
          /\ b.m = y.m /\ b.gpr = y.gpr /\ b.mset = y.mset /\ b.ok = y.ok
          /\ b.rset = y.rset \cup {v}
          /\ b.vtom = [y.vtom EXCEPT ![v] = m]
          /\ b.mtov = [y.mtov EXCEPT ![m] = v]
          /\ b.mlru = [y.mlru EXCEPT ![m] = y.time]
      <4>1. Loose(y, {v}) /\ y.mtov[m] = Free
        BY <3>4, <3>5
      <4>. QED
        BY <3>1, <4>1, BindIs
    <3>7. /\ b.vtom[v] = m /\ \A u \in VRegs \ {v} : b.vtom[u] = w.vtom[u]
          /\ b.mtov[m] = v
          /\ \A k \in MRegs \ {m} : b.mtov[k] = IF w.mtov[k] = v THEN Free ELSE w.mtov[k]
          /\ b.mlru[m] = w.time /\ \A k \in MRegs \ {m} : b.mlru[k] = w.mlru[k]
          /\ Keeps(w, b)
      BY <3>2, <3>5, <3>6 DEF Typed, Keeps
    <3>8. Pinned(b, v) /\ Busy(b) \subseteq Busy(w) \cup {m}
      BY <3>6, <3>7, Names DEF Pinned, Busy, Keeps
    <3>9. \A k \in MRegs : /\ b.mtov[k] \in {v, Free, w.mtov[k]}
                            /\ b.mtov[k] = Held <=> w.mtov[k] = Held
      BY <3>7, Names
    <3>10. ASSUME Live(w), NEW u \in VRegs \ {v}, NEW val, Holds(w, u, val) PROVE Holds(b, u, val)
      <4>1. Holds(f, u, val) /\ Live(f)
        BY <3>2, <3>10 DEF Holds, Reg, Keeps, Live
      <4>2. Holds(y, u, val)
        BY <3>5, <4>1 DEF Sound
      <4>. QED
        BY <3>2, <3>5, <3>6, <3>7, <4>2 DEF Holds, Reg, Keeps
    <3>11. OthersSound(w, b, v)
      BY <3>10 DEF OthersSound
    <3>. QED
      BY <3>2, <3>4, <3>5, <3>6, <3>7, <3>8, <3>9, <3>11
  <2>. QED
    BY <2>1, <2>2
<1> HIDE DEF b, x
<1>3. v \in b.rset
  BY <1>2 DEF Pinned
<1>4. /\ Tables(x) /\ Keeps(b, x) /\ Sound(b, x)
      /\ x.m = b.m /\ x.vtom = b.vtom /\ x.rset = b.rset /\ x.mtov = b.mtov
      /\ x.gpr = b.gpr /\ x.mset = b.mset \ {v} /\ x.mlru = b.mlru /\ x.ok = b.ok
  BY <1>1, <1>2, <1>3, VdirtyIs DEF Tables
<1>5. Busy(x) = Busy(b) /\ Pinned(x, v)
  BY <1>2, <1>4 DEF Busy, Pinned, Keeps
<1>6. OthersSound(w, x, v)
  BY <1>2, <1>4 DEF OthersSound, Sound, Keeps, Live
<1>7. Keeps(w, x)
  BY <1>2, <1>4 DEF Keeps
<1>. QED
  BY <1>2, <1>4, <1>5, <1>6, <1>7 DEF x

-----------------------------------------------------------------------------
(* The mregs and what is known of the vregs *)

\* A platter has up to two operands in mregs when it asks for another.
LEMMA SpareBut ==
  ASSUME NEW w, NEW p, NEW q, Busy(w) \subseteq {p, q}
  PROVE  Spare(w)
BY RegAllocAssumption DEF Spare

\* There is an mreg to spare if the platter uses no more than one.
LEMMA SpareOne ==
  ASSUME NEW w, NEW p, Busy(w) \subseteq {p}
  PROVE  Spare(w)
BY RegAllocAssumption DEF Spare

\* What is written to the mreg of a vreg changes no table.
LEMMA SetRegIs ==
  ASSUME NEW w, Tables(w), NEW v \in w.rset, NEW d \in Word
  PROVE  LET x == SetReg(w, v, d)
         IN  /\ Tables(x) /\ Keeps(w, x) /\ OthersSound(w, x, v)
             /\ x.gpr = w.gpr /\ x.ok = w.ok /\ x.rset = w.rset /\ x.vtom = w.vtom
             /\ x.mset = w.mset /\ x.mtov = w.mtov /\ x.mlru = w.mlru
             /\ Live(w) => Reg(x, v) = d
             /\ \A k \in MRegs : k # w.vtom[v] => x.m[k] = w.m[k]
             /\ ~Live(w) => x = w
<1> DEFINE x == SetM(w, w.vtom[v], d)
<1>1. Mirrored(w, {}) /\ w.vtom[v] \in MRegs
  BY DEF Tables, Loose, Mirrored
<1>2. /\ Tables(x) /\ Keeps(w, x)
      /\ x.gpr = w.gpr /\ x.ok = w.ok /\ x.rset = w.rset /\ x.vtom = w.vtom
      /\ x.mset = w.mset /\ x.mtov = w.mtov /\ x.mlru = w.mlru
      /\ x.m[w.vtom[v]] = (IF Live(w) THEN d ELSE w.m[w.vtom[v]])
      /\ \A k \in MRegs : k # w.vtom[v] => x.m[k] = w.m[k]
  BY <1>1, SetMIs DEF Tables
<1>3. ~Live(w) => x = w
  BY DEF SetM
<1>4. SetReg(w, v, d) = x
  BY DEF SetReg
<1> HIDE DEF x
<1>5. ASSUME Live(w), NEW u \in VRegs \ {v}, NEW val, Holds(w, u, val) PROVE Holds(x, u, val)
  <2>1. u \in w.rset => w.vtom[u] \in MRegs /\ w.vtom[u] # w.vtom[v]
    BY <1>1 DEF Mirrored
  <2>. QED
    BY <1>2, <1>5, <2>1 DEF Holds, Reg, Keeps
<1>6. OthersSound(w, x, v)
  BY <1>5 DEF OthersSound
<1>7. Live(w) => Reg(x, v) = d
  BY <1>2 DEF Reg
<1>. QED
  BY <1>2, <1>3, <1>4, <1>6, <1>7

\* An mreg that no vreg is in may hold anything.
LEMMA SetFreeIs ==
  ASSUME NEW w, Tables(w), NEW m \in MRegs, w.mtov[m] \notin VRegs, NEW d \in Word
  PROVE  LET x == SetM(w, m, d)
         IN  /\ Tables(x) /\ Keeps(w, x) /\ Sound(w, x)
             /\ x.gpr = w.gpr /\ x.ok = w.ok /\ x.rset = w.rset /\ x.vtom = w.vtom
             /\ x.mset = w.mset /\ x.mtov = w.mtov /\ x.mlru = w.mlru
             /\ \A k \in MRegs : k # m => x.m[k] = w.m[k]
<1> DEFINE x == SetM(w, m, d)
<1>1. Mirrored(w, {}) /\ Typed(w)
  BY DEF Tables, Loose
<1>2. /\ Tables(x) /\ Keeps(w, x)
      /\ x.gpr = w.gpr /\ x.ok = w.ok /\ x.rset = w.rset /\ x.vtom = w.vtom
      /\ x.mset = w.mset /\ x.mtov = w.mtov /\ x.mlru = w.mlru
      /\ \A k \in MRegs : k # m => x.m[k] = w.m[k]
  BY SetMIs DEF Tables
<1> HIDE DEF x
<1>3. \A u \in w.rset : w.vtom[u] \in MRegs /\ w.vtom[u] # m
  BY <1>1 DEF Mirrored, Typed
<1>4. Sound(w, x)
  BY <1>2, <1>3 DEF Sound, Holds, Reg, Keeps
<1>. QED
  BY <1>2, <1>4 DEF x

\* noncon: the compiler forgets what it knew of a vreg.
LEMMA NonconIs ==
  ASSUME NEW w, Tables(w), NEW v \in w.rset \cup w.mset
  PROVE  LET x == noncon(w, v)
         IN  /\ Tables(x) /\ OthersSound(w, x, v)
             /\ x.cset = w.cset \ {v} /\ x.z = w.z \ {v} /\ x.nz = w.nz \ {v}
             /\ x.con = w.con /\ x.rset = w.rset /\ x.vtom = w.vtom /\ x.mset = w.mset
             /\ x.mtov = w.mtov /\ x.mlru = w.mlru /\ x.time = w.time /\ x.c = w.c
             /\ x.at = w.at /\ x.m = w.m /\ x.gpr = w.gpr /\ x.ok = w.ok
             /\ x.io = w.io /\ x.facts = w.facts
             /\ \A val : (v \in w.rset => Reg(w, v) = val) /\ (v \in w.mset => w.gpr[v] = val)
                           => Holds(x, v, val)
<1> DEFINE x == noncon(w, v)
<1>1. Typed(w) /\ Mirrored(w, {}) /\ Somewhere(w, {})
  BY DEF Loose, Tables
<1>2. /\ DOMAIN x = Fields /\ x.cset = w.cset \ {v} /\ x.z = w.z \ {v} /\ x.nz = w.nz \ {v}
      /\ \A f \in Fields \ {"cset", "z", "nz"} : x[f] = w[f]
  BY <1>1 DEF noncon, Typed, Fields
<1> HIDE DEF x
<1>3. /\ x.con = w.con /\ x.rset = w.rset /\ x.vtom = w.vtom /\ x.mset = w.mset
      /\ x.mtov = w.mtov /\ x.mlru = w.mlru /\ x.time = w.time /\ x.c = w.c
      /\ x.at = w.at /\ x.m = w.m /\ x.gpr = w.gpr /\ x.ok = w.ok
      /\ x.io = w.io /\ x.facts = w.facts
  BY <1>2 DEF Fields
<1>4. Tables(x)
  BY <1>1, <1>2, <1>3 DEF Tables, Loose, Typed, Mirrored, Somewhere
<1>5. OthersSound(w, x, v)
  BY <1>2, <1>3 DEF OthersSound, Holds, Reg
<1>6. \A val : (v \in w.rset => Reg(w, v) = val) /\ (v \in w.mset => w.gpr[v] = val)
                 => Holds(x, v, val)
  BY <1>2, <1>3 DEF Holds, Reg
<1>. QED
  BY <1>2, <1>3, <1>4, <1>5, <1>6 DEF x

\* x is w once v is the constant d, and nowhere else.
Orthoed(w, x, v, d) ==
  /\ Tables(x) /\ OthersSound(w, x, v) /\ Holds(x, v, d)
  /\ v \in x.cset /\ x.con[v] = d /\ v \notin x.rset
  /\ x.cset = w.cset \cup {v}
  /\ x.z  = (IF d = 0 THEN w.z \cup {v} ELSE w.z \ {v})
  /\ x.nz = (IF d = 0 THEN w.nz \ {v} ELSE w.nz \cup {v})
  /\ x.time = w.time /\ x.c = w.c /\ x.at = w.at /\ x.io = w.io
  /\ x.facts = w.facts /\ x.ok = w.ok /\ x.gpr = w.gpr
  /\ x.mset = w.mset \ {v}
  /\ \A k \in MRegs : x.mtov[k] = Held <=> w.mtov[k] = Held

\* co_ortho: the vreg is a constant and nowhere else.
LEMMA OrthoIs ==
  ASSUME NEW w, Tables(w), NEW v \in VRegs, NEW d \in Word
  PROVE  Orthoed(w, co_ortho(w, v, d), v, d)
<1> DEFINE f == IF v \in w.rset THEN [w EXCEPT !.mtov[w.vtom[v]] = Free, !.rset = @ \ {v}] ELSE w
           y == ra_vdirty(f, v)
           x == co_ortho(w, v, d)
<1>1. Typed(w) /\ Mirrored(w, {}) /\ Somewhere(w, {})
  BY DEF Loose, Tables
<1>2. /\ DOMAIN f = Fields /\ f.rset = w.rset \ {v} /\ f.mtov \in [MRegs -> VRegs \cup {Free, Held}]
      /\ \A k \in MRegs : f.mtov[k] = IF w.mtov[k] = v THEN Free ELSE w.mtov[k]
      /\ \A e \in Fields \ {"mtov", "rset"} : f[e] = w[e]
  <2>1. CASE v \notin w.rset
    <3>1. \A k \in MRegs : w.mtov[k] # v
      BY <1>1, <2>1 DEF Mirrored
    <3>. QED
      BY <1>1, <2>1, <3>1 DEF Typed
  <2>2. CASE v \in w.rset
    <3> DEFINE om == w.vtom[v]
    <3>1. om \in MRegs /\ w.mtov[om] = v /\ \A k \in MRegs \ {om} : w.mtov[k] # v
      BY <1>1, <2>2 DEF Mirrored
    <3> HIDE DEF om
    <3>2. f = [w EXCEPT !.mtov[om] = Free, !.rset = @ \ {v}]
      BY <2>2 DEF om
    <3>3. /\ DOMAIN f = Fields /\ f.rset = w.rset \ {v} /\ f.mtov = [w.mtov EXCEPT ![om] = Free]
          /\ \A e \in Fields \ {"mtov", "rset"} : f[e] = w[e]
      BY <1>1, <3>2 DEF Typed, Fields
    <3> HIDE DEF f
    <3>4. /\ f.mtov \in [MRegs -> VRegs \cup {Free, Held}]
          /\ \A k \in MRegs : f.mtov[k] = IF w.mtov[k] = v THEN Free ELSE w.mtov[k]
      BY <1>1, <3>1, <3>3 DEF Typed
    <3>. QED
      BY <3>3, <3>4
  <2>. QED
    BY <2>1, <2>2
<1> HIDE DEF f
<1>3. x = [y EXCEPT !.cset = @ \cup {v}, !.con[v] = d,
                    !.z  = IF d = 0 THEN @ \cup {v} ELSE @ \ {v},
                    !.nz = IF d = 0 THEN @ \ {v} ELSE @ \cup {v}]
  BY DEF co_ortho, setcon, ra_vinval, f
<1>4. /\ DOMAIN y = Fields /\ y.mset = f.mset \ {v}
      /\ \A e \in Fields \ {"mset"} : y[e] = f[e]
  BY <1>2 DEF ra_vdirty, Fields
<1> HIDE DEF y
<1>5. y.con \in [VRegs -> Word]
  BY <1>1, <1>2, <1>4 DEF Typed, Fields
<1>6. /\ DOMAIN x = Fields /\ x.cset = y.cset \cup {v} /\ x.con = [y.con EXCEPT ![v] = d]
      /\ x.z  = (IF d = 0 THEN y.z \cup {v} ELSE y.z \ {v})
      /\ x.nz = (IF d = 0 THEN y.nz \ {v} ELSE y.nz \cup {v})
      /\ \A e \in Fields \ {"cset", "con", "z", "nz"} : x[e] = y[e]
  BY <1>3, <1>4 DEF Fields
<1> HIDE DEF x
<1>7. /\ x.con[v] = d /\ \A u \in VRegs \ {v} : x.con[u] = w.con[u]
      /\ x.con \in [VRegs -> Word]
  BY <1>2, <1>4, <1>5, <1>6 DEF Fields
<1>8. /\ x.cset = w.cset \cup {v}
      /\ x.z  = (IF d = 0 THEN w.z \cup {v} ELSE w.z \ {v})
      /\ x.nz = (IF d = 0 THEN w.nz \ {v} ELSE w.nz \cup {v})
      /\ x.mset = w.mset \ {v} /\ x.rset = w.rset \ {v} /\ x.mtov = f.mtov
  BY <1>2, <1>4, <1>6 DEF Fields
<1>9. /\ x.time = w.time /\ x.c = w.c /\ x.at = w.at /\ x.io = w.io
      /\ x.facts = w.facts /\ x.ok = w.ok /\ x.gpr = w.gpr /\ x.m = w.m
      /\ x.vtom = w.vtom /\ x.mlru = w.mlru
  BY <1>2, <1>4, <1>6 DEF Fields
<1>10. Typed(x)
  <2>1. x.z \subseteq VRegs /\ x.nz \subseteq VRegs /\ x.cset \subseteq VRegs
    BY <1>1, <1>8 DEF Typed
  <2>. QED
    BY <1>1, <1>2, <1>6, <1>7, <1>8, <1>9, <2>1 DEF Typed
<1>11. Mirrored(x, {})
  BY <1>1, <1>2, <1>8, <1>9, Names, SMTT(30) DEF Mirrored
<1>12. Somewhere(x, {})
  BY <1>1, <1>8 DEF Somewhere
<1>13. OthersSound(w, x, v)
  BY <1>7, <1>8, <1>9 DEF OthersSound, Holds, Reg
<1>14. Holds(x, v, d)
  BY <1>7, <1>8 DEF Holds
<1>15. \A k \in MRegs : x.mtov[k] = Held <=> w.mtov[k] = Held
  BY <1>2, <1>8, Names
<1>. QED
  BY <1>7, <1>8, <1>9, <1>10, <1>11, <1>12, <1>13, <1>14, <1>15 DEF Tables, Loose, Orthoed, x

\* x differs from w in where control is and what it does outside the registers.
AsWas(w, x) ==
  /\ DOMAIN x = Fields
  /\ x.con = w.con /\ x.cset = w.cset /\ x.z = w.z /\ x.nz = w.nz /\ x.rset = w.rset
  /\ x.vtom = w.vtom /\ x.mset = w.mset /\ x.mtov = w.mtov /\ x.mlru = w.mlru
  /\ x.time = w.time /\ x.m = w.m /\ x.gpr = w.gpr /\ x.ok = w.ok

\* What changes control alone leaves the tables right.
LEMMA AsWasTables ==
  ASSUME NEW w, Tables(w), NEW x, AsWas(w, x)
  PROVE  /\ Tables(x) /\ Busy(x) = Busy(w) /\ \A v : Pinned(x, v) <=> Pinned(w, v)
         /\ \A v, val : Holds(x, v, val) <=> Holds(w, v, val)
         /\ \A v : Reg(x, v) = Reg(w, v)
<1>1. Tables(x)
  BY DEF AsWas, Tables, Loose, Typed, Mirrored, Somewhere
<1>2. Busy(x) = Busy(w) /\ \A v : Pinned(x, v) <=> Pinned(w, v)
  BY DEF AsWas, Busy, Pinned
<1>3. \A v : Reg(x, v) = Reg(w, v)
  BY DEF AsWas, Reg
<1>4. \A v, val : Holds(x, v, val) <=> Holds(w, v, val)
  BY <1>3 DEF AsWas, Holds
<1>. QED
  BY <1>1, <1>2, <1>3, <1>4

\* The functions of control change control alone.
LEMMA ControlIs ==
  ASSUME NEW w, Tables(w), NEW p \in BOOLEAN, NEW t, NEW io, NEW facts
  PROVE  /\ AsWas(w, To(w, t)) /\ To(w, t).c = t /\ To(w, t).at = w.at
         /\ To(w, t).io = w.io /\ To(w, t).facts = w.facts
         /\ AsWas(w, Jcc(w, p, t)) /\ Jcc(w, p, t).c = w.c /\ Jcc(w, p, t).io = w.io
         /\ Jcc(w, p, t).facts = w.facts
         /\ Jcc(w, p, t).at = IF p /\ Live(w) THEN t ELSE w.at
         /\ AsWas(w, Jump(w, t)) /\ Jump(w, t).c = w.c /\ Jump(w, t).io = w.io
         /\ Jump(w, t).facts = w.facts
         /\ Jump(w, t).at = IF Live(w) THEN t ELSE w.at
         /\ AsWas(w, EndOver(w)) /\ EndOver(w).c = w.c /\ EndOver(w).io = w.io
         /\ EndOver(w).facts = w.facts
         /\ EndOver(w).at = IF w.at = "over" THEN w.c ELSE w.at
         /\ AsWas(w, Do(w, io)) /\ Do(w, io).c = w.c /\ Do(w, io).at = w.at
         /\ Do(w, io).facts = w.facts
         /\ Do(w, io).io = IF Live(w) THEN io ELSE w.io
         /\ AsWas(w, Go(w, io, facts)) /\ Go(w, io, facts).c = w.c
         /\ Go(w, io, facts).at = (IF Live(w) THEN "gone" ELSE w.at)
         /\ Go(w, io, facts).io = (IF Live(w) THEN io ELSE w.io)
         /\ Go(w, io, facts).facts = (IF Live(w) THEN facts ELSE w.facts)
<1>1. DOMAIN w = Fields
  BY DEF Tables, Loose, Typed
<1>2. /\ AsWas(w, To(w, t)) /\ To(w, t).c = t /\ To(w, t).at = w.at
      /\ To(w, t).io = w.io /\ To(w, t).facts = w.facts
  BY <1>1 DEF AsWas, To, Fields
<1>3. /\ AsWas(w, Jump(w, t)) /\ Jump(w, t).c = w.c /\ Jump(w, t).io = w.io
      /\ Jump(w, t).facts = w.facts
      /\ Jump(w, t).at = IF Live(w) THEN t ELSE w.at
  BY <1>1 DEF AsWas, Jump, Fields
<1>4. /\ AsWas(w, Jcc(w, p, t)) /\ Jcc(w, p, t).c = w.c /\ Jcc(w, p, t).io = w.io
      /\ Jcc(w, p, t).facts = w.facts
      /\ Jcc(w, p, t).at = IF p /\ Live(w) THEN t ELSE w.at
  <2>1. AsWas(w, w)
    BY <1>1 DEF AsWas
  <2>. QED
    BY <1>3, <2>1 DEF Jcc
<1>5. /\ AsWas(w, EndOver(w)) /\ EndOver(w).c = w.c /\ EndOver(w).io = w.io
      /\ EndOver(w).facts = w.facts
      /\ EndOver(w).at = IF w.at = "over" THEN w.c ELSE w.at
  BY <1>1 DEF AsWas, EndOver, Fields
<1>6. /\ AsWas(w, Do(w, io)) /\ Do(w, io).c = w.c /\ Do(w, io).at = w.at
      /\ Do(w, io).facts = w.facts
      /\ Do(w, io).io = IF Live(w) THEN io ELSE w.io
  BY <1>1 DEF AsWas, Do, Fields
<1>7. /\ AsWas(w, Go(w, io, facts)) /\ Go(w, io, facts).c = w.c
      /\ Go(w, io, facts).at = (IF Live(w) THEN "gone" ELSE w.at)
      /\ Go(w, io, facts).io = (IF Live(w) THEN io ELSE w.io)
      /\ Go(w, io, facts).facts = (IF Live(w) THEN facts ELSE w.facts)
  BY <1>1 DEF AsWas, Go, Fields
<1>. QED
  BY <1>2, <1>3, <1>4, <1>5, <1>6, <1>7

\* ra_vflushall: all vregs are in memory.
LEMMA FlushallIs ==
  ASSUME NEW w, Tables(w)
  PROVE  LET x == ra_vflushall(w)
         IN  /\ Tables(x) /\ Keeps(w, x) /\ Sound(w, x)
             /\ x.m = w.m /\ x.vtom = w.vtom /\ x.mlru = w.mlru /\ x.ok = w.ok
             /\ x.mtov = w.mtov /\ x.rset = w.rset /\ x.mset = VRegs
             /\ Live(w) => \A v \in VRegs : \A val : Holds(w, v, val) => x.gpr[v] = val
<1> DEFINE x == ra_vflushall(w)
           flushed == [v \in VRegs |-> IF v \in w.mset THEN w.gpr[v] ELSE Deferred(w, v)]
<1>1. Typed(w) /\ Mirrored(w, {}) /\ Somewhere(w, {})
  BY DEF Loose, Tables
<1>2. flushed \in [VRegs -> Word]
  <2>1. ASSUME NEW v \in VRegs PROVE Deferred(w, v) \in Word
    BY <1>1 DEF Typed, Mirrored, Somewhere, Deferred, Reg
  <2>. QED
    BY <1>1, <2>1 DEF Typed
<1>3. /\ DOMAIN x = Fields /\ x.mset = VRegs /\ x.gpr = (IF Live(w) THEN flushed ELSE w.gpr)
      /\ \A f \in Fields \ {"mset", "gpr"} : x[f] = w[f]
  BY <1>1 DEF ra_vflushall, Typed, Fields
<1>4. \A v \in VRegs : flushed[v] = IF v \in w.mset THEN w.gpr[v] ELSE Deferred(w, v)
  OBVIOUS
<1> HIDE DEF x, flushed
<1>5. /\ Keeps(w, x) /\ x.m = w.m /\ x.vtom = w.vtom /\ x.mlru = w.mlru /\ x.ok = w.ok
      /\ x.mtov = w.mtov /\ x.rset = w.rset
  BY <1>3 DEF Keeps, Fields
<1>6. Tables(x)
  BY <1>1, <1>2, <1>3, <1>5 DEF Tables, Loose, Typed, Mirrored, Somewhere, Keeps
<1>7. ASSUME Live(w), NEW v \in VRegs, NEW val, Holds(w, v, val)
      PROVE  x.gpr[v] = val /\ Holds(x, v, val)
  <2>1. x.gpr[v] = val
    BY <1>1, <1>3, <1>4, <1>7 DEF Holds, Deferred, Somewhere
  <2>. QED
    BY <1>3, <1>5, <1>7, <2>1 DEF Holds, Reg, Keeps
<1>8. Sound(w, x)
  BY <1>7 DEF Sound
<1>. QED
  BY <1>3, <1>5, <1>6, <1>7, <1>8 DEF x

\* x is w once some mregs have gone to memory.
Eased(w, x) ==
  /\ Tables(x) /\ Keeps(w, x) /\ Sound(w, x) /\ x.ok = w.ok
  /\ x.m = w.m /\ x.vtom = w.vtom /\ x.mlru = w.mlru
  /\ \A k \in MRegs : x.mtov[k] = w.mtov[k] \/ (w.mtov[k] \in VRegs /\ x.mtov[k] = Free)
  /\ x.rset \subseteq w.rset /\ w.mset \subseteq x.mset
  /\ w.mset = VRegs => x.gpr = w.gpr

\* Clearing one mreg before a call.
LEMMA ClearOneIs ==
  ASSUME NEW w, Tables(w), NEW m
  PROVE  Eased(w, Cclear(w, m)) /\ (m \in CallerSaved => Cclear(w, m).mtov[m] \notin VRegs)
<1> DEFINE x == Cclear(w, m)
<1>1. CASE m \in CallerSaved
  <2>1. m \in MRegs /\ x = ra_mclear(w, m)
    BY <1>1 DEF CallerSaved, Cclear
  <2>2. /\ Cleared(w, x, {}, m) /\ x.ok = w.ok
        /\ x.mtov[m] = IF w.mtov[m] = Held THEN Held ELSE Free
    BY <2>1, MclearIs DEF Tables
  <2> HIDE DEF x
  <2>3. w.mtov \in [MRegs -> VRegs \cup {Free, Held}]
    BY DEF Tables, Loose, Typed
  <2>4. \A k \in MRegs : x.mtov[k] = w.mtov[k] \/ (w.mtov[k] \in VRegs /\ x.mtov[k] = Free)
    BY <2>1, <2>2, <2>3 DEF Cleared
  <2>. QED
    BY <2>2, <2>4, Names DEF Eased, Cleared, Tables, x
<1>2. CASE m \notin CallerSaved
  BY <1>2 DEF Cclear, Eased, Keeps, Sound
<1>. QED
  BY <1>1, <1>2

\* co__cclear: nothing is left in an mreg that a call destroys.
LEMMA CclearIs ==
  ASSUME NEW w, Tables(w)
  PROVE  LET x == co__cclear(w)
         IN  Eased(w, x) /\ \A m \in CallerSaved : x.mtov[m] \notin VRegs
<1> DEFINE a == Cclear(w, "EAX")
           b == Cclear(a, "ECX")
           x == co__cclear(w)
<1>1. Eased(w, a) /\ ("EAX" \in CallerSaved => a.mtov["EAX"] \notin VRegs)
  BY ClearOneIs
<1>2. x = Cclear(b, "EDX")
  BY DEF co__cclear
<1> HIDE DEF a
<1>3. Eased(a, b) /\ ("ECX" \in CallerSaved => b.mtov["ECX"] \notin VRegs)
  BY <1>1, ClearOneIs DEF Eased
<1> HIDE DEF b, x
<1>4. Eased(b, x) /\ ("EDX" \in CallerSaved => x.mtov["EDX"] \notin VRegs)
  BY <1>2, <1>3, ClearOneIs DEF Eased
<1>5. CallerSaved \subseteq MRegs /\ CallerSaved \subseteq {"EAX", "ECX", "EDX"}
  BY DEF CallerSaved
<1>6. \A m \in CallerSaved : x.mtov[m] \notin VRegs
  <2>1. ASSUME NEW m \in CallerSaved PROVE x.mtov[m] \notin VRegs
    <3>1. m \in MRegs
      BY <1>5
    <3>2. CASE m = "EAX"
      <4>1. a.mtov[m] \notin VRegs
        BY <1>1, <3>2
      <4>2. b.mtov[m] \notin VRegs
        BY <1>3, <3>1, <4>1, Names DEF Eased
      <4>. QED
        BY <1>4, <3>1, <4>2, Names DEF Eased
    <3>3. CASE m = "ECX"
      <4>1. b.mtov[m] \notin VRegs
        BY <1>3, <3>3
      <4>. QED
        BY <1>4, <3>1, <4>1, Names DEF Eased
    <3>4. CASE m = "EDX"
      BY <1>4, <3>4
    <3>. QED
      BY <1>5, <3>2, <3>3, <3>4
  <2>. QED
    BY <2>1
<1>7. Sound(w, a) /\ Sound(a, b) /\ Sound(b, x) => Sound(w, x)
  BY <1>1, <1>3 DEF Sound, Eased, Keeps, Live
<1>8. Keeps(w, x)
  BY <1>1, <1>3, <1>4 DEF Eased, Keeps
<1>9. \A k \in MRegs : x.mtov[k] = w.mtov[k] \/ (w.mtov[k] \in VRegs /\ x.mtov[k] = Free)
  BY <1>1, <1>3, <1>4, Names DEF Eased
<1>10. w.mset = VRegs => x.gpr = w.gpr
  <2>1. ASSUME w.mset = VRegs PROVE x.gpr = w.gpr
    <3>1. a.mset \subseteq VRegs /\ b.mset \subseteq VRegs
      BY <1>1, <1>3 DEF Eased, Tables, Loose, Typed
    <3>2. a.mset = VRegs /\ a.gpr = w.gpr
      BY <1>1, <2>1, <3>1 DEF Eased
    <3>3. b.mset = VRegs /\ b.gpr = a.gpr
      BY <1>3, <3>1, <3>2 DEF Eased
    <3>. QED
      BY <1>4, <3>2, <3>3 DEF Eased
  <2>. QED
    BY <2>1
<1>11. x.rset \subseteq w.rset /\ w.mset \subseteq x.mset
  BY <1>1, <1>3, <1>4 DEF Eased
<1>12. Tables(x) /\ x.ok = w.ok /\ x.m = w.m /\ x.vtom = w.vtom /\ x.mlru = w.mlru
  BY <1>1, <1>3, <1>4 DEF Eased
<1>13. Sound(w, x)
  BY <1>1, <1>3, <1>4, <1>7 DEF Eased
<1>14. Eased(w, x)
  BY <1>8, <1>9, <1>10, <1>11, <1>12, <1>13 DEF Eased
<1>. QED
  BY <1>6, <1>14 DEF x

\* Of the vregs, a call destroys the one that is in a register it does not save.
LEMMA ClobberIs ==
  ASSUME NEW w, Tables(w), NEW junk \in Word, NEW v,
         \A k \in CallerSaved : w.mtov[k] \notin VRegs \ {v}
  PROVE  LET x == Clobber(w, junk)
         IN  /\ Tables(x) /\ Keeps(w, x) /\ OthersSound(w, x, v) /\ x.ok = w.ok
             /\ x.vtom = w.vtom /\ x.mlru = w.mlru /\ x.mtov = w.mtov
             /\ x.rset = w.rset /\ x.mset = w.mset /\ x.gpr = w.gpr
<1> DEFINE x == Clobber(w, junk)
           after == [m \in MRegs |-> IF m \in CallerSaved THEN junk ELSE w.m[m]]
<1>1. Typed(w) /\ Mirrored(w, {}) /\ Somewhere(w, {})
  BY DEF Loose, Tables
<1>2. /\ DOMAIN x = Fields /\ x.m = (IF Live(w) THEN after ELSE w.m)
      /\ \A f \in Fields \ {"m"} : x[f] = w[f]
  BY <1>1 DEF Clobber, Typed, Fields
<1> HIDE DEF x
<1>3. /\ Keeps(w, x) /\ x.ok = w.ok /\ x.vtom = w.vtom /\ x.mlru = w.mlru /\ x.mtov = w.mtov
      /\ x.rset = w.rset /\ x.mset = w.mset /\ x.gpr = w.gpr
  BY <1>2 DEF Keeps, Fields
<1>4. x.m \in [MRegs -> Word]
  BY <1>1, <1>2 DEF Typed
<1>5. Tables(x)
  BY <1>1, <1>2, <1>3, <1>4 DEF Tables, Loose, Typed, Mirrored, Somewhere, Keeps
<1>6. \A k \in MRegs : k \notin CallerSaved => x.m[k] = w.m[k]
  BY <1>2
<1>7. \A u \in w.rset \ {v} : w.vtom[u] \in MRegs \ CallerSaved
  BY <1>1 DEF Mirrored, Typed
<1>8. OthersSound(w, x, v)
  BY <1>3, <1>6, <1>7 DEF OthersSound, Holds, Reg, Keeps
<1>. QED
  BY <1>3, <1>5, <1>8 DEF x

-----------------------------------------------------------------------------
(* What the code emitted for a platter does *)

\* x is w with other tables and other values: no assertion failed, and the block goes on.
Same(w, x) ==
  /\ Tables(x) /\ x.ok = w.ok /\ x.time = w.time /\ x.c = w.c /\ x.facts = w.facts
  /\ \A k \in MRegs : x.mtov[k] = Held <=> w.mtov[k] = Held

\* The compiler knows what it knew.
Still(w, x) == x.con = w.con /\ x.cset = w.cset /\ x.z = w.z /\ x.nz = w.nz

\* The vregs keep their values, if not their places.
Reads(w, x) == Same(w, x) /\ Still(w, x) /\ x.at = w.at /\ x.io = w.io /\ Sound(w, x)

\* The vreg is in an mreg alone, and only its value may have changed.
Puts(w, x, v) ==
  /\ Same(w, x) /\ Still(w, x) /\ x.at = w.at /\ OthersSound(w, x, v)
  /\ v \in x.rset /\ v \notin x.mset

\* The same once the compiler knows that the value may have changed.
Lost(w, x, v) == Same(w, x) /\ x.at = w.at /\ x.z = w.z \ {v} /\ x.nz = w.nz \ {v}

\* Control is in the code that is emitted, and the vregs have the values val.
Has(w, val) ==
  Live(w) /\ val \in [VRegs -> Word] /\ \A v \in VRegs : Holds(w, v, val[v])

\* Reading may be done in two steps.
LEMMA ReadsMore ==
  ASSUME NEW w, NEW x, NEW y, Reads(w, x), Reads(x, y)
  PROVE  Reads(w, y)
<1>1. Same(w, y) /\ Still(w, y) /\ y.at = w.at /\ y.io = w.io
  BY DEF Reads, Same, Still
<1>2. Live(w) <=> Live(x)
  BY DEF Reads, Same, Live
<1>3. Sound(w, y)
  BY <1>2 DEF Reads, Sound
<1>. QED
  BY <1>1, <1>3 DEF Reads

\* Writing may be followed by reading.
LEMMA PutsMore ==
  ASSUME NEW w, NEW x, NEW y, NEW v, Reads(w, x), Puts(x, y, v)
  PROVE  Puts(w, y, v)
<1>1. Same(w, y) /\ Still(w, y) /\ y.at = w.at
  BY DEF Reads, Puts, Same, Still
<1>2. Live(w) <=> Live(x)
  BY DEF Reads, Same, Live
<1>3. OthersSound(w, y, v)
  BY <1>2 DEF Reads, Puts, Sound, OthersSound
<1>. QED
  BY <1>1, <1>3 DEF Puts

\* Reading changes no value.
LEMMA HasReads ==
  ASSUME NEW w, NEW x, Reads(w, x), NEW val, Has(w, val)
  PROVE  Has(x, val)
<1>1. Live(x)
  BY DEF Reads, Same, Live, Has
<1>. QED
  BY <1>1 DEF Reads, Sound, Has

\* A vreg that is in an mreg has its value there.
LEMMA HasReg ==
  ASSUME NEW w, Tables(w), NEW v \in w.rset, NEW val
  PROVE  Reg(w, v) \in Word /\ v \in VRegs /\ (Has(w, val) => Reg(w, v) = val[v])
BY DEF Tables, Loose, Typed, Mirrored, Reg, Has, Holds

\* What is written to one vreg leaves the others as they were.
LEMMA HasOthers ==
  ASSUME NEW w, NEW x, NEW v \in VRegs, OthersSound(w, x, v), x.at = w.at, x.c = w.c,
         NEW val, Has(w, val), NEW d \in Word, Holds(x, v, d)
  PROVE  Has(x, [val EXCEPT ![v] = d])
BY DEF OthersSound, Has, Live

\* ra_mgetv gets the value of the vreg, and changes none.
LEMMA GetIs ==
  ASSUME NEW w, Tables(w), NEW v \in VRegs, v \in w.rset \/ Spare(w)
  PROVE  LET x == ra_mgetv(w, v)
         IN  /\ Reads(w, x) /\ v \in x.rset /\ Pinned(x, v)
             /\ \A u : Pinned(w, u) => Pinned(x, u) /\ x.vtom[u] = w.vtom[u]
             /\ Busy(x) \subseteq Busy(w) \cup {x.vtom[v]}
             /\ w.mset = VRegs => x.gpr = w.gpr /\ x.mset = VRegs
<1> DEFINE x == ra_mgetv(w, v)
<1>1. /\ Got(w, x, v) /\ Sound(w, x)
      /\ w.mset = VRegs => x.gpr = w.gpr /\ x.mset = VRegs
  BY MgetvIs
<1> HIDE DEF x
<1>2. Reads(w, x)
  BY <1>1 DEF Got, Keeps, Reads, Same, Still
<1>. QED
  BY <1>1, <1>2 DEF Got, Pinned, x

\* Two operands in mregs.
LEMMA GetTwoIs ==
  ASSUME NEW w, Tables(w), Busy(w) = {}, NEW b \in VRegs, NEW c \in VRegs
  PROVE  LET x == ra_mgetv(ra_mgetv(w, b), c)
         IN  /\ Reads(w, x) /\ b \in x.rset /\ c \in x.rset /\ Pinned(x, b) /\ Pinned(x, c)
             /\ Busy(x) \subseteq {x.vtom[b], x.vtom[c]}
             /\ w.mset = VRegs => x.gpr = w.gpr /\ x.mset = VRegs
<1> DEFINE y == ra_mgetv(w, b)
           x == ra_mgetv(y, c)
<1>1. Spare(w)
  BY Names DEF Spare
<1>2. /\ Reads(w, y) /\ b \in y.rset /\ Pinned(y, b)
      /\ Busy(y) \subseteq Busy(w) \cup {y.vtom[b]}
      /\ w.mset = VRegs => y.gpr = w.gpr /\ y.mset = VRegs
  BY <1>1, GetIs
<1> HIDE DEF y
<1>3. Tables(y) /\ Spare(y)
  BY <1>2, SpareBut DEF Reads, Same
<1>4. /\ Reads(y, x) /\ c \in x.rset /\ Pinned(x, c)
      /\ \A u : Pinned(y, u) => Pinned(x, u) /\ x.vtom[u] = y.vtom[u]
      /\ Busy(x) \subseteq Busy(y) \cup {x.vtom[c]}
      /\ y.mset = VRegs => x.gpr = y.gpr /\ x.mset = VRegs
  BY <1>3, GetIs
<1> HIDE DEF x
<1>5. Reads(w, x)
  BY <1>2, <1>4, ReadsMore
<1>6. Pinned(x, b) /\ x.vtom[b] = y.vtom[b]
  BY <1>2, <1>4
<1>. QED
  BY <1>2, <1>4, <1>5, <1>6 DEF Pinned, x, y

\* Renaming an mreg.
LEMMA RenameIs ==
  ASSUME NEW w, Tables(w), NEW b \in w.rset, NEW a \in VRegs
  PROVE  LET x == Rename(w, b, a)
         IN  /\ Puts(w, x, a) /\ x.io = w.io /\ x.m = w.m /\ Reg(x, a) = Reg(w, b)
             /\ Busy(x) \subseteq Busy(w) \cup {w.vtom[b]}
<1> DEFINE m == w.vtom[b]
           x == ra_mchange(w, m, a)
<1>1. m \in MRegs /\ w.mtov[m] = b /\ b \in VRegs
  BY DEF Tables, Loose, Mirrored, Typed
<1>2. w.mtov[m] # Held
  BY <1>1, Names
<1>3. /\ Tables(x) /\ Keeps(w, x) /\ OthersSound(w, x, a) /\ x.ok = w.ok
      /\ x.m = w.m /\ x.vtom[a] = m /\ a \notin x.mset
      /\ Pinned(x, a) /\ Busy(x) \subseteq Busy(w) \cup {m}
      /\ \A k \in MRegs : x.mtov[k] = Held <=> w.mtov[k] = Held
  BY <1>1, <1>2, MchangeIs
<1>4. Rename(w, b, a) = x
  BY DEF Rename
<1> HIDE DEF x
<1>5. Puts(w, x, a) /\ x.io = w.io
  BY <1>3 DEF Puts, Same, Still, Keeps, Pinned
<1>6. Reg(x, a) = Reg(w, b)
  BY <1>3 DEF Reg, m
<1>. QED
  BY <1>3, <1>4, <1>5, <1>6 DEF m

\* Setting the mreg of a vreg that is in no other place.
LEMMA PutIs ==
  ASSUME NEW w, NEW x, NEW a, Puts(w, x, a), NEW d \in Word
  PROVE  LET y == SetReg(x, a, d)
         IN  /\ Puts(w, y, a) /\ y.io = x.io /\ (Live(w) => Reg(y, a) = d)
             /\ Busy(y) = Busy(x) /\ y.vtom = x.vtom
<1> DEFINE y == SetReg(x, a, d)
<1>1. Tables(x) /\ a \in x.rset /\ (Live(w) <=> Live(x))
  BY DEF Puts, Same, Live
<1>2. /\ Tables(y) /\ Keeps(x, y) /\ OthersSound(x, y, a)
      /\ y.gpr = x.gpr /\ y.ok = x.ok /\ y.rset = x.rset /\ y.vtom = x.vtom
      /\ y.mset = x.mset /\ y.mtov = x.mtov /\ y.mlru = x.mlru
      /\ Live(x) => Reg(y, a) = d
  BY <1>1, SetRegIs
<1> HIDE DEF y
<1>3. Same(w, y) /\ Still(w, y) /\ y.at = w.at /\ a \in y.rset /\ a \notin y.mset
  BY <1>2 DEF Puts, Same, Still, Keeps
<1>4. OthersSound(w, y, a)
  BY <1>1, <1>2 DEF Puts, OthersSound
<1>5. Busy(y) = Busy(x)
  BY <1>2 DEF Busy, Keeps
<1>. QED
  BY <1>1, <1>2, <1>3, <1>4, <1>5 DEF Puts, Keeps, y

\* Forgetting what was known of a vreg whose mreg was set.
LEMMA LoseIs ==
  ASSUME NEW w, NEW x, NEW a \in VRegs, Puts(w, x, a), NEW val, NEW d,
         Has(w, val) => Reg(x, a) = d
  PROVE  LET y == noncon(x, a)
         IN  /\ Lost(w, y, a) /\ y.io = x.io /\ a \in y.rset /\ a \notin y.mset
             /\ Has(w, val) => Has(y, [val EXCEPT ![a] = d])
<1> DEFINE y == noncon(x, a)
<1>1. Tables(x) /\ a \in x.rset /\ a \notin x.mset
  BY DEF Puts, Same
<1>2. /\ Tables(y) /\ OthersSound(x, y, a)
      /\ y.cset = x.cset \ {a} /\ y.z = x.z \ {a} /\ y.nz = x.nz \ {a}
      /\ y.con = x.con /\ y.rset = x.rset /\ y.vtom = x.vtom /\ y.mset = x.mset
      /\ y.mtov = x.mtov /\ y.mlru = x.mlru /\ y.time = x.time /\ y.c = x.c
      /\ y.at = x.at /\ y.m = x.m /\ y.gpr = x.gpr /\ y.ok = x.ok
      /\ y.io = x.io /\ y.facts = x.facts
      /\ \A e : (a \in x.rset => Reg(x, a) = e) /\ (a \in x.mset => x.gpr[a] = e)
                  => Holds(y, a, e)
  BY <1>1, NonconIs
<1> HIDE DEF y
<1>3. Lost(w, y, a)
  BY <1>2 DEF Lost, Puts, Same, Still
<1>4. ASSUME Has(w, val) PROVE Has(y, [val EXCEPT ![a] = d])
  <2>1. Reg(x, a) = d /\ d \in Word
    BY <1>1, <1>4, HasReg
  <2>2. Holds(y, a, d)
    BY <1>1, <1>2, <2>1
  <2>3. OthersSound(w, y, a)
    <3>1. Live(w) <=> Live(x)
      BY DEF Puts, Same, Live
    <3>. QED
      BY <1>2, <3>1 DEF OthersSound, Puts
  <2>4. y.at = w.at /\ y.c = w.c
    BY <1>2 DEF Puts, Same
  <2>. QED
    BY <1>4, <2>1, <2>2, <2>3, <2>4, HasOthers
<1>. QED
  BY <1>1, <1>2, <1>3, <1>4 DEF y

\* setnz: the vreg is known to be nonzero.
LEMMA SetnzIs ==
  ASSUME NEW w, Tables(w), NEW v \in w.rset \cup w.mset, NEW val
  PROVE  LET x == setnz(w, v)
         IN  /\ Same(w, x) /\ x.at = w.at /\ x.io = w.io
             /\ x.z = w.z \ {v} /\ x.nz = w.nz \cup {v} /\ x.rset = w.rset
             /\ x.mset = w.mset /\ x.gpr = w.gpr
             /\ Has(w, val) => Has(x, val)
<1> DEFINE y == noncon(w, v)
           x == setnz(w, v)
<1>1. /\ Tables(y) /\ y.cset = w.cset \ {v} /\ y.z = w.z \ {v} /\ y.nz = w.nz \ {v}
      /\ y.con = w.con /\ y.rset = w.rset /\ y.vtom = w.vtom /\ y.mset = w.mset
      /\ y.mtov = w.mtov /\ y.mlru = w.mlru /\ y.time = w.time /\ y.c = w.c
      /\ y.at = w.at /\ y.m = w.m /\ y.gpr = w.gpr /\ y.ok = w.ok
      /\ y.io = w.io /\ y.facts = w.facts
  BY NonconIs
<1>2. x = [y EXCEPT !.nz = @ \cup {v}]
  BY DEF setnz
<1>3. v \in VRegs
  BY DEF Tables, Loose, Typed
<1> HIDE DEF y, x
<1>4. Typed(y) /\ Mirrored(y, {}) /\ Somewhere(y, {})
  BY <1>1 DEF Tables, Loose
<1>5. /\ DOMAIN x = Fields /\ x.nz = w.nz \cup {v}
      /\ \A f \in Fields \ {"nz"} : x[f] = y[f]
  BY <1>1, <1>2, <1>4 DEF Typed, Fields
<1>6. /\ x.cset = w.cset \ {v} /\ x.z = w.z \ {v}
      /\ x.con = w.con /\ x.rset = w.rset /\ x.vtom = w.vtom /\ x.mset = w.mset
      /\ x.mtov = w.mtov /\ x.mlru = w.mlru /\ x.time = w.time /\ x.c = w.c
      /\ x.at = w.at /\ x.m = w.m /\ x.gpr = w.gpr /\ x.ok = w.ok
      /\ x.io = w.io /\ x.facts = w.facts
  BY <1>1, <1>5 DEF Fields
<1>7. w.nz \subseteq VRegs
  BY DEF Tables, Loose, Typed
<1>8. Typed(x)
  BY <1>1, <1>3, <1>4, <1>5, <1>6, <1>7 DEF Typed
<1>9. Mirrored(x, {}) /\ Somewhere(x, {})
  BY <1>1, <1>4, <1>6 DEF Mirrored, Somewhere
<1>10. Same(w, x)
  BY <1>6, <1>8, <1>9 DEF Same, Tables, Loose
<1>11. Has(w, val) => Has(x, val)
  BY <1>6 DEF Has, Live, Holds, Reg
<1>. QED
  BY <1>5, <1>6, <1>10, <1>11 DEF x

\* co_mov: the second vreg has the value of the first.
LEMMA MovIs ==
  ASSUME NEW w, Tables(w), Busy(w) = {}, NEW a \in VRegs, NEW b \in VRegs, NEW val
  PROVE  LET x == co_mov(w, a, b)
         IN  /\ Same(w, x) /\ x.at = w.at /\ x.io = w.io /\ a \in x.rset
             /\ x.z = w.z \ {a}
             /\ x.nz = IF b \in w.nz /\ b # a THEN w.nz \cup {a} ELSE w.nz \ {a}
             /\ Has(w, val) => Has(x, [val EXCEPT ![a] = val[b]])
<1> DEFINE g == ra_mgetv(w, b)
           r == Rename(g, b, a)
           n == noncon(r, a)
           x == co_mov(w, a, b)
<1>1. x = CopyNz(n, a, b)
  BY DEF co_mov
<1>2. Reads(w, g) /\ b \in g.rset
  <2>1. Spare(w)
    BY Names DEF Spare
  <2>. QED
    BY <2>1, GetIs
<1> HIDE DEF g
<1>3. Puts(g, r, a) /\ r.io = g.io /\ Reg(r, a) = Reg(g, b)
  BY <1>2, RenameIs DEF Reads, Same
<1> HIDE DEF r
<1>4. Puts(w, r, a) /\ r.io = w.io
  BY <1>2, <1>3, PutsMore DEF Reads
<1>5. Has(w, val) => Reg(r, a) = val[b]
  BY <1>2, <1>3, HasReads, HasReg DEF Reads, Same
<1>6. /\ Lost(w, n, a) /\ n.io = r.io /\ a \in n.rset /\ a \notin n.mset
      /\ Has(w, val) => Has(n, [val EXCEPT ![a] = val[b]])
  BY <1>4, <1>5, LoseIs
<1> HIDE DEF n, x
<1>7. CASE b \in n.nz
  <2>1. x = setnz(n, a)
    BY <1>1, <1>7 DEF CopyNz
  <2> DEFINE new == [val EXCEPT ![a] = val[b]]
  <2>2. Tables(n) /\ a \in n.rset
    BY <1>6 DEF Lost, Same
  <2> HIDE DEF new
  <2>3. /\ Same(n, x) /\ x.at = n.at /\ x.io = n.io
        /\ x.z = n.z \ {a} /\ x.nz = n.nz \cup {a} /\ x.rset = n.rset
        /\ Has(n, new) => Has(x, new)
    BY <2>1, <2>2, SetnzIs
  <2>4. b \in w.nz /\ b # a
    BY <1>6, <1>7 DEF Lost
  <2>5. x.z = w.z \ {a} /\ x.nz = w.nz \cup {a}
    BY <1>6, <2>3 DEF Lost
  <2>6. Same(w, x) /\ x.at = w.at /\ x.io = w.io
    BY <1>4, <1>6, <2>3 DEF Lost, Same
  <2>. QED
    BY <1>6, <2>3, <2>4, <2>5, <2>6 DEF new, x
<1>8. CASE b \notin n.nz
  <2>1. x = n
    BY <1>1, <1>8 DEF CopyNz
  <2>2. ~(b \in w.nz /\ b # a)
    BY <1>6, <1>8 DEF Lost
  <2>. QED
    BY <1>4, <1>6, <2>1, <2>2 DEF Lost, x
<1>. QED
  BY <1>7, <1>8

\* The move is skipped if the condition is zero.
LEMMA CmovIs ==
  ASSUME NEW w, Tables(w), Busy(w) = {}, w.at # "over",
         NEW a \in VRegs, NEW b \in VRegs, NEW c \in VRegs, NEW val
  PROVE  LET x == co_cmov(w, a, b, c)
         IN  /\ Puts(w, x, a) /\ x.io = w.io
             /\ Has(w, val) => Reg(x, a) = IF val[c] # 0 THEN val[b] ELSE val[a]
<1> DEFINE h == ra_mgetv(ra_mgetv(w, c), a)
           g == ra_mgetv(h, b)
           p == Reg(g, c) = 0
           j == Jcc(g, p, "over")
           d == Reg(g, b)
           s == SetReg(j, a, d)
           e == EndOver(s)
           x == co_cmov(w, a, b, c)
<1>1. x = ra_vdirty(e, a)
  BY DEF co_cmov
<1>2. /\ Reads(w, h) /\ c \in h.rset /\ a \in h.rset /\ Pinned(h, c) /\ Pinned(h, a)
      /\ Busy(h) \subseteq {h.vtom[c], h.vtom[a]}
  BY GetTwoIs
<1> HIDE DEF h
<1>3. Tables(h) /\ Spare(h)
  BY <1>2, SpareBut DEF Reads, Same
<1>4. /\ Reads(h, g) /\ b \in g.rset
      /\ \A u : Pinned(h, u) => Pinned(g, u) /\ g.vtom[u] = h.vtom[u]
  BY <1>3, GetIs
<1>5. a \in g.rset /\ c \in g.rset /\ Reads(w, g) /\ Tables(g)
  BY <1>2, <1>4, ReadsMore DEF Pinned, Reads, Same
<1> HIDE DEF g
<1>6. d \in Word /\ p \in BOOLEAN
  BY <1>4, <1>5, HasReg
<1> HIDE DEF p, d
<1>7. /\ AsWas(g, j) /\ j.c = g.c /\ j.io = g.io /\ j.facts = g.facts
      /\ j.at = IF p /\ Live(g) THEN "over" ELSE g.at
  BY <1>5, <1>6, ControlIs
<1> HIDE DEF j
<1>8. /\ Tables(j) /\ \A v, k : Holds(j, v, k) <=> Holds(g, v, k)
      /\ \A v : Reg(j, v) = Reg(g, v)
  BY <1>5, <1>7, AsWasTables
<1>9. /\ Tables(s) /\ Keeps(j, s) /\ OthersSound(j, s, a)
      /\ s.gpr = j.gpr /\ s.ok = j.ok /\ s.rset = j.rset /\ s.vtom = j.vtom
      /\ s.mset = j.mset /\ s.mtov = j.mtov /\ s.mlru = j.mlru
      /\ Live(j) => Reg(s, a) = d
      /\ ~Live(j) => s = j
  <2>1. a \in j.rset
    BY <1>5, <1>7 DEF AsWas
  <2>. QED
    BY <1>6, <1>8, <2>1, SetRegIs
<1> HIDE DEF s
<1>10. /\ AsWas(s, e) /\ e.c = s.c /\ e.io = s.io /\ e.facts = s.facts
       /\ e.at = IF s.at = "over" THEN s.c ELSE s.at
  BY <1>6, <1>9, ControlIs
<1> HIDE DEF e
<1>11. /\ Tables(e) /\ \A v, k : Holds(e, v, k) <=> Holds(s, v, k)
       /\ \A v : Reg(e, v) = Reg(s, v)
  BY <1>9, <1>10, AsWasTables
<1>12. a \in e.rset
  BY <1>5, <1>7, <1>9, <1>10 DEF AsWas
<1>13. /\ Tables(x) /\ Keeps(e, x) /\ Sound(e, x)
       /\ x.m = e.m /\ x.vtom = e.vtom /\ x.rset = e.rset /\ x.mtov = e.mtov
       /\ x.gpr = e.gpr /\ x.mset = e.mset \ {a} /\ x.mlru = e.mlru /\ x.ok = e.ok
  BY <1>1, <1>11, <1>12, VdirtyIs DEF Tables
<1> HIDE DEF x
<1>14. g.at = w.at /\ g.c = w.c /\ (Live(w) <=> Live(g))
  BY <1>5 DEF Reads, Same, Live
<1>15. x.at = g.at /\ x.c = g.c
  <2>1. s.at = j.at /\ s.c = j.c /\ x.at = e.at /\ x.c = e.c
    BY <1>9, <1>13 DEF Keeps
  <2>. QED
    BY <1>7, <1>10, <1>14, <2>1 DEF Live
<1>16. x.time = g.time /\ x.facts = g.facts /\ x.ok = g.ok /\ x.mtov = g.mtov /\ x.io = g.io
  BY <1>7, <1>9, <1>10, <1>13 DEF AsWas, Keeps
<1>17. Same(w, x)
  BY <1>5, <1>13, <1>15, <1>16 DEF Same, Reads
<1>18. Still(g, x)
  BY <1>7, <1>9, <1>10, <1>13 DEF AsWas, Keeps, Still
<1>19. Still(w, x) /\ x.at = w.at /\ x.io = w.io /\ a \in x.rset /\ a \notin x.mset
  BY <1>5, <1>12, <1>13, <1>14, <1>15, <1>16, <1>18 DEF Still, Reads
<1>20. ASSUME Live(w), NEW u \in VRegs \ {a}, NEW k, Holds(w, u, k) PROVE Holds(x, u, k)
  <2>1. Holds(j, u, k)
    BY <1>5, <1>8, <1>20 DEF Reads, Sound
  <2>2. Holds(s, u, k)
    BY <1>9, <1>20, <2>1 DEF OthersSound
  <2>3. Live(e)
    BY <1>13, <1>14, <1>15, <1>20 DEF Live, Keeps
  <2>. QED
    BY <1>11, <1>13, <1>20, <2>2, <2>3 DEF Sound
<1>21. Puts(w, x, a)
  BY <1>17, <1>19, <1>20 DEF Puts, OthersSound
<1>22. ASSUME Has(w, val) PROVE Reg(x, a) = IF val[c] # 0 THEN val[b] ELSE val[a]
  <2>1. Has(g, val)
    BY <1>5, <1>22, HasReads
  <2>2. Reg(g, a) = val[a] /\ Reg(g, b) = val[b] /\ Reg(g, c) = val[c]
    BY <1>4, <1>5, <2>1, HasReg
  <2>3. Live(g) /\ (p <=> val[c] = 0) /\ d = val[b]
    BY <2>1, <2>2 DEF Has, p, d
  <2>4. Reg(x, a) = Reg(s, a)
    BY <1>11, <1>13 DEF Reg
  <2>5. CASE p
    <3>1. ~Live(j)
      BY <1>7, <1>14, <2>3, <2>5 DEF Live
    <3>. QED
      BY <1>8, <1>9, <2>2, <2>3, <2>4, <2>5, <3>1
  <2>6. CASE ~p
    <3>1. Live(j)
      BY <1>7, <2>3, <2>6 DEF Live
    <3>. QED
      BY <1>9, <2>3, <2>4, <2>6, <3>1
  <2>. QED
    BY <2>5, <2>6
<1>. QED
  BY <1>19, <1>21, <1>22 DEF x

Ops == {"add", "mul", "and"}

\* An operation on two words is a word, and commutes.
LEMMA AluIs ==
  ASSUME NEW op \in Ops, NEW x \in Word, NEW y \in Word
  PROVE  Alu(op, x, y) \in Word /\ Alu(op, x, y) = Alu(op, y, x)
<1>1. Add(x, y) \in Word /\ Mul(x, y) \in Word /\ And(x, y) \in Word
  BY Arithmetic
<1>2. Add(x, y) = Add(y, x) /\ Mul(x, y) = Mul(y, x) /\ And(x, y) = And(y, x)
  BY Commutes
<1>3. Alu("add", x, y) = Add(x, y) /\ Alu("add", y, x) = Add(y, x)
  BY DEF Alu
<1>4. Alu("mul", x, y) = Mul(x, y) /\ Alu("mul", y, x) = Mul(y, x)
  BY DEF Alu
<1>5. Alu("and", x, y) = And(x, y) /\ Alu("and", y, x) = And(y, x)
  BY DEF Alu
<1>. QED
  BY <1>1, <1>2, <1>3, <1>4, <1>5 DEF Ops

\* An operation on the mreg of b, which becomes that of a.
LEMMA ApplyIs ==
  ASSUME NEW w, NEW g, Reads(w, g), NEW b \in g.rset, NEW a \in VRegs,
         NEW op \in Ops, NEW y \in Word, NEW val
  PROVE  LET x == Apply(Rename(g, b, a), op, a, y)
         IN  /\ Puts(w, x, a) /\ x.io = w.io
             /\ Has(w, val) => Reg(x, a) = Alu(op, val[b], y)
<1> DEFINE r == Rename(g, b, a)
           d == Alu(op, Reg(r, a), y)
           x == SetReg(r, a, d)
<1>1. Tables(g)
  BY DEF Reads, Same
<1>2. Puts(g, r, a) /\ r.io = g.io /\ Reg(r, a) = Reg(g, b)
  BY <1>1, RenameIs
<1>3. Apply(r, op, a, y) = x
  BY DEF Apply
<1> HIDE DEF r
<1>4. Puts(w, r, a) /\ r.io = w.io
  BY <1>2, PutsMore DEF Reads
<1>5. Reg(g, b) \in Word /\ (Has(w, val) => Reg(g, b) = val[b])
  BY <1>1, HasReg, HasReads
<1>6. d \in Word /\ (Has(w, val) => d = Alu(op, val[b], y))
  BY <1>2, <1>5, AluIs
<1> HIDE DEF d
<1>7. Puts(w, x, a) /\ x.io = r.io /\ (Live(w) => Reg(x, a) = d)
  BY <1>4, <1>6, PutIs
<1>8. Has(w, val) => Live(w)
  BY DEF Has
<1>. QED
  BY <1>3, <1>4, <1>6, <1>7, <1>8 DEF r

\* An operation on two mregs puts its result in the first.
LEMMA AluRegIs ==
  ASSUME NEW w, Tables(w), Busy(w) = {}, NEW op \in Ops,
         NEW a \in VRegs, NEW b \in VRegs, NEW c \in VRegs, NEW val
  PROVE  LET x == co_alu(w, op, a, b, c)
         IN  /\ Puts(w, x, a) /\ x.io = w.io
             /\ Has(w, val) => Reg(x, a) = Alu(op, val[b], val[c])
<1> DEFINE g == ra_mgetv(ra_mgetv(w, b), c)
           y == Reg(g, c)
           x == Apply(Rename(g, b, a), op, a, y)
<1>1. co_alu(w, op, a, b, c) = x
  BY DEF co_alu
<1>2. Reads(w, g) /\ b \in g.rset /\ c \in g.rset
  BY GetTwoIs
<1> HIDE DEF g
<1>3. y \in Word /\ (Has(w, val) => y = val[c])
  BY <1>2, HasReg, HasReads DEF Reads, Same
<1> HIDE DEF y
<1>4. /\ Puts(w, x, a) /\ x.io = w.io
      /\ Has(w, val) => Reg(x, a) = Alu(op, val[b], y)
  BY <1>2, <1>3, ApplyIs
<1>. QED
  BY <1>1, <1>3, <1>4

\* An operation on an mreg and a constant puts its result in the mreg.
LEMMA AluConIs ==
  ASSUME NEW w, Tables(w), Busy(w) = {}, NEW op \in Ops,
         NEW a \in VRegs, NEW b \in VRegs, NEW c \in w.cset, NEW val
  PROVE  LET x == co_alu_i(w, op, a, b, w.con[c])
         IN  /\ Puts(w, x, a) /\ x.io = w.io
             /\ Has(w, val) => Reg(x, a) = Alu(op, val[b], val[c])
<1> DEFINE g == ra_mgetv(w, b)
           y == w.con[c]
           x == Apply(Rename(g, b, a), op, a, y)
<1>1. co_alu_i(w, op, a, b, w.con[c]) = x
  BY DEF co_alu_i
<1>2. Reads(w, g) /\ b \in g.rset
  <2>1. Spare(w)
    BY Names DEF Spare
  <2>. QED
    BY <2>1, GetIs
<1> HIDE DEF g
<1>3. y \in Word /\ (Has(w, val) => y = val[c])
  BY DEF Tables, Loose, Typed, Has, Holds
<1> HIDE DEF y
<1>4. /\ Puts(w, x, a) /\ x.io = w.io
      /\ Has(w, val) => Reg(x, a) = Alu(op, val[b], y)
  BY <1>2, <1>3, ApplyIs
<1>. QED
  BY <1>1, <1>3, <1>4

\* OP_IMM_COMM: whichever operand is the constant, and whichever is the target.
LEMMA CommIs ==
  ASSUME NEW w, Tables(w), Busy(w) = {}, NEW op \in Ops,
         NEW a \in VRegs, NEW b \in VRegs, NEW c \in VRegs, NEW val
  PROVE  LET x == OP_IMM_COMM(w, op, a, b, c)
         IN  /\ Lost(w, x, a) /\ x.io = w.io /\ a \in x.rset /\ a \notin x.mset
             /\ Has(w, val) => Has(x, [val EXCEPT ![a] = Alu(op, val[b], val[c])])
<1> DEFINE b1 == IF c = a THEN c ELSE b
           c1 == IF c = a THEN b ELSE c
           y  == IF c1 \in w.cset THEN co_alu_i(w, op, a, b1, w.con[c1])
                 ELSE IF b1 \in w.cset THEN co_alu_i(w, op, a, c1, w.con[b1])
                 ELSE co_alu(w, op, a, b1, c1)
           x  == noncon(y, a)
           d  == Alu(op, val[b], val[c])
<1>1. OP_IMM_COMM(w, op, a, b, c) = x
  BY DEF OP_IMM_COMM
<1>2. b1 \in VRegs /\ c1 \in VRegs /\ {b1, c1} = {b, c}
  OBVIOUS
<1>3. Has(w, val) => val[b] \in Word /\ val[c] \in Word
  BY DEF Has
<1>4. Has(w, val) => Alu(op, val[b1], val[c1]) = d /\ Alu(op, val[c1], val[b1]) = d
  BY <1>3, AluIs
<1> HIDE DEF b1, c1, d
<1>5. Puts(w, y, a) /\ y.io = w.io /\ (Has(w, val) => Reg(y, a) = d)
  <2>1. CASE c1 \in w.cset
    BY <1>2, <1>4, <2>1, AluConIs
  <2>2. CASE c1 \notin w.cset /\ b1 \in w.cset
    BY <1>2, <1>4, <2>2, AluConIs
  <2>3. CASE c1 \notin w.cset /\ b1 \notin w.cset
    <3>1. y = co_alu(w, op, a, b1, c1)
      BY <2>3
    <3>2. b1 \in VRegs /\ c1 \in VRegs
      BY <1>2
    <3> DEFINE v == co_alu(w, op, a, b1, c1)
    <3>3. /\ Puts(w, v, a) /\ v.io = w.io
          /\ Has(w, val) => Reg(v, a) = Alu(op, val[b1], val[c1])
      BY <3>2, AluRegIs
    <3> HIDE DEF y, v
    <3>. QED
      BY <1>4, <3>1, <3>3 DEF v
  <2>. QED
    BY <2>1, <2>2, <2>3
<1> HIDE DEF y
<1>6. /\ Lost(w, x, a) /\ x.io = y.io /\ a \in x.rset /\ a \notin x.mset
      /\ Has(w, val) => Has(x, [val EXCEPT ![a] = d])
  BY <1>5, LoseIs
<1>. QED
  BY <1>1, <1>5, <1>6 DEF d

\* A shift for a division by a power of two.
LEMMA ShiftIs ==
  ASSUME NEW w, Tables(w), Busy(w) = {}, NEW a \in VRegs, NEW b \in VRegs,
         NEW k \in Word \ {0}, NEW val
  PROVE  LET r == Rename(ra_mgetv(w, b), b, a)
             x == SetReg(r, a, Div(Reg(r, a), k))
         IN  /\ Puts(w, x, a) /\ x.io = w.io
             /\ Has(w, val) => Reg(x, a) = Div(val[b], k)
<1> DEFINE g == ra_mgetv(w, b)
           r == Rename(g, b, a)
           d == Div(Reg(r, a), k)
           x == SetReg(r, a, d)
<1>1. Reads(w, g) /\ b \in g.rset
  <2>1. Spare(w)
    BY Names DEF Spare
  <2>. QED
    BY <2>1, GetIs
<1> HIDE DEF g
<1>2. Puts(g, r, a) /\ r.io = g.io /\ Reg(r, a) = Reg(g, b)
  BY <1>1, RenameIs DEF Reads, Same
<1> HIDE DEF r
<1>3. Puts(w, r, a) /\ r.io = w.io
  BY <1>1, <1>2, PutsMore DEF Reads
<1>4. Reg(g, b) \in Word /\ (Has(w, val) => Reg(g, b) = val[b])
  BY <1>1, HasReg, HasReads DEF Reads, Same
<1>5. d \in Word /\ (Has(w, val) => d = Div(val[b], k))
  BY <1>2, <1>4, Arithmetic
<1> HIDE DEF d
<1>6. Puts(w, x, a) /\ x.io = r.io /\ (Live(w) => Reg(x, a) = d)
  BY <1>3, <1>5, PutIs
<1>7. /\ Puts(w, x, a) /\ x.io = w.io
      /\ Has(w, val) => Reg(x, a) = Div(val[b], k)
  BY <1>3, <1>5, <1>6 DEF Has
<1>. QED
  BY <1>7 DEF x, d, r, g

\* The complement, of a vreg that is in an mreg.
LEMMA NotIs ==
  ASSUME NEW w, Tables(w), NEW a \in w.rset, NEW val
  PROVE  LET r == Rename(ra_mgetv(w, a), a, a)
             x == SetReg(r, a, Not(Reg(r, a)))
         IN  /\ Puts(w, x, a) /\ x.io = w.io
             /\ Has(w, val) => Reg(x, a) = Not(val[a])
<1> DEFINE g == ra_mgetv(w, a)
           r == Rename(g, a, a)
           d == Not(Reg(r, a))
           x == SetReg(r, a, d)
<1>1. a \in VRegs
  BY DEF Tables, Loose, Typed
<1>2. Reads(w, g) /\ a \in g.rset
  BY <1>1, GetIs
<1> HIDE DEF g
<1>3. Puts(g, r, a) /\ r.io = g.io /\ Reg(r, a) = Reg(g, a)
  BY <1>1, <1>2, RenameIs DEF Reads, Same
<1> HIDE DEF r
<1>4. Puts(w, r, a) /\ r.io = w.io
  BY <1>2, <1>3, PutsMore DEF Reads
<1>5. Reg(g, a) \in Word /\ (Has(w, val) => Reg(g, a) = val[a])
  BY <1>2, HasReg, HasReads DEF Reads, Same
<1>6. d \in Word /\ (Has(w, val) => d = Not(val[a]))
  BY <1>3, <1>5, Arithmetic
<1> HIDE DEF d
<1>7. Puts(w, x, a) /\ x.io = r.io /\ (Live(w) => Reg(x, a) = d)
  BY <1>4, <1>6, PutIs
<1>8. /\ Puts(w, x, a) /\ x.io = w.io
      /\ Has(w, val) => Reg(x, a) = Not(val[a])
  BY <1>4, <1>6, <1>7 DEF Has
<1>. QED
  BY <1>8 DEF x, d, r, g

\* A vreg that is made a constant has its value.
LEMMA OrthoDone ==
  ASSUME NEW w, Tables(w), NEW v \in VRegs, NEW d \in Word, NEW val
  PROVE  LET x == co_ortho(w, v, d)
         IN  /\ Same(w, x) /\ x.at = w.at /\ x.io = w.io
             /\ x.z  = (IF d = 0 THEN w.z \cup {v} ELSE w.z \ {v})
             /\ x.nz = (IF d = 0 THEN w.nz \ {v} ELSE w.nz \cup {v})
             /\ Has(w, val) => Has(x, [val EXCEPT ![v] = d])
<1> DEFINE x == co_ortho(w, v, d)
<1>1. Orthoed(w, x, v, d)
  BY OrthoIs
<1> HIDE DEF x
<1>2. Same(w, x)
  BY <1>1 DEF Orthoed, Same
<1>3. Has(w, val) => Has(x, [val EXCEPT ![v] = d])
  BY <1>1, HasOthers DEF Orthoed
<1>. QED
  BY <1>1, <1>2, <1>3 DEF Orthoed, x

\* The operands of a division: b in EAX, c in an mreg other than EAX and EDX, and
\* EDX held.
LEMMA DivOperands ==
  ASSUME NEW w, Tables(w), Busy(w) = {}, NEW b \in VRegs, NEW c \in VRegs, b # c
  PROVE  LET x == ra_mgetv(ra_mhold(ra_ldvm(w, b, "EAX"), "EDX"), c)
         IN  /\ Tables(x) /\ Keeps(w, x) /\ Sound(w, x) /\ x.ok = w.ok
             /\ b \in x.rset /\ x.vtom[b] = "EAX" /\ x.mtov["EAX"] = b
             /\ c \in x.rset /\ x.vtom[c] \in MRegs \ {"EAX", "EDX"}
             /\ \A k \in MRegs : x.mtov[k] = Held <=> k = "EDX"
<1> DEFINE p == ra_ldvm(w, b, "EAX")
           q == ra_mhold(p, "EDX")
           x == ra_mgetv(q, c)
<1>1. Got(w, p, b) /\ Sound(w, p) /\ p.vtom[b] = "EAX"
  BY Names, LdvmIs DEF Pinned
<1> HIDE DEF p
<1>2. Tables(p) /\ Keeps(w, p) /\ p.ok = w.ok /\ Pinned(p, b) /\ Busy(p) \subseteq {"EAX"}
  BY <1>1 DEF Got
<1>3. /\ Cleared(p, q, {}, "EDX") /\ q.ok = p.ok /\ q.mtov["EDX"] = Held
  BY <1>2, Names, MholdIs
<1> HIDE DEF q
<1>4. /\ Tables(q) /\ Keeps(p, q) /\ Sound(p, q)
      /\ q.vtom = p.vtom /\ q.mlru = p.mlru
      /\ \A k \in MRegs : k # "EDX" => q.mtov[k] = p.mtov[k]
      /\ q.rset = {v \in p.rset : p.vtom[v] # "EDX"}
  BY <1>3 DEF Cleared, Tables
<1>5. Busy(q) \subseteq {"EAX", "EDX"}
  BY <1>2, <1>4 DEF Busy, Keeps
<1>6. Pinned(q, b)
  BY <1>1, <1>2, <1>4 DEF Pinned, Busy, Keeps
<1>7. Spare(q)
  BY <1>5, SpareBut
<1>8. Got(q, x, c) /\ Sound(q, x)
  BY <1>4, <1>7, MgetvIs
<1> HIDE DEF x
<1>9. /\ Tables(x) /\ Keeps(q, x) /\ x.ok = q.ok /\ c \in x.rset /\ b \in x.rset
      /\ x.vtom[b] = "EAX"
      /\ \A k \in MRegs : x.mtov[k] = Held <=> q.mtov[k] = Held
  BY <1>1, <1>4, <1>6, <1>8 DEF Got, Pinned
<1>10. /\ x.mtov["EAX"] = b /\ x.vtom[c] \in MRegs /\ x.mtov[x.vtom[c]] = c
  BY <1>9 DEF Tables, Loose, Mirrored
<1>11. \A k \in MRegs : x.mtov[k] = Held <=> k = "EDX"
  <2>1. ASSUME NEW k \in MRegs, k # "EDX" PROVE p.mtov[k] # Held
    <3>1. w.mtov[k] # Held
      BY Names DEF Busy
    <3>. QED
      BY <1>1, <3>1 DEF Got
  <2>. QED
    BY <1>3, <1>4, <1>9, <2>1
<1>12. x.vtom[c] # "EAX" /\ x.vtom[c] # "EDX"
  BY <1>10, <1>11, Names
<1>13. Keeps(w, x) /\ x.ok = w.ok
  BY <1>2, <1>3, <1>4, <1>9 DEF Keeps
<1>14. Sound(w, x)
  BY <1>1, <1>2, <1>4, <1>8 DEF Sound, Keeps, Live
<1>. QED
  BY <1>9, <1>10, <1>11, <1>12, <1>13, <1>14 DEF x, q, p

\* The division itself, by which a gets EAX.
LEMMA DivideIs ==
  ASSUME NEW w, Tables(w), w.c = "inl", NEW a \in VRegs, NEW b \in w.rset, NEW c \in w.rset,
         w.vtom[b] = "EAX", w.mtov["EAX"] = b,
         w.vtom[c] \in MRegs \ {"EAX", "EDX"}, w.mtov["EDX"] = Held
  PROVE  LET x == Divide(w, a, w.vtom[c])
         IN  /\ Same(w, x) /\ Still(w, x) /\ x.io = w.io
             /\ a \in x.rset /\ a \notin x.mset
             /\ x.at = IF Live(w) /\ Reg(w, c) = 0 THEN "trapped" ELSE w.at
             /\ Live(w) /\ Reg(w, c) # 0 =>
                  OthersSound(w, x, a) /\ Reg(x, a) = Div(Reg(w, b), Reg(w, c))
<1> DEFINE mc == w.vtom[c]
           p == ra_mclear(w, "EDX")
           q == SetM(p, "EDX", 0)
           g == ra_mchange(q, "EAX", a)
           m == w.m["EAX"]
           y == g.m[mc]
           p0 == y = 0
           j == Jcc(g, p0, "trapped")
           s == SetM(j, "EAX", Div(m, y))
           x == SetM(s, "EDX", m % y)
<1>1. Divide(w, a, mc) = x
  BY DEF Divide
<1>2. p = w
  BY Names DEF ra_mclear
<1>3. m = Reg(w, b) /\ m \in Word
  BY Names DEF Reg, Tables, Loose, Typed
<1> HIDE DEF m, p
<1>4. /\ Tables(q) /\ Keeps(w, q) /\ Sound(w, q)
      /\ q.gpr = w.gpr /\ q.ok = w.ok /\ q.rset = w.rset /\ q.vtom = w.vtom
      /\ q.mset = w.mset /\ q.mtov = w.mtov /\ q.mlru = w.mlru
      /\ \A k \in MRegs : k # "EDX" => q.m[k] = w.m[k]
  <2>1. w.mtov["EDX"] \notin VRegs
    BY Names
  <2>2. 0 \in Word
    BY ModulusType
  <2>. QED
    BY <1>2, <2>1, <2>2, Names, SetFreeIs
<1> HIDE DEF q
<1>5. q.mtov["EAX"] # Held
  <2>1. b \in VRegs
    BY DEF Tables, Loose, Typed
  <2>. QED
    BY <1>4, <2>1, Names
<1>6. /\ Tables(g) /\ Keeps(q, g) /\ OthersSound(q, g, a) /\ g.ok = q.ok
      /\ g.m = q.m /\ g.vtom[a] = "EAX" /\ a \notin g.mset
      /\ Pinned(g, a)
      /\ \A k \in MRegs : g.mtov[k] = Held <=> q.mtov[k] = Held
  BY <1>4, <1>5, Names, MchangeIs
<1> HIDE DEF g
<1>7. y = Reg(w, c) /\ y \in Word
  <2>1. y = w.m[mc]
    BY <1>4, <1>6
  <2>. QED
    BY <2>1 DEF Reg, Tables, Loose, Typed
<1> HIDE DEF y
<1>8. /\ AsWas(g, j) /\ j.c = g.c /\ j.io = g.io /\ j.facts = g.facts
      /\ j.at = IF y = 0 /\ Live(g) THEN "trapped" ELSE g.at
  <2>1. p0 \in BOOLEAN
    OBVIOUS
  <2> HIDE DEF p0
  <2>2. /\ AsWas(g, j) /\ j.c = g.c /\ j.io = g.io /\ j.facts = g.facts
        /\ j.at = IF p0 /\ Live(g) THEN "trapped" ELSE g.at
    BY <1>6, <2>1, ControlIs
  <2>. QED
    BY <2>2 DEF p0
<1> HIDE DEF j
<1>9. Tables(j) /\ \A v, k : Holds(j, v, k) <=> Holds(g, v, k)
  BY <1>6, <1>8, AsWasTables
<1>10. Live(w) <=> Live(g)
  BY <1>4, <1>6 DEF Keeps, Live
<1>11. w.at # "trapped" \/ ~Live(w)
  BY DEF Live
<1>12. Live(j) <=> Live(w) /\ y # 0
  BY <1>4, <1>6, <1>8, <1>10, <1>11 DEF Keeps, Live
<1>13. j.mtov["EDX"] \notin VRegs /\ j.vtom[a] = "EAX" /\ a \in j.rset /\ a \notin j.mset
  <2>1. g.mtov["EDX"] = Held
    BY <1>4, <1>6, Names
  <2>. QED
    BY <1>6, <1>8, <2>1, Names DEF AsWas, Pinned
<1>14. /\ Tables(x) /\ Keeps(j, x) /\ OthersSound(j, x, a) /\ x.ok = j.ok
       /\ x.rset = j.rset /\ x.vtom = j.vtom /\ x.mset = j.mset /\ x.mtov = j.mtov
       /\ Live(j) => Reg(x, a) = Div(m, y)
  <2>1. CASE ~Live(j)
    <3>1. s = j /\ x = j
      BY <2>1 DEF SetM
    <3>. QED
      BY <1>9, <2>1, <3>1 DEF Keeps, OthersSound
  <2>2. CASE Live(j)
    <3>1. Div(m, y) \in Word /\ m % y \in Word
      BY <1>3, <1>7, <1>12, <2>2, Arithmetic
    <3>2. s = SetReg(j, a, Div(m, y))
      BY <1>13 DEF SetReg
    <3> DEFINE d == Div(m, y)
               r == m % y
    <3>3. d \in Word /\ r \in Word /\ s = SetReg(j, a, d) /\ x = SetM(s, "EDX", r)
      BY <3>1, <3>2
    <3> HIDE DEF d, r, s, x
    <3>4. /\ Tables(s) /\ Keeps(j, s) /\ OthersSound(j, s, a)
          /\ s.ok = j.ok /\ s.rset = j.rset /\ s.vtom = j.vtom
          /\ s.mset = j.mset /\ s.mtov = j.mtov
          /\ Live(j) => Reg(s, a) = d
      BY <1>9, <1>13, <3>3, SetRegIs
    <3>5. s.mtov["EDX"] \notin VRegs /\ "EDX" \in MRegs
      BY <1>13, <3>4, Names
    <3>6. /\ Tables(x) /\ Keeps(s, x) /\ Sound(s, x)
          /\ x.ok = s.ok /\ x.rset = s.rset /\ x.vtom = s.vtom
          /\ x.mset = s.mset /\ x.mtov = s.mtov
          /\ \A k \in MRegs : k # "EDX" => x.m[k] = s.m[k]
      BY <3>3, <3>4, <3>5, SetFreeIs
    <3>7. Reg(x, a) = Reg(s, a)
      BY <1>13, <3>4, <3>6, Names DEF Reg
    <3>8. Keeps(j, x)
      BY <3>4, <3>6 DEF Keeps
    <3>9. OthersSound(j, x, a)
      BY <3>4, <3>6 DEF OthersSound, Sound, Keeps, Live
    <3>. QED
      BY <2>2, <3>4, <3>6, <3>7, <3>8, <3>9 DEF d
  <2>. QED
    BY <2>1, <2>2
<1> HIDE DEF s, x
<1>15. x.time = w.time /\ x.c = w.c /\ x.facts = w.facts /\ x.io = w.io /\ x.ok = w.ok
       /\ Still(w, x)
  BY <1>4, <1>6, <1>8, <1>14 DEF AsWas, Keeps, Still
<1>16. Same(w, x)
  BY <1>4, <1>6, <1>8, <1>14, <1>15 DEF AsWas, Same
<1>17. x.at = IF Live(w) /\ Reg(w, c) = 0 THEN "trapped" ELSE w.at
  BY <1>4, <1>6, <1>7, <1>8, <1>10, <1>14 DEF Keeps
<1>18. ASSUME Live(w), Reg(w, c) # 0
       PROVE  OthersSound(w, x, a) /\ Reg(x, a) = Div(Reg(w, b), Reg(w, c))
  <2>1. Live(j) /\ Live(q)
    BY <1>4, <1>7, <1>12, <1>18 DEF Keeps, Live
  <2>2. ASSUME NEW u \in VRegs \ {a}, NEW k, Holds(w, u, k) PROVE Holds(x, u, k)
    <3>1. Holds(g, u, k)
      BY <1>4, <1>6, <1>18, <2>1, <2>2 DEF Sound, OthersSound
    <3>. QED
      BY <1>9, <1>14, <2>1, <3>1 DEF OthersSound
  <2>. QED
    BY <1>3, <1>7, <1>14, <2>1, <2>2 DEF OthersSound
<1>. QED
  BY <1>1, <1>13, <1>14, <1>15, <1>16, <1>17, <1>18

-----------------------------------------------------------------------------
(* Arrays *)

\* The vregs keep their values, and something may be done outside the registers.
Acts(w, x) == Same(w, x) /\ Still(w, x) /\ x.at = w.at /\ Sound(w, x)

\* What changes no vreg keeps their values.
LEMMA HasActs ==
  ASSUME NEW w, NEW x, Acts(w, x), NEW val, Has(w, val)
  PROVE  Has(x, val)
<1>1. Live(x)
  BY DEF Acts, Same, Live, Has
<1>. QED
  BY <1>1 DEF Acts, Sound, Has

\* The operand is in an mreg if it is not a constant.
Operand(w, i) == IF i \in w.cset THEN w ELSE ra_mgetv(w, i)
InReach(w, i) == i \in w.cset \/ Pinned(w, i)

\* An operand is got into an mreg, unless it is in reach already.
LEMMA OperandIs ==
  ASSUME NEW w, Tables(w), NEW i \in VRegs, InReach(w, i) \/ Spare(w)
  PROVE  LET x == Operand(w, i)
         IN  /\ Reads(w, x) /\ InReach(x, i)
             /\ \A u : Pinned(w, u) => Pinned(x, u) /\ x.vtom[u] = w.vtom[u]
             /\ Busy(x) \subseteq Busy(w) \cup {x.vtom[i]}
             /\ w.mset = VRegs => x.gpr = w.gpr /\ x.mset = VRegs
<1>1. CASE i \in w.cset
  <2>1. Reads(w, w)
    BY DEF Reads, Same, Still, Sound
  <2>. QED
    BY <1>1, <2>1 DEF Operand, InReach
<1>2. CASE i \notin w.cset
  <2>1. i \in w.rset \/ Spare(w)
    BY <1>2 DEF InReach, Pinned
  <2> DEFINE x == ra_mgetv(w, i)
  <2>2. /\ Reads(w, x) /\ i \in x.rset /\ Pinned(x, i)
        /\ \A u : Pinned(w, u) => Pinned(x, u) /\ x.vtom[u] = w.vtom[u]
        /\ Busy(x) \subseteq Busy(w) \cup {x.vtom[i]}
        /\ w.mset = VRegs => x.gpr = w.gpr /\ x.mset = VRegs
    BY <2>1, GetIs
  <2> HIDE DEF x
  <2>3. Operand(w, i) = x
    BY <1>2 DEF Operand, x
  <2>. QED
    BY <2>2, <2>3 DEF InReach
<1>. QED
  BY <1>1, <1>2

\* The vreg to be loaded or stored.
LEMMA DgetIs ==
  ASSUME NEW w, Tables(w), NEW d \in VRegs, d \in w.rset \/ Spare(w), NEW load \in BOOLEAN
  PROVE  LET x == Dget(w, d, load)
         IN  /\ Same(w, x) /\ Still(w, x) /\ x.at = w.at /\ x.io = w.io
             /\ load => Puts(w, x, d)
             /\ ~load => Reads(w, x)
             /\ Pinned(x, d)
             /\ \A u : Pinned(w, u) => /\ Pinned(x, u)
                                       /\ \A val : Has(w, val) => x.m[w.vtom[u]] = val[u]
<1> DEFINE x == Dget(w, d, load)
<1>1. CASE ~load
  <2>1. x = ra_mgetv(w, d)
    BY <1>1 DEF Dget
  <2>2. /\ Reads(w, x) /\ Pinned(x, d)
        /\ \A u : Pinned(w, u) => Pinned(x, u) /\ x.vtom[u] = w.vtom[u]
    BY <2>1, GetIs
  <2> HIDE DEF x
  <2>3. ASSUME NEW u, Pinned(w, u), NEW val, Has(w, val) PROVE x.m[w.vtom[u]] = val[u]
    <3>1. u \in x.rset /\ x.vtom[u] = w.vtom[u]
      BY <2>2, <2>3 DEF Pinned
    <3>2. Reg(x, u) = val[u]
      BY <2>2, <2>3, <3>1, HasReg, HasReads DEF Reads, Same
    <3>. QED
      BY <3>1, <3>2 DEF Reg
  <2>4. Same(w, x) /\ Still(w, x) /\ x.at = w.at /\ x.io = w.io
    BY <2>2 DEF Reads
  <2>. QED
    BY <1>1, <2>2, <2>3, <2>4 DEF x
<1>2. CASE load
  <2>1. x = ra_mgetvd(w, d)
    BY <1>2 DEF Dget
  <2>2. /\ Got(w, x, d) /\ OthersSound(w, x, d) /\ d \notin x.mset /\ x.m = w.m
    BY <2>1, MgetvdIs
  <2> HIDE DEF x
  <2>3. Same(w, x) /\ Still(w, x) /\ x.at = w.at /\ x.io = w.io
    BY <2>2 DEF Got, Keeps, Same, Still
  <2>4. Puts(w, x, d)
    BY <2>2, <2>3 DEF Puts, Got, Pinned
  <2>5. ASSUME NEW u, Pinned(w, u), NEW val, Has(w, val) PROVE x.m[w.vtom[u]] = val[u]
    <3>1. Reg(w, u) = val[u]
      BY <2>5, HasReg DEF Pinned
    <3>. QED
      BY <2>2, <3>1 DEF Reg
  <2>6. Pinned(x, d) /\ \A u : Pinned(w, u) => Pinned(x, u)
    BY <2>2 DEF Got
  <2>. QED
    BY <1>2, <2>3, <2>4, <2>5, <2>6 DEF x
<1>. QED
  BY <1>1, <1>2

\* What is asked of the outside changes nothing else.
LEMMA DoIs ==
  ASSUME NEW w, Tables(w), NEW io
  PROVE  LET x == Do(w, io)
         IN  /\ Acts(w, x) /\ (Live(w) => x.io = io) /\ (~Live(w) => x.io = w.io)
             /\ \A u : Pinned(x, u) <=> Pinned(w, u)
             /\ \A u : Reg(x, u) = Reg(w, u)
             /\ x.gpr = w.gpr /\ x.mset = w.mset /\ x.rset = w.rset /\ Busy(x) = Busy(w)
<1> DEFINE x == Do(w, io)
<1>1. /\ AsWas(w, x) /\ x.c = w.c /\ x.at = w.at /\ x.facts = w.facts
      /\ x.io = IF Live(w) THEN io ELSE w.io
  <2>1. DOMAIN w = Fields
    BY DEF Tables, Loose, Typed
  <2>. QED
    BY <2>1 DEF AsWas, Do, Fields
<1> HIDE DEF x
<1>2. /\ Tables(x) /\ Busy(x) = Busy(w) /\ \A v : Pinned(x, v) <=> Pinned(w, v)
      /\ \A v, val : Holds(x, v, val) <=> Holds(w, v, val)
      /\ \A v : Reg(x, v) = Reg(w, v)
  BY <1>1, AsWasTables
<1>3. Acts(w, x)
  BY <1>1, <1>2 DEF Acts, Same, Still, Sound, AsWas
<1>. QED
  BY <1>1, <1>2, <1>3 DEF AsWas, x

\* The access: what is asked for, of which array and where, and what comes of it.
Asks(load, array, at, value) ==
  IF load THEN [op |-> "index", array |-> array, at |-> at]
  ELSE [op |-> "amend", array |-> array, at |-> at, value |-> value, seen |-> {}]

Accessed(w, x, d, load, v) ==
  /\ Same(w, x) /\ Still(w, x) /\ x.at = w.at /\ Pinned(x, d)
  /\ load => Puts(w, x, d) /\ (Live(w) => Reg(x, d) = v)
  /\ ~load => Acts(w, x)

\* The access itself: what it asks for, and what it reads or writes.
LEMMA AccessIs ==
  ASSUME NEW w, NEW b, Reads(w, b), NEW d \in VRegs, d \in b.rset \/ Spare(b),
         NEW load \in BOOLEAN, NEW v \in Word, NEW array, NEW at
  PROVE  LET g == Dget(b, d, load)
             x == Access(g, array, at, d, load, v)
         IN  /\ Accessed(w, x, d, load, v)
             /\ \A u : Pinned(b, u) => Pinned(x, u)
             /\ \A val : Has(w, val) => x.io = Asks(load, array, at, val[d])
<1> DEFINE g == Dget(b, d, load)
           x == Access(g, array, at, d, load, v)
<1>1. Tables(b) /\ (Live(w) <=> Live(b))
  BY DEF Reads, Same, Live
<1>2. /\ Same(b, g) /\ Still(b, g) /\ g.at = b.at /\ g.io = b.io
      /\ load => Puts(b, g, d)
      /\ ~load => Reads(b, g)
      /\ Pinned(g, d)
      /\ \A u : Pinned(b, u) => Pinned(g, u)
  BY <1>1, DgetIs
<1> HIDE DEF g
<1>3. Tables(g) /\ (Live(w) <=> Live(g))
  BY <1>1, <1>2 DEF Same, Live
<1>4. CASE load
  <2> DEFINE io == [op |-> "index", array |-> array, at |-> at]
             e == Do(g, io)
             y == SetReg(e, d, v)
  <2>1. x = y
    BY <1>4 DEF Access
  <2> HIDE DEF io, x
  <2>2. /\ Acts(g, e) /\ (Live(g) => e.io = io)
        /\ \A u : Pinned(e, u) <=> Pinned(g, u)
        /\ e.mset = g.mset /\ e.rset = g.rset
    BY <1>3, DoIs
  <2> HIDE DEF e
  <2>3. Puts(w, g, d)
    BY <1>2, <1>4, PutsMore
  <2>4. Puts(w, e, d)
    <3>1. Same(w, e) /\ Still(w, e) /\ e.at = w.at
      BY <2>2, <2>3 DEF Puts, Acts, Same, Still
    <3>2. OthersSound(w, e, d)
      BY <1>3, <2>2, <2>3 DEF Puts, Acts, OthersSound, Sound
    <3>. QED
      BY <2>2, <2>3, <3>1, <3>2 DEF Puts
  <2>5. /\ Puts(w, y, d) /\ y.io = e.io /\ (Live(w) => Reg(y, d) = v)
        /\ Busy(y) = Busy(e) /\ y.vtom = e.vtom
    BY <2>4, PutIs
  <2>6. \A u : Pinned(e, u) => Pinned(y, u)
    <3>1. y.rset = e.rset
      <4>1. Tables(e) /\ d \in e.rset
        BY <2>4 DEF Puts, Same
      <4>. QED
        BY <4>1, SetRegIs
    <3>. QED
      BY <2>5, <3>1 DEF Pinned
  <2> HIDE DEF y
  <2>7. Accessed(w, y, d, load, v)
    BY <1>2, <1>4, <2>2, <2>5, <2>6 DEF Accessed, Puts
  <2>8. \A val : Has(w, val) => y.io = Asks(load, array, at, val[d])
    BY <1>3, <1>4, <2>2, <2>5 DEF Has, Asks, io
  <2>. QED
    BY <1>2, <2>1, <2>2, <2>6, <2>7, <2>8 DEF x, g
<1>5. CASE ~load
  <2> DEFINE io == [op |-> "amend", array |-> array, at |-> at, value |-> Reg(g, d), seen |-> {}]
             y == Do(g, io)
  <2>1. x = y
    BY <1>5 DEF Access
  <2> HIDE DEF io, x
  <2>2. /\ Acts(g, y) /\ (Live(g) => y.io = io)
        /\ \A u : Pinned(y, u) <=> Pinned(g, u)
    BY <1>3, DoIs
  <2> HIDE DEF y
  <2>3. Reads(w, g)
    BY <1>2, <1>5, ReadsMore
  <2>4. Same(w, y) /\ Still(w, y) /\ y.at = w.at
    BY <2>2, <2>3 DEF Reads, Acts, Same, Still
  <2>5. Sound(w, y)
    BY <1>3, <2>2, <2>3 DEF Reads, Acts, Sound
  <2>6. Accessed(w, y, d, load, v)
    BY <1>2, <1>5, <2>2, <2>4, <2>5 DEF Accessed, Acts
  <2>7. ASSUME NEW val, Has(w, val) PROVE y.io = Asks(load, array, at, val[d])
    <3>1. Reg(g, d) = val[d]
      BY <1>2, <1>3, <2>3, <2>7, HasReg, HasReads DEF Pinned
    <3>. QED
      BY <1>3, <1>5, <2>2, <2>7, <3>1 DEF Has, Asks, io
  <2>. QED
    BY <1>2, <2>1, <2>2, <2>6, <2>7 DEF x, g
<1>. QED
  BY <1>4, <1>5

\* The access to array 0.
LEMMA LdstZeroIs ==
  ASSUME NEW w, Tables(w), NEW i \in VRegs, NEW d \in VRegs, NEW load \in BOOLEAN, NEW v \in Word,
         Busy(w) = {} \/ (InReach(w, i) /\ Pinned(w, d))
  PROVE  LET x == co__ldst_sz(w, i, d, load, v)
         IN  /\ Accessed(w, x, d, load, v)
             /\ \A u : Pinned(w, u) => Pinned(x, u)
             /\ \A val : Has(w, val) => x.io = Asks(load, 0, val[i], val[d])
<1> DEFINE b  == Operand(w, i)
           g  == Dget(b, d, load)
           at == IF i \in w.cset THEN w.con[i] ELSE g.m[b.vtom[i]]
           x  == Access(g, 0, at, d, load, v)
<1>1. co__ldst_sz(w, i, d, load, v) = x
  BY DEF co__ldst_sz, Operand
<1>2. InReach(w, i) \/ Spare(w)
  BY Names DEF Spare
<1>3. /\ Reads(w, b) /\ InReach(b, i)
      /\ \A u : Pinned(w, u) => Pinned(b, u) /\ b.vtom[u] = w.vtom[u]
      /\ Busy(b) \subseteq Busy(w) \cup {b.vtom[i]}
  BY <1>2, OperandIs
<1> HIDE DEF b
<1>4. Tables(b) /\ (d \in b.rset \/ Spare(b))
  <2>1. CASE Busy(w) = {}
    <3>1. Busy(b) \subseteq {b.vtom[i]}
      BY <1>3, <2>1
    <3>. QED
      BY <1>3, <3>1, SpareOne DEF Reads, Same
  <2>2. CASE Pinned(w, d)
    BY <1>3, <2>2 DEF Reads, Same, Pinned
  <2>. QED
    BY <2>1, <2>2
<1>5. ASSUME NEW val, Has(w, val) PROVE at = val[i]
  <2>1. CASE i \in w.cset
    BY <1>5, <2>1 DEF Has, Holds
  <2>2. CASE i \notin w.cset
    <3>1. Pinned(b, i)
      BY <1>3, <2>2 DEF InReach, Reads, Still
    <3>2. Has(b, val)
      BY <1>3, <1>5, HasReads
    <3>3. g.m[b.vtom[i]] = val[i]
      BY <1>4, <3>1, <3>2, DgetIs
    <3>. QED
      BY <2>2, <3>3
  <2>. QED
    BY <2>1, <2>2
<1> HIDE DEF at
<1>6. /\ Accessed(w, x, d, load, v)
      /\ \A u : Pinned(b, u) => Pinned(x, u)
      /\ \A val : Has(w, val) => x.io = Asks(load, 0, at, val[d])
  BY <1>3, <1>4, AccessIs
<1> HIDE DEF x, g
<1>7. \A u : Pinned(w, u) => Pinned(x, u)
  BY <1>3, <1>6
<1>8. \A val : Has(w, val) => x.io = Asks(load, 0, val[i], val[d])
  BY <1>5, <1>6
<1>. QED
  BY <1>1, <1>6, <1>7, <1>8

\* The access to another array, the identifier of which is in s.
LEMMA LdstOtherIs ==
  ASSUME NEW w, Tables(w), NEW s \in VRegs, NEW i \in VRegs, NEW d \in VRegs,
         NEW load \in BOOLEAN, NEW v \in Word,
         Busy(w) = {} \/ (Pinned(w, s) /\ Busy(w) \subseteq {w.vtom[s]})
  PROVE  LET x == co__ldst_snz(w, s, i, d, load, v)
         IN  /\ Accessed(w, x, d, load, v) /\ Pinned(x, s) /\ InReach(x, i)
             /\ \A val : Has(w, val) => x.io = Asks(load, val[s], val[i], val[d])
<1> DEFINE n  == Operand(w, i)
           b  == ra_mgetv(n, s)
           g  == Dget(b, d, load)
           ar == g.m[b.vtom[s]]
           at == IF i \in w.cset THEN w.con[i] ELSE g.m[n.vtom[i]]
           x  == Access(g, ar, at, d, load, v)
<1>1. co__ldst_snz(w, s, i, d, load, v) = x
  BY DEF co__ldst_snz, Operand
<1>2. Spare(w)
  BY SpareBut
<1>3. /\ Reads(w, n) /\ InReach(n, i)
      /\ \A u : Pinned(w, u) => Pinned(n, u) /\ n.vtom[u] = w.vtom[u]
      /\ Busy(n) \subseteq Busy(w) \cup {n.vtom[i]}
  BY <1>2, OperandIs
<1> HIDE DEF n
<1>4. Tables(n) /\ (s \in n.rset \/ Spare(n))
  <2>1. CASE Busy(w) = {}
    <3>1. Busy(n) \subseteq {n.vtom[i]}
      BY <1>3, <2>1
    <3>. QED
      BY <1>3, <3>1, SpareOne DEF Reads, Same
  <2>2. CASE Pinned(w, s)
    BY <1>3, <2>2 DEF Reads, Same, Pinned
  <2>. QED
    BY <2>1, <2>2
<1>5. /\ Reads(n, b) /\ Pinned(b, s)
      /\ \A u : Pinned(n, u) => Pinned(b, u) /\ b.vtom[u] = n.vtom[u]
      /\ Busy(b) \subseteq Busy(n) \cup {b.vtom[s]}
  BY <1>4, GetIs
<1> HIDE DEF b
<1>6. Busy(b) \subseteq {b.vtom[s], n.vtom[i]}
  BY <1>3, <1>5
<1>7. Spare(b) /\ Tables(b) /\ Reads(w, b)
  BY <1>3, <1>5, <1>6, SpareBut, ReadsMore DEF Reads, Same
<1>8. i \notin w.cset => Pinned(b, i) /\ b.vtom[i] = n.vtom[i]
  BY <1>3, <1>5 DEF InReach, Reads, Still
<1>9. ASSUME NEW val, Has(w, val) PROVE at = val[i] /\ ar = val[s]
  <2>1. Has(b, val)
    BY <1>7, <1>9, HasReads
  <2>2. ar = val[s]
    BY <1>5, <1>7, <2>1, DgetIs
  <2>3. CASE i \in w.cset
    BY <1>9, <2>2, <2>3 DEF Has, Holds
  <2>4. CASE i \notin w.cset
    <3>1. g.m[b.vtom[i]] = val[i]
      BY <1>7, <1>8, <2>1, <2>4, DgetIs
    <3>. QED
      BY <1>8, <2>2, <2>4, <3>1
  <2>. QED
    BY <2>3, <2>4
<1> HIDE DEF at, ar
<1>10. /\ Accessed(w, x, d, load, v)
       /\ \A u : Pinned(b, u) => Pinned(x, u)
       /\ \A val : Has(w, val) => x.io = Asks(load, ar, at, val[d])
  BY <1>7, AccessIs
<1> HIDE DEF x, g
<1>11. Pinned(x, s) /\ InReach(x, i)
  BY <1>5, <1>8, <1>10 DEF InReach, Accessed, Still
<1>12. \A val : Has(w, val) => x.io = Asks(load, val[s], val[i], val[d])
  BY <1>9, <1>10
<1>. QED
  BY <1>1, <1>10, <1>11, <1>12

\* The access where the compiler knows whether the array is array 0.
LEMMA LdstKnownIs ==
  ASSUME NEW w, Tables(w), Busy(w) = {}, NEW s \in w.z \cup w.nz, NEW i \in VRegs, NEW d \in VRegs,
         NEW load \in BOOLEAN, NEW v \in Word, NEW val, s \in w.z => val[s] = 0
  PROVE  LET x == co__ldst(w, s, i, d, load, v)
         IN  /\ Accessed(w, x, d, load, v)
             /\ Has(w, val) => x.io = Asks(load, val[s], val[i], val[d])
<1>1. s \in VRegs
  BY DEF Tables, Loose, Typed
<1>2. CASE s \in w.z
  <2> DEFINE x == co__ldst_sz(w, i, d, load, v)
  <2>1. /\ Accessed(w, x, d, load, v)
        /\ \A e : Has(w, e) => x.io = Asks(load, 0, e[i], e[d])
    BY LdstZeroIs
  <2>2. co__ldst(w, s, i, d, load, v) = x
    BY <1>2 DEF co__ldst
  <2> HIDE DEF x
  <2>. QED
    BY <1>2, <2>1, <2>2
<1>3. CASE s \notin w.z
  <2> DEFINE x == co__ldst_snz(w, s, i, d, load, v)
  <2>1. /\ Accessed(w, x, d, load, v)
        /\ \A e : Has(w, e) => x.io = Asks(load, e[s], e[i], e[d])
    BY <1>1, LdstOtherIs
  <2>2. co__ldst(w, s, i, d, load, v) = x
    BY <1>3 DEF co__ldst
  <2> HIDE DEF x
  <2>. QED
    BY <2>1, <2>2
<1>. QED
  BY <1>2, <1>3

\* What is known of the tables after an access to any array.
LEMMA LdstAnyIs ==
  ASSUME NEW w, Tables(w), Busy(w) = {}, w.c = "inl", NEW s \in VRegs \ (w.z \cup w.nz),
         NEW i \in VRegs, NEW d \in VRegs, NEW load \in BOOLEAN, NEW v \in Word
  PROVE  LET x == co__ldst(w, s, i, d, load, v)
         IN  /\ Same(w, x) /\ Still(w, x) /\ x.at \in {w.at, "inl", "outl"}
             /\ Pinned(x, s) /\ d \in x.rset /\ (load => d \notin x.mset)
<1> DEFINE b == ra_mgetv(w, s)
           p == Reg(b, s) = 0
           z == Jcc(b, p, "outl")
           n == co__ldst_snz(z, s, i, d, load, v)
           t == To(n, "outl")
           o == co__ldst_sz(t, i, d, load, v)
           j == Jump(o, "inl")
           x == To(j, "inl")
<1>1. co__ldst(w, s, i, d, load, v) = x
  BY DEF co__ldst
<1>2. /\ Reads(w, b) /\ Pinned(b, s) /\ Busy(b) \subseteq {b.vtom[s]}
  <2>1. Spare(w)
    BY Names DEF Spare
  <2>. QED
    BY <2>1, GetIs
<1> HIDE DEF b
<1>3. AsWas(b, z) /\ z.c = b.c /\ z.facts = b.facts /\ z.at \in {b.at, "outl"}
  <2>1. p \in BOOLEAN /\ Tables(b)
    BY <1>2 DEF Reads, Same
  <2> HIDE DEF p
  <2>2. AsWas(b, z) /\ z.c = b.c /\ z.facts = b.facts
        /\ z.at = IF p /\ Live(b) THEN "outl" ELSE b.at
    BY <2>1, ControlIs
  <2>. QED
    BY <2>2
<1> HIDE DEF z
<1>4. Tables(z) /\ Busy(z) = Busy(b) /\ \A v_ : Pinned(z, v_) <=> Pinned(b, v_)
  BY <1>2, <1>3, AsWasTables DEF Reads, Same
<1>5. Accessed(z, n, d, load, v) /\ Pinned(n, s) /\ InReach(n, i)
  <2>1. Pinned(z, s) /\ Busy(z) \subseteq {z.vtom[s]}
    BY <1>2, <1>3, <1>4 DEF AsWas
  <2>. QED
    BY <1>4, <2>1, LdstOtherIs
<1> HIDE DEF n
<1>6. Tables(n) /\ Pinned(n, d)
  BY <1>5 DEF Accessed, Same
<1>7. AsWas(n, t) /\ t.c = "outl" /\ t.facts = n.facts /\ t.at = n.at
  <2>1. DOMAIN n = Fields
    BY <1>6 DEF Tables, Loose, Typed
  <2>. QED
    BY <2>1 DEF To, AsWas, Fields
<1> HIDE DEF t
<1>8. Tables(t) /\ \A v_ : Pinned(t, v_) <=> Pinned(n, v_)
  BY <1>6, <1>7, AsWasTables
<1>9. InReach(t, i) /\ Pinned(t, d) /\ Pinned(t, s)
  BY <1>5, <1>6, <1>7, <1>8 DEF InReach, AsWas
<1>10. Accessed(t, o, d, load, v) /\ \A u : Pinned(t, u) => Pinned(o, u)
  BY <1>8, <1>9, LdstZeroIs
<1> HIDE DEF o
<1>11. Tables(o) /\ DOMAIN o = Fields
  BY <1>10 DEF Accessed, Same, Tables, Loose, Typed
<1>12. AsWas(o, j) /\ j.facts = o.facts /\ j.at \in {o.at, "inl"}
  BY <1>11 DEF Jump, AsWas, Fields
<1> HIDE DEF j
<1>13. AsWas(j, x) /\ x.facts = j.facts /\ x.at = j.at /\ x.c = "inl"
  <2>1. DOMAIN j = Fields
    BY <1>12 DEF AsWas
  <2>. QED
    BY <2>1 DEF To, AsWas, Fields
<1> HIDE DEF x
<1>14. AsWas(o, x)
  BY <1>12, <1>13 DEF AsWas
<1>15. Tables(x) /\ \A v_ : Pinned(x, v_) <=> Pinned(o, v_)
  BY <1>11, <1>14, AsWasTables
<1>16. Same(w, x)
  <2>1. x.ok = w.ok /\ x.time = w.time /\ x.facts = w.facts
    BY <1>2, <1>3, <1>5, <1>7, <1>10, <1>12, <1>13, <1>14 DEF Reads, Accessed, Same, AsWas
  <2>2. \A k \in MRegs : x.mtov[k] = Held <=> w.mtov[k] = Held
    BY <1>2, <1>3, <1>5, <1>7, <1>10, <1>14 DEF Reads, Accessed, Same, AsWas
  <2>. QED
    BY <1>13, <1>15, <2>1, <2>2 DEF Same
<1>17. Still(w, x)
  BY <1>2, <1>3, <1>5, <1>7, <1>10, <1>14 DEF Reads, Accessed, Still, AsWas
<1>18. x.at \in {w.at, "inl", "outl"}
  BY <1>2, <1>3, <1>5, <1>7, <1>10, <1>12, <1>13 DEF Reads, Accessed
<1>19. Pinned(x, s) /\ d \in x.rset
  BY <1>9, <1>10, <1>15 DEF Accessed, Pinned
<1>20. load => d \notin x.mset
  BY <1>10, <1>14 DEF Accessed, Puts, AsWas
<1>. QED
  BY <1>1, <1>16, <1>17, <1>18, <1>19, <1>20

-----------------------------------------------------------------------------
(* Calls *)

\* A parameter that is pushed is the value of its vreg.
LEMMA PushedIs ==
  ASSUME NEW w, Tables(w), NEW v \in VRegs, NEW val, Has(w, val)
  PROVE  Pushed(w, v) = val[v]
BY DEF Tables, Loose, Somewhere, Has, Holds, Pushed

\* All vregs are brought to memory, and no value changes.
LEMMA FlushIs ==
  ASSUME NEW w, Tables(w)
  PROVE  LET x == ra_vflushall(w)
         IN  /\ Reads(w, x) /\ x.mset = VRegs /\ x.rset = w.rset /\ Busy(x) = Busy(w)
             /\ \A val : Has(w, val) => x.gpr = val
<1> DEFINE x == ra_vflushall(w)
<1>1. /\ Tables(x) /\ Keeps(w, x) /\ Sound(w, x)
      /\ x.m = w.m /\ x.vtom = w.vtom /\ x.mlru = w.mlru /\ x.ok = w.ok
      /\ x.mtov = w.mtov /\ x.rset = w.rset /\ x.mset = VRegs
      /\ Live(w) => \A v \in VRegs : \A val : Holds(w, v, val) => x.gpr[v] = val
  BY FlushallIs
<1> HIDE DEF x
<1>2. Reads(w, x)
  BY <1>1 DEF Keeps, Reads, Same, Still
<1>3. ASSUME NEW val, Has(w, val) PROVE x.gpr = val
  <2>1. x.gpr \in [VRegs -> Word]
    BY <1>1 DEF Tables, Loose, Typed
  <2>2. \A v \in VRegs : x.gpr[v] = val[v]
    BY <1>1, <1>3 DEF Has
  <2>. QED
    BY <1>3, <2>1, <2>2 DEF Has
<1>4. Busy(x) = Busy(w)
  BY <1>1 DEF Busy, Keeps
<1>. QED
  BY <1>1, <1>2, <1>3, <1>4 DEF x

\* Nothing is in the registers that a call destroys.
Saved(w) == \A k \in CallerSaved : w.mtov[k] \notin VRegs

\* All that a call destroys is saved first.
LEMMA SaveIs ==
  ASSUME NEW w, Tables(w)
  PROVE  LET x == co__cclear(w)
         IN  /\ Reads(w, x) /\ Saved(x)
             /\ w.mset = VRegs => x.mset = VRegs /\ x.gpr = w.gpr
<1> DEFINE x == co__cclear(w)
<1>1. Eased(w, x) /\ \A m \in CallerSaved : x.mtov[m] \notin VRegs
  BY CclearIs
<1> HIDE DEF x
<1>2. \A k \in MRegs : x.mtov[k] = Held <=> w.mtov[k] = Held
  BY <1>1, Names DEF Eased
<1>3. Reads(w, x)
  BY <1>1, <1>2 DEF Eased, Keeps, Reads, Same, Still
<1>4. w.mset = VRegs => x.mset = VRegs /\ x.gpr = w.gpr
  BY <1>1 DEF Eased, Tables, Loose, Typed
<1>. QED
  BY <1>1, <1>3, <1>4 DEF Saved, x

\* A call destroys mregs that hold nothing.
LEMMA CallIs ==
  ASSUME NEW w, Tables(w), Saved(w), NEW junk \in Word
  PROVE  LET x == Clobber(w, junk)
         IN  Reads(w, x) /\ x.mset = w.mset /\ x.gpr = w.gpr
<1> DEFINE x == Clobber(w, junk)
<1>1. \A k \in CallerSaved : w.mtov[k] \notin VRegs \ {Free}
  BY DEF Saved
<1>2. /\ Tables(x) /\ Keeps(w, x) /\ OthersSound(w, x, Free) /\ x.ok = w.ok
      /\ x.vtom = w.vtom /\ x.mlru = w.mlru /\ x.mtov = w.mtov
      /\ x.rset = w.rset /\ x.mset = w.mset /\ x.gpr = w.gpr
  BY <1>1, ClobberIs
<1> HIDE DEF x
<1>3. Sound(w, x)
  BY <1>2, Names DEF OthersSound, Sound
<1>. QED
  BY <1>2, <1>3 DEF Keeps, Reads, Same, Still, x

FactsType == [z : SUBSET VRegs, nz : SUBSET VRegs]

\* Leaving for other code changes control alone.
LEMMA GoIs ==
  ASSUME NEW w, Tables(w), NEW io, NEW facts
  PROVE  LET x == Go(w, io, facts)
         IN  /\ AsWas(w, x) /\ Tables(x) /\ Busy(x) = Busy(w) /\ x.c = w.c
             /\ Live(w) => x.at = "gone" /\ x.io = io /\ x.facts = facts
             /\ ~Live(w) => x = w
<1> DEFINE x == Go(w, io, facts)
<1>1. DOMAIN w = Fields
  BY DEF Tables, Loose, Typed
<1>2. /\ AsWas(w, x) /\ x.c = w.c
      /\ Live(w) => x.at = "gone" /\ x.io = io /\ x.facts = facts
      /\ ~Live(w) => x = w
  BY <1>1 DEF Go, AsWas, Fields
<1> HIDE DEF x
<1>3. Tables(x) /\ Busy(x) = Busy(w)
  BY <1>2, AsWasTables
<1>. QED
  BY <1>2, <1>3 DEF x

\* The call itself, which goes on to a new block if it does not come back.
SeenAt(io, k) == [io EXCEPT !.seen = {k}]

Posted(w, x, i, facts, back) ==
  /\ Tables(x) /\ Still(w, x) /\ x.ok = w.ok /\ x.time = w.time /\ x.c = w.c
  /\ \A k \in MRegs : x.mtov[k] = Held <=> w.mtov[k] = Held
  /\ x.mset = w.mset /\ x.gpr = w.gpr
  /\ back => Acts(w, x)
  /\ Live(w) /\ ~back => x.at = "gone" /\ x.facts = facts
  /\ ~Live(w) => x.at = w.at /\ x.facts = w.facts
  /\ \A val : Has(w, val) => x.io = [w.io EXCEPT !.seen = {val[i]}]

\* co__postwrite: the block goes on, or is left with what it is told.
LEMMA PostwriteIs ==
  ASSUME NEW w, Tables(w), Saved(w), NEW i \in VRegs, NEW facts, NEW back \in BOOLEAN,
         NEW junk \in Word
  PROVE  Posted(w, co__postwrite(w, i, facts, back, junk), i, facts, back)
<1> DEFINE t == IF Live(w) THEN [w EXCEPT !.io.seen = {Pushed(w, i)}] ELSE w
           r == Clobber(t, junk)
           x == co__postwrite(w, i, facts, back, junk)
<1>1. DOMAIN w = Fields
  BY DEF Tables, Loose, Typed
<1>2. /\ AsWas(w, t) /\ t.c = w.c /\ t.at = w.at /\ t.facts = w.facts
      /\ Live(w) => t.io = [w.io EXCEPT !.seen = {Pushed(w, i)}]
      /\ ~Live(w) => t = w
  BY <1>1 DEF AsWas, Fields
<1>3. x = IF back THEN r ELSE Go(r, r.io, facts)
  BY DEF co__postwrite
<1> HIDE DEF t
<1>4. /\ Tables(t) /\ Busy(t) = Busy(w) /\ \A v, val : Holds(t, v, val) <=> Holds(w, v, val)
      /\ (Live(t) <=> Live(w))
  BY <1>2, AsWasTables DEF Live
<1>5. Acts(w, t) /\ t.mset = w.mset /\ t.gpr = w.gpr /\ Saved(t)
  BY <1>2, <1>4 DEF Acts, Same, Still, Sound, AsWas, Saved
<1>6. Reads(t, r) /\ r.mset = t.mset /\ r.gpr = t.gpr
  BY <1>4, <1>5, CallIs
<1> HIDE DEF r
<1>7. Acts(w, r) /\ r.mset = w.mset /\ r.gpr = w.gpr
  <2>1. Same(w, r) /\ Still(w, r) /\ r.at = w.at
    BY <1>5, <1>6 DEF Acts, Reads, Same, Still
  <2>2. Sound(w, r)
    BY <1>4, <1>5, <1>6 DEF Acts, Reads, Sound
  <2>. QED
    BY <1>5, <1>6, <2>1, <2>2 DEF Acts
<1>8. ASSUME NEW val, Has(w, val) PROVE r.io = [w.io EXCEPT !.seen = {val[i]}]
  <2>1. Live(w) /\ Pushed(w, i) = val[i]
    BY <1>8, PushedIs DEF Has
  <2>. QED
    BY <1>2, <1>6, <2>1 DEF Reads
<1>9. CASE back
  <2>1. x = r
    BY <1>3, <1>9
  <2>. QED
    BY <1>7, <1>8, <1>9, <2>1 DEF Acts, Same, Posted
<1>10. CASE ~back
  <2> DEFINE y == Go(r, r.io, facts)
  <2>1. x = y /\ Tables(r) /\ (Live(r) <=> Live(w))
    BY <1>3, <1>7, <1>10 DEF Acts, Same, Live
  <2>2. /\ AsWas(r, y) /\ Tables(y) /\ y.c = r.c
        /\ Live(r) => y.at = "gone" /\ y.io = r.io /\ y.facts = facts
        /\ ~Live(r) => y = r
    BY <2>1, GoIs
  <2> HIDE DEF y, x
  <2>3. /\ Tables(x) /\ Still(w, x) /\ x.ok = w.ok /\ x.time = w.time /\ x.c = w.c
        /\ \A k \in MRegs : x.mtov[k] = Held <=> w.mtov[k] = Held
        /\ x.mset = w.mset /\ x.gpr = w.gpr
    BY <1>7, <2>1, <2>2 DEF AsWas, Acts, Same, Still
  <2>4. /\ Live(w) => x.at = "gone" /\ x.facts = facts
        /\ ~Live(w) => x.at = w.at /\ x.facts = w.facts
        /\ x.io = r.io
    BY <1>7, <2>1, <2>2 DEF Acts, Same
  <2>. QED
    BY <1>8, <1>10, <2>3, <2>4 DEF x, Posted
<1>. QED
  BY <1>9, <1>10

\* What is known of vregs is about vregs.
LEMMA FactsAre ==
  ASSUME NEW w, Tables(w), NEW a \in VRegs
  PROVE  /\ Facts(w) \in FactsType
         /\ [Facts(w) EXCEPT !.z = @ \cup {a}] = [z |-> w.z \cup {a}, nz |-> w.nz]
         /\ [Facts(w) EXCEPT !.nz = @ \cup {a}] = [z |-> w.z, nz |-> w.nz \cup {a}]
         /\ [Facts(w) EXCEPT !.z = @ \cup {a}] \in FactsType
         /\ [Facts(w) EXCEPT !.nz = @ \cup {a}] \in FactsType
<1>1. w.z \subseteq VRegs /\ w.nz \subseteq VRegs
  BY DEF Tables, Loose, Typed
<1>2. /\ [Facts(w) EXCEPT !.z = @ \cup {a}] = [z |-> w.z \cup {a}, nz |-> w.nz]
      /\ [Facts(w) EXCEPT !.nz = @ \cup {a}] = [z |-> w.z, nz |-> w.nz \cup {a}]
  BY DEF Facts
<1>3. \A z, nz \in SUBSET VRegs : [z |-> z, nz |-> nz] \in FactsType
  BY DEF FactsType
<1>4. w.z \cup {a} \in SUBSET VRegs /\ w.nz \cup {a} \in SUBSET VRegs
  BY <1>1
<1>5. Facts(w) = [z |-> w.z, nz |-> w.nz]
  BY DEF Facts
<1>. QED
  BY <1>1, <1>2, <1>3, <1>4, <1>5

\* co_postwrite_0: the runtime sees the store, and the block goes on or is left.
LEMMA PostwriteZeroIs ==
  ASSUME NEW w, Tables(w), w.mset = VRegs, NEW b \in VRegs, NEW back \in BOOLEAN, NEW junk \in Word
  PROVE  LET x == co_postwrite_0(w, b, back, junk)
         IN  /\ Tables(x) /\ Still(w, x) /\ x.ok = w.ok /\ x.time = w.time /\ x.c = w.c
             /\ \A k \in MRegs : x.mtov[k] = Held <=> w.mtov[k] = Held
             /\ x.mset = VRegs /\ x.gpr = w.gpr
             /\ back => Acts(w, x)
             /\ Live(w) /\ ~back => x.at = "gone" /\ x.facts = Facts(w)
             /\ ~Live(w) => x.at = w.at /\ x.facts = w.facts
             /\ \A val : Has(w, val) => x.io = SeenAt(w.io, val[b])
<1> DEFINE s == co__cclear(w)
           x == co__postwrite(s, b, Facts(w), back, junk)
<1>1. co_postwrite_0(w, b, back, junk) = x
  BY DEF co_postwrite_0
<1>2. Reads(w, s) /\ Saved(s) /\ s.mset = VRegs /\ s.gpr = w.gpr
  BY SaveIs
<1> HIDE DEF s
<1>3. Tables(s) /\ (Live(s) <=> Live(w))
  BY <1>2 DEF Reads, Same, Live
<1>4. Posted(s, x, b, Facts(w), back)
  <2> DEFINE f == Facts(w)
  <2> HIDE DEF f
  <2>1. Posted(s, co__postwrite(s, b, f, back, junk), b, f, back)
    BY <1>2, <1>3, PostwriteIs
  <2>. QED
    BY <2>1 DEF f
<1> HIDE DEF x
<1>5. back => Acts(w, x)
  BY <1>2, <1>3, <1>4 DEF Posted, Reads, Acts, Same, Still, Sound
<1>6. \A val : Has(w, val) => x.io = SeenAt(w.io, val[b])
  <2>1. s.io = w.io
    BY <1>2 DEF Reads
  <2>2. ASSUME NEW val, Has(w, val) PROVE Has(s, val)
    BY <1>2, <2>2, HasReads
  <2>. QED
    BY <1>4, <2>1, <2>2 DEF Posted, SeenAt
<1>7. Tables(x) /\ Still(w, x) /\ x.ok = w.ok /\ x.time = w.time /\ x.c = w.c
  BY <1>2, <1>4 DEF Posted, Reads, Same, Still
<1>8. \A k \in MRegs : x.mtov[k] = Held <=> w.mtov[k] = Held
  BY <1>2, <1>4 DEF Posted, Reads, Same
<1>9. /\ Live(w) /\ ~back => x.at = "gone" /\ x.facts = Facts(w)
      /\ ~Live(w) => x.at = w.at /\ x.facts = w.facts
  BY <1>2, <1>3, <1>4 DEF Posted, Reads, Same
<1>. QED
  BY <1>1, <1>2, <1>4, <1>5, <1>6, <1>7, <1>8, <1>9 DEF Posted

\* What is known of the tables if the call is out of line.
LEMMA PostwriteAnyIs ==
  ASSUME NEW w, Tables(w), w.c = "inl", NEW a \in w.rset, NEW b \in VRegs,
         NEW back \in BOOLEAN, NEW junk \in Word
  PROVE  LET x == co_postwrite(w, a, b, back, junk)
         IN  /\ Tables(x) /\ x.ok = w.ok /\ x.time = w.time /\ x.c = "inl"
             /\ \A k \in MRegs : x.mtov[k] = Held <=> w.mtov[k] = Held
             /\ x.at \in {w.at, "outl", "gone"}
             /\ x.facts = w.facts \/ x.facts \in FactsType
<1> DEFINE g == ra_mgetv(w, a)
           s == co__cclear(g)
           p == Reg(g, a) = 0
           j == Jcc(s, p, "outl")
           t == To(j, "outl")
           f == [Facts(w) EXCEPT !.z = @ \cup {a}]
           y == co__postwrite(t, b, f, back, junk)
           x == To(y, "inl")
<1>1. co_postwrite(w, a, b, back, junk) = x
  BY DEF co_postwrite
<1>2. a \in VRegs
  BY DEF Tables, Loose, Typed
<1>3. Reads(w, g) /\ Tables(g)
  BY <1>2, GetIs DEF Reads, Same
<1> HIDE DEF g
<1>4. Reads(g, s) /\ Saved(s) /\ Tables(s)
  BY <1>3, SaveIs DEF Reads, Same
<1> HIDE DEF s
<1>5. AsWas(s, j) /\ j.facts = s.facts /\ j.at \in {s.at, "outl"}
  <2>1. p \in BOOLEAN
    OBVIOUS
  <2> HIDE DEF p
  <2>2. AsWas(s, j) /\ j.facts = s.facts
        /\ j.at = IF p /\ Live(s) THEN "outl" ELSE s.at
    BY <1>4, <2>1, ControlIs
  <2>. QED
    BY <2>2
<1> HIDE DEF j
<1>6. AsWas(j, t) /\ t.facts = j.facts /\ t.at = j.at
  <2>1. DOMAIN j = Fields
    BY <1>5 DEF AsWas
  <2>. QED
    BY <2>1 DEF To, AsWas, Fields
<1> HIDE DEF t
<1>7. AsWas(s, t)
  BY <1>5, <1>6 DEF AsWas
<1>8. Tables(t) /\ Saved(t)
  BY <1>4, <1>7, AsWasTables DEF AsWas, Saved
<1>9. f \in FactsType
  BY <1>2, FactsAre
<1> HIDE DEF f
<1>10. Posted(t, y, b, f, back)
  BY <1>8, PostwriteIs
<1> HIDE DEF y
<1>11. y.at \in {t.at, "gone"} /\ y.facts \in {t.facts, f}
  BY <1>10 DEF Posted, Acts, Same
<1>12. AsWas(y, x) /\ x.facts = y.facts /\ x.at = y.at /\ x.c = "inl"
  <2>1. DOMAIN y = Fields
    BY <1>10 DEF Posted, Tables, Loose, Typed
  <2>. QED
    BY <2>1 DEF To, AsWas, Fields
<1> HIDE DEF x
<1>13. Tables(x)
  BY <1>10, <1>12, AsWasTables DEF Posted
<1>14. x.ok = w.ok /\ x.time = w.time /\ x.facts \in {w.facts, f} /\ x.at \in {w.at, "outl", "gone"}
  BY <1>3, <1>4, <1>5, <1>6, <1>7, <1>10, <1>11, <1>12 DEF Posted, Reads, Same, AsWas
<1>15. \A k \in MRegs : x.mtov[k] = Held <=> w.mtov[k] = Held
  BY <1>3, <1>4, <1>7, <1>10, <1>12 DEF Posted, Reads, Same, AsWas
<1>. QED
  BY <1>1, <1>9, <1>12, <1>13, <1>14, <1>15

\* A result may be put after the outside has been asked for it.
LEMMA PutsDoIs ==
  ASSUME NEW w, NEW x, NEW v, Puts(w, x, v), NEW io
  PROVE  LET y == Do(x, io)
         IN  Puts(w, y, v) /\ (Live(w) => y.io = io) /\ Reg(y, v) = Reg(x, v)
<1> DEFINE y == Do(x, io)
<1>1. Tables(x) /\ (Live(w) <=> Live(x))
  BY DEF Puts, Same, Live
<1>2. /\ Acts(x, y) /\ (Live(x) => y.io = io)
      /\ Reg(y, v) = Reg(x, v) /\ y.mset = x.mset /\ y.rset = x.rset
  BY <1>1, DoIs
<1> HIDE DEF y
<1>3. Same(w, y) /\ Still(w, y) /\ y.at = w.at
  BY <1>2 DEF Puts, Acts, Same, Still
<1>4. OthersSound(w, y, v)
  BY <1>1, <1>2 DEF Puts, Acts, OthersSound, Sound
<1>. QED
  BY <1>1, <1>2, <1>3, <1>4 DEF Puts, y

\* The result of a call is in EAX, which becomes that of v.
LEMMA ResultIs ==
  ASSUME NEW w, Tables(w), Saved(w), w.mtov["EAX"] # Held, NEW v \in VRegs,
         NEW junk \in Word, NEW d \in Word
  PROVE  LET x == SetM(Clobber(ra_mchange(w, "EAX", v), junk), "EAX", d)
         IN  Puts(w, x, v) /\ x.io = w.io /\ (Live(w) => Reg(x, v) = d)
<1> DEFINE g == ra_mchange(w, "EAX", v)
           r == Clobber(g, junk)
           x == SetM(r, "EAX", d)
<1>1. /\ Tables(g) /\ Keeps(w, g) /\ OthersSound(w, g, v) /\ g.ok = w.ok
      /\ g.m = w.m /\ g.vtom[v] = "EAX" /\ v \notin g.mset
      /\ Pinned(g, v)
      /\ \A k \in MRegs : g.mtov[k] \in {v, Free, w.mtov[k]}
      /\ \A k \in MRegs : g.mtov[k] = Held <=> w.mtov[k] = Held
  BY Names, MchangeIs
<1> HIDE DEF g
<1>2. \A k \in CallerSaved : g.mtov[k] \notin VRegs \ {v}
  <2>1. CallerSaved \subseteq MRegs
    BY DEF CallerSaved
  <2>. QED
    BY <1>1, <2>1, Names DEF Saved
<1>3. /\ Tables(r) /\ Keeps(g, r) /\ OthersSound(g, r, v) /\ r.ok = g.ok
      /\ r.vtom = g.vtom /\ r.mlru = g.mlru /\ r.mtov = g.mtov
      /\ r.rset = g.rset /\ r.mset = g.mset /\ r.gpr = g.gpr
  BY <1>1, <1>2, ClobberIs
<1> HIDE DEF r
<1>4. Puts(w, r, v) /\ r.io = w.io
  <2>1. Same(w, r) /\ Still(w, r) /\ r.at = w.at /\ r.io = w.io
    BY <1>1, <1>3 DEF Keeps, Same, Still
  <2>2. OthersSound(w, r, v)
    BY <1>1, <1>3 DEF OthersSound, Keeps, Live
  <2>. QED
    BY <1>1, <1>3, <2>1, <2>2 DEF Puts, Pinned
<1>5. x = SetReg(r, v, d)
  BY <1>1, <1>3 DEF SetReg
<1> HIDE DEF x
<1>6. Puts(w, x, v) /\ x.io = r.io /\ (Live(w) => Reg(x, v) = d)
  BY <1>4, <1>5, PutIs
<1>. QED
  BY <1>4, <1>6 DEF x, r, g

\* If no mreg is in use, none is held.
LEMMA NoneHeld ==
  ASSUME NEW w, Tables(w), Busy(w) = {}
  PROVE  \A k \in MRegs : w.mtov[k] # Held
BY Names DEF Busy

\* co_input: the vreg has what was read.
LEMMA InputIs ==
  ASSUME NEW w, Tables(w), Busy(w) = {}, NEW c \in VRegs, NEW d \in Word, NEW junk \in Word
  PROVE  LET x == co_input(w, c, d, junk)
         IN  Puts(w, x, c) /\ (Live(w) => x.io = [op |-> "input"] /\ Reg(x, c) = d)
<1> DEFINE s == co__cclear(w)
           r == SetM(Clobber(ra_mchange(s, "EAX", c), junk), "EAX", d)
           x == Do(r, [op |-> "input"])
<1>1. co_input(w, c, d, junk) = x
  BY DEF co_input
<1>2. Reads(w, s) /\ Saved(s)
  BY SaveIs
<1> HIDE DEF s
<1>3. Tables(s) /\ s.mtov["EAX"] # Held /\ (Live(w) <=> Live(s))
  BY <1>2, NoneHeld, Names DEF Reads, Same, Live
<1>4. Puts(s, r, c) /\ r.io = s.io /\ (Live(s) => Reg(r, c) = d)
  BY <1>2, <1>3, ResultIs
<1> HIDE DEF r
<1>5. Puts(w, r, c)
  BY <1>2, <1>4, PutsMore
<1>6. Puts(w, x, c) /\ (Live(w) => x.io = [op |-> "input"]) /\ Reg(x, c) = Reg(r, c)
  BY <1>5, PutsDoIs
<1>. QED
  BY <1>1, <1>3, <1>4, <1>6

\* co_output: the vreg is written, and none has changed.
LEMMA OutputIs ==
  ASSUME NEW w, Tables(w), Busy(w) = {}, NEW c \in VRegs, NEW junk \in Word, NEW val
  PROVE  LET x == co_output(w, c, junk)
         IN  Acts(w, x) /\ (Has(w, val) => x.io = [op |-> "output", char |-> val[c]])
<1> DEFINE g == ra_mgetv(w, c)
           s == co__cclear(g)
           r == Clobber(s, junk)
           io == [op |-> "output", char |-> Reg(g, c)]
           x == Do(r, io)
<1>1. co_output(w, c, junk) = x
  BY DEF co_output
<1>2. Reads(w, g) /\ c \in g.rset /\ Tables(g)
  <2>1. Spare(w)
    BY Names DEF Spare
  <2>. QED
    BY <2>1, GetIs DEF Reads, Same
<1> HIDE DEF g
<1>3. Reads(g, s) /\ Saved(s) /\ Tables(s)
  BY <1>2, SaveIs DEF Reads, Same
<1> HIDE DEF s
<1>4. Reads(s, r)
  BY <1>3, CallIs
<1> HIDE DEF r
<1>5. Reads(g, r)
  BY <1>3, <1>4, ReadsMore
<1>6. Reads(w, r)
  BY <1>2, <1>5, ReadsMore
<1>7. Tables(r) /\ (Live(r) <=> Live(w))
  BY <1>6 DEF Reads, Same, Live
<1> HIDE DEF io
<1>8. Acts(r, x) /\ (Live(r) => x.io = io)
  BY <1>7, DoIs
<1> HIDE DEF x
<1>9. Same(w, x) /\ Still(w, x) /\ x.at = w.at
  BY <1>6, <1>8 DEF Reads, Acts, Same, Still
<1>10. Sound(w, x)
  BY <1>6, <1>7, <1>8 DEF Reads, Acts, Sound
<1>11. Has(w, val) => x.io = [op |-> "output", char |-> val[c]]
  <2>1. ASSUME Has(w, val) PROVE Reg(g, c) = val[c] /\ Live(w)
    <3>1. Has(g, val)
      BY <1>2, <2>1, HasReads
    <3>2. Reg(g, c) = val[c]
      BY <1>2, <3>1, HasReg
    <3>. QED
      BY <2>1, <3>2 DEF Has
  <2>. QED
    BY <1>7, <1>8, <2>1 DEF io
<1>. QED
  BY <1>1, <1>9, <1>10, <1>11 DEF Acts

\* co_alloc: the vreg has the new array, inlined or called for.
LEMMA AllocIs ==
  ASSUME NEW w, Tables(w), Busy(w) = {}, NEW b \in VRegs, NEW c \in VRegs,
         NEW id \in Word, NEW junk \in Word, NEW val
  PROVE  LET x == co_alloc(w, b, c, id, junk)
         IN  /\ Puts(w, x, b) /\ (Live(w) => Reg(x, b) = id)
             /\ Has(w, val) => x.io = [op |-> "alloc", size |-> val[c]]
<1> DEFINE x == co_alloc(w, b, c, id, junk)
<1>1. Spare(w)
  BY Names DEF Spare
<1>2. CASE c \in w.cset /\ w.con[c] <= MaxInline
  <2> DEFINE g == ra_mgetvd(w, b)
             s == SetReg(g, b, id)
             m == Victim(s)
             e == ra_mget(s)
             z == SetM(e, m, 0)
             io == [op |-> "alloc", size |-> w.con[c]]
             y == Do(z, io)
  <2>1. x = y
    BY <1>2 DEF co_alloc
  <2> HIDE DEF x, io
  <2>2. Got(w, g, b) /\ OthersSound(w, g, b) /\ b \notin g.mset
    BY <1>1, MgetvdIs
  <2> HIDE DEF g
  <2>3. Puts(w, g, b) /\ Busy(g) \subseteq {g.vtom[b]} /\ Pinned(g, b)
    BY <2>2 DEF Got, Keeps, Puts, Same, Still, Pinned
  <2>4. /\ Puts(w, s, b) /\ (Live(w) => Reg(s, b) = id)
        /\ Busy(s) = Busy(g) /\ s.vtom = g.vtom
    BY <2>3, PutIs
  <2> HIDE DEF s
  <2>5. Tables(s) /\ Spare(s) /\ s.vtom[b] \in Busy(s)
    BY <2>3, <2>4, SpareOne DEF Puts, Same, Pinned
  <2>6. /\ m \in MRegs \ Busy(s)
        /\ Cleared(s, e, {}, m) /\ e.ok = s.ok /\ e.mtov[m] = Free
    BY <2>5, MgetIs
  <2> HIDE DEF m, e
  <2>7. /\ Tables(e) /\ Keeps(s, e) /\ Sound(s, e) /\ e.m = s.m /\ e.vtom = s.vtom
        /\ b \in e.rset /\ s.vtom[b] # m /\ b \notin e.mset
    <3>1. b \in s.rset /\ b \notin s.mset /\ s.vtom[b] # m
      BY <2>4, <2>5, <2>6 DEF Puts
    <3>2. s.mtov[m] # b
      BY <2>5, <2>6, <3>1 DEF Tables, Loose, Mirrored, Typed
    <3>. QED
      BY <2>6, <3>1, <3>2 DEF Cleared, Tables
  <2>8. \A k \in MRegs : e.mtov[k] = Held <=> s.mtov[k] = Held
    BY <2>6, Names DEF Cleared, Busy
  <2>9. /\ Tables(z) /\ Keeps(e, z) /\ Sound(e, z) /\ z.ok = e.ok /\ z.rset = e.rset
        /\ z.vtom = e.vtom /\ z.mset = e.mset /\ z.mtov = e.mtov
        /\ \A k \in MRegs : k # m => z.m[k] = e.m[k]
    <3>1. e.mtov[m] \notin VRegs /\ 0 \in Word
      BY <2>6, Names, ModulusType
    <3>. QED
      BY <2>6, <2>7, <3>1, SetFreeIs
  <2> HIDE DEF z
  <2>10. Puts(w, z, b)
    <3>1. Same(w, z) /\ Still(w, z) /\ z.at = w.at
      BY <2>4, <2>6, <2>7, <2>8, <2>9 DEF Puts, Same, Still, Keeps
    <3>2. OthersSound(w, z, b)
      <4>1. (Live(s) <=> Live(w)) /\ (Live(e) <=> Live(w))
        BY <2>4, <2>7 DEF Puts, Same, Keeps, Live
      <4>. QED
        BY <2>4, <2>7, <2>9, <4>1 DEF Puts, OthersSound, Sound
    <3>. QED
      BY <2>7, <2>9, <3>1, <3>2 DEF Puts
  <2>11. Reg(z, b) = Reg(s, b)
    <3>1. s.vtom[b] \in MRegs
      BY <2>5 DEF Busy
    <3>. QED
      BY <2>7, <2>9, <3>1 DEF Reg
  <2>12. Puts(w, y, b) /\ (Live(w) => y.io = io) /\ Reg(y, b) = Reg(z, b)
    BY <2>10, PutsDoIs
  <2>13. Has(w, val) => io = [op |-> "alloc", size |-> val[c]]
    BY <1>2 DEF Has, Holds, io
  <2>14. Has(w, val) => Live(w)
    BY DEF Has
  <2>. QED
    BY <2>1, <2>4, <2>11, <2>12, <2>13, <2>14 DEF x
<1>3. CASE ~(c \in w.cset /\ w.con[c] <= MaxInline)
  <2> DEFINE g == ra_mgetv(w, c)
             s == co__cclear(g)
             r == SetM(Clobber(ra_mchange(s, "EAX", b), junk), "EAX", id)
             io == [op |-> "alloc", size |-> Reg(g, c)]
             y == Do(r, io)
  <2>1. x = y
    BY <1>3 DEF co_alloc
  <2> HIDE DEF x
  <2>2. Reads(w, g) /\ c \in g.rset /\ Tables(g)
    BY <1>1, GetIs DEF Reads, Same
  <2> HIDE DEF g
  <2>3. Reads(g, s) /\ Saved(s)
    BY <2>2, SaveIs
  <2> HIDE DEF s
  <2>4. Reads(w, s)
    BY <2>2, <2>3, ReadsMore
  <2>5. Tables(s) /\ s.mtov["EAX"] # Held /\ (Live(w) <=> Live(s))
    BY <2>4, NoneHeld, Names DEF Reads, Same, Live
  <2>6. Puts(s, r, b) /\ (Live(s) => Reg(r, b) = id)
    BY <2>3, <2>5, ResultIs
  <2> HIDE DEF r
  <2>7. Puts(w, r, b)
    BY <2>4, <2>6, PutsMore
  <2> HIDE DEF io
  <2>8. Puts(w, y, b) /\ (Live(w) => y.io = io) /\ Reg(y, b) = Reg(r, b)
    BY <2>7, PutsDoIs
  <2>9. Has(w, val) => io = [op |-> "alloc", size |-> val[c]] /\ Live(w)
    <3>1. ASSUME Has(w, val) PROVE Reg(g, c) = val[c] /\ Live(w)
      <4>1. Has(g, val)
        BY <2>2, <3>1, HasReads
      <4>2. Reg(g, c) = val[c]
        BY <2>2, <4>1, HasReg
      <4>. QED
        BY <3>1, <4>2 DEF Has
    <3>. QED
      BY <3>1 DEF io
  <2>. QED
    BY <2>1, <2>5, <2>6, <2>8, <2>9 DEF x
<1>. QED
  BY <1>2, <1>3

-----------------------------------------------------------------------------
(* Division *)

\* co_div: the quotient, with EAX and EDX freed for it and the divisor in neither.
LEMMA DivIs ==
  ASSUME NEW w, Tables(w), Busy(w) = {}, w.c = "inl", NEW a \in VRegs, NEW b \in VRegs,
         NEW c \in VRegs, b # c, NEW val
  PROVE  LET x == co_div(w, a, b, c)
         IN  /\ Same(w, x) /\ Still(w, x) /\ x.io = w.io /\ a \in x.rset /\ a \notin x.mset
             /\ x.at \in {w.at, "trapped"}
             /\ Has(w, val) /\ val[c] # 0 => Puts(w, x, a) /\ Reg(x, a) = Div(val[b], val[c])
<1> DEFINE g  == ra_mgetv(ra_mhold(ra_ldvm(w, b, "EAX"), "EDX"), c)
           mc == g.vtom[c]
           t  == [g EXCEPT !.ok = @ /\ mc \notin {"EAX", "EDX"}]
           d  == Divide(t, a, mc)
           x  == ra_mrelse(d, "EDX")
<1>1. co_div(w, a, b, c) = x
  BY DEF co_div
<1>2. /\ Tables(g) /\ Keeps(w, g) /\ Sound(w, g) /\ g.ok = w.ok
      /\ b \in g.rset /\ g.vtom[b] = "EAX" /\ g.mtov["EAX"] = b
      /\ c \in g.rset /\ mc \in MRegs \ {"EAX", "EDX"}
      /\ \A k \in MRegs : g.mtov[k] = Held <=> k = "EDX"
  BY DivOperands
<1> HIDE DEF g
<1>3. AsWas(g, t) /\ t.c = g.c /\ t.at = g.at /\ t.io = g.io /\ t.facts = g.facts
  <2>1. DOMAIN g = Fields /\ g.ok \in BOOLEAN
    BY <1>2 DEF Tables, Loose, Typed
  <2>2. (g.ok /\ mc \notin {"EAX", "EDX"}) = g.ok
    BY <1>2, <2>1
  <2>3. t.ok = g.ok
    BY <2>1, <2>2 DEF Fields
  <2> HIDE DEF mc
  <2>. QED
    BY <2>1, <2>3 DEF AsWas, Fields
<1>4. mc = t.vtom[c]
  BY <1>3 DEF AsWas
<1> HIDE DEF t
<1>5. Tables(t) /\ \A u, y : Holds(t, u, y) <=> Holds(g, u, y)
  BY <1>2, <1>3, AsWasTables
<1>6. t.c = "inl" /\ b \in t.rset /\ c \in t.rset /\ t.vtom[b] = "EAX" /\ t.mtov["EAX"] = b
      /\ t.vtom[c] \in MRegs \ {"EAX", "EDX"} /\ t.mtov["EDX"] = Held
  BY <1>2, <1>3, <1>4, Names DEF AsWas, Keeps
<1>7. d = Divide(t, a, t.vtom[c])
  BY <1>4
<1> HIDE DEF mc, d
<1>8. /\ Same(t, d) /\ Still(t, d) /\ d.io = t.io
      /\ a \in d.rset /\ a \notin d.mset
      /\ d.at = IF Live(t) /\ Reg(t, c) = 0 THEN "trapped" ELSE t.at
      /\ Live(t) /\ Reg(t, c) # 0 =>
           OthersSound(t, d, a) /\ Reg(d, a) = Div(Reg(t, b), Reg(t, c))
  BY <1>5, <1>6, <1>7, DivideIs
<1>9. Tables(d) /\ d.mtov["EDX"] = Held
  BY <1>6, <1>8, Names DEF Same
<1>10. /\ Tables(x) /\ Keeps(d, x) /\ x.ok = d.ok
       /\ x.m = d.m /\ x.vtom = d.vtom /\ x.rset = d.rset /\ x.mset = d.mset
       /\ x.gpr = d.gpr
       /\ x.mtov["EDX"] = Free /\ \A k \in MRegs \ {"EDX"} : x.mtov[k] = d.mtov[k]
  BY <1>9, Names, MrelseIs
<1> HIDE DEF x
<1>11. \A k \in MRegs : x.mtov[k] = Held <=> w.mtov[k] = Held
  <2>1. \A k \in MRegs : w.mtov[k] # Held
    BY NoneHeld
  <2>2. \A k \in MRegs : d.mtov[k] = Held <=> k = "EDX"
    BY <1>2, <1>3, <1>8 DEF Same, AsWas
  <2>. QED
    BY <1>10, <2>1, <2>2, Names
<1>12. Same(w, x) /\ Still(w, x) /\ x.io = w.io
  <2>1. x.ok = w.ok /\ x.time = w.time /\ x.c = w.c /\ x.facts = w.facts
    BY <1>2, <1>3, <1>8, <1>10 DEF AsWas, Keeps, Same
  <2>2. Still(w, x) /\ x.io = w.io
    BY <1>2, <1>3, <1>8, <1>10 DEF AsWas, Keeps, Still
  <2>. QED
    BY <1>10, <1>11, <2>1, <2>2 DEF Same
<1>13. a \in x.rset /\ a \notin x.mset /\ x.at \in {w.at, "trapped"}
  BY <1>2, <1>3, <1>8, <1>10 DEF Keeps
<1>14. ASSUME Has(w, val), val[c] # 0
       PROVE  Puts(w, x, a) /\ Reg(x, a) = Div(val[b], val[c])
  <2>1. Live(w) /\ Live(g) /\ Live(t)
    BY <1>2, <1>3, <1>14 DEF Has, Live, Keeps
  <2>2. \A u \in VRegs : Holds(t, u, val[u])
    BY <1>2, <1>5, <1>14 DEF Has, Sound
  <2>3. Reg(t, b) = val[b] /\ Reg(t, c) = val[c]
    BY <1>6, <2>2 DEF Holds
  <2>4. OthersSound(t, d, a) /\ Reg(d, a) = Div(val[b], val[c]) /\ d.at = t.at
    BY <1>8, <1>14, <2>1, <2>3
  <2>5. \A u, y : Holds(d, u, y) <=> Holds(x, u, y)
    BY <1>10 DEF Holds, Reg, Keeps
  <2>6. OthersSound(w, x, a)
    BY <1>2, <1>5, <2>1, <2>4, <2>5 DEF Sound, OthersSound
  <2>7. Reg(x, a) = Reg(d, a)
    BY <1>10 DEF Reg
  <2>8. x.at = w.at
    BY <1>2, <1>3, <1>10, <2>4 DEF Keeps
  <2>. QED
    BY <1>12, <1>13, <2>4, <2>6, <2>7, <2>8 DEF Puts
<1>. QED
  BY <1>1, <1>12, <1>13, <1>14

-----------------------------------------------------------------------------
(* Abandonment *)

\* The mreg that is held was not in use, and the rest stays as it was.
LEMMA HoldSomeIs ==
  ASSUME NEW w, Tables(w), Spare(w)
  PROVE  LET m == Victim(w)
             x == HoldSome(w)
         IN  /\ Tables(x) /\ Keeps(w, x) /\ x.ok = w.ok
             /\ m \in MRegs \ Busy(w) /\ x.mtov[m] = Held
             /\ \A k \in MRegs \ {m} : x.mtov[k] = w.mtov[k]
             /\ \A u : Pinned(w, u) => Pinned(x, u) /\ x.vtom[u] = w.vtom[u]
             /\ Busy(x) \subseteq Busy(w) \cup {m}
<1> DEFINE m == Victim(w)
           g == ra_mget(w)
           x == ra_mhold(g, m)
<1>1. HoldSome(w) = x
  BY DEF HoldSome
<1>2. m \in MRegs \ Busy(w) /\ Cleared(w, g, {}, m) /\ g.ok = w.ok /\ g.mtov[m] = Free
  BY MgetIs
<1> HIDE DEF g, m
<1>3. Tables(g)
  BY <1>2 DEF Cleared, Tables
<1>4. Cleared(g, x, {}, m) /\ x.ok = g.ok /\ x.mtov[m] = Held
  BY <1>2, <1>3, MholdIs
<1> HIDE DEF x
<1>5. Tables(x) /\ Keeps(w, x) /\ x.ok = w.ok
  BY <1>2, <1>4 DEF Cleared, Tables, Keeps
<1>6. x.vtom = w.vtom /\ x.mlru = w.mlru
      /\ \A k \in MRegs \ {m} : x.mtov[k] = w.mtov[k]
  BY <1>2, <1>4 DEF Cleared
<1>7. Busy(x) \subseteq Busy(w) \cup {m}
  BY <1>5, <1>6 DEF Busy, Keeps
<1>8. ASSUME NEW u, Pinned(w, u) PROVE Pinned(x, u)
  <2>1. w.vtom[u] # m /\ u \in w.rset
    BY <1>2, <1>8 DEF Pinned
  <2>2. u \in x.rset
    BY <1>2, <1>4, <2>1 DEF Cleared
  <2>3. w.vtom[u] \in Busy(x)
    BY <1>5, <1>6, <1>8, <2>1 DEF Pinned, Busy, Keeps
  <2>. QED
    BY <1>6, <2>2, <2>3 DEF Pinned
<1>. QED
  BY <1>1, <1>2, <1>4, <1>5, <1>6, <1>7, <1>8 DEF m

\* What is known of the tables: the mreg of c is changed under it.
LEMMA FreeIs ==
  ASSUME NEW w, Tables(w), Busy(w) = {}, NEW c \in VRegs, NEW junk \in Word
  PROVE  LET x == co_free(w, c, junk)
         IN  Same(w, x) /\ Still(w, x) /\ x.at = w.at /\ c \in x.rset
<1> DEFINE g  == ra_mgetv(w, c)
           p  == Victim(g)
           h  == HoldSome(g)
           q  == Victim(h)
           hh == HoldSome(h)
           r  == SetReg(hh, c, junk)
           s  == SetM(r, p, junk)
           t  == SetM(s, q, junk)
           io == [op |-> "free", array |-> Reg(g, c)]
           y  == Do(t, io)
           z  == ra_mrelse(y, q)
           x  == ra_mrelse(z, p)
<1>1. co_free(w, c, junk) = x
  BY DEF co_free
<1>2. Reads(w, g) /\ Tables(g) /\ Pinned(g, c) /\ Busy(g) \subseteq {g.vtom[c]}
  <2>1. Spare(w)
    BY Names DEF Spare
  <2>. QED
    BY <2>1, GetIs DEF Reads, Same
<1> HIDE DEF g
<1>3. /\ Tables(h) /\ Keeps(g, h) /\ h.ok = g.ok
      /\ p \in MRegs \ Busy(g) /\ h.mtov[p] = Held
      /\ \A k \in MRegs \ {p} : h.mtov[k] = g.mtov[k]
      /\ Pinned(h, c) /\ h.vtom[c] = g.vtom[c]
      /\ Busy(h) \subseteq Busy(g) \cup {p}
  BY <1>2, SpareOne, HoldSomeIs
<1> HIDE DEF h, p
<1>4. /\ Tables(hh) /\ Keeps(h, hh) /\ hh.ok = h.ok
      /\ q \in MRegs \ Busy(h) /\ hh.mtov[q] = Held
      /\ \A k \in MRegs \ {q} : hh.mtov[k] = h.mtov[k]
      /\ Pinned(hh, c)
  <2>1. Busy(h) \subseteq {g.vtom[c], p}
    BY <1>2, <1>3
  <2>. QED
    BY <1>3, <2>1, SpareBut, HoldSomeIs
<1> HIDE DEF hh, q
<1>5. p # q /\ hh.mtov[p] = Held
  BY <1>3, <1>4, Names DEF Busy
<1>6. Tables(r) /\ Keeps(hh, r) /\ r.ok = hh.ok /\ r.mtov = hh.mtov /\ r.rset = hh.rset
  BY <1>4, SetRegIs DEF Pinned
<1> HIDE DEF r
<1>7. Tables(s) /\ Keeps(r, s) /\ s.ok = r.ok /\ s.mtov = r.mtov /\ s.rset = r.rset
  BY <1>3, <1>4, <1>5, <1>6, Names, SetFreeIs
<1> HIDE DEF s
<1>8. Tables(t) /\ Keeps(s, t) /\ t.ok = s.ok /\ t.mtov = s.mtov /\ t.rset = s.rset
  BY <1>4, <1>5, <1>6, <1>7, Names, SetFreeIs
<1> HIDE DEF t, io
<1>9. Acts(t, y) /\ y.rset = t.rset
  BY <1>8, DoIs
<1>10. y.mtov = t.mtov
  BY <1>8 DEF Do
<1> HIDE DEF y
<1>11. Tables(y) /\ y.mtov[q] = Held /\ y.mtov[p] = Held
  BY <1>4, <1>5, <1>6, <1>7, <1>8, <1>9, <1>10 DEF Acts, Same
<1>12. /\ Tables(z) /\ Keeps(y, z) /\ z.ok = y.ok /\ z.rset = y.rset
       /\ z.mtov[q] = Free /\ \A k \in MRegs \ {q} : z.mtov[k] = y.mtov[k]
  BY <1>4, <1>11, MrelseIs
<1> HIDE DEF z
<1>13. z.mtov[p] = Held
  BY <1>3, <1>5, <1>11, <1>12
<1>14. /\ Tables(x) /\ Keeps(z, x) /\ x.ok = z.ok /\ x.rset = z.rset
       /\ x.mtov[p] = Free /\ \A k \in MRegs \ {p} : x.mtov[k] = z.mtov[k]
  BY <1>3, <1>12, <1>13, MrelseIs
<1> HIDE DEF x
<1>15. \A k \in MRegs : x.mtov[k] = Held <=> w.mtov[k] = Held
  <2>1. \A k \in MRegs : w.mtov[k] # Held
    BY NoneHeld
  <2>2. \A k \in MRegs : g.mtov[k] # Held
    BY <1>2, <2>1 DEF Reads, Same
  <2>3. \A k \in MRegs \ {p, q} : y.mtov[k] # Held
    BY <1>3, <1>4, <1>6, <1>7, <1>8, <1>10, <2>2
  <2>4. \A k \in MRegs \ {p, q} : x.mtov[k] # Held
    BY <1>12, <1>14, <2>3
  <2>5. x.mtov[p] # Held /\ x.mtov[q] # Held
    BY <1>4, <1>5, <1>12, <1>14, Names
  <2>. QED
    BY <2>1, <2>4, <2>5
<1>16. Keeps(hh, t) /\ t.ok = hh.ok /\ t.rset = hh.rset
  BY <1>6, <1>7, <1>8 DEF Keeps
<1>17. Keeps(g, t) /\ t.ok = g.ok /\ c \in t.rset
  BY <1>3, <1>4, <1>16 DEF Keeps, Pinned
<1>18. x.ok = w.ok /\ x.time = w.time /\ x.c = w.c /\ x.facts = w.facts /\ x.at = w.at
  BY <1>2, <1>9, <1>12, <1>14, <1>17 DEF Keeps, Reads, Acts, Same
<1>19. Still(w, x) /\ c \in x.rset
  BY <1>2, <1>9, <1>12, <1>14, <1>17 DEF Keeps, Reads, Acts, Still
<1>. QED
  BY <1>1, <1>14, <1>15, <1>18, <1>19 DEF Same

-----------------------------------------------------------------------------
(* What the compiler knows, and the platters that stay in the block *)

Told(f, val) == (\A v \in f.z : val[v] = 0) /\ (\A v \in f.nz : val[v] # 0)

\* The vregs have the values val, and what the compiler knows of them is true.
Knows(w, val) == Has(w, val) /\ Told([z |-> w.z, nz |-> w.nz], val)

\* The result of an access to an array, which replaces what was known of vreg v.
LEMMA LostKnows ==
  ASSUME NEW w, NEW x, NEW a \in VRegs, Lost(w, x, a), NEW val, Knows(w, val), NEW d,
         Has(x, [val EXCEPT ![a] = d])
  PROVE  Knows(x, [val EXCEPT ![a] = d])
<1>1. x.z = w.z \ {a} /\ x.nz = w.nz \ {a} /\ val \in [VRegs -> Word]
  BY DEF Lost, Knows, Has
<1>2. x.z \subseteq VRegs /\ x.nz \subseteq VRegs
  BY DEF Lost, Same, Tables, Loose, Typed
<1>. QED
  BY <1>1, <1>2 DEF Knows, Told

\* A vreg that was written is marked dirty.
LEMMA DirtyIs ==
  ASSUME NEW w, NEW x, NEW a, Puts(w, x, a)
  PROVE  LET y == ra_vdirty(x, a)
         IN  Puts(w, y, a) /\ y.io = x.io /\ Reg(y, a) = Reg(x, a)
<1> DEFINE y == ra_vdirty(x, a)
<1>1. Tables(x) /\ Loose(x, {}) /\ a \in x.rset \cup x.cset \cup {}
  BY DEF Puts, Same, Tables
<1>2. /\ Loose(y, {}) /\ Keeps(x, y) /\ Sound(x, y)
      /\ y.m = x.m /\ y.vtom = x.vtom /\ y.rset = x.rset /\ y.mtov = x.mtov
      /\ y.gpr = x.gpr /\ y.mset = x.mset \ {a} /\ y.mlru = x.mlru /\ y.ok = x.ok
  BY <1>1, VdirtyIs
<1> HIDE DEF y
<1>3. Same(w, y) /\ Still(w, y) /\ y.at = w.at
  BY <1>2 DEF Puts, Same, Still, Keeps, Tables
<1>4. OthersSound(w, y, a)
  BY <1>2 DEF Puts, Same, OthersSound, Sound, Live
<1>. QED
  BY <1>2, <1>3, <1>4 DEF Puts, Keeps, Reg, y

\* Array index, of an array known to be 0 or known not to be.
LEMMA IndexIs ==
  ASSUME NEW w, Tables(w), Busy(w) = {}, NEW a \in VRegs, NEW b \in w.z \cup w.nz, NEW c \in VRegs,
         NEW v \in Word, NEW val
  PROVE  LET x == noncon(co_index(w, a, b, c, v), a)
         IN  /\ Same(w, x) /\ x.at = w.at
             /\ Knows(w, val) => /\ Knows(x, [val EXCEPT ![a] = v])
                                 /\ x.io = [op |-> "index", array |-> val[b], at |-> val[c]]
<1> DEFINE y == co__ldst(w, b, c, a, TRUE, v)
           u == ra_vdirty(y, a)
           x == noncon(u, a)
<1>1. noncon(co_index(w, a, b, c, v), a) = x
  BY DEF co_index
<1>2. Puts(w, y, a) /\ (Live(w) => Reg(y, a) = v)
  <2>1. PICK o : o = [k \in VRegs |-> 0]
    OBVIOUS
  <2>2. b \in w.z => o[b] = 0
    BY <2>1 DEF Tables, Loose, Typed
  <2>3. TRUE \in BOOLEAN
    OBVIOUS
  <2>4. Accessed(w, y, a, TRUE, v)
    BY <2>2, <2>3, LdstKnownIs
  <2> HIDE DEF y
  <2>. QED
    BY <2>4 DEF Accessed
<1>3. Knows(w, val) => y.io = [op |-> "index", array |-> val[b], at |-> val[c]]
  <2>1. SUFFICES ASSUME Knows(w, val) PROVE y.io = Asks(TRUE, val[b], val[c], val[a])
    BY DEF Asks
  <2>2. (b \in w.z => val[b] = 0) /\ Has(w, val)
    BY <2>1 DEF Knows, Told
  <2> DEFINE load == TRUE
             z == co__ldst(w, b, c, a, load, v)
  <2>3. load \in BOOLEAN
    OBVIOUS
  <2> HIDE DEF load
  <2>4. Has(w, val) => z.io = Asks(load, val[b], val[c], val[a])
    BY <2>2, <2>3, LdstKnownIs
  <2>. QED
    BY <2>2, <2>4 DEF load
<1> HIDE DEF y
<1>4. Puts(w, u, a) /\ u.io = y.io /\ Reg(u, a) = Reg(y, a)
  BY <1>2, DirtyIs
<1> HIDE DEF u
<1>5. Has(w, val) => Reg(u, a) = v
  BY <1>2, <1>4 DEF Has
<1>6. /\ Lost(w, x, a) /\ x.io = u.io
      /\ Has(w, val) => Has(x, [val EXCEPT ![a] = v])
  BY <1>4, <1>5, LoseIs
<1> HIDE DEF x
<1>7. Knows(w, val) => Knows(x, [val EXCEPT ![a] = v])
  BY <1>6, LostKnows DEF Knows
<1>. QED
  BY <1>1, <1>3, <1>4, <1>6, <1>7 DEF Lost

\* Of any array: what is known of the tables.
LEMMA IndexAnyIs ==
  ASSUME NEW w, Tables(w), Busy(w) = {}, w.c = "inl", NEW a \in VRegs,
         NEW b \in VRegs \ (w.z \cup w.nz), NEW c \in VRegs, NEW v \in Word
  PROVE  LET x == noncon(co_index(w, a, b, c, v), a)
         IN  Same(w, x) /\ x.at \in {w.at, "inl", "outl"}
<1> DEFINE y == co__ldst(w, b, c, a, TRUE, v)
           u == ra_vdirty(y, a)
           x == noncon(u, a)
<1>1. noncon(co_index(w, a, b, c, v), a) = x
  BY DEF co_index
<1>2. Same(w, y) /\ y.at \in {w.at, "inl", "outl"} /\ a \in y.rset
  BY LdstAnyIs
<1> HIDE DEF y
<1>3. /\ Loose(u, {}) /\ Keeps(y, u) /\ u.rset = y.rset /\ u.mtov = y.mtov /\ u.ok = y.ok
  BY <1>2, VdirtyIs DEF Same, Tables
<1> HIDE DEF u
<1>4. Tables(u) /\ a \in u.rset \cup u.mset
  BY <1>2, <1>3 DEF Tables
<1>5. /\ Tables(x) /\ x.mtov = u.mtov /\ x.time = u.time /\ x.c = u.c
      /\ x.at = u.at /\ x.ok = u.ok /\ x.facts = u.facts
  BY <1>4, NonconIs
<1> HIDE DEF x
<1>. QED
  BY <1>1, <1>2, <1>3, <1>5 DEF Same, Keeps

-----------------------------------------------------------------------------
(* What compiling a platter leads to *)

Places == {"inl", "outl", "gone", "halted", "lost", "trapped"}

\* Between platters.
Ready(w) == Tables(w) /\ Busy(w) = {} /\ w.c = "inl" /\ w.at \in {"inl", "outl"}

\* Whatever the values, the compiler is as sound after as it was before.
Fits(w, x) ==
  /\ Tables(x) /\ x.ok = w.ok /\ x.time = w.time /\ x.c = w.c
  /\ \A k \in MRegs : x.mtov[k] = Held <=> w.mtov[k] = Held
  /\ x.at \in Places
  /\ x.facts = w.facts \/ x.facts \in FactsType

\* The vregs have the values val: in the block, where it goes on, and in memory
\* when control has left it.
Passed(x, val) ==
  /\ val \in [VRegs -> Word]
  /\ \/ x.at = "inl" /\ Knows(x, val)
     \/ x.at = "gone" /\ x.gpr = val /\ Told(x.facts, val)
     \/ x.at = "halted" /\ x.gpr = val

\* A platter that stays in the block.
Leads(w, x, val, new) == Same(w, x) /\ x.at = w.at /\ (Knows(w, val) => Knows(x, new))

\* Between platters, what is known is what has passed.
LEMMA KnowsInl ==
  ASSUME NEW w, NEW val, w.c = "inl", Knows(w, val)
  PROVE  Passed(w, val) /\ w.at = "inl"
BY DEF Knows, Has, Live, Passed

\* What changes no table fits.
LEMMA SameFits ==
  ASSUME NEW w, NEW x, Ready(w), Same(w, x), x.at \in Places
  PROVE  Fits(w, x)
BY DEF Same, Fits

\* A platter that leads from values to values fits, and they have passed.
LEMMA LeadsIs ==
  ASSUME NEW w, Ready(w), NEW x, NEW val, NEW new, Leads(w, x, val, new)
  PROVE  Fits(w, x) /\ (Knows(w, val) => Passed(x, new))
<1>1. Same(w, x) /\ x.at \in Places /\ x.c = "inl"
  BY DEF Leads, Ready, Places, Same
<1>2. Fits(w, x)
  BY <1>1, SameFits
<1>3. Knows(w, val) => Passed(x, new)
  BY <1>1, KnowsInl DEF Leads
<1>. QED
  BY <1>2, <1>3

\* A platter that writes one vreg and forgets what was known of it.
LEMMA LostLeads ==
  ASSUME NEW w, NEW x, NEW a \in VRegs, Lost(w, x, a), NEW val, NEW d,
         Has(w, val) => Has(x, [val EXCEPT ![a] = d])
  PROVE  Leads(w, x, val, [val EXCEPT ![a] = d])
<1>1. Knows(w, val) => Knows(x, [val EXCEPT ![a] = d])
  BY LostKnows DEF Knows
<1>. QED
  BY <1>1 DEF Leads, Lost

\* A platter that writes one vreg, which noncon then forgets.
LEMMA PutsLeads ==
  ASSUME NEW w, NEW x, NEW a \in VRegs, Puts(w, x, a), NEW val, NEW d,
         Knows(w, val) => Reg(x, a) = d
  PROVE  LET y == noncon(x, a)
         IN  /\ Leads(w, y, val, [val EXCEPT ![a] = d]) /\ y.io = x.io
             /\ a \in y.rset /\ a \notin y.mset
<1> DEFINE y == noncon(x, a)
<1>1. Has(w, val) => Reg(x, a) = Reg(x, a)
  OBVIOUS
<1>2. /\ Lost(w, y, a) /\ y.io = x.io /\ a \in y.rset /\ a \notin y.mset
      /\ Has(w, val) => Has(y, [val EXCEPT ![a] = Reg(x, a)])
  BY <1>1, LoseIs
<1> HIDE DEF y
<1>3. Knows(w, val) => Knows(y, [val EXCEPT ![a] = d])
  <2>1. SUFFICES ASSUME Knows(w, val) PROVE Knows(y, [val EXCEPT ![a] = d])
    OBVIOUS
  <2>2. Has(y, [val EXCEPT ![a] = d])
    BY <1>2, <2>1 DEF Knows
  <2>. QED
    BY <1>2, <2>1, <2>2, LostKnows
<1>. QED
  BY <1>2, <1>3 DEF Leads, Lost, y

\* A platter that writes none.
LEMMA ActsLeads ==
  ASSUME NEW w, NEW x, Acts(w, x), NEW val
  PROVE  Leads(w, x, val, val)
<1>1. Has(w, val) => Has(x, val)
  BY HasActs
<1>2. x.z = w.z /\ x.nz = w.nz
  BY DEF Acts, Still
<1>. QED
  BY <1>1, <1>2 DEF Acts, Leads, Knows

\* A platter that makes a vreg a constant.
LEMMA OrthoLeads ==
  ASSUME NEW w, Tables(w), NEW v \in VRegs, NEW d \in Word, NEW val
  PROVE  LET x == co_ortho(w, v, d)
         IN  Leads(w, x, val, [val EXCEPT ![v] = d]) /\ x.io = w.io
<1> DEFINE x == co_ortho(w, v, d)
<1>1. /\ Same(w, x) /\ x.at = w.at /\ x.io = w.io
      /\ x.z  = (IF d = 0 THEN w.z \cup {v} ELSE w.z \ {v})
      /\ x.nz = (IF d = 0 THEN w.nz \ {v} ELSE w.nz \cup {v})
      /\ Has(w, val) => Has(x, [val EXCEPT ![v] = d])
  BY OrthoDone
<1> HIDE DEF x
<1>2. x.z \subseteq VRegs /\ x.nz \subseteq VRegs
  BY <1>1 DEF Same, Tables, Loose, Typed
<1>3. Knows(w, val) => Told([z |-> x.z, nz |-> x.nz], [val EXCEPT ![v] = d])
  BY <1>1, <1>2 DEF Knows, Has, Told
<1>. QED
  BY <1>1, <1>3 DEF Leads, Knows, x

\* A platter that moves one vreg to another.
LEMMA MovLeads ==
  ASSUME NEW w, Tables(w), Busy(w) = {}, NEW a \in VRegs, NEW b \in VRegs, NEW val
  PROVE  LET x == co_mov(w, a, b)
         IN  /\ Leads(w, x, val, [val EXCEPT ![a] = val[b]]) /\ x.io = w.io
             /\ a \in x.rset
<1> DEFINE x == co_mov(w, a, b)
<1>1. /\ Same(w, x) /\ x.at = w.at /\ x.io = w.io /\ a \in x.rset
      /\ x.z = w.z \ {a}
      /\ x.nz = IF b \in w.nz /\ b # a THEN w.nz \cup {a} ELSE w.nz \ {a}
      /\ Has(w, val) => Has(x, [val EXCEPT ![a] = val[b]])
  BY MovIs
<1> HIDE DEF x
<1>2. x.z \subseteq VRegs /\ x.nz \subseteq VRegs
  BY <1>1 DEF Same, Tables, Loose, Typed
<1>3. Knows(w, val) => Told([z |-> x.z, nz |-> x.nz], [val EXCEPT ![a] = val[b]])
  BY <1>1, <1>2 DEF Knows, Has, Told
<1>. QED
  BY <1>1, <1>3 DEF Leads, Knows, x

\* A platter that leaves a vreg known to be nonzero.
LEMMA SetnzLeads ==
  ASSUME NEW w, NEW x, NEW v \in x.rset, NEW val, NEW new, Leads(w, x, val, new),
         Knows(w, val) => new[v] # 0
  PROVE  LET y == setnz(x, v)
         IN  Leads(w, y, val, new) /\ y.io = x.io
<1> DEFINE y == setnz(x, v)
<1>1. Tables(x)
  BY DEF Leads, Same
<1>2. /\ Same(x, y) /\ y.at = x.at /\ y.io = x.io
      /\ y.z = x.z \ {v} /\ y.nz = x.nz \cup {v}
      /\ Has(x, new) => Has(y, new)
  BY <1>1, SetnzIs
<1> HIDE DEF y
<1>3. Same(w, y) /\ y.at = w.at
  BY <1>2 DEF Leads, Same
<1>4. Knows(w, val) => Knows(y, new)
  BY <1>2 DEF Leads, Knows, Told
<1>. QED
  BY <1>2, <1>3, <1>4 DEF Leads, y

-----------------------------------------------------------------------------
(* Moves and arithmetic: the state w is that of the compiler at the platter *)

\* Before a platter the tables are right and there is an mreg to spare.
LEMMA ReadyTables ==
  ASSUME NEW w, Ready(w)
  PROVE  /\ Tables(w) /\ Busy(w) = {} /\ w.c = "inl" /\ w.at # "over" /\ Spare(w)
         /\ w.cset \subseteq VRegs /\ w.con \in [VRegs -> Word]
BY Names DEF Ready, Spare, Tables, Loose, Typed

\* A conditional move whose condition is known.
LEMMA KnownMoveIs ==
  ASSUME NEW w, Ready(w), NEW a \in VRegs, NEW b \in VRegs, NEW c \in VRegs, NEW val,
         a = b \/ c \in w.z \cup w.nz
  PROVE  LET x == IF a = b \/ c \in w.z THEN w
                  ELSE IF b \in w.cset THEN co_ortho(w, a, w.con[b]) ELSE co_mov(w, a, b)
         IN  /\ x.io = w.io
             /\ Leads(w, x, val, [val EXCEPT ![a] = IF val[c] # 0 THEN val[b] ELSE val[a]])
<1> DEFINE d == IF val[c] # 0 THEN val[b] ELSE val[a]
<1>1. Tables(w) /\ Busy(w) = {}
  BY ReadyTables
<1>2. CASE a = b \/ c \in w.z
  <2>1. Acts(w, w)
    BY <1>1 DEF Acts, Same, Still, Sound
  <2>2. Knows(w, val) => d = val[a] /\ val \in [VRegs -> Word]
    BY <1>2 DEF Knows, Has, Told
  <2>3. Knows(w, val) => [val EXCEPT ![a] = d] = val
    BY <2>2
  <2>4. Leads(w, w, val, [val EXCEPT ![a] = d])
    BY <2>1, <2>3 DEF Leads, Acts
  <2>. QED
    BY <1>2, <2>4
<1>3. CASE ~(a = b \/ c \in w.z)
  <2>1. Knows(w, val) => d = val[b]
    BY <1>3 DEF Knows, Told
  <2>2. CASE b \in w.cset
    <3> DEFINE k == w.con[b]
               x == co_ortho(w, a, k)
    <3>1. k \in Word /\ (Knows(w, val) => k = val[b])
      BY <1>1, <2>2 DEF Tables, Loose, Typed, Knows, Has, Holds
    <3> HIDE DEF k
    <3>2. Leads(w, x, val, [val EXCEPT ![a] = k]) /\ x.io = w.io
      BY <1>1, <3>1, OrthoLeads
    <3> HIDE DEF x
    <3>3. Leads(w, x, val, [val EXCEPT ![a] = d])
      BY <2>1, <3>1, <3>2 DEF Leads
    <3>. QED
      BY <1>3, <2>2, <3>2, <3>3 DEF x, k
  <2>3. CASE b \notin w.cset
    <3> DEFINE x == co_mov(w, a, b)
    <3>1. Leads(w, x, val, [val EXCEPT ![a] = val[b]]) /\ x.io = w.io
      BY <1>1, MovLeads
    <3> HIDE DEF x
    <3>2. Leads(w, x, val, [val EXCEPT ![a] = d])
      BY <2>1, <3>1 DEF Leads
    <3>. QED
      BY <1>3, <2>3, <3>1, <3>2 DEF x
  <2>. QED
    BY <2>2, <2>3
<1>. QED
  BY <1>2, <1>3

\* A conditional move whose condition is not.
LEMMA MoveIs ==
  ASSUME NEW w, Ready(w), NEW a \in VRegs, NEW b \in VRegs, NEW c \in VRegs, NEW val
  PROVE  LET moved == noncon(co_cmov(w, a, b, c), a)
             x == IF {a, b} \subseteq w.nz THEN setnz(moved, a) ELSE moved
         IN  /\ x.io = w.io
             /\ Leads(w, x, val, [val EXCEPT ![a] = IF val[c] # 0 THEN val[b] ELSE val[a]])
<1> DEFINE d == IF val[c] # 0 THEN val[b] ELSE val[a]
           g == co_cmov(w, a, b, c)
           moved == noncon(g, a)
           x == IF {a, b} \subseteq w.nz THEN setnz(moved, a) ELSE moved
           new == [val EXCEPT ![a] = d]
<1>1. Tables(w) /\ Busy(w) = {} /\ w.at # "over"
  BY ReadyTables
<1>2. Puts(w, g, a) /\ g.io = w.io /\ (Has(w, val) => Reg(g, a) = d)
  BY <1>1, CmovIs
<1> HIDE DEF g
<1>3. Knows(w, val) => Reg(g, a) = d
  BY <1>2 DEF Knows
<1>4. Leads(w, moved, val, new) /\ moved.io = w.io /\ a \in moved.rset
  <2> HIDE DEF d
  <2>. QED
    BY <1>2, <1>3, PutsLeads
<1> HIDE DEF moved
<1>5. ASSUME {a, b} \subseteq w.nz
      PROVE  LET y == setnz(moved, a) IN Leads(w, y, val, new) /\ y.io = moved.io
  <2>1. Knows(w, val) => new[a] # 0
    BY <1>5 DEF Knows, Told, Has
  <2> HIDE DEF new
  <2>. QED
    BY <1>4, <2>1, SetnzLeads
<1>6. Leads(w, x, val, new) /\ x.io = w.io
  BY <1>4, <1>5
<1>. QED
  BY <1>6 DEF moved, g

\* Addition and multiplication, folded or not.
LEMMA ArithIs ==
  ASSUME NEW w, Ready(w), NEW op \in Ops, NEW a \in VRegs, NEW b \in VRegs, NEW c \in VRegs, NEW val
  PROVE  LET x == IF b \in w.cset /\ c \in w.cset
                  THEN co_ortho(w, a, Alu(op, w.con[b], w.con[c]))
                  ELSE OP_IMM_COMM(w, op, a, b, c)
         IN  x.io = w.io /\ Leads(w, x, val, [val EXCEPT ![a] = Alu(op, val[b], val[c])])
<1> DEFINE d == Alu(op, val[b], val[c])
<1>1. Tables(w) /\ Busy(w) = {} /\ w.con \in [VRegs -> Word]
  BY ReadyTables
<1>2. CASE b \in w.cset /\ c \in w.cset
  <2> DEFINE k == Alu(op, w.con[b], w.con[c])
             x == co_ortho(w, a, k)
  <2>1. k \in Word
    BY <1>1, AluIs
  <2>2. Knows(w, val) => k = d
    BY <1>2 DEF Knows, Has, Holds
  <2> HIDE DEF k, d
  <2>3. Leads(w, x, val, [val EXCEPT ![a] = k]) /\ x.io = w.io
    BY <1>1, <2>1, OrthoLeads
  <2> HIDE DEF x
  <2>4. Leads(w, x, val, [val EXCEPT ![a] = d])
    BY <2>2, <2>3 DEF Leads
  <2>. QED
    BY <1>2, <2>3, <2>4 DEF x, k, d
<1>3. CASE ~(b \in w.cset /\ c \in w.cset)
  <2> DEFINE x == OP_IMM_COMM(w, op, a, b, c)
  <2>1. Lost(w, x, a) /\ x.io = w.io /\ (Has(w, val) => Has(x, [val EXCEPT ![a] = d]))
    BY <1>1, CommIs
  <2> HIDE DEF x, d
  <2>2. Leads(w, x, val, [val EXCEPT ![a] = d])
    BY <2>1, LostLeads
  <2>. QED
    BY <1>3, <2>1, <2>2 DEF x, d
<1>. QED
  BY <1>2, <1>3

\* Division: what k is, if it is not zero, is the constant of c.
LEMMA DivisionIs ==
  ASSUME NEW w, Ready(w), NEW a \in VRegs, NEW b \in VRegs, NEW c \in VRegs, NEW val
  PROVE  LET k     == w.con[c]
             moved == Rename(ra_mgetv(w, b), b, a)
             shift == SetReg(moved, a, Reg(moved, a) \div Pow2[Zeros(k)])
             fold  == b \in w.cset /\ c \in w.cset /\ k # 0
             power == c \in w.cset /\ IsPowerOf2(k)
             x     == IF fold THEN co_ortho(w, a, Div(w.con[b], k))
                      ELSE IF b = c THEN co_ortho(w, a, 1)
                      ELSE noncon(IF power THEN shift ELSE co_div(w, a, b, c), a)
             new   == [val EXCEPT ![a] = Div(val[b], val[c])]
         IN  /\ x.io = w.io /\ Fits(w, x)
             /\ Knows(w, val) /\ val[c] # 0 => Passed(x, new)
<1> DEFINE k     == w.con[c]
           moved == Rename(ra_mgetv(w, b), b, a)
           shift == SetReg(moved, a, Reg(moved, a) \div Pow2[Zeros(k)])
           fold  == b \in w.cset /\ c \in w.cset /\ k # 0
           power == c \in w.cset /\ IsPowerOf2(k)
           x     == IF fold THEN co_ortho(w, a, Div(w.con[b], k))
                    ELSE IF b = c THEN co_ortho(w, a, 1)
                    ELSE noncon(IF power THEN shift ELSE co_div(w, a, b, c), a)
           d     == Div(val[b], val[c])
           new   == [val EXCEPT ![a] = d]
           Right(y) == /\ y.io = w.io /\ Fits(w, y)
                       /\ Knows(w, val) /\ val[c] # 0 => Passed(y, new)
<1>1. Tables(w) /\ Busy(w) = {} /\ w.c = "inl" /\ w.con \in [VRegs -> Word] /\ k \in Word
  BY ReadyTables
<1>2. ASSUME NEW y, NEW e, Leads(w, y, val, [val EXCEPT ![a] = e]), y.io = w.io,
             Knows(w, val) /\ val[c] # 0 => e = d
      PROVE  Right(y)
  <2> HIDE DEF d
  <2>1. Fits(w, y) /\ (Knows(w, val) => Passed(y, [val EXCEPT ![a] = e]))
    BY <1>2, LeadsIs
  <2>. QED
    BY <1>2, <2>1
<1>3. ASSUME fold PROVE Right(x)
  <2> DEFINE e == Div(w.con[b], k)
             y == co_ortho(w, a, e)
  <2>1. e \in Word
    <3>1. w.con[b] \in Word /\ k # 0
      BY <1>1, <1>3
    <3> HIDE DEF k
    <3>. QED
      BY <1>1, <3>1, Arithmetic
  <2>2. Knows(w, val) => e = d
    BY <1>3 DEF Knows, Has, Holds
  <2> HIDE DEF e, d
  <2>3. Leads(w, y, val, [val EXCEPT ![a] = e]) /\ y.io = w.io
    BY <1>1, <2>1, OrthoLeads
  <2> HIDE DEF y
  <2>4. Right(y)
    BY <1>2, <2>2, <2>3
  <2>5. x = y
    BY <1>3 DEF y, e
  <2>. QED
    BY <2>4, <2>5
<1>4. ASSUME ~fold, b = c PROVE Right(x)
  <2> DEFINE y == co_ortho(w, a, 1)
  <2>1. 1 \in Word
    <3> DEFINE n == WordBits - 1
    <3>1. n \in Nat /\ WordBits = n + 1
      BY WordBitsAssumption
    <3> HIDE DEF n
    <3>2. Modulus = 2 * Pow2[n] /\ Pow2[n] \in Nat \ {0}
      BY <3>1, Pow2Type DEF Modulus
    <3>. QED
      BY <3>2, ModulusType DEF Word
  <2>2. Knows(w, val) /\ val[c] # 0 => 1 = d
    <3>1. ASSUME Knows(w, val), val[c] # 0 PROVE val[c] \in Nat \ {0}
      BY <3>1, ModulusType DEF Knows, Has
    <3>. QED
      BY <1>4, <3>1 DEF Div
  <2> HIDE DEF d
  <2>3. Leads(w, y, val, [val EXCEPT ![a] = 1]) /\ y.io = w.io
    BY <1>1, <2>1, OrthoLeads
  <2> HIDE DEF y
  <2>4. Right(y)
    BY <1>2, <2>2, <2>3
  <2>5. x = y
    BY <1>4 DEF y
  <2>. QED
    BY <2>4, <2>5
<1>5. ASSUME ~fold, b # c, power PROVE Right(x)
  <2> DEFINE y == noncon(shift, a)
  <2>1. k \in Word \ {0} /\ k = Pow2[Zeros(k)]
    BY <1>1, <1>5 DEF IsPowerOf2
  <2>2. Puts(w, shift, a) /\ shift.io = w.io /\ (Has(w, val) => Reg(shift, a) = Div(val[b], k))
    <3>1. shift = SetReg(moved, a, Div(Reg(moved, a), k))
      <4> HIDE DEF k, moved
      <4>. QED
        BY <2>1 DEF Div
    <3>2. LET quot == SetReg(moved, a, Div(Reg(moved, a), k))
          IN  Puts(w, quot, a) /\ quot.io = w.io /\ (Has(w, val) => Reg(quot, a) = Div(val[b], k))
      <4> HIDE DEF k
      <4>. QED
        BY <1>1, <2>1, ShiftIs
    <3> HIDE DEF shift, moved, k
    <3>. QED
      BY <3>1, <3>2
  <2>3. Knows(w, val) => Reg(shift, a) = d
    <3>1. Knows(w, val) => k = val[c]
      BY <1>5 DEF Knows, Has, Holds
    <3> HIDE DEF k, shift
    <3>. QED
      BY <2>2, <3>1 DEF Knows
  <2>4. x = y
    BY <1>5
  <2> HIDE DEF shift, d, x
  <2>5. Leads(w, y, val, [val EXCEPT ![a] = d]) /\ y.io = w.io
    BY <2>2, <2>3, PutsLeads
  <2> HIDE DEF y
  <2>6. Right(y)
    BY <1>2, <2>5
  <2>. QED
    BY <2>4, <2>6
<1>6. ASSUME ~fold, b # c, ~power PROVE Right(x)
  <2> DEFINE g == co_div(w, a, b, c)
             y == noncon(g, a)
  <2>1. /\ Same(w, g) /\ Still(w, g) /\ g.io = w.io /\ a \in g.rset /\ a \notin g.mset
        /\ g.at \in {w.at, "trapped"}
        /\ Has(w, val) /\ val[c] # 0 => Puts(w, g, a) /\ Reg(g, a) = d
    BY <1>1, <1>6, DivIs
  <2>2. x = y
    BY <1>6
  <2> HIDE DEF g, d, x
  <2>3. /\ Tables(y) /\ y.mtov = g.mtov /\ y.time = g.time /\ y.c = g.c
        /\ y.at = g.at /\ y.ok = g.ok /\ y.facts = g.facts /\ y.io = g.io
    BY <2>1, NonconIs DEF Same
  <2>4. Knows(w, val) /\ val[c] # 0 => Leads(w, y, val, [val EXCEPT ![a] = d])
    BY <2>1, PutsLeads DEF Knows
  <2> HIDE DEF y
  <2>5. Fits(w, y)
    <3>1. Same(w, y) /\ y.at \in Places
      BY <2>1, <2>3 DEF Same, Ready, Places
    <3>. QED
      BY <3>1, SameFits
  <2>6. Knows(w, val) /\ val[c] # 0 => Passed(y, [val EXCEPT ![a] = d])
    BY <2>4, LeadsIs
  <2>. QED
    BY <2>1, <2>2, <2>3, <2>5, <2>6
<1>7. Right(x)
  BY <1>3, <1>4, <1>5, <1>6
<1>. QED
  BY <1>7

\* Conjoin, for any state.
Conjunct(w, a, b, c) ==
  IF b # c THEN OP_IMM_COMM(w, "and", a, b, c) ELSE co_mov(w, a, b)

\* The conjunction of two vregs.
LEMMA ConjunctIs ==
  ASSUME NEW w, Ready(w), NEW a \in VRegs, NEW b \in VRegs, NEW c \in VRegs, NEW val
  PROVE  LET x == Conjunct(w, a, b, c)
         IN  /\ Leads(w, x, val, [val EXCEPT ![a] = And(val[b], val[c])]) /\ x.io = w.io
             /\ a \in x.rset
<1> DEFINE d == And(val[b], val[c])
           x == Conjunct(w, a, b, c)
<1>1. Tables(w) /\ Busy(w) = {}
  BY ReadyTables
<1>2. ASSUME b # c
      PROVE  Leads(w, x, val, [val EXCEPT ![a] = d]) /\ x.io = w.io /\ a \in x.rset
  <2> DEFINE op == "and"
             y == OP_IMM_COMM(w, op, a, b, c)
             e == Alu(op, val[b], val[c])
  <2>1. op \in Ops
    BY DEF Ops
  <2>2. x = y
    BY <1>2 DEF Conjunct
  <2>3. e = d
    BY DEF Alu
  <2> HIDE DEF op, x
  <2>4. Lost(w, y, a) /\ y.io = w.io /\ a \in y.rset /\ (Has(w, val) => Has(y, [val EXCEPT ![a] = e]))
    BY <1>1, <2>1, CommIs
  <2> HIDE DEF y, e
  <2>5. Leads(w, y, val, [val EXCEPT ![a] = e])
    BY <2>4, LostLeads
  <2>. QED
    BY <2>2, <2>3, <2>4, <2>5
<1>3. ASSUME b = c
      PROVE  Leads(w, x, val, [val EXCEPT ![a] = d]) /\ x.io = w.io /\ a \in x.rset
  <2> DEFINE y == co_mov(w, a, b)
  <2>1. x = y
    BY <1>3 DEF Conjunct
  <2>2. Leads(w, y, val, [val EXCEPT ![a] = val[b]]) /\ y.io = w.io /\ a \in y.rset
    BY <1>1, MovLeads
  <2>3. Knows(w, val) => d = val[b]
    BY <1>3, BitsAre DEF Knows, Has
  <2> HIDE DEF x, y, d
  <2>4. Leads(w, y, val, [val EXCEPT ![a] = d])
    BY <2>2, <2>3 DEF Leads
  <2>. QED
    BY <2>1, <2>2, <2>4
<1>. QED
  BY <1>2, <1>3

\* The complement of a conjunction, folded or not.
LEMMA NandIs ==
  ASSUME NEW w, Ready(w), NEW a \in VRegs, NEW b \in VRegs, NEW c \in VRegs, NEW val
  PROVE  LET and == Conjunct(w, a, b, c)
             got == Rename(ra_mgetv(and, a), a, a)
             not == SetReg(got, a, Not(Reg(got, a)))
             x   == IF b \in w.cset /\ c \in w.cset
                    THEN co_ortho(w, a, Not(And(w.con[b], w.con[c])))
                    ELSE noncon(not, a)
         IN  x.io = w.io /\ Leads(w, x, val, [val EXCEPT ![a] = Not(And(val[b], val[c]))])
<1> DEFINE and == Conjunct(w, a, b, c)
           got == Rename(ra_mgetv(and, a), a, a)
           not == SetReg(got, a, Not(Reg(got, a)))
           x   == IF b \in w.cset /\ c \in w.cset
                  THEN co_ortho(w, a, Not(And(w.con[b], w.con[c])))
                  ELSE noncon(not, a)
           n   == And(val[b], val[c])
           d   == Not(n)
<1>1. Tables(w) /\ w.con \in [VRegs -> Word]
  BY ReadyTables
<1>2. ASSUME b \in w.cset /\ c \in w.cset
      PROVE  x.io = w.io /\ Leads(w, x, val, [val EXCEPT ![a] = d])
  <2> DEFINE k == Not(And(w.con[b], w.con[c]))
             y == co_ortho(w, a, k)
  <2>1. k \in Word
    <3>1. And(w.con[b], w.con[c]) \in Word
      BY <1>1, Arithmetic
    <3>. QED
      BY <3>1, Arithmetic
  <2>2. Knows(w, val) => k = d
    BY <1>2 DEF Knows, Has, Holds
  <2>3. x = y
    BY <1>2
  <2> HIDE DEF k, d, x
  <2>4. Leads(w, y, val, [val EXCEPT ![a] = k]) /\ y.io = w.io
    BY <1>1, <2>1, OrthoLeads
  <2> HIDE DEF y
  <2>5. Leads(w, y, val, [val EXCEPT ![a] = d])
    BY <2>2, <2>4 DEF Leads
  <2>. QED
    BY <2>3, <2>4, <2>5
<1>3. ASSUME ~(b \in w.cset /\ c \in w.cset)
      PROVE  x.io = w.io /\ Leads(w, x, val, [val EXCEPT ![a] = d])
  <2> DEFINE v == [val EXCEPT ![a] = n]
             y == noncon(not, a)
  <2>1. x = y
    BY <1>3
  <2>2. Leads(w, and, val, v) /\ and.io = w.io /\ a \in and.rset
    BY ConjunctIs
  <2> HIDE DEF x, and, v
  <2>3. Tables(and)
    BY <2>2 DEF Leads, Same
  <2>4. /\ Puts(and, not, a) /\ not.io = and.io
        /\ Has(and, v) => Reg(not, a) = Not(v[a])
    BY <2>2, <2>3, NotIs
  <2> HIDE DEF not
  <2>5. Knows(and, v) => Reg(not, a) = Not(v[a])
    BY <2>4 DEF Knows
  <2>6. Leads(and, y, v, [v EXCEPT ![a] = Not(v[a])]) /\ y.io = not.io
    <3> DEFINE e == Not(v[a])
    <3> HIDE DEF e
    <3>1. Knows(and, v) => Reg(not, a) = e
      BY <2>5 DEF e
    <3>2. Leads(and, y, v, [v EXCEPT ![a] = e]) /\ y.io = not.io
      BY <2>4, <3>1, PutsLeads
    <3>. QED
      BY <3>2 DEF e
  <2> HIDE DEF y
  <2>7. Knows(w, val) => [v EXCEPT ![a] = Not(v[a])] = [val EXCEPT ![a] = d]
    BY DEF v, Knows, Has
  <2>8. Leads(w, y, val, [val EXCEPT ![a] = d])
    <3> HIDE DEF d
    <3>1. Same(w, y) /\ y.at = w.at
      BY <2>2, <2>6 DEF Leads, Same
    <3>2. ASSUME Knows(w, val) PROVE Knows(y, [val EXCEPT ![a] = d])
      BY <2>2, <2>6, <2>7, <3>2 DEF Leads
    <3>. QED
      BY <3>1, <3>2 DEF Leads
  <2>. QED
    BY <2>1, <2>2, <2>4, <2>6, <2>8
<1>4. x.io = w.io /\ Leads(w, x, val, [val EXCEPT ![a] = d])
  BY <1>2, <1>3
<1>. QED
  BY <1>4

-----------------------------------------------------------------------------
(* Calls and arrays *)

\* An allocation leads to the new array in its vreg, known to be nonzero.
LEMMA AllocationIs ==
  ASSUME NEW w, Ready(w), NEW b \in VRegs, NEW c \in VRegs, NEW id \in Word \ {0},
         NEW junk \in Word, NEW val
  PROVE  LET x == setnz(noncon(co_alloc(w, b, c, id, junk), b), b)
         IN  /\ Leads(w, x, val, [val EXCEPT ![b] = id])
             /\ Knows(w, val) => x.io = [op |-> "alloc", size |-> val[c]]
<1> DEFINE g == co_alloc(w, b, c, id, junk)
           y == noncon(g, b)
           x == setnz(y, b)
           new == [val EXCEPT ![b] = id]
<1>1. Tables(w) /\ Busy(w) = {}
  BY ReadyTables
<1>2. /\ Puts(w, g, b) /\ (Live(w) => Reg(g, b) = id)
      /\ Has(w, val) => g.io = [op |-> "alloc", size |-> val[c]]
  BY <1>1, AllocIs
<1> HIDE DEF g
<1>3. Knows(w, val) => Reg(g, b) = id
  BY <1>2 DEF Knows, Has
<1>4. Leads(w, y, val, new) /\ y.io = g.io /\ b \in y.rset
  BY <1>2, <1>3, PutsLeads
<1> HIDE DEF y
<1>5. Knows(w, val) => new[b] # 0
  BY DEF Knows, Has
<1> HIDE DEF new
<1>6. Leads(w, x, val, new) /\ x.io = y.io
  BY <1>4, <1>5, SetnzLeads
<1>. QED
  BY <1>2, <1>4, <1>6 DEF Knows, new, y, g

\* Abandonment: what is known of the tables.
LEMMA AbandonmentIs ==
  ASSUME NEW w, Ready(w), NEW c \in VRegs, NEW junk \in Word
  PROVE  Fits(w, setnz(co_free(w, c, junk), c))
<1> DEFINE g == co_free(w, c, junk)
           x == setnz(g, c)
<1>1. Tables(w) /\ Busy(w) = {}
  BY ReadyTables
<1>2. Same(w, g) /\ g.at = w.at /\ c \in g.rset
  BY <1>1, FreeIs
<1> HIDE DEF g
<1>3. Same(g, x) /\ x.at = g.at
  <2>1. Tables(g)
    BY <1>2 DEF Same
  <2>2. LET y == setnz(g, c) IN Same(g, y) /\ y.at = g.at
    BY <1>2, <2>1, SetnzIs
  <2>. QED
    BY <2>2
<1> HIDE DEF x
<1>4. Same(w, x) /\ x.at \in Places
  BY <1>2, <1>3 DEF Same, Ready, Places
<1>5. Fits(w, x)
  BY <1>4, SameFits
<1>. QED
  BY <1>5 DEF x, g

\* An output leads nowhere, and asks for what the vreg holds.
LEMMA OutIs ==
  ASSUME NEW w, Ready(w), NEW c \in VRegs, NEW junk \in Word, NEW val
  PROVE  LET x == co_output(w, c, junk)
         IN  Leads(w, x, val, val) /\ (Knows(w, val) => x.io = [op |-> "output", char |-> val[c]])
<1> DEFINE x == co_output(w, c, junk)
<1>1. Acts(w, x) /\ (Has(w, val) => x.io = [op |-> "output", char |-> val[c]])
  BY ReadyTables, OutputIs
<1> HIDE DEF x
<1>2. Leads(w, x, val, val)
  BY <1>1, ActsLeads
<1>. QED
  BY <1>1, <1>2 DEF Knows, x

\* An input leads to what was read.
LEMMA InIs ==
  ASSUME NEW w, Ready(w), NEW c \in VRegs, NEW d \in Word, NEW junk \in Word, NEW val
  PROVE  LET x == noncon(co_input(w, c, d, junk), c)
         IN  Leads(w, x, val, [val EXCEPT ![c] = d]) /\ (Knows(w, val) => x.io = [op |-> "input"])
<1> DEFINE g == co_input(w, c, d, junk)
           x == noncon(g, c)
<1>1. Puts(w, g, c) /\ (Live(w) => g.io = [op |-> "input"] /\ Reg(g, c) = d)
  BY ReadyTables, InputIs
<1> HIDE DEF g
<1>2. Knows(w, val) => Reg(g, c) = d
  BY <1>1 DEF Knows, Has
<1>3. Leads(w, x, val, [val EXCEPT ![c] = d]) /\ x.io = g.io
  BY <1>1, <1>2, PutsLeads
<1>. QED
  BY <1>1, <1>3 DEF Knows, Has, g

\* An index of an array known to be 0, or known not to be.
LEMMA IndexKnown ==
  ASSUME NEW w, Ready(w), NEW a \in VRegs, NEW b \in w.z \cup w.nz, NEW c \in VRegs,
         NEW v \in Word, NEW val
  PROVE  LET x == noncon(co_index(w, a, b, c, v), a)
         IN  /\ Leads(w, x, val, [val EXCEPT ![a] = v])
             /\ Knows(w, val) => x.io = [op |-> "index", array |-> val[b], at |-> val[c]]
<1> DEFINE x == noncon(co_index(w, a, b, c, v), a)
<1>1. /\ Same(w, x) /\ x.at = w.at
      /\ Knows(w, val) => /\ Knows(x, [val EXCEPT ![a] = v])
                          /\ x.io = [op |-> "index", array |-> val[b], at |-> val[c]]
  BY ReadyTables, IndexIs
<1> HIDE DEF x
<1>. QED
  BY <1>1 DEF Leads, x

\* An index of any array: what is known of the tables.
LEMMA IndexFits ==
  ASSUME NEW w, Ready(w), NEW a \in VRegs, NEW b \in VRegs, NEW c \in VRegs, NEW v \in Word
  PROVE  Fits(w, noncon(co_index(w, a, b, c, v), a))
<1> DEFINE x == noncon(co_index(w, a, b, c, v), a)
<1>1. ASSUME b \in w.z \cup w.nz PROVE Same(w, x) /\ x.at \in Places
  <2> DEFINE val == w.gpr
  <2> HIDE DEF val
  <2>1. Leads(w, x, val, [val EXCEPT ![a] = v])
    BY <1>1, IndexKnown
  <2>. QED
    BY <2>1 DEF Leads, Ready, Places
<1>2. ASSUME b \notin w.z \cup w.nz PROVE Same(w, x) /\ x.at \in Places
  <2>1. Same(w, x) /\ x.at \in {w.at, "inl", "outl"}
    BY <1>2, ReadyTables, IndexAnyIs
  <2>. QED
    BY <2>1 DEF Ready, Places
<1> HIDE DEF x
<1>3. Fits(w, x)
  BY <1>1, <1>2, SameFits
<1>. QED
  BY <1>3 DEF x

\* What an array amendment asks of the outside.
Amends(val, a, b, c, seen) ==
  [op |-> "amend", array |-> val[a], at |-> val[b], value |-> val[c], seen |-> seen]

\* A store to an array known to be 0, or known not to be.
LEMMA StoreIs ==
  ASSUME NEW w, Ready(w), NEW a \in w.z \cup w.nz, NEW b \in VRegs, NEW c \in VRegs, NEW val
  PROVE  LET x == co_amend_unsafe(w, a, b, c)
         IN  Acts(w, x) /\ (Knows(w, val) => x.io = Amends(val, a, b, c, {}))
<1> DEFINE load == FALSE
           x == co__ldst(w, a, b, c, load, 0)
<1>1. co_amend_unsafe(w, a, b, c) = x
  BY DEF co_amend_unsafe
<1>2. load \in BOOLEAN /\ ~load /\ 0 \in Word
  BY ModulusType
<1> HIDE DEF load
<1>3. Acts(w, x)
  <2> DEFINE o == [k \in VRegs |-> 0]
  <2>1. a \in w.z => o[a] = 0
    BY ReadyTables DEF Tables, Loose, Typed
  <2> HIDE DEF o
  <2>2. Accessed(w, x, c, load, 0)
    BY <1>2, <2>1, ReadyTables, LdstKnownIs
  <2> HIDE DEF x
  <2>. QED
    BY <1>2, <2>2 DEF Accessed
<1>4. Knows(w, val) => x.io = Amends(val, a, b, c, {})
  <2>1. SUFFICES ASSUME Knows(w, val) PROVE x.io = Amends(val, a, b, c, {})
    OBVIOUS
  <2>2. (a \in w.z => val[a] = 0) /\ Has(w, val)
    BY <2>1 DEF Knows, Told
  <2>3. Has(w, val) => x.io = Asks(load, val[a], val[b], val[c])
    BY <1>2, <2>2, ReadyTables, LdstKnownIs
  <2> HIDE DEF x
  <2>. QED
    BY <1>2, <2>2, <2>3 DEF Asks, Amends
<1>. QED
  BY <1>1, <1>3, <1>4

\* The place stored to in array 0 is known, and nobody need be told.
LEMMA StoreSeenIs ==
  ASSUME NEW w, Ready(w), NEW a \in w.z, NEW b \in w.cset, NEW c \in VRegs, NEW val
  PROVE  LET x == [co_amend_unsafe(w, a, b, c) EXCEPT !.io.seen = {w.con[b]}]
         IN  Acts(w, x) /\ (Knows(w, val) => x.io = Amends(val, a, b, c, {val[b]}))
<1> DEFINE s == co_amend_unsafe(w, a, b, c)
           x == [s EXCEPT !.io.seen = {w.con[b]}]
<1>1. b \in VRegs
  BY ReadyTables
<1>2. Acts(w, s) /\ (Knows(w, val) => s.io = Amends(val, a, b, c, {}))
  BY <1>1, StoreIs
<1> HIDE DEF s
<1>3. /\ AsWas(s, x) /\ x.c = s.c /\ x.at = s.at /\ x.facts = s.facts
      /\ x.io = [s.io EXCEPT !.seen = {w.con[b]}]
  <2>1. DOMAIN s = Fields
    BY <1>2 DEF Acts, Same, Tables, Loose, Typed
  <2>. QED
    BY <2>1 DEF AsWas, Fields
<1> HIDE DEF x
<1>4. Tables(s)
  BY <1>2 DEF Acts, Same
<1>5. Tables(x) /\ \A v, val_1 : Holds(x, v, val_1) <=> Holds(s, v, val_1)
  BY <1>3, <1>4, AsWasTables
<1>6. Same(w, x) /\ Still(w, x) /\ x.at = w.at
  BY <1>2, <1>3, <1>5 DEF Acts, Same, Still, AsWas
<1>7. Sound(w, x)
  BY <1>2, <1>5 DEF Acts, Sound
<1>8. Knows(w, val) => x.io = Amends(val, a, b, c, {val[b]})
  <2>1. Knows(w, val) => {w.con[b]} = {val[b]}
    BY <1>1 DEF Knows, Has, Holds
  <2>2. \A seen : [Amends(val, a, b, c, {}) EXCEPT !.seen = seen] = Amends(val, a, b, c, seen)
    BY DEF Amends
  <2>3. ASSUME Knows(w, val) PROVE x.io = [Amends(val, a, b, c, {}) EXCEPT !.seen = {val[b]}]
    BY <1>2, <1>3, <2>1, <2>3
  <2>. QED
    BY <2>2, <2>3
<1>. QED
  BY <1>6, <1>7, <1>8 DEF Acts, x, s

\* The values stay, and this is what was asked of the outside.
Serves(w, x, val, io) == Fits(w, x) /\ (Knows(w, val) => Passed(x, val) /\ x.io = io)

\* The runtime is told of the store to array 0, which may end the block.
LEMMA StoreToldIs ==
  ASSUME NEW w, Ready(w), NEW a \in w.z, NEW b \in VRegs, NEW c \in VRegs,
         NEW back \in BOOLEAN, NEW junk \in Word, NEW val
  PROVE  Serves(w, co_postwrite_0(ra_vflushall(co_amend_unsafe(w, a, b, c)), b, back, junk),
              val, Amends(val, a, b, c, {val[b]}))
<1> DEFINE s == co_amend_unsafe(w, a, b, c)
           f == ra_vflushall(s)
           x == co_postwrite_0(f, b, back, junk)
<1>1. Acts(w, s) /\ (Knows(w, val) => s.io = Amends(val, a, b, c, {})) /\ Tables(s)
  BY StoreIs DEF Acts, Same
<1> HIDE DEF s
<1>2. Reads(s, f) /\ f.mset = VRegs /\ Tables(f) /\ (Has(s, val) => f.gpr = val)
  BY <1>1, FlushIs DEF Reads, Same
<1> HIDE DEF f
<1>3. /\ Tables(x) /\ Still(f, x) /\ x.ok = f.ok /\ x.time = f.time /\ x.c = f.c
      /\ \A k \in MRegs : x.mtov[k] = Held <=> f.mtov[k] = Held
      /\ x.mset = VRegs /\ x.gpr = f.gpr
      /\ back => Acts(f, x)
      /\ Live(f) /\ ~back => x.at = "gone" /\ x.facts = Facts(f)
      /\ ~Live(f) => x.at = f.at /\ x.facts = f.facts
      /\ Has(f, val) => x.io = SeenAt(f.io, val[b])
  <2>1. /\ Tables(x) /\ Still(f, x) /\ x.ok = f.ok /\ x.time = f.time /\ x.c = f.c
        /\ \A k \in MRegs : x.mtov[k] = Held <=> f.mtov[k] = Held
        /\ x.mset = VRegs /\ x.gpr = f.gpr
    BY <1>2, PostwriteZeroIs
  <2>2. back => Acts(f, x)
    BY <1>2, PostwriteZeroIs
  <2>3. /\ Live(f) /\ ~back => x.at = "gone" /\ x.facts = Facts(f)
        /\ ~Live(f) => x.at = f.at /\ x.facts = f.facts
    BY <1>2, PostwriteZeroIs
  <2>4. \A o : Has(f, o) => x.io = SeenAt(f.io, o[b])
    BY <1>2, PostwriteZeroIs
  <2> HIDE DEF x
  <2>. QED
    BY <2>1, <2>2, <2>3, <2>4
<1> HIDE DEF x
<1>4. x.at \in {f.at, "gone"} /\ (x.facts = f.facts \/ x.facts = Facts(f))
  BY <1>3 DEF Acts, Same
<1>5. Facts(f) \in FactsType /\ Facts(f) = [z |-> w.z, nz |-> w.nz]
  <2>1. Facts(f) \in FactsType
    BY <1>2, ReadyTables, FactsAre
  <2>2. f.z = w.z /\ f.nz = w.nz
    BY <1>1, <1>2 DEF Acts, Reads, Still
  <2>. QED
    BY <2>1, <2>2 DEF Facts
<1>6. Fits(w, x)
  <2>1. /\ x.ok = w.ok /\ x.time = w.time /\ x.c = w.c
        /\ \A k \in MRegs : x.mtov[k] = Held <=> w.mtov[k] = Held
    BY <1>1, <1>2, <1>3 DEF Acts, Reads, Same
  <2>2. x.at \in Places /\ (x.facts = w.facts \/ x.facts \in FactsType)
    BY <1>1, <1>2, <1>4, <1>5 DEF Acts, Reads, Same, Ready, Places
  <2>. QED
    BY <1>3, <2>1, <2>2 DEF Fits
<1>7. ASSUME Knows(w, val)
      PROVE  Passed(x, val) /\ x.io = Amends(val, a, b, c, {val[b]})
  <2>1. Has(s, val) /\ Has(f, val) /\ Live(f)
    BY <1>1, <1>2, <1>7, HasActs, HasReads DEF Knows, Has
  <2>2. x.io = Amends(val, a, b, c, {val[b]})
    BY <1>1, <1>2, <1>3, <1>7, <2>1 DEF Reads, Amends, SeenAt
  <2>3. x.gpr = val /\ val \in [VRegs -> Word]
    BY <1>2, <1>3, <2>1 DEF Has
  <2>4. CASE back
    <3>1. Leads(f, x, val, val)
      BY <1>3, <2>4, ActsLeads
    <3>2. Knows(f, val)
      BY <1>1, <1>2, <1>7, <2>1 DEF Knows, Acts, Reads, Still
    <3>3. Knows(x, val) /\ x.c = "inl"
      BY <1>1, <1>2, <1>3, <3>1, <3>2, ReadyTables DEF Leads, Acts, Reads, Same
    <3>. QED
      BY <2>2, <3>3, KnowsInl
  <2>5. CASE ~back
    <3>1. x.at = "gone" /\ x.facts = [z |-> w.z, nz |-> w.nz]
      BY <1>3, <1>5, <2>1, <2>5
    <3>2. Told(x.facts, val)
      BY <1>7, <3>1 DEF Knows
    <3>. QED
      BY <2>2, <2>3, <3>1, <3>2 DEF Passed
  <2>. QED
    BY <2>4, <2>5
<1>. QED
  BY <1>6, <1>7 DEF Serves, x, f, s

\* A store to any array: what is known of the tables.
LEMMA StoreAnyIs ==
  ASSUME NEW w, Ready(w), NEW a \in VRegs \ (w.z \cup w.nz), NEW b \in VRegs, NEW c \in VRegs,
         NEW back \in BOOLEAN, NEW junk \in Word
  PROVE  Fits(w, co_postwrite(ra_vflushall(co_amend_unsafe(w, a, b, c)), a, b, back, junk))
<1> DEFINE s == co_amend_unsafe(w, a, b, c)
           f == ra_vflushall(s)
           x == co_postwrite(f, a, b, back, junk)
<1>1. Same(w, s) /\ s.at \in {w.at, "inl", "outl"} /\ a \in s.rset
  <2> DEFINE load == FALSE
             y == co__ldst(w, a, b, c, load, 0)
  <2>1. load \in BOOLEAN /\ 0 \in Word
    BY ModulusType
  <2>2. s = y
    BY DEF co_amend_unsafe
  <2> HIDE DEF load, s
  <2>3. Same(w, y) /\ y.at \in {w.at, "inl", "outl"} /\ Pinned(y, a)
    BY <2>1, ReadyTables, LdstAnyIs
  <2>. QED
    BY <2>2, <2>3 DEF Pinned
<1> HIDE DEF s
<1>2. Tables(s) /\ s.c = "inl"
  BY <1>1, ReadyTables DEF Same
<1>3. Reads(s, f) /\ f.rset = s.rset
  BY <1>2, FlushIs
<1> HIDE DEF f
<1>4. Tables(f) /\ f.c = "inl" /\ a \in f.rset
  BY <1>1, <1>2, <1>3 DEF Reads, Same
<1>5. /\ Tables(x) /\ x.ok = f.ok /\ x.time = f.time /\ x.c = "inl"
      /\ \A k \in MRegs : x.mtov[k] = Held <=> f.mtov[k] = Held
      /\ x.at \in {f.at, "outl", "gone"}
      /\ x.facts = f.facts \/ x.facts \in FactsType
  BY <1>4, PostwriteAnyIs
<1> HIDE DEF x
<1>6. /\ x.ok = w.ok /\ x.time = w.time /\ x.c = w.c
      /\ \A k \in MRegs : x.mtov[k] = Held <=> w.mtov[k] = Held
  BY <1>1, <1>3, <1>5, ReadyTables DEF Reads, Same
<1>7. x.at \in Places /\ (x.facts = w.facts \/ x.facts \in FactsType)
  BY <1>1, <1>3, <1>5 DEF Reads, Same, Ready, Places
<1>8. Fits(w, x)
  BY <1>5, <1>6, <1>7 DEF Fits
<1>. QED
  BY <1>8 DEF x, f, s

-----------------------------------------------------------------------------
(* Leaving the block *)

\* All vregs are up to date in memory, which is all that other code has of them.
Flushed(w) == Tables(w) /\ w.mset = VRegs /\ w.c = "inl" /\ w.at \in Places

\* Nothing of a flushed state has changed but where control is.
Left(w, x) == Fits(w, x) /\ Flushed(x) /\ x.gpr = w.gpr

\* Control has gone to other code, which asks for the outside with io.
Gone(x, val, io) == x.at = "gone" /\ x.gpr = val /\ x.io = io /\ Told(x.facts, val)

\* ra_vflushall: at the end of a block memory has all the values.
LEMMA FlushedIs ==
  ASSUME NEW w, Ready(w), NEW val
  PROVE  LET x == ra_vflushall(w)
         IN  /\ Flushed(x) /\ Ready(x) /\ Same(w, x) /\ x.at = w.at /\ x.io = w.io /\ Still(w, x)
             /\ Knows(w, val) => Knows(x, val) /\ x.gpr = val
<1> DEFINE x == ra_vflushall(w)
<1>1. Reads(w, x) /\ x.mset = VRegs /\ Busy(x) = Busy(w) /\ (Has(w, val) => x.gpr = val)
  BY ReadyTables, FlushIs
<1> HIDE DEF x
<1>2. Ready(x) /\ Same(w, x) /\ x.at = w.at /\ x.io = w.io /\ Still(w, x)
  BY <1>1 DEF Reads, Same, Ready
<1>3. Flushed(x)
  BY <1>1, <1>2, ReadyTables DEF Flushed, Ready, Places
<1>4. Knows(w, val) => Knows(x, val) /\ x.gpr = val
  BY <1>1, <1>2, HasReads DEF Knows, Still
<1>. QED
  BY <1>2, <1>3, <1>4 DEF x

\* Memory alone then has the values.
LEMMA FlushedHas ==
  ASSUME NEW w, Flushed(w), NEW val, Has(w, val)
  PROVE  w.gpr = val
BY DEF Flushed, Has, Holds, Tables, Loose, Typed

\* Reading a vreg into an mreg, and then a change of control alone.
LEMMA LeftIs ==
  ASSUME NEW w, Flushed(w), Spare(w), NEW b \in VRegs, NEW x, AsWas(ra_mgetv(w, b), x),
         x.c = "inl", x.at \in Places, x.facts = w.facts \/ x.facts \in FactsType
  PROVE  /\ Left(w, x) /\ Still(w, x) /\ (Busy(w) = {} => Spare(x))
         /\ \A val : Has(w, val) /\ x.at = w.at => Has(x, val)
<1> DEFINE g == ra_mgetv(w, b)
<1>1. Tables(w) /\ w.mset = VRegs /\ w.c = "inl"
  BY DEF Flushed
<1>2. /\ Reads(w, g) /\ Tables(g) /\ g.gpr = w.gpr /\ g.mset = VRegs
      /\ Busy(g) \subseteq Busy(w) \cup {g.vtom[b]}
  BY <1>1, GetIs DEF Reads, Same
<1>3. AsWas(g, x)
  OBVIOUS
<1> HIDE DEF g
<1>4. /\ Tables(x) /\ Busy(x) = Busy(g)
      /\ \A v, val : Holds(x, v, val) <=> Holds(g, v, val)
  BY <1>2, <1>3, AsWasTables
<1>5. Still(w, x) /\ x.gpr = w.gpr /\ x.mset = VRegs
  BY <1>2, <1>3 DEF Reads, Still, AsWas
<1>6. Fits(w, x)
  <2>1. x.ok = w.ok /\ x.time = w.time /\ x.c = w.c
    BY <1>1, <1>2, <1>3 DEF Reads, Same, AsWas
  <2>2. \A k \in MRegs : x.mtov[k] = Held <=> w.mtov[k] = Held
    BY <1>2, <1>3 DEF Reads, Same, AsWas
  <2>. QED
    BY <1>4, <2>1, <2>2 DEF Fits
<1>7. \A val : Has(w, val) /\ x.at = w.at => Has(x, val)
  <2>1. SUFFICES ASSUME NEW val, Has(w, val), x.at = w.at PROVE Has(x, val)
    OBVIOUS
  <2>2. Has(g, val)
    BY <1>2, <2>1, HasReads
  <2>3. Live(x)
    BY <1>1, <2>1 DEF Has, Live
  <2>. QED
    BY <1>4, <2>2, <2>3 DEF Has
<1>8. Busy(w) = {} => Spare(x)
  BY <1>2, <1>4, SpareOne DEF Spare
<1>. QED
  BY <1>4, <1>5, <1>6, <1>7, <1>8 DEF Left, Flushed

\* To leave when it may be that the array named by b is not array 0.
LEMMA GuardIs ==
  ASSUME NEW w, Flushed(w), Busy(w) = {}, NEW b \in VRegs, NEW c \in VRegs, NEW val
  PROVE  LET x == co_loadguard(w, b, c)
         IN  /\ Left(w, x) /\ Still(w, x) /\ Spare(x)
             /\ Knows(w, val) /\ val[b] # 0 => Gone(x, val, Loads(val[b], val[c]))
             /\ Knows(w, val) /\ val[b] = 0 => Has(x, val)
<1> DEFINE g  == ra_mgetv(w, b)
           mb == Reg(g, b)
           io == Loads(mb, Pushed(g, c))
           f  == [Facts(w) EXCEPT !.nz = @ \cup {b}]
           q  == mb # 0
           near == Go(g, io, f)
           j  == Jcc(g, q, "outl")
           t  == To(j, "outl")
           h  == Go(t, io, f)
           far == To(h, "inl")
           x  == IF b \in w.nz THEN near ELSE far
<1>1. co_loadguard(w, b, c) = x
  BY DEF co_loadguard
<1>2. Tables(w) /\ Spare(w) /\ w.c = "inl" /\ w.at \in Places
  BY Names DEF Spare, Flushed
<1>3. Reads(w, g) /\ Tables(g) /\ b \in g.rset
  BY <1>2, GetIs DEF Reads, Same
<1>4. Has(w, val) => mb = val[b] /\ io = Loads(val[b], val[c]) /\ Live(g)
  <2>1. SUFFICES ASSUME Has(w, val) PROVE mb = val[b] /\ Pushed(g, c) = val[c] /\ Live(g)
    OBVIOUS
  <2>2. Has(g, val)
    BY <1>3, <2>1, HasReads
  <2>3. mb = val[b]
    BY <1>3, <2>2, HasReg
  <2>4. Pushed(g, c) = val[c]
    BY <1>3, <2>2, PushedIs
  <2>. QED
    BY <2>2, <2>3, <2>4 DEF Has
<1>5. f = [z |-> w.z, nz |-> w.nz \cup {b}] /\ f \in FactsType
  BY <1>2, FactsAre
<1>6. Knows(w, val) /\ val[b] # 0 => Told(f, val)
  BY <1>5 DEF Knows, Told
<1> HIDE DEF io, f
<1>7. \A y : AsWas(g, y) => AsWas(ra_mgetv(w, b), y)
  OBVIOUS
<1> HIDE DEF g, mb
<1>8. /\ AsWas(g, near) /\ near.c = g.c
      /\ Live(g) => near.at = "gone" /\ near.io = io /\ near.facts = f
      /\ ~Live(g) => near = g
  BY <1>3, GoIs
<1> HIDE DEF near
<1>9. /\ AsWas(g, j) /\ j.c = g.c /\ j.io = g.io /\ j.facts = g.facts
      /\ j.at = IF q /\ Live(g) THEN "outl" ELSE g.at
  <2>1. q \in BOOLEAN
    OBVIOUS
  <2> HIDE DEF q
  <2>. QED
    BY <1>3, <2>1, ControlIs
<1> HIDE DEF j
<1>10. AsWas(j, t) /\ t.c = "outl" /\ t.io = j.io /\ t.facts = j.facts /\ t.at = j.at
  <2>1. DOMAIN j = Fields
    BY <1>9 DEF AsWas
  <2>. QED
    BY <2>1 DEF To, AsWas, Fields
<1> HIDE DEF t
<1>11. AsWas(g, t)
  BY <1>9, <1>10 DEF AsWas
<1>12. Tables(t)
  BY <1>3, <1>11, AsWasTables
<1>13. /\ AsWas(t, h)
       /\ Live(t) => h.at = "gone" /\ h.io = io /\ h.facts = f
       /\ ~Live(t) => h = t
  BY <1>12, GoIs
<1> HIDE DEF h
<1>14. AsWas(h, far) /\ far.c = "inl" /\ far.io = h.io /\ far.facts = h.facts /\ far.at = h.at
  <2>1. DOMAIN h = Fields
    BY <1>13 DEF AsWas
  <2>. QED
    BY <2>1 DEF To, AsWas, Fields
<1> HIDE DEF far
<1>15. AsWas(g, far)
  BY <1>11, <1>13, <1>14 DEF AsWas
<1>16. AsWas(g, x) /\ x.c = "inl" /\ x.at \in Places
       /\ (x.facts = w.facts \/ x.facts \in FactsType)
  <2>1. g.c = "inl" /\ g.at = w.at /\ g.facts = w.facts
    BY <1>2, <1>3 DEF Reads, Same
  <2>2. near.c = "inl" /\ near.at \in Places /\ near.facts \in {w.facts, f}
    BY <1>2, <1>8, <2>1 DEF Places
  <2>3. far.c = "inl" /\ far.at \in Places /\ far.facts \in {w.facts, f}
    BY <1>2, <1>9, <1>10, <1>13, <1>14, <2>1 DEF Places
  <2>. QED
    BY <1>5, <1>8, <1>15, <2>2, <2>3
<1>17. /\ Left(w, x) /\ Still(w, x) /\ Spare(x)
       /\ Has(w, val) /\ x.at = w.at => Has(x, val)
  <2> HIDE DEF x
  <2>. QED
    BY <1>2, <1>7, <1>16, LeftIs
<1>18. ASSUME Knows(w, val), val[b] # 0
       PROVE  Gone(x, val, Loads(val[b], val[c]))
  <2>1. Live(g) /\ mb # 0 /\ io = Loads(val[b], val[c]) /\ Has(w, val)
    BY <1>4, <1>18 DEF Knows
  <2>2. x.gpr = val
    BY <1>17, <2>1, FlushedHas DEF Left
  <2>3. near.at = "gone" /\ near.io = io /\ near.facts = f
    BY <1>8, <2>1
  <2>4. far.at = "gone" /\ far.io = io /\ far.facts = f
    BY <1>9, <1>10, <1>13, <1>14, <2>1 DEF Live
  <2>. QED
    BY <1>6, <1>18, <2>1, <2>2, <2>3, <2>4 DEF Gone
<1>19. ASSUME Knows(w, val), val[b] = 0 PROVE Has(x, val)
  <2>1. Live(g) /\ mb = 0 /\ Has(w, val) /\ b \notin w.nz
    BY <1>4, <1>19 DEF Knows, Told
  <2>2. g.at = w.at /\ g.at = "inl"
    BY <1>2, <1>3, <2>1 DEF Reads, Has, Live
  <2>3. far.at = w.at
    BY <1>9, <1>10, <1>13, <1>14, <2>1, <2>2 DEF Live
  <2>. QED
    BY <1>17, <2>1, <2>3
<1> HIDE DEF x
<1>. QED
  BY <1>1, <1>17, <1>18, <1>19

\* Past the guard, the array is known to be array 0.
LEMMA GuardedIs ==
  ASSUME NEW w, Flushed(w), Busy(w) = {}, NEW b \in VRegs, NEW c \in VRegs, NEW val
  PROVE  LET x == co_loadguard_x(w, b, c)
         IN  /\ Left(w, x) /\ Spare(x) /\ x.cset = w.cset /\ x.con = w.con
             /\ Knows(w, val) => \/ Knows(x, val) /\ val[b] = 0
                                 \/ Gone(x, val, Loads(val[b], val[c]))
<1> DEFINE g == co_loadguard(w, b, c)
           y == [g EXCEPT !.z = @ \cup {b}]
           x == IF b \in w.z THEN w ELSE y
<1>1. co_loadguard_x(w, b, c) = x
  BY DEF co_loadguard_x
<1>2. /\ Left(w, g) /\ Still(w, g) /\ Spare(g)
      /\ Knows(w, val) /\ val[b] # 0 => Gone(g, val, Loads(val[b], val[c]))
      /\ Knows(w, val) /\ val[b] = 0 => Has(g, val)
  BY GuardIs
<1> HIDE DEF g
<1>3. Tables(w) /\ Flushed(g) /\ Typed(g)
  BY <1>2 DEF Flushed, Left, Tables, Loose
<1>4. /\ DOMAIN y = Fields /\ y.z = g.z \cup {b}
      /\ y.con = g.con /\ y.cset = g.cset /\ y.nz = g.nz /\ y.rset = g.rset
      /\ y.vtom = g.vtom /\ y.mset = g.mset /\ y.mtov = g.mtov /\ y.mlru = g.mlru
      /\ y.time = g.time /\ y.m = g.m /\ y.gpr = g.gpr /\ y.ok = g.ok
      /\ y.c = g.c /\ y.at = g.at /\ y.io = g.io /\ y.facts = g.facts
  BY <1>3 DEF Typed, Fields
<1> HIDE DEF y
<1>5. Tables(y)
  <2>1. Loose(g, {})
    BY <1>3 DEF Flushed, Tables
  <2>2. Typed(y)
    BY <1>3, <1>4 DEF Typed
  <2>3. Mirrored(y, {}) /\ Somewhere(y, {})
    BY <1>4, <2>1 DEF Loose, Mirrored, Somewhere
  <2>. QED
    BY <2>2, <2>3 DEF Tables, Loose
<1>6. Left(w, y) /\ Spare(y) /\ y.cset = w.cset /\ y.con = w.con
  <2>1. Flushed(y)
    BY <1>3, <1>4, <1>5 DEF Flushed
  <2>2. Fits(w, y) /\ y.gpr = w.gpr
    BY <1>2, <1>4, <1>5 DEF Left, Fits
  <2>3. Spare(y)
    BY <1>2, <1>4 DEF Spare, Busy
  <2>4. y.cset = w.cset /\ y.con = w.con
    BY <1>2, <1>4 DEF Still
  <2>. QED
    BY <2>1, <2>2, <2>3, <2>4 DEF Left
<1>7. ASSUME Knows(w, val)
      PROVE  \/ Knows(y, val) /\ val[b] = 0
             \/ Gone(y, val, Loads(val[b], val[c]))
  <2>1. CASE val[b] # 0
    BY <1>2, <1>4, <1>7, <2>1 DEF Gone
  <2>2. CASE val[b] = 0
    <3>1. Has(g, val)
      BY <1>2, <1>7, <2>2
    <3>2. Has(y, val)
      BY <1>4, <3>1 DEF Has, Holds, Live, Reg
    <3>3. Told([z |-> y.z, nz |-> y.nz], val)
      BY <1>2, <1>4, <1>7, <2>2 DEF Knows, Told, Still
    <3>. QED
      BY <2>2, <3>2, <3>3 DEF Knows
  <2>. QED
    BY <2>1, <2>2
<1>8. CASE b \in w.z
  <2>1. Left(w, w) /\ Spare(w)
    BY Names DEF Left, Fits, Flushed, Spare
  <2>2. Knows(w, val) => val[b] = 0
    BY <1>8 DEF Knows, Told
  <2>. QED
    BY <1>1, <1>8, <2>1, <2>2
<1>9. CASE b \notin w.z
  BY <1>1, <1>6, <1>7, <1>9
<1>. QED
  BY <1>8, <1>9

\* The load of array 0 that follows, at a place that is known or not.
LEMMA LoadZeroIs ==
  ASSUME NEW w, Flushed(w), Spare(w), NEW c \in VRegs, NEW val
  PROVE  LET x == IF c \in w.cset THEN co_load_0c(w, w.con[c], Facts(w)) ELSE co_load_0(w, c)
         IN  /\ Left(w, x)
             /\ Knows(w, val) => Gone(x, val, Loads(0, val[c]))
             /\ w.at = "gone" => x.at = "gone" /\ x.io = w.io /\ x.facts = w.facts
<1> DEFINE g == ra_mgetv(w, c)
           p == Go(w, Loads(0, w.con[c]), Facts(w))
           q == Go(g, Loads(0, Reg(g, c)), Facts(w))
           x == IF c \in w.cset THEN co_load_0c(w, w.con[c], Facts(w)) ELSE co_load_0(w, c)
<1>1. x = IF c \in w.cset THEN p ELSE q
  BY DEF co_load_0c, co_load_0
<1> HIDE DEF x
<1>2. Tables(w) /\ w.mset = VRegs /\ w.c = "inl" /\ w.at \in Places
  BY DEF Flushed
<1>3. Facts(w) = [z |-> w.z, nz |-> w.nz] /\ Facts(w) \in FactsType
  BY <1>2, FactsAre DEF Facts
<1>4. Knows(w, val) => Told(Facts(w), val) /\ Has(w, val) /\ Live(w) /\ w.gpr = val
  BY <1>3, FlushedHas DEF Knows, Has
<1>5. w.at = "gone" => ~Live(w)
  BY <1>2 DEF Live
<1>6. CASE c \in w.cset
  <2> DEFINE io == Loads(0, w.con[c])
             f == Facts(w)
  <2>1. Knows(w, val) => io = Loads(0, val[c])
    BY <1>4, <1>6 DEF Has, Holds
  <2>2. p = Go(w, io, f)
    OBVIOUS
  <2> HIDE DEF io, f, p
  <2>3. /\ AsWas(w, p) /\ Tables(p) /\ p.c = w.c
        /\ Live(w) => p.at = "gone" /\ p.io = io /\ p.facts = f
        /\ ~Live(w) => p = w
    BY <1>2, <2>2, GoIs
  <2>4. Left(w, p)
    <3>1. p.at \in Places /\ (p.facts = w.facts \/ p.facts \in FactsType)
      BY <1>2, <1>3, <2>3 DEF Places, f
    <3>. QED
      BY <1>2, <2>3, <3>1 DEF Left, Fits, Flushed, AsWas
  <2>5. Knows(w, val) => Gone(p, val, Loads(0, val[c]))
    BY <1>4, <2>1, <2>3 DEF Gone, AsWas, f
  <2>. QED
    BY <1>1, <1>5, <1>6, <2>3, <2>4, <2>5 DEF x
<1>7. CASE c \notin w.cset
  <2> DEFINE io == Loads(0, Reg(g, c))
             f == Facts(w)
  <2>1. Reads(w, g) /\ Tables(g) /\ c \in g.rset
    BY <1>2, GetIs DEF Reads, Same
  <2>2. Knows(w, val) => io = Loads(0, val[c])
    <3>1. Knows(w, val) => Has(g, val)
      BY <2>1, HasReads DEF Knows
    <3>. QED
      BY <2>1, <3>1, HasReg
  <2>3. q = Go(g, io, f)
    OBVIOUS
  <2>4. \A y : AsWas(g, y) => AsWas(ra_mgetv(w, c), y)
    OBVIOUS
  <2> HIDE DEF io, f, q, g
  <2>5. /\ AsWas(g, q) /\ Tables(q) /\ q.c = g.c
        /\ Live(g) => q.at = "gone" /\ q.io = io /\ q.facts = f
        /\ ~Live(g) => q = g
    BY <2>1, <2>3, GoIs
  <2>6. g.at = w.at /\ g.c = w.c /\ g.io = w.io /\ g.facts = w.facts /\ (Live(g) <=> Live(w))
    BY <2>1 DEF Reads, Same, Live
  <2>7. Left(w, q)
    <3>1. /\ q.c = "inl" /\ q.at \in Places
          /\ q.facts = w.facts \/ q.facts \in FactsType
      BY <1>2, <1>3, <2>5, <2>6 DEF Places, f
    <3>. QED
      BY <2>4, <2>5, <3>1, LeftIs
  <2>8. Knows(w, val) => Gone(q, val, Loads(0, val[c]))
    <3>1. q.gpr = w.gpr
      BY <2>7 DEF Left
    <3>. QED
      BY <1>4, <2>2, <2>5, <2>6, <3>1 DEF Gone, f
  <2>. QED
    BY <1>1, <1>5, <1>7, <2>5, <2>6, <2>7, <2>8 DEF x
<1>. QED
  BY <1>6, <1>7

\* A load of a program: control is gone there, with all vregs in memory.
LEMMA LoadedIs ==
  ASSUME NEW w, Ready(w), NEW b \in VRegs, NEW c \in VRegs, NEW val
  PROVE  LET near == co_loadguard_x(ra_vflushall(w), b, c)
             x    == IF c \in w.cset THEN co_load_0c(near, w.con[c], Facts(near))
                     ELSE co_load_0(near, c)
         IN  /\ Fits(w, x)
             /\ Knows(w, val) => Gone(x, val, Loads(val[b], val[c]))
<1> DEFINE f == ra_vflushall(w)
           near == co_loadguard_x(f, b, c)
           x == IF c \in w.cset THEN co_load_0c(near, w.con[c], Facts(near))
                ELSE co_load_0(near, c)
<1>1. /\ Flushed(f) /\ Ready(f) /\ Same(w, f) /\ Still(w, f)
      /\ Knows(w, val) => Knows(f, val)
  BY FlushedIs
<1> HIDE DEF f
<1>2. Busy(f) = {}
  BY <1>1 DEF Ready
<1>3. /\ Left(f, near) /\ Spare(near) /\ near.cset = f.cset /\ near.con = f.con
      /\ Knows(f, val) => \/ Knows(near, val) /\ val[b] = 0
                          \/ Gone(near, val, Loads(val[b], val[c]))
  BY <1>1, <1>2, GuardedIs
<1> HIDE DEF near
<1>4. Flushed(near) /\ near.cset = w.cset /\ near.con = w.con
  BY <1>1, <1>3 DEF Left, Still
<1>5. /\ Left(near, x)
      /\ Knows(near, val) => Gone(x, val, Loads(0, val[c]))
      /\ near.at = "gone" => x.at = "gone" /\ x.io = near.io /\ x.facts = near.facts
  <2> DEFINE y == IF c \in near.cset THEN co_load_0c(near, near.con[c], Facts(near))
                  ELSE co_load_0(near, c)
  <2>1. x = y
    BY <1>4
  <2> HIDE DEF x
  <2>2. Left(near, y) /\ (Knows(near, val) => Gone(y, val, Loads(0, val[c])))
    BY <1>3, <1>4, LoadZeroIs
  <2>3. near.at = "gone" => y.at = "gone" /\ y.io = near.io /\ y.facts = near.facts
    BY <1>3, <1>4, LoadZeroIs
  <2> HIDE DEF y
  <2>. QED
    BY <2>1, <2>2, <2>3
<1> HIDE DEF x
<1>6. Fits(w, x)
  BY <1>1, <1>3, <1>5 DEF Left, Fits, Same
<1>7. ASSUME Knows(w, val) PROVE Gone(x, val, Loads(val[b], val[c]))
  <2>1. CASE Knows(near, val) /\ val[b] = 0
    BY <1>5, <2>1
  <2>2. CASE Gone(near, val, Loads(val[b], val[c]))
    BY <1>5, <2>2 DEF Gone, Left
  <2>. QED
    BY <1>1, <1>3, <1>7, <2>1, <2>2
<1>. QED
  BY <1>6, <1>7 DEF x, near, f

\* A branch, to the place ct if vreg c is not zero and else to cf.
Forks(w, x, c, i, ct, cf, zt, zf, val) ==
  /\ Fits(w, x)
  /\ Has(w, val) => x.at = "gone"
  /\ Has(w, val) /\ val[c] # 0 =>
       x.gpr = [val EXCEPT ![i] = ct] /\ x.facts = zt /\ x.io = Loads(0, ct)
  /\ Has(w, val) /\ val[c] = 0 => x.gpr = val /\ x.facts = zf /\ x.io = Loads(0, cf)

\* co_condbr: which of its two exits is taken, and with what in memory.
LEMMA CondbrIs ==
  ASSUME NEW w, Flushed(w), Busy(w) = {}, NEW c \in VRegs, NEW i \in VRegs,
         NEW ct \in Word, NEW cf \in Word, NEW zt \in FactsType, NEW zf \in FactsType, NEW val
  PROVE  Forks(w, co_condbr(w, c, i, ct, cf, zt, zf), c, i, ct, cf, zt, zf, val)
<1> DEFINE g == ra_mgetv(w, c)
           q == Reg(g, c) = 0
           over == Jcc(g, q, "over")
           o == co_ortho(over, i, ct)
           s == ra_vflush(o, i)
           io == Loads(0, ct)
           true == Go(s, io, zt)
           e == EndOver(true)
           jo == Loads(0, cf)
           x == Go(e, jo, zf)
<1>1. co_condbr(w, c, i, ct, cf, zt, zf) = x
  BY DEF co_condbr, co_load_0c
<1>2. Tables(w) /\ Spare(w) /\ w.mset = VRegs /\ w.c = "inl" /\ w.at \in Places
  BY Names DEF Flushed, Spare
<1>3. Reads(w, g) /\ Tables(g) /\ c \in g.rset /\ g.gpr = w.gpr /\ g.mset = VRegs
  BY <1>2, GetIs DEF Reads, Same
<1>4. Has(w, val) => Reg(g, c) = val[c] /\ Live(g) /\ w.gpr = val
  <2>1. SUFFICES ASSUME Has(w, val) PROVE Reg(g, c) = val[c] /\ Live(g) /\ w.gpr = val
    OBVIOUS
  <2>2. Has(g, val)
    BY <1>3, <2>1, HasReads
  <2>3. Reg(g, c) = val[c]
    BY <1>3, <2>2, HasReg
  <2>. QED
    BY <2>1, <2>2, <2>3, FlushedHas DEF Has
<1> HIDE DEF g
<1>5. /\ AsWas(g, over) /\ over.c = g.c /\ over.io = g.io /\ over.facts = g.facts
      /\ over.at = IF q /\ Live(g) THEN "over" ELSE g.at
  <2>1. q \in BOOLEAN
    OBVIOUS
  <2> HIDE DEF q
  <2>. QED
    BY <1>3, <2>1, ControlIs
<1>6. Tables(over)
  BY <1>3, <1>5, AsWasTables
<1> HIDE DEF over
<1>7. Orthoed(over, o, i, ct)
  BY <1>6, OrthoIs
<1> HIDE DEF o
<1>8. /\ Tables(o) /\ i \in o.cset /\ o.con[i] = ct /\ i \notin o.rset
      /\ o.time = over.time /\ o.c = over.c /\ o.at = over.at /\ o.io = over.io
      /\ o.facts = over.facts /\ o.ok = over.ok /\ o.gpr = over.gpr
      /\ o.mset = over.mset \ {i}
      /\ \A k \in MRegs : o.mtov[k] = Held <=> over.mtov[k] = Held
  BY <1>7 DEF Orthoed
<1>9. /\ Tables(s) /\ Keeps(o, s) /\ s.mtov = o.mtov /\ s.ok = o.ok
      /\ s.gpr = IF Live(o) THEN [o.gpr EXCEPT ![i] = ct] ELSE o.gpr
  <2>1. Loose(s, {}) /\ Keeps(o, s) /\ s.mtov = o.mtov /\ s.ok = o.ok
    <3>1. Loose(o, {}) /\ i \in VRegs \ {}
      BY <1>8 DEF Tables
    <3>. QED
      BY <3>1, VflushIs
  <2>2. i \notin o.mset /\ DOMAIN o = Fields
    BY <1>8 DEF Tables, Loose, Typed
  <2>3. s = [SetGpr(o, i, ct) EXCEPT !.mset = @ \cup {i}]
    BY <1>8, <2>2 DEF ra_vflush, Deferred
  <2>4. s.gpr = IF Live(o) THEN [o.gpr EXCEPT ![i] = ct] ELSE o.gpr
    BY <2>2, <2>3 DEF SetGpr, Fields
  <2>. QED
    BY <2>1, <2>4 DEF Tables
<1> HIDE DEF s, io, jo
<1>10. /\ AsWas(s, true) /\ Tables(true) /\ true.c = s.c
       /\ Live(s) => true.at = "gone" /\ true.io = io /\ true.facts = zt
       /\ ~Live(s) => true = s
  BY <1>9, GoIs
<1> HIDE DEF true
<1>11. /\ AsWas(true, e) /\ e.c = true.c /\ e.io = true.io /\ e.facts = true.facts
       /\ e.at = IF true.at = "over" THEN true.c ELSE true.at
  <2>1. DOMAIN true = Fields
    BY <1>10 DEF AsWas
  <2>. QED
    BY <2>1 DEF EndOver, AsWas, Fields
<1>12. Tables(e)
  BY <1>10, <1>11, AsWasTables
<1> HIDE DEF e
<1>13. /\ AsWas(e, x) /\ Tables(x) /\ x.c = e.c
       /\ Live(e) => x.at = "gone" /\ x.io = jo /\ x.facts = zf
       /\ ~Live(e) => x = e
  BY <1>12, GoIs
<1> HIDE DEF x
<1>14. w.c = "inl" /\ g.c = "inl" /\ over.c = "inl" /\ o.c = "inl" /\ s.c = "inl"
       /\ true.c = "inl" /\ e.c = "inl" /\ x.c = "inl"
  <2>1. w.c = "inl" /\ g.c = w.c
    BY <1>2, <1>3 DEF Reads, Same, Keeps
  <2>2. over.c = g.c /\ o.c = over.c
    BY <1>3, <1>5, <1>8 DEF Reads, Same, Keeps
  <2>3. s.c = o.c
    BY <1>8, <1>9 DEF Reads, Same, Keeps
  <2>. QED
    BY <2>1, <2>2, <2>3, <1>10, <1>11, <1>13
<1>15. AsWas(s, x)
  BY <1>10, <1>11, <1>13 DEF AsWas
<1>16. Fits(w, x)
  <2>1. x.ok = w.ok /\ x.time = w.time /\ x.c = w.c
    <3>1. s.ok = w.ok /\ s.time = w.time
      BY <1>3, <1>5, <1>8, <1>9 DEF Reads, Same, Keeps, AsWas
    <3>. QED
      BY <1>14, <1>15, <3>1 DEF AsWas
  <2>2. \A k \in MRegs : x.mtov[k] = Held <=> w.mtov[k] = Held
    <3>1. \A k \in MRegs : s.mtov[k] = Held <=> w.mtov[k] = Held
      BY <1>3, <1>5, <1>8, <1>9 DEF Reads, Same, AsWas
    <3>. QED
      BY <1>15, <3>1 DEF AsWas
  <2>3. s.at \in Places \cup {"over"} /\ s.facts = w.facts
    BY <1>2, <1>3, <1>5, <1>8, <1>9 DEF Reads, Same, Keeps
  <2>4. true.at \in Places \cup {"over"} /\ true.facts \in {w.facts, zt}
    BY <1>10, <2>3 DEF Places
  <2>5. x.at \in Places
    BY <1>11, <1>13, <1>14, <2>4 DEF Places
  <2>6. x.facts \in {w.facts, zt, zf}
    BY <1>11, <1>13, <2>4
  <2>. QED
    BY <1>13, <2>1, <2>2, <2>5, <2>6 DEF Fits
<1>17. ASSUME Has(w, val), val[c] # 0
       PROVE  x.at = "gone" /\ x.gpr = [val EXCEPT ![i] = ct] /\ x.facts = zt /\ x.io = io
  <2>1. ~q /\ Live(g)
    BY <1>4, <1>17
  <2>2. Live(s) /\ s.gpr = [val EXCEPT ![i] = ct]
    <3>1. over.at = "inl" /\ Live(o)
      BY <1>5, <1>8, <1>14, <2>1 DEF Live
    <3>2. o.gpr = val
      BY <1>3, <1>4, <1>5, <1>8, <1>17 DEF AsWas
    <3>. QED
      BY <1>9, <1>14, <3>1, <3>2 DEF Live, Keeps
  <2>3. true.at = "gone" /\ true.io = io /\ true.facts = zt
    BY <1>10, <2>2
  <2>4. e.at = "gone" /\ e.io = io /\ e.facts = zt
    BY <1>11, <2>3
  <2>5. x = e
    BY <1>13, <1>14, <2>4 DEF Live
  <2>. QED
    BY <1>15, <2>2, <2>4, <2>5 DEF AsWas
<1>18. ASSUME Has(w, val), val[c] = 0
       PROVE  x.at = "gone" /\ x.gpr = val /\ x.facts = zf /\ x.io = jo
  <2>1. q /\ Live(g)
    BY <1>4, <1>18
  <2>2. ~Live(s) /\ s.gpr = val /\ s.at = "over"
    <3>1. over.at = "over" /\ ~Live(o)
      BY <1>5, <1>8, <1>14, <2>1 DEF Live
    <3>2. o.gpr = val
      BY <1>3, <1>4, <1>5, <1>8, <1>18 DEF AsWas
    <3>. QED
      BY <1>8, <1>9, <1>14, <3>1, <3>2 DEF Live, Keeps
  <2>3. true = s
    BY <1>10, <2>2
  <2>4. e.at = "inl" /\ Live(e)
    BY <1>11, <1>14, <2>2, <2>3 DEF Live
  <2>5. x.at = "gone" /\ x.io = jo /\ x.facts = zf
    BY <1>13, <2>4
  <2>. QED
    BY <1>15, <2>2, <2>5 DEF AsWas
<1>. QED
  BY <1>1, <1>16, <1>17, <1>18 DEF io, jo, Forks

\* What holds where a branch goes, which moved x to a.
Branched(w, a, c, x, nonzero) ==
  [z  |-> ((w.z \ {a}) \cup (IF x = 0 THEN {a} ELSE {})) \cup (IF nonzero THEN {} ELSE {c}),
   nz |-> ((w.nz \ {a}) \cup (IF x # 0 THEN {a} ELSE {})) \cup (IF nonzero THEN {c} ELSE {})]

\* What each exit of co_condbr is told is true if it is taken.
LEMMA BranchedIs ==
  ASSUME NEW w, Tables(w), NEW a \in VRegs, NEW c \in VRegs, a # c, NEW x \in Word,
         NEW nonzero \in BOOLEAN, NEW val
  PROVE  /\ Branched(w, a, c, x, nonzero) \in FactsType
         /\ Knows(w, val) /\ (nonzero <=> val[c] # 0) =>
              Told(Branched(w, a, c, x, nonzero), [val EXCEPT ![a] = x])
<1> DEFINE f == Branched(w, a, c, x, nonzero)
<1>1. w.z \subseteq VRegs /\ w.nz \subseteq VRegs
  BY DEF Tables, Loose, Typed
<1>2. /\ f.z = ((w.z \ {a}) \cup (IF x = 0 THEN {a} ELSE {})) \cup (IF nonzero THEN {} ELSE {c})
      /\ f.nz = ((w.nz \ {a}) \cup (IF x # 0 THEN {a} ELSE {})) \cup (IF nonzero THEN {c} ELSE {})
      /\ f = [z |-> f.z, nz |-> f.nz]
  BY DEF Branched
<1> HIDE DEF f
<1>3. f \in FactsType
  <2>1. f.z \in SUBSET VRegs /\ f.nz \in SUBSET VRegs
    BY <1>1, <1>2
  <2>. QED
    BY <1>2, <2>1 DEF FactsType
<1>4. ASSUME Knows(w, val), nonzero <=> val[c] # 0
      PROVE  Told(f, [val EXCEPT ![a] = x])
  <2> DEFINE new == [val EXCEPT ![a] = x]
  <2>1. new[a] = x /\ \A v \in VRegs \ {a} : new[v] = val[v]
    BY <1>4 DEF Knows, Has
  <2> HIDE DEF new
  <2>2. \A v \in f.z : new[v] = 0
    BY <1>1, <1>2, <1>4, <2>1 DEF Knows, Told
  <2>3. \A v \in f.nz : new[v] # 0
    BY <1>1, <1>2, <1>4, <2>1 DEF Knows, Told
  <2>. QED
    BY <2>2, <2>3 DEF Told, new
<1>. QED
  BY <1>3, <1>4 DEF f

\* The branch idiom: control is gone where the move and the load send it.
LEMMA BranchIs ==
  ASSUME NEW w, Ready(w), NEW a \in w.cset, NEW b \in w.cset, NEW c \in VRegs, a # c,
         NEW zero \in w.z, NEW val
  PROVE  LET x == co_condbr(ra_vflushall(w), c, a, w.con[b], w.con[a],
                            Branched(w, a, c, w.con[b], TRUE), Branched(w, a, c, w.con[a], FALSE))
             d == IF val[c] # 0 THEN val[b] ELSE val[a]
         IN  /\ Fits(w, x)
             /\ Knows(w, val) => Gone(x, [val EXCEPT ![a] = d], Loads(val[zero], d))
<1> DEFINE f  == ra_vflushall(w)
           ct == w.con[b]
           cf == w.con[a]
           zt == Branched(w, a, c, ct, TRUE)
           zf == Branched(w, a, c, cf, FALSE)
           x  == co_condbr(f, c, a, ct, cf, zt, zf)
           d  == IF val[c] # 0 THEN val[b] ELSE val[a]
           new == [val EXCEPT ![a] = d]
<1>1. /\ Tables(w) /\ a \in VRegs /\ b \in VRegs /\ ct \in Word /\ cf \in Word
  BY ReadyTables
<1>2. Knows(w, val) => /\ ct = val[b] /\ cf = val[a] /\ val[zero] = 0
                       /\ val \in [VRegs -> Word]
  BY <1>1 DEF Knows, Has, Holds, Told
<1>3. zt \in FactsType /\ (Knows(w, val) /\ val[c] # 0 => Told(zt, [val EXCEPT ![a] = ct]))
  <2> DEFINE on == TRUE
  <2>1. on \in BOOLEAN /\ on
    OBVIOUS
  <2> HIDE DEF on, ct
  <2>2. Branched(w, a, c, ct, on) \in FactsType
    BY <1>1, <2>1, BranchedIs
  <2>3. Knows(w, val) /\ val[c] # 0 => Told(Branched(w, a, c, ct, on), [val EXCEPT ![a] = ct])
    BY <1>1, <2>1, BranchedIs
  <2>. QED
    BY <2>2, <2>3 DEF on
<1>4. zf \in FactsType /\ (Knows(w, val) /\ val[c] = 0 => Told(zf, [val EXCEPT ![a] = cf]))
  <2> DEFINE on == FALSE
  <2>1. on \in BOOLEAN /\ ~on
    OBVIOUS
  <2> HIDE DEF on, cf
  <2>2. Branched(w, a, c, cf, on) \in FactsType
    BY <1>1, <2>1, BranchedIs
  <2>3. Knows(w, val) /\ val[c] = 0 => Told(Branched(w, a, c, cf, on), [val EXCEPT ![a] = cf])
    BY <1>1, <2>1, BranchedIs
  <2>. QED
    BY <2>2, <2>3 DEF on
<1> HIDE DEF zt, zf, ct, cf
<1>5. /\ Flushed(f) /\ Ready(f) /\ Same(w, f) /\ (Knows(w, val) => Knows(f, val))
  BY FlushedIs
<1> HIDE DEF f
<1>6. /\ Fits(f, x)
      /\ Has(f, val) => x.at = "gone"
      /\ Has(f, val) /\ val[c] # 0 =>
           x.gpr = [val EXCEPT ![a] = ct] /\ x.facts = zt /\ x.io = Loads(0, ct)
      /\ Has(f, val) /\ val[c] = 0 =>
           x.gpr = val /\ x.facts = zf /\ x.io = Loads(0, cf)
  <2>1. Busy(f) = {}
    BY <1>5 DEF Ready
  <2>2. Forks(f, x, c, a, ct, cf, zt, zf, val)
    BY <1>1, <1>3, <1>4, <1>5, <2>1, CondbrIs
  <2> HIDE DEF x
  <2>. QED
    BY <2>2 DEF Forks
<1> HIDE DEF x
<1>7. Fits(w, x)
  BY <1>5, <1>6 DEF Fits, Same
<1>8. ASSUME Knows(w, val) PROVE Gone(x, new, Loads(val[zero], d))
  <2>1. Has(f, val)
    BY <1>5, <1>8 DEF Knows
  <2>2. CASE val[c] # 0
    <3>1. d = ct /\ val[zero] = 0
      BY <1>2, <1>8, <2>2
    <3> HIDE DEF d
    <3>. QED
      BY <1>3, <1>6, <1>8, <2>1, <2>2, <3>1 DEF Gone
  <2>3. CASE val[c] = 0
    <3>1. d = cf /\ val[zero] = 0 /\ val = [val EXCEPT ![a] = cf]
      BY <1>1, <1>2, <1>8, <2>3
    <3> HIDE DEF d
    <3>. QED
      BY <1>4, <1>6, <1>8, <2>1, <2>3, <3>1 DEF Gone
  <2>. QED
    BY <2>2, <2>3
<1>. QED
  BY <1>7, <1>8 DEF x, f, ct, cf, zt, zf

\* The end of the program.
LEMMA HaltIs ==
  ASSUME NEW w, Ready(w), NEW val
  PROVE  LET x == Jump(Do(ra_vflushall(w), [op |-> "halt"]), "halted")
         IN  /\ Fits(w, x)
             /\ Knows(w, val) => x.at = "halted" /\ x.gpr = val /\ x.io = [op |-> "halt"]
<1> DEFINE f == ra_vflushall(w)
           io == [op |-> "halt"]
           d == Do(f, io)
           x == Jump(d, "halted")
<1>1. /\ Flushed(f) /\ Same(w, f) /\ f.at = w.at
      /\ Knows(w, val) => Knows(f, val) /\ f.gpr = val
  BY FlushedIs
<1> HIDE DEF f, io
<1>2. Tables(f) /\ f.at \in Places
  BY <1>1 DEF Flushed
<1>3. Acts(f, d) /\ (Live(f) => d.io = io) /\ d.gpr = f.gpr
  BY <1>2, DoIs
<1> HIDE DEF d
<1>4. /\ AsWas(d, x) /\ x.c = d.c /\ x.io = d.io /\ x.facts = d.facts
      /\ x.at = IF Live(d) THEN "halted" ELSE d.at
  <2>1. DOMAIN d = Fields
    BY <1>3 DEF Acts, Same, Tables, Loose, Typed
  <2>. QED
    BY <2>1 DEF Jump, AsWas, Fields
<1> HIDE DEF x
<1>5. Tables(x)
  BY <1>3, <1>4, AsWasTables DEF Acts, Same
<1>6. Fits(w, x)
  <2>1. /\ x.ok = w.ok /\ x.time = w.time /\ x.c = w.c /\ x.facts = w.facts
        /\ \A k \in MRegs : x.mtov[k] = Held <=> w.mtov[k] = Held
    BY <1>1, <1>3, <1>4 DEF Acts, Same, AsWas
  <2>2. x.at \in Places
    BY <1>2, <1>3, <1>4 DEF Acts, Places
  <2>. QED
    BY <1>5, <2>1, <2>2 DEF Fits
<1>7. ASSUME Knows(w, val) PROVE x.at = "halted" /\ x.gpr = val /\ x.io = io
  <2>1. Live(f) /\ Live(d)
    BY <1>1, <1>3, <1>7 DEF Knows, Has, Acts, Same, Live
  <2>. QED
    BY <1>1, <1>3, <1>4, <1>7, <2>1 DEF AsWas
<1>. QED
  BY <1>6, <1>7 DEF x, d, f, io

\* Leaving at a platter that is execute-protected.
LEMMA NoexIs ==
  ASSUME NEW w, Ready(w), NEW val
  PROVE  LET f == ra_vflushall(w)
             x == Go(f, w.io, Facts(f))
         IN  /\ Fits(w, x)
             /\ Knows(w, val) => Gone(x, val, w.io)
<1> DEFINE f == ra_vflushall(w)
           t == Facts(f)
           io == w.io
           x == Go(f, io, t)
<1>1. /\ Flushed(f) /\ Same(w, f) /\ f.at = w.at
      /\ Knows(w, val) => Knows(f, val) /\ f.gpr = val
  BY FlushedIs
<1> HIDE DEF f
<1>2. Tables(f) /\ f.at \in Places
  BY <1>1 DEF Flushed
<1>3. t \in FactsType /\ (Knows(f, val) => Told(t, val))
  <2>1. t = [z |-> f.z, nz |-> f.nz]
    BY DEF Facts
  <2>2. f.z \in SUBSET VRegs /\ f.nz \in SUBSET VRegs
    BY <1>2 DEF Tables, Loose, Typed
  <2> HIDE DEF t
  <2>. QED
    BY <2>1, <2>2 DEF Knows, FactsType
<1> HIDE DEF t, io
<1>4. /\ AsWas(f, x) /\ Tables(x) /\ x.c = f.c
      /\ Live(f) => x.at = "gone" /\ x.io = io /\ x.facts = t
      /\ ~Live(f) => x = f
  BY <1>2, GoIs
<1> HIDE DEF x
<1>5. Fits(w, x)
  <2>1. /\ x.ok = w.ok /\ x.time = w.time /\ x.c = w.c
        /\ \A k \in MRegs : x.mtov[k] = Held <=> w.mtov[k] = Held
    BY <1>1, <1>4 DEF Same, AsWas
  <2>2. x.at \in Places /\ (x.facts = w.facts \/ x.facts \in FactsType)
    BY <1>1, <1>2, <1>3, <1>4 DEF Same, Places
  <2>. QED
    BY <1>4, <2>1, <2>2 DEF Fits
<1>6. ASSUME Knows(w, val) PROVE Gone(x, val, io)
  <2>1. Live(f)
    BY <1>1, <1>6 DEF Knows, Has
  <2>. QED
    BY <1>1, <1>3, <1>4, <1>6, <2>1 DEF Gone, AsWas
<1>. QED
  BY <1>5, <1>6 DEF x, f, io, t

-----------------------------------------------------------------------------
(* From one platter to the next *)

\* What holds between platters, whatever the program.
Whole(w) ==
  /\ Tables(w) /\ w.ok /\ w.c = "inl" /\ w.at \in Places /\ w.facts \in FactsType
  /\ w.time \in 0 .. MaxBlk
  /\ \A k \in MRegs : w.mtov[k] # Held
  /\ w.at \in {"inl", "outl"} => Busy(w) = {}

\* The values of the vregs, for any state: Current is that of jit.
Cur(w, v) ==
  IF w.at \in {"gone", "halted"} THEN w.gpr[v]
  ELSE IF v \in w.rset THEN Reg(w, v)
  ELSE IF v \in w.mset THEN w.gpr[v] ELSE w.con[v]

Vals(w) == [v \in VRegs |-> Cur(w, v)]

\* What holds between platters of a program that always stays inline.
Good(w) == Passed(w, Vals(w))

\* Values that have passed are those the vregs have.
LEMMA PassedVals ==
  ASSUME NEW w, Tables(w), NEW val, Passed(w, val)
  PROVE  val = Vals(w) /\ Good(w)
<1>1. val \in [VRegs -> Word]
  BY DEF Passed
<1>2. ASSUME NEW v \in VRegs PROVE Cur(w, v) = val[v]
  <2>1. CASE w.at = "inl" /\ Knows(w, val)
    <3>1. Holds(w, v, val[v])
      BY <2>1 DEF Knows, Has
    <3>2. v \in w.rset \cup w.mset \cup w.cset
      BY DEF Tables, Loose, Somewhere
    <3>. QED
      BY <2>1, <3>1, <3>2 DEF Cur, Holds
  <2>2. CASE w.at \in {"gone", "halted"} /\ w.gpr = val
    BY <2>2 DEF Cur
  <2>. QED
    BY <2>1, <2>2 DEF Passed
<1>3. val = Vals(w)
  BY <1>1, <1>2 DEF Vals
<1>. QED
  BY <1>3 DEF Good

\* All but the time is as it was.
LEMMA LaterIs ==
  ASSUME NEW x, Tables(x), NEW n \in Nat \ {0}
  PROVE  LET y == [x EXCEPT !.time = @ + n]
         IN  /\ Tables(y) /\ y.time = x.time + n /\ y.at = x.at /\ y.c = x.c /\ y.io = x.io
             /\ y.facts = x.facts /\ y.ok = x.ok /\ y.mtov = x.mtov
             /\ (\A k \in MRegs : x.mtov[k] # Held) => Busy(y) = {}
             /\ \A val : Passed(x, val) => Passed(y, val)
<1> DEFINE y == [x EXCEPT !.time = @ + n]
<1>1. Typed(x) /\ Mirrored(x, {}) /\ Somewhere(x, {})
  BY DEF Tables, Loose
<1>2. /\ DOMAIN y = Fields
      /\ y.con = x.con /\ y.cset = x.cset /\ y.z = x.z /\ y.nz = x.nz /\ y.rset = x.rset
      /\ y.vtom = x.vtom /\ y.mset = x.mset /\ y.mtov = x.mtov /\ y.mlru = x.mlru
      /\ y.time = x.time + n /\ y.m = x.m /\ y.gpr = x.gpr /\ y.ok = x.ok
      /\ y.c = x.c /\ y.at = x.at /\ y.io = x.io /\ y.facts = x.facts
  BY <1>1 DEF Typed, Fields
<1> HIDE DEF y
<1>3. y.time \in Nat /\ \A m \in MRegs : y.mlru[m] < y.time
  <2>1. x.time \in Nat /\ \A m \in MRegs : x.mlru[m] \in Nat /\ x.mlru[m] <= x.time
    BY <1>1 DEF Typed
  <2>. QED
    BY <1>2, <2>1
<1>4. Typed(y)
  <2>1. \A m \in MRegs : y.mlru[m] <= y.time
    <3>1. \A m \in MRegs : y.mlru[m] \in Nat
      BY <1>1, <1>2 DEF Typed
    <3>. QED
      BY <1>3, <3>1
  <2>. QED
    BY <1>1, <1>2, <1>3, <2>1 DEF Typed
<1>5. Tables(y)
  BY <1>1, <1>2, <1>4 DEF Tables, Loose, Mirrored, Somewhere
<1>6. (\A k \in MRegs : x.mtov[k] # Held) => Busy(y) = {}
  <2>1. \A m \in MRegs : y.mlru[m] # y.time
    <3>1. \A m \in MRegs : y.mlru[m] \in Nat
      BY <1>4 DEF Typed
    <3>. QED
      BY <1>3, <3>1
  <2>. QED
    BY <1>2, <2>1 DEF Busy
<1>7. \A val : Passed(x, val) => Passed(y, val)
  BY <1>2 DEF Passed, Knows, Has, Holds, Live, Reg
<1>. QED
  BY <1>2, <1>5, <1>6, <1>7 DEF y

\* Before a platter, what is known is known to its compiler.
LEMMA CompilerIs ==
  ASSUME Whole(jit), jit.at \in {"inl", "outl"}
  PROVE  /\ Ready(Compiler) /\ Compiler.io = Nothing /\ Compiler.time = jit.time
         /\ Compiler.ok /\ Compiler.facts \in FactsType
         /\ \A k \in MRegs : Compiler.mtov[k] # Held
         /\ Compiler.cset = jit.cset /\ Compiler.con = jit.con
         /\ Compiler.z = jit.z /\ Compiler.nz = jit.nz
         /\ Good(jit) => jit.at = "inl" /\ Knows(Compiler, Vals(jit))
<1> DEFINE w == Compiler
<1>1. Tables(jit) /\ DOMAIN jit = Fields
  BY DEF Whole, Tables, Loose, Typed
<1>2. AsWas(jit, w) /\ w.c = jit.c /\ w.at = jit.at /\ w.io = Nothing /\ w.facts = jit.facts
  BY <1>1 DEF AsWas, Fields, Compiler
<1> HIDE DEF w
<1>3. /\ Tables(w) /\ Busy(w) = Busy(jit)
      /\ \A v, val : Holds(w, v, val) <=> Holds(jit, v, val)
  BY <1>1, <1>2, AsWasTables
<1>4. Ready(w)
  BY <1>2, <1>3 DEF Ready, Whole
<1>5. ASSUME Good(jit) PROVE jit.at = "inl" /\ Knows(w, Vals(jit))
  <2>1. jit.at = "inl" /\ Knows(jit, Vals(jit))
    BY <1>5 DEF Good, Passed
  <2>2. Has(w, Vals(jit))
    BY <1>2, <1>3, <2>1 DEF Knows, Has, Live
  <2>3. w.z = jit.z /\ w.nz = jit.nz
    BY <1>2 DEF AsWas
  <2>. QED
    BY <2>1, <2>2, <2>3 DEF Knows
<1>. QED
  BY <1>2, <1>4, <1>5 DEF AsWas, Whole, w

\* On to the next platter.
LEMMA GoonIs ==
  ASSUME Whole(jit), jit.at \in {"inl", "outl"}, NEW x, Fits(Compiler, x),
         NEW n \in Nat \ {0}, jit.time + n <= MaxBlk, Goon(x, n)
  PROVE  /\ Whole(jit') /\ jit'.io = x.io
         /\ \A val : Passed(x, val) => Good(jit') /\ Vals(jit') = val
<1> DEFINE y == [x EXCEPT !.time = @ + n]
<1>1. jit' = y
  BY DEF Goon
<1>2. /\ Compiler.time = jit.time /\ Compiler.ok /\ Compiler.facts \in FactsType
      /\ Compiler.c = "inl" /\ \A k \in MRegs : Compiler.mtov[k] # Held
  BY CompilerIs, ReadyTables
<1>3. /\ Tables(x) /\ x.ok /\ x.c = "inl" /\ x.at \in Places /\ x.facts \in FactsType
      /\ x.time = jit.time /\ \A k \in MRegs : x.mtov[k] # Held
  BY <1>2 DEF Fits
<1>4. /\ Tables(y) /\ y.time = x.time + n /\ y.at = x.at /\ y.c = x.c /\ y.io = x.io
      /\ y.facts = x.facts /\ y.ok = x.ok /\ y.mtov = x.mtov
      /\ Busy(y) = {} /\ \A val : Passed(x, val) => Passed(y, val)
  BY <1>3, LaterIs, ZenonT(60)
<1> HIDE DEF y
<1>5. y.time \in 0 .. MaxBlk
  <2>1. jit.time \in 0 .. MaxBlk
    BY DEF Whole
  <2>. QED
    BY <1>3, <1>4, <2>1, CodegenAssumption
<1>6. Whole(y)
  BY <1>3, <1>4, <1>5 DEF Whole
<1>7. \A val : Passed(x, val) => Good(y) /\ Vals(y) = val
  BY <1>4, PassedVals
<1>. QED
  BY <1>1, <1>4, <1>6, <1>7

\* The end of a block that control has left.
LEMMA EndIs ==
  ASSUME Whole(jit), jit.at \in {"inl", "outl"}, NEW x, Fits(Compiler, x), End(x)
  PROVE  /\ Whole(jit') /\ jit'.io = x.io
         /\ \A val \in [VRegs -> Word] :
              x.at = "halted" /\ x.gpr = val => Good(jit') /\ Vals(jit') = val
         /\ \A val \in [VRegs -> Word] : \A io :
              Gone(x, val, io) => Good(jit') /\ Vals(jit') = val
<1> DEFINE y == [x EXCEPT !.at = IF @ \in {"gone", "halted"} THEN @ ELSE "lost"]
<1>1. jit' = y
  BY DEF End
<1>2. /\ Compiler.time = jit.time /\ Compiler.ok /\ Compiler.facts \in FactsType
      /\ Compiler.c = "inl" /\ \A k \in MRegs : Compiler.mtov[k] # Held
  BY CompilerIs, ReadyTables
<1>3. /\ Tables(x) /\ x.ok /\ x.c = "inl" /\ x.facts \in FactsType
      /\ x.time = jit.time /\ \A k \in MRegs : x.mtov[k] # Held
  BY <1>2 DEF Fits
<1>4. /\ AsWas(x, y) /\ y.c = x.c /\ y.io = x.io /\ y.facts = x.facts
      /\ y.at = IF x.at \in {"gone", "halted"} THEN x.at ELSE "lost"
  <2>1. DOMAIN x = Fields
    BY <1>3 DEF Tables, Loose, Typed
  <2>. QED
    BY <2>1 DEF AsWas, Fields
<1> HIDE DEF y
<1>5. Tables(y)
  BY <1>3, <1>4, AsWasTables
<1>6. Whole(y)
  <2>1. y.at \in Places /\ y.at \notin {"inl", "outl"}
    BY <1>4 DEF Places
  <2>2. y.time \in 0 .. MaxBlk
    BY <1>3, <1>4 DEF AsWas, Whole
  <2>3. y.ok /\ y.c = "inl" /\ y.facts \in FactsType /\ \A k \in MRegs : y.mtov[k] # Held
    BY <1>3, <1>4 DEF AsWas
  <2>. QED
    BY <1>5, <2>1, <2>2, <2>3 DEF Whole
<1>7. ASSUME NEW val \in [VRegs -> Word], x.at = "halted", x.gpr = val
      PROVE  Good(y) /\ Vals(y) = val
  <2>1. Passed(y, val)
    BY <1>4, <1>7 DEF AsWas, Passed
  <2>. QED
    BY <1>5, <2>1, PassedVals
<1>8. ASSUME NEW val \in [VRegs -> Word], NEW io, Gone(x, val, io)
      PROVE  Good(y) /\ Vals(y) = val
  <2>1. Passed(y, val)
    BY <1>4, <1>8 DEF AsWas, Passed, Gone
  <2>. QED
    BY <1>5, <2>1, PassedVals
<1>. QED
  BY <1>1, <1>4, <1>6, <1>7, <1>8

\* A block begins with all vregs in memory.
LEMMA FreshIs ==
  ASSUME NEW w, Tables(w), NEW facts \in FactsType
  PROVE  LET x == Fresh(w, facts)
         IN  /\ Tables(x) /\ x.ok = w.ok /\ x.c = "inl" /\ x.at = w.at /\ x.facts = w.facts
             /\ x.io = w.io /\ x.gpr = w.gpr /\ x.time = 0 /\ Busy(x) = {}
             /\ \A k \in MRegs : x.mtov[k] # Held
             /\ \A val \in [VRegs -> Word] : /\ w.gpr = val /\ Told(facts, val)
                                             => \A y : /\ AsWas(x, y) /\ y.at = "inl" /\ y.c = "inl"
                                                       => Passed(y, val)
<1> DEFINE x == Fresh(w, facts)
<1>1. DOMAIN w = Fields /\ Typed(w) /\ facts.z \subseteq VRegs /\ facts.nz \subseteq VRegs
  BY DEF Tables, Loose, Typed, FactsType
<1>2. /\ DOMAIN x = Fields
      /\ x.con = [v \in VRegs |-> 0] /\ x.cset = facts.z /\ x.z = facts.z /\ x.nz = facts.nz
      /\ x.rset = {} /\ x.vtom = [v \in VRegs |-> Free] /\ x.mset = VRegs
      /\ x.mtov = [m \in MRegs |-> Free] /\ x.mlru = [m \in MRegs |-> 0]
      /\ x.time = 0 /\ x.c = "inl" /\ x.at = w.at /\ x.m = w.m /\ x.gpr = w.gpr
      /\ x.ok = w.ok /\ x.io = w.io /\ x.facts = w.facts
  BY <1>1 DEF Fresh, Fields
<1> HIDE DEF x
<1>3. Tables(x)
  <2>1. Typed(x)
    <3>1. x.con \in [VRegs -> Word] /\ x.gpr \in [VRegs -> Word] /\ x.m \in [MRegs -> Word]
      BY <1>1, <1>2, ModulusType DEF Typed
    <3>2. x.mlru \in [MRegs -> Nat] /\ \A m \in MRegs : x.mlru[m] <= x.time
      BY <1>2
    <3>. QED
      BY <1>1, <1>2, <3>1, <3>2 DEF Typed
  <2>2. Mirrored(x, {}) /\ Somewhere(x, {})
    BY <1>2, Names DEF Mirrored, Somewhere
  <2>. QED
    BY <2>1, <2>2 DEF Tables, Loose
<1>4. Busy(x) = {} /\ \A k \in MRegs : x.mtov[k] # Held
  BY <1>2, Names DEF Busy
<1>5. ASSUME NEW val \in [VRegs -> Word], w.gpr = val, Told(facts, val),
             NEW y, AsWas(x, y), y.at = "inl", y.c = "inl"
      PROVE  Passed(y, val)
  <2>1. /\ y.rset = {} /\ y.gpr = val /\ y.cset = facts.z /\ y.z = facts.z /\ y.nz = facts.nz
        /\ y.con = [v \in VRegs |-> 0]
    BY <1>2, <1>5 DEF AsWas
  <2>2. \A v \in VRegs : Holds(y, v, val[v])
    BY <1>5, <2>1 DEF Holds, Told
  <2>3. Told([z |-> y.z, nz |-> y.nz], val)
    BY <1>5, <2>1 DEF Told
  <2>. QED
    BY <1>5, <2>2, <2>3 DEF Passed, Knows, Has, Live
<1>. QED
  BY <1>2, <1>3, <1>4, <1>5 DEF x

\* The first block begins right.
LEMMA InitIs ==
  ASSUME Init
  PROVE  Whole(jit) /\ Good(jit) /\ Vals(jit) = [v \in VRegs |-> 0]
<1>1. /\ DOMAIN jit = Fields
      /\ jit.con = [v \in VRegs |-> 0] /\ jit.cset = VRegs /\ jit.z = VRegs /\ jit.nz = {}
      /\ jit.rset = {} /\ jit.vtom = [v \in VRegs |-> Free] /\ jit.mset = VRegs
      /\ jit.mtov = [m \in MRegs |-> Free] /\ jit.mlru = [m \in MRegs |-> 0]
      /\ jit.time = 0 /\ jit.c = "inl" /\ jit.at = "inl" /\ jit.m = [m \in MRegs |-> 0]
      /\ jit.gpr = [v \in VRegs |-> 0] /\ jit.ok = TRUE /\ jit.facts = Unknown
  BY DEF Init, Fields
<1> DEFINE val == [v \in VRegs |-> 0]
<1>2. val \in [VRegs -> Word]
  BY ModulusType
<1>3. Tables(jit)
  <2>1. Typed(jit)
    <3>1. jit.m \in [MRegs -> Word] /\ jit.con \in [VRegs -> Word] /\ jit.gpr \in [VRegs -> Word]
      BY <1>1, ModulusType
    <3>2. jit.time \in Nat /\ jit.mlru \in [MRegs -> Nat] /\ \A m \in MRegs : jit.mlru[m] <= jit.time
      BY <1>1
    <3>3. /\ jit.vtom \in [VRegs -> MRegs \cup {Free}]
          /\ jit.mtov \in [MRegs -> VRegs \cup {Free, Held}]
      BY <1>1
    <3>4. /\ jit.cset \subseteq VRegs /\ jit.z \subseteq VRegs /\ jit.nz \subseteq VRegs
          /\ jit.rset \subseteq VRegs /\ jit.mset \subseteq VRegs /\ jit.ok \in BOOLEAN
      BY <1>1
    <3>. QED
      BY <1>1, <3>1, <3>2, <3>3, <3>4 DEF Typed
  <2>2. Mirrored(jit, {}) /\ Somewhere(jit, {})
    BY <1>1, Names DEF Mirrored, Somewhere
  <2>. QED
    BY <2>1, <2>2 DEF Tables, Loose
<1>4. Whole(jit)
  <2>1. jit.facts \in FactsType
    BY <1>1 DEF Unknown, FactsType
  <2>2. Busy(jit) = {} /\ \A k \in MRegs : jit.mtov[k] # Held
    BY <1>1, Names DEF Busy
  <2>. QED
    BY <1>1, <1>3, <2>1, <2>2, CodegenAssumption DEF Whole, Places
<1>5. Passed(jit, val)
  <2>1. \A v \in VRegs : Holds(jit, v, val[v])
    BY <1>1 DEF Holds
  <2>2. Told([z |-> jit.z, nz |-> jit.nz], val)
    BY <1>1 DEF Told
  <2>. QED
    BY <1>1, <1>2, <2>1, <2>2 DEF Passed, Knows, Has, Live
<1>. QED
  BY <1>3, <1>4, <1>5, PassedVals

\* So does one that follows another.
LEMMA FallIs ==
  ASSUME Whole(jit), CompileFall
  PROVE  Whole(jit') /\ (Good(jit) => Good(jit') /\ Vals(jit') = Vals(jit) /\ jit'.io = jit.io)
<1> DEFINE f == ra_vflushall(jit)
           facts == Facts(jit)
           x == Fresh(f, facts)
           val == Vals(jit)
<1>1. jit' = x /\ jit.at \in {"inl", "outl"}
  BY DEF CompileFall
<1>2. Ready(jit)
  BY <1>1 DEF Whole, Ready
<1>3. /\ Flushed(f) /\ Same(jit, f) /\ f.at = jit.at /\ f.io = jit.io
      /\ Knows(jit, val) => Knows(f, val) /\ f.gpr = val
  <2> HIDE DEF val
  <2>. QED
    BY <1>2, FlushedIs
<1> HIDE DEF f
<1>4. facts \in FactsType /\ facts = [z |-> jit.z, nz |-> jit.nz]
  <2>1. jit.z \in SUBSET VRegs /\ jit.nz \in SUBSET VRegs
    BY <1>2 DEF Ready, Tables, Loose, Typed
  <2>. QED
    BY <2>1 DEF Facts, FactsType
<1> HIDE DEF facts
<1>5. /\ Tables(x) /\ x.ok = f.ok /\ x.c = "inl" /\ x.at = f.at /\ x.facts = f.facts
      /\ x.io = f.io /\ x.gpr = f.gpr /\ x.time = 0 /\ Busy(x) = {}
      /\ \A k \in MRegs : x.mtov[k] # Held
  BY <1>3, <1>4, FreshIs DEF Flushed
<1>6. \A o \in [VRegs -> Word] : f.gpr = o /\ Told(facts, o) =>
        \A y : AsWas(x, y) /\ y.at = "inl" /\ y.c = "inl" => Passed(y, o)
  BY <1>3, <1>4, FreshIs DEF Flushed
<1> HIDE DEF x
<1>7. Whole(x)
  BY <1>1, <1>3, <1>5, CodegenAssumption DEF Same, Whole
<1>8. ASSUME Good(jit) PROVE Good(x) /\ Vals(x) = val /\ x.io = jit.io
  <2>1. Passed(jit, val)
    BY <1>8 DEF Good
  <2> HIDE DEF val
  <2>2. jit.at = "inl" /\ Knows(jit, val) /\ val \in [VRegs -> Word]
    BY <1>1, <2>1 DEF Passed
  <2>3. Told(facts, val)
    BY <1>4, <2>2 DEF Knows
  <2>4. AsWas(x, x)
    BY <1>5 DEF AsWas, Tables, Loose, Typed
  <2>5. Passed(x, val)
    BY <1>3, <1>5, <1>6, <2>2, <2>3, <2>4
  <2>. QED
    BY <1>3, <1>5, <2>5, PassedVals
<1>. QED
  BY <1>1, <1>7, <1>8 DEF val

\* And one that control comes to from elsewhere.
LEMMA EnterIs ==
  ASSUME Whole(jit), Enter
  PROVE  Whole(jit') /\ (Good(jit) => Good(jit') /\ Vals(jit') = Vals(jit) /\ jit'.io = jit.io)
<1>1. PICK z \in SUBSET jit.facts.z, nz \in SUBSET jit.facts.nz :
        jit' = [Fresh(jit, [z |-> z, nz |-> nz]) EXCEPT !.at = "inl", !.facts = Unknown]
  BY DEF Enter
<1> DEFINE facts == [z |-> z, nz |-> nz]
           f == Fresh(jit, facts)
           x == [f EXCEPT !.at = "inl", !.facts = Unknown]
           val == Vals(jit)
<1>2. jit.at = "gone" /\ Tables(jit) /\ jit.facts \in FactsType /\ jit' = x
  BY <1>1 DEF Enter, Whole
<1>3. facts \in FactsType /\ facts.z \subseteq jit.facts.z /\ facts.nz \subseteq jit.facts.nz
  BY <1>1, <1>2 DEF FactsType
<1> HIDE DEF facts
<1>4. /\ Tables(f) /\ f.ok = jit.ok /\ f.c = "inl"
      /\ f.io = jit.io /\ f.gpr = jit.gpr /\ f.time = 0 /\ Busy(f) = {}
      /\ \A k \in MRegs : f.mtov[k] # Held
  BY <1>2, <1>3, FreshIs
<1>5. \A o \in [VRegs -> Word] : jit.gpr = o /\ Told(facts, o) =>
        \A y : AsWas(f, y) /\ y.at = "inl" /\ y.c = "inl" => Passed(y, o)
  BY <1>2, <1>3, FreshIs
<1> HIDE DEF f
<1>6. AsWas(f, x) /\ x.at = "inl" /\ x.c = f.c /\ x.io = f.io /\ x.facts = Unknown
  <2>1. DOMAIN f = Fields
    BY <1>4 DEF Tables, Loose, Typed
  <2>. QED
    BY <2>1 DEF AsWas, Fields
<1> HIDE DEF x
<1>7. Tables(x) /\ Busy(x) = {}
  BY <1>4, <1>6, AsWasTables
<1>8. Whole(x)
  <2>1. x.facts \in FactsType /\ x.at \in Places
    BY <1>6 DEF Unknown, FactsType, Places
  <2>2. x.time \in 0 .. MaxBlk /\ x.ok /\ x.c = "inl" /\ \A k \in MRegs : x.mtov[k] # Held
    BY <1>4, <1>6, CodegenAssumption DEF AsWas, Whole
  <2>. QED
    BY <1>7, <2>1, <2>2 DEF Whole
<1>9. ASSUME Good(jit) PROVE Good(x) /\ Vals(x) = val /\ x.io = jit.io
  <2>1. Passed(jit, val)
    BY <1>9 DEF Good
  <2> HIDE DEF val
  <2>2. jit.gpr = val /\ Told(jit.facts, val) /\ val \in [VRegs -> Word]
    BY <1>2, <2>1 DEF Passed
  <2>3. Told(facts, val)
    BY <1>3, <2>2 DEF Told
  <2>4. Passed(x, val)
    BY <1>4, <1>5, <1>6, <2>2, <2>3
  <2>. QED
    BY <1>4, <1>6, <1>7, <2>4, PassedVals
<1>. QED
  BY <1>2, <1>8, <1>9 DEF val

-----------------------------------------------------------------------------
(* Each action is a step of the Universal Machine *)

\* UMachine has the same words.
LEMMA UMWords ==
  /\ UM!Word = Word
  /\ \A x, y : /\ UM!Add(x, y) = Add(x, y) /\ UM!Mul(x, y) = Mul(x, y)
               /\ UM!Div(x, y) = Div(x, y) /\ UM!And(x, y) = And(x, y)
  /\ \A x : UM!Not(x) = Not(x)
<1>1. UM!Pow2 = Pow2
  BY Zenon DEF UM!Pow2, Pow2
<1>2. UM!Modulus = Modulus
  BY <1>1 DEF UM!Modulus, Modulus
<1>3. \A x : UM!Bits(x) = Bits(x)
  BY <1>1 DEF UM!Bits, Bits
<1>4. \A S : UM!LowBits(S) = LowBits(S)
  BY <1>1, Zenon DEF UM!LowBits, LowBits
<1>5. \A x, y : UM!And(x, y) = And(x, y)
  BY <1>3, <1>4 DEF UM!And, And
<1>6. \A x, y : UM!Add(x, y) = Add(x, y) /\ UM!Mul(x, y) = Mul(x, y) /\ UM!Div(x, y) = Div(x, y)
  BY <1>2 DEF UM!Add, Add, UM!Mul, Mul, UM!Div, Div
<1>7. UM!Word = Word /\ \A x : UM!Not(x) = Not(x)
  BY <1>2 DEF UM!Word, Word, UM!Not, Not
<1>. QED
  BY <1>5, <1>6, <1>7

\* The refinement mapping.
LEMMA Mapped ==
  /\ [v \in VRegs |-> Current(v)] = Vals(jit)
  /\ [v \in VRegs |-> Current(v)]' = Vals(jit')
  /\ \A v \in VRegs : Current(v) = Vals(jit)[v]
  /\ UM!Nothing = Nothing
<1>1. [v \in VRegs |-> Current(v)] = Vals(jit)
  BY DEF Vals, Cur, Current
<1>2. [v \in VRegs |-> Current(v)]' = Vals(jit')
  BY DEF Vals, Cur, Current, Reg
<1>3. UM!Nothing = Nothing
  BY DEF UM!Nothing, Nothing
<1>. QED
  BY <1>1, <1>2, <1>3

\* What holds when a platter is about to be compiled.
LEMMA PlatterIs ==
  ASSUME Whole(jit), NEW kind, NEW p, Platter(kind, p)
  PROVE  /\ ran' = p /\ kind \in Platters /\ jit.at \in {"inl", "outl"} /\ jit.time + 1 <= MaxBlk
         /\ Ready(Compiler) /\ Compiler.io = Nothing /\ Compiler.at \in Places
         /\ Compiler.cset = jit.cset /\ Compiler.con = jit.con
         /\ Compiler.z = jit.z /\ Compiler.nz = jit.nz
         /\ Good(jit) => jit.at = "inl" /\ Knows(Compiler, Vals(jit)) /\ Vals(jit) \in [VRegs -> Word]
<1>1. ran' = p /\ kind \in Platters /\ jit.at \in {"inl", "outl"} /\ jit.time < MaxBlk
  BY DEF Platter
<1>2. /\ Ready(Compiler) /\ Compiler.io = Nothing
      /\ Compiler.cset = jit.cset /\ Compiler.con = jit.con
      /\ Compiler.z = jit.z /\ Compiler.nz = jit.nz
      /\ Good(jit) => jit.at = "inl" /\ Knows(Compiler, Vals(jit))
  BY <1>1, CompilerIs
<1>3. Compiler.at \in Places
  BY <1>2 DEF Ready, Places
<1>4. jit.time + 1 <= MaxBlk
  BY <1>1, CodegenAssumption DEF Whole
<1>5. Good(jit) => Vals(jit) \in [VRegs -> Word]
  BY DEF Good, Passed
<1>. QED
  BY <1>1, <1>2, <1>3, <1>4, <1>5

\* A platter that stays inline.
LEMMA LeadsStep ==
  ASSUME Whole(jit), NEW kind, NEW p, Platter(kind, p), NEW x, NEW new,
         Leads(Compiler, x, Vals(jit), new), NEW n \in Nat \ {0}, jit.time + n <= MaxBlk, Goon(x, n)
  PROVE  /\ Whole(jit') /\ jit'.io = x.io
         /\ Good(jit) => Good(jit') /\ Vals(jit') = new
<1>1. /\ Ready(Compiler) /\ jit.at \in {"inl", "outl"}
      /\ Good(jit) => Knows(Compiler, Vals(jit))
  BY PlatterIs
<1>2. Fits(Compiler, x) /\ (Knows(Compiler, Vals(jit)) => Passed(x, new))
  BY <1>1, LeadsIs
<1>3. /\ Whole(jit') /\ jit'.io = x.io
      /\ \A val : Passed(x, val) => Good(jit') /\ Vals(jit') = val
  BY <1>1, <1>2, GoonIs
<1>. QED
  BY <1>1, <1>2, <1>3

\* A conditional move whose condition is known is one of the UM.
LEMMA KnownMoveStep ==
  ASSUME Whole(jit), NEW a \in VRegs, NEW b \in VRegs, NEW c \in VRegs, CompileKnownMove(a, b, c)
  PROVE  Whole(jit') /\ (Good(jit) => Good(jit') /\ UM!ConditionalMove(a, b, c))
<1> DEFINE w == Compiler
           x == IF a = b \/ c \in w.z THEN w
                ELSE IF b \in w.cset THEN co_ortho(w, a, w.con[b]) ELSE co_mov(w, a, b)
           p == <<"cmov", a, b, c>>
           val == Vals(jit)
           new == [val EXCEPT ![a] = IF val[c] # 0 THEN val[b] ELSE val[a]]
<1>1. Platter("cmov", p) /\ (a = b \/ c \in jit.z \cup jit.nz)
  BY DEF CompileKnownMove
<1>2. /\ ran' = p /\ jit.time + 1 <= MaxBlk /\ Ready(w) /\ w.io = Nothing
      /\ w.cset = jit.cset /\ w.con = jit.con /\ w.z = jit.z /\ w.nz = jit.nz
  BY <1>1, PlatterIs
<1>3. Goon(x, 1)
  BY <1>2 DEF CompileKnownMove, Constant
<1>4. x.io = w.io /\ Leads(w, x, val, new)
  <2> HIDE DEF w, val
  <2>1. a = b \/ c \in w.z \cup w.nz
    BY <1>1, <1>2
  <2>. QED
    BY <1>2, <2>1, KnownMoveIs
<1> HIDE DEF x, new, p
<1>5. /\ Whole(jit') /\ jit'.io = x.io
      /\ Good(jit) => Good(jit') /\ Vals(jit') = new
  BY <1>1, <1>2, <1>3, <1>4, LeadsStep
<1>6. ASSUME Good(jit) PROVE UM!ConditionalMove(a, b, c)
  BY <1>2, <1>4, <1>5, <1>6, Mapped DEF UM!ConditionalMove, UM!Internal, UM!Put, new, p
<1>. QED
  BY <1>5, <1>6

\* A conditional move whose condition is not known is one of the UM.
LEMMA MoveStep ==
  ASSUME Whole(jit), NEW a \in VRegs, NEW b \in VRegs, NEW c \in VRegs, CompileMove(a, b, c)
  PROVE  Whole(jit') /\ (Good(jit) => Good(jit') /\ UM!ConditionalMove(a, b, c))
<1> DEFINE w == Compiler
           moved == noncon(co_cmov(w, a, b, c), a)
           x == IF {a, b} \subseteq w.nz THEN setnz(moved, a) ELSE moved
           p == <<"cmov", a, b, c>>
           val == Vals(jit)
           new == [val EXCEPT ![a] = IF val[c] # 0 THEN val[b] ELSE val[a]]
<1>1. Platter("cmov", p)
  BY DEF CompileMove
<1>2. /\ ran' = p /\ jit.time + 1 <= MaxBlk /\ Ready(w) /\ w.io = Nothing /\ w.nz = jit.nz
  BY <1>1, PlatterIs
<1>3. Goon(x, 1)
  BY <1>2 DEF CompileMove
<1>4. x.io = w.io /\ Leads(w, x, val, new)
  <2> HIDE DEF w, val
  <2>. QED
    BY <1>2, MoveIs
<1> HIDE DEF x, new, p
<1>5. /\ Whole(jit') /\ jit'.io = x.io
      /\ Good(jit) => Good(jit') /\ Vals(jit') = new
  BY <1>1, <1>2, <1>3, <1>4, LeadsStep
<1>6. ASSUME Good(jit) PROVE UM!ConditionalMove(a, b, c)
  BY <1>2, <1>4, <1>5, <1>6, Mapped DEF UM!ConditionalMove, UM!Internal, UM!Put, new, p
<1>. QED
  BY <1>5, <1>6

\* What an addition or a multiplication comes to.
LEMMA ArithStep ==
  ASSUME Whole(jit), NEW op \in Ops, NEW a \in VRegs, NEW b \in VRegs, NEW c \in VRegs,
         CompileArith(op, a, b, c)
  PROVE  /\ Whole(jit')
         /\ Good(jit) =>
              /\ Good(jit') /\ Vals(jit') = [Vals(jit) EXCEPT ![a] = Alu(op, Vals(jit)[b], Vals(jit)[c])]
              /\ jit'.io = Nothing /\ ran' = <<op, a, b, c>>
<1> DEFINE w == Compiler
           x == IF b \in w.cset /\ c \in w.cset
                THEN co_ortho(w, a, Alu(op, w.con[b], w.con[c]))
                ELSE OP_IMM_COMM(w, op, a, b, c)
           p == <<op, a, b, c>>
           val == Vals(jit)
           new == [val EXCEPT ![a] = Alu(op, val[b], val[c])]
<1>1. Platter(op, p)
  BY DEF CompileArith
<1>2. /\ ran' = p /\ jit.time + 1 <= MaxBlk /\ Ready(w) /\ w.io = Nothing
      /\ w.cset = jit.cset /\ w.con = jit.con
  BY <1>1, PlatterIs
<1>3. Goon(x, 1)
  BY <1>2 DEF CompileArith, Constant
<1>4. x.io = w.io /\ Leads(w, x, val, new)
  <2> HIDE DEF w, val
  <2>. QED
    BY <1>2, ArithIs
<1> HIDE DEF x
<1>5. /\ Whole(jit') /\ jit'.io = x.io
      /\ Good(jit) => Good(jit') /\ Vals(jit') = new
  <2> HIDE DEF new, p
  <2>. QED
    BY <1>1, <1>2, <1>3, <1>4, LeadsStep
<1>. QED
  BY <1>2, <1>4, <1>5

\* An addition is one of the UM.
LEMMA AddStep ==
  ASSUME Whole(jit), NEW a \in VRegs, NEW b \in VRegs, NEW c \in VRegs, CompileArith("add", a, b, c)
  PROVE  Whole(jit') /\ (Good(jit) => Good(jit') /\ UM!Addition(a, b, c))
<1>1. "add" \in Ops
  BY DEF Ops
<1>2. /\ Whole(jit')
      /\ Good(jit) =>
           /\ Good(jit')
           /\ Vals(jit') = [Vals(jit) EXCEPT ![a] = Alu("add", Vals(jit)[b], Vals(jit)[c])]
           /\ jit'.io = Nothing /\ ran' = <<"add", a, b, c>>
  BY <1>1, ArithStep
<1>3. Alu("add", Vals(jit)[b], Vals(jit)[c]) = Add(Vals(jit)[b], Vals(jit)[c])
  BY DEF Alu
<1>4. ASSUME Good(jit) PROVE UM!Addition(a, b, c)
  BY <1>2, <1>3, <1>4, Mapped, UMWords DEF UM!Addition, UM!Internal, UM!Put
<1>. QED
  BY <1>2, <1>4

\* A multiplication is one of the UM.
LEMMA MulStep ==
  ASSUME Whole(jit), NEW a \in VRegs, NEW b \in VRegs, NEW c \in VRegs, CompileArith("mul", a, b, c)
  PROVE  Whole(jit') /\ (Good(jit) => Good(jit') /\ UM!Multiplication(a, b, c))
<1>1. "mul" \in Ops
  BY DEF Ops
<1>2. /\ Whole(jit')
      /\ Good(jit) =>
           /\ Good(jit')
           /\ Vals(jit') = [Vals(jit) EXCEPT ![a] = Alu("mul", Vals(jit)[b], Vals(jit)[c])]
           /\ jit'.io = Nothing /\ ran' = <<"mul", a, b, c>>
  BY <1>1, ArithStep
<1>3. Alu("mul", Vals(jit)[b], Vals(jit)[c]) = Mul(Vals(jit)[b], Vals(jit)[c])
  BY DEF Alu
<1>4. ASSUME Good(jit) PROVE UM!Multiplication(a, b, c)
  BY <1>2, <1>3, <1>4, Mapped, UMWords DEF UM!Multiplication, UM!Internal, UM!Put
<1>. QED
  BY <1>2, <1>4

\* A division is one of the UM, folded, shifted or divided.
LEMMA DivStep ==
  ASSUME Whole(jit), NEW a \in VRegs, NEW b \in VRegs, NEW c \in VRegs, CompileDiv(a, b, c)
  PROVE  Whole(jit') /\ (Good(jit) => Good(jit') /\ UM!Division(a, b, c))
<1> DEFINE w == Compiler
           k     == w.con[c]
           moved == Rename(ra_mgetv(w, b), b, a)
           shift == SetReg(moved, a, Reg(moved, a) \div Pow2[Zeros(k)])
           fold  == b \in w.cset /\ c \in w.cset /\ k # 0
           power == c \in w.cset /\ IsPowerOf2(k)
           x     == IF fold THEN co_ortho(w, a, Div(w.con[b], k))
                    ELSE IF b = c THEN co_ortho(w, a, 1)
                    ELSE noncon(IF power THEN shift ELSE co_div(w, a, b, c), a)
           p     == <<"div", a, b, c>>
           val   == Vals(jit)
           new   == [val EXCEPT ![a] = Div(val[b], val[c])]
<1>1. Platter("div", p)
  BY DEF CompileDiv
<1>2. /\ ran' = p /\ jit.time + 1 <= MaxBlk /\ Ready(w) /\ w.io = Nothing
      /\ w.cset = jit.cset /\ w.con = jit.con /\ jit.at \in {"inl", "outl"}
      /\ Good(jit) => Knows(w, val)
  BY <1>1, PlatterIs
<1>3. Goon(x, 1)
  BY <1>2 DEF CompileDiv, Constant
<1>4. val[c] # 0
  BY Mapped DEF CompileDiv
<1>5. x.io = w.io /\ Fits(w, x) /\ (Knows(w, val) => Passed(x, new))
  <2> HIDE DEF w, val
  <2>. QED
    BY <1>2, <1>4, DivisionIs
<1> HIDE DEF x, new, p
<1>6. /\ Whole(jit') /\ jit'.io = x.io
      /\ Good(jit) => Good(jit') /\ Vals(jit') = new
  BY <1>2, <1>3, <1>5, GoonIs
<1>7. ASSUME Good(jit) PROVE UM!Division(a, b, c)
  BY <1>2, <1>4, <1>5, <1>6, <1>7, Mapped, UMWords DEF UM!Division, UM!Internal, UM!Put, new, p
<1>. QED
  BY <1>6, <1>7

\* A nand is one of the UM.
LEMMA NandStep ==
  ASSUME Whole(jit), NEW a \in VRegs, NEW b \in VRegs, NEW c \in VRegs, CompileNand(a, b, c)
  PROVE  Whole(jit') /\ (Good(jit) => Good(jit') /\ UM!NotAnd(a, b, c))
<1> DEFINE w == Compiler
           and == Conjunct(w, a, b, c)
           got == Rename(ra_mgetv(and, a), a, a)
           not == SetReg(got, a, Not(Reg(got, a)))
           x   == IF b \in w.cset /\ c \in w.cset
                  THEN co_ortho(w, a, Not(And(w.con[b], w.con[c])))
                  ELSE noncon(not, a)
           p   == <<"nand", a, b, c>>
           val == Vals(jit)
           new == [val EXCEPT ![a] = Not(And(val[b], val[c]))]
<1>1. Platter("nand", p)
  BY DEF CompileNand
<1>2. /\ ran' = p /\ jit.time + 1 <= MaxBlk /\ Ready(w) /\ w.io = Nothing
      /\ w.cset = jit.cset /\ w.con = jit.con
  BY <1>1, PlatterIs
<1>3. Goon(x, 1)
  BY <1>2 DEF CompileNand, Constant, Conjoin, Conjunct
<1>4. x.io = w.io /\ Leads(w, x, val, new)
  <2> HIDE DEF w, val
  <2>. QED
    BY <1>2, NandIs
<1> HIDE DEF x, new, p
<1>5. /\ Whole(jit') /\ jit'.io = x.io
      /\ Good(jit) => Good(jit') /\ Vals(jit') = new
  BY <1>1, <1>2, <1>3, <1>4, LeadsStep
<1>6. ASSUME Good(jit) PROVE UM!NotAnd(a, b, c)
  BY <1>2, <1>4, <1>5, <1>6, Mapped, UMWords DEF UM!NotAnd, UM!Internal, UM!Put, new, p
<1>. QED
  BY <1>5, <1>6

\* A nand and the complement of its result are the two of the UM.
LEMMA NandNotStep ==
  ASSUME Whole(jit), NEW a \in VRegs, NEW b \in VRegs, NEW c \in VRegs, CompileNandNot(a, b, c)
  PROVE  Whole(jit') /\ (Good(jit) => Good(jit') /\ UM!NotAndNot(a, b, c))
<1> DEFINE w == Compiler
           x == Conjunct(w, a, b, c)
           p == <<"and", a, b, c>>
           val == Vals(jit)
           new == [val EXCEPT ![a] = And(val[b], val[c])]
<1>1. Platter("nand", p)
  BY DEF CompileNandNot
<1>2. /\ ran' = p /\ jit.time \in 0 .. MaxBlk /\ Ready(w) /\ w.io = Nothing
  BY <1>1, PlatterIs DEF Whole
<1>3. Goon(x, 2) /\ jit.time + 1 < MaxBlk
  BY DEF CompileNandNot, Conjoin, Conjunct
<1>4. x.io = w.io /\ Leads(w, x, val, new)
  <2> HIDE DEF w, val
  <2>. QED
    BY <1>2, ConjunctIs
<1>5. jit.time + 2 <= MaxBlk
  BY <1>2, <1>3, CodegenAssumption
<1> HIDE DEF x, new, p
<1>6. /\ Whole(jit') /\ jit'.io = x.io
      /\ Good(jit) => Good(jit') /\ Vals(jit') = new
  BY <1>1, <1>3, <1>4, <1>5, LeadsStep
<1>7. ASSUME Good(jit) PROVE UM!NotAndNot(a, b, c)
  BY <1>2, <1>4, <1>6, <1>7, Mapped, UMWords DEF UM!NotAndNot, UM!Internal, UM!Put, new, p
<1>. QED
  BY <1>6, <1>7

\* An orthography is one of the UM.
LEMMA OrthoStep ==
  ASSUME Whole(jit), NEW a \in VRegs, CompileOrtho(a)
  PROVE  Whole(jit') /\ (Good(jit) => Good(jit') /\ \E d \in Word : UM!Orthography(a, d))
<1>1. PICK d \in Word : Platter("ortho", <<"ortho", a, d>>) /\ Goon(co_ortho(Compiler, a, d), 1)
  BY DEF CompileOrtho
<1> DEFINE w == Compiler
           x == co_ortho(w, a, d)
           p == <<"ortho", a, d>>
           val == Vals(jit)
           new == [val EXCEPT ![a] = d]
<1>2. /\ ran' = p /\ jit.time + 1 <= MaxBlk /\ Ready(w) /\ w.io = Nothing
  BY <1>1, PlatterIs
<1>3. Platter("ortho", p) /\ Goon(x, 1)
  BY <1>1
<1>4. x.io = w.io /\ Leads(w, x, val, new)
  <2> HIDE DEF w, val
  <2>. QED
    BY <1>2, OrthoLeads DEF Ready
<1> HIDE DEF x, new, p
<1>5. /\ Whole(jit') /\ jit'.io = x.io
      /\ Good(jit) => Good(jit') /\ Vals(jit') = new
  BY <1>2, <1>3, <1>4, LeadsStep
<1>6. ASSUME Good(jit) PROVE UM!Orthography(a, d)
  BY <1>2, <1>4, <1>5, <1>6, Mapped DEF UM!Orthography, UM!Internal, UM!Put, new, p
<1>. QED
  BY <1>5, <1>6

\* An allocation is one of the UM.
LEMMA AllocStep ==
  ASSUME Whole(jit), NEW b \in VRegs, NEW c \in VRegs, CompileAlloc(b, c)
  PROVE  Whole(jit') /\ (Good(jit) => Good(jit') /\ UM!Allocation(b, c))
<1>1. PICK id \in Word \ {0}, junk \in Word :
        Goon(setnz(noncon(co_alloc(Compiler, b, c, id, junk), b), b), 1)
  BY DEF CompileAlloc
<1> DEFINE w == Compiler
           x == setnz(noncon(co_alloc(w, b, c, id, junk), b), b)
           p == <<"alloc", b, c>>
           val == Vals(jit)
           new == [val EXCEPT ![b] = id]
<1>2. Platter("alloc", p) /\ Goon(x, 1)
  BY <1>1 DEF CompileAlloc
<1>3. /\ ran' = p /\ jit.time + 1 <= MaxBlk /\ Ready(w) /\ (Good(jit) => Knows(w, val))
  BY <1>2, PlatterIs
<1>4. Leads(w, x, val, new) /\ (Knows(w, val) => x.io = [op |-> "alloc", size |-> val[c]])
  <2> HIDE DEF w, val
  <2>. QED
    BY <1>3, AllocationIs
<1> HIDE DEF x, new, p
<1>5. /\ Whole(jit') /\ jit'.io = x.io
      /\ Good(jit) => Good(jit') /\ Vals(jit') = new
  BY <1>2, <1>3, <1>4, LeadsStep
<1>6. ASSUME Good(jit) PROVE UM!Allocation(b, c)
  BY <1>3, <1>4, <1>5, <1>6, Mapped, UMWords DEF UM!Allocation, UM!Put, new, p
<1>. QED
  BY <1>5, <1>6

\* An abandonment keeps the tables.
LEMMA FreeStep ==
  ASSUME Whole(jit), NEW c \in VRegs, CompileFree(c)
  PROVE  Whole(jit') /\ "free" \in Platters
<1>1. PICK junk \in Word : Goon(setnz(co_free(Compiler, c, junk), c), 1)
  BY DEF CompileFree
<1> DEFINE x == setnz(co_free(Compiler, c, junk), c)
           p == <<"free", c>>
<1>2. Platter("free", p) /\ Goon(x, 1)
  BY <1>1 DEF CompileFree
<1>3. /\ "free" \in Platters /\ jit.time + 1 <= MaxBlk /\ Ready(Compiler) /\ jit.at \in {"inl", "outl"}
  BY <1>2, PlatterIs
<1>4. Fits(Compiler, x)
  BY <1>3, AbandonmentIs
<1> HIDE DEF x
<1>. QED
  BY <1>2, <1>3, <1>4, GoonIs

\* An output is one of the UM.
LEMMA OutputStep ==
  ASSUME Whole(jit), NEW c \in VRegs, CompileOutput(c)
  PROVE  Whole(jit') /\ (Good(jit) => Good(jit') /\ UM!Output(c))
<1>1. PICK junk \in Word : Goon(co_output(Compiler, c, junk), 1)
  BY DEF CompileOutput
<1> DEFINE w == Compiler
           x == co_output(w, c, junk)
           p == <<"output", c>>
           val == Vals(jit)
<1>2. Platter("io", p) /\ Goon(x, 1)
  BY <1>1 DEF CompileOutput
<1>3. /\ ran' = p /\ jit.time + 1 <= MaxBlk /\ Ready(w) /\ (Good(jit) => Knows(w, val))
  BY <1>2, PlatterIs
<1>4. Leads(w, x, val, val) /\ (Knows(w, val) => x.io = [op |-> "output", char |-> val[c]])
  <2> HIDE DEF w, val
  <2>. QED
    BY <1>3, OutIs
<1> HIDE DEF x, p
<1>5. /\ Whole(jit') /\ jit'.io = x.io
      /\ Good(jit) => Good(jit') /\ Vals(jit') = val
  BY <1>2, <1>3, <1>4, LeadsStep
<1>6. ASSUME Good(jit) PROVE UM!Output(c)
  BY <1>3, <1>4, <1>5, <1>6, Mapped DEF UM!Output, p
<1>. QED
  BY <1>5, <1>6

\* An input is one of the UM.
LEMMA InputStep ==
  ASSUME Whole(jit), NEW c \in VRegs, CompileInput(c)
  PROVE  Whole(jit') /\ (Good(jit) => Good(jit') /\ UM!Input(c))
<1>1. PICK d \in Word, junk \in Word : Goon(noncon(co_input(Compiler, c, d, junk), c), 1)
  BY DEF CompileInput
<1> DEFINE w == Compiler
           x == noncon(co_input(w, c, d, junk), c)
           p == <<"input", c>>
           val == Vals(jit)
           new == [val EXCEPT ![c] = d]
<1>2. Platter("io", p) /\ Goon(x, 1)
  BY <1>1 DEF CompileInput
<1>3. /\ ran' = p /\ jit.time + 1 <= MaxBlk /\ Ready(w) /\ (Good(jit) => Knows(w, val))
  BY <1>2, PlatterIs
<1>4. Leads(w, x, val, new) /\ (Knows(w, val) => x.io = [op |-> "input"])
  <2> HIDE DEF w, val
  <2>. QED
    BY <1>3, InIs
<1> HIDE DEF x, new, p
<1>5. /\ Whole(jit') /\ jit'.io = x.io
      /\ Good(jit) => Good(jit') /\ Vals(jit') = new
  BY <1>2, <1>3, <1>4, LeadsStep
<1>6. ASSUME Good(jit) PROVE UM!Input(c)
  BY <1>3, <1>4, <1>5, <1>6, Mapped, UMWords DEF UM!Input, UM!Put, new, p
<1>. QED
  BY <1>5, <1>6

\* An index keeps the tables, and is one of the UM if the array is known.
LEMMA IndexStep ==
  ASSUME Whole(jit), NEW a \in VRegs, NEW b \in VRegs, NEW c \in VRegs, CompileIndex(a, b, c)
  PROVE  /\ Whole(jit')
         /\ Good(jit) /\ "index any" \notin Platters => Good(jit') /\ UM!ArrayIndex(a, b, c)
<1>1. PICK d \in Word : Goon(noncon(co_index(Compiler, a, b, c, d), a), 1)
  BY DEF CompileIndex
<1> DEFINE w == Compiler
           x == noncon(co_index(w, a, b, c, d), a)
           kind == IF b \in jit.z \cup jit.nz THEN "index" ELSE "index any"
           p == <<"index", a, b, c>>
           val == Vals(jit)
           new == [val EXCEPT ![a] = d]
<1>2. Platter(kind, p) /\ Goon(x, 1)
  BY <1>1 DEF CompileIndex
<1>3. /\ ran' = p /\ kind \in Platters /\ jit.time + 1 <= MaxBlk /\ Ready(w)
      /\ w.z = jit.z /\ w.nz = jit.nz /\ jit.at \in {"inl", "outl"}
      /\ Good(jit) => Knows(w, val)
  <2> HIDE DEF kind, p
  <2>. QED
    BY <1>2, PlatterIs
<1>4. Fits(w, x)
  BY <1>3, IndexFits
<1>5. ASSUME "index any" \notin Platters
      PROVE  Leads(w, x, val, new) /\ (Knows(w, val) => x.io = [op |-> "index", array |-> val[b], at |-> val[c]])
  <2>1. b \in w.z \cup w.nz
    BY <1>3, <1>5
  <2> HIDE DEF w, val
  <2>. QED
    BY <1>3, <2>1, IndexKnown
<1> HIDE DEF x, new, p, kind
<1>6. Whole(jit') /\ jit'.io = x.io
  BY <1>2, <1>3, <1>4, GoonIs
<1>7. ASSUME Good(jit), "index any" \notin Platters
      PROVE  Good(jit') /\ UM!ArrayIndex(a, b, c)
  <2>1. Good(jit') /\ Vals(jit') = new
    <3>1. Leads(w, x, val, new)
      BY <1>5, <1>7
    <3>2. Passed(x, new)
      BY <1>3, <1>7, <3>1, LeadsIs
    <3>. QED
      BY <1>2, <1>3, <1>4, <3>2, GoonIs
  <2>. QED
    BY <1>3, <1>5, <1>6, <1>7, <2>1, Mapped, UMWords DEF UM!ArrayIndex, UM!Put, new, p
<1>. QED
  BY <1>6, <1>7

\* A store whose array is known.
LEMMA AmendmentStep ==
  ASSUME Whole(jit), NEW a \in VRegs, NEW b \in VRegs, NEW c \in VRegs, CompileAmendment(a, b, c)
  PROVE  Whole(jit') /\ (Good(jit) => Good(jit') /\ UM!ArrayAmendment(a, b, c))
<1> DEFINE w == Compiler
           p == <<"amend", a, b, c>>
           val == Vals(jit)
           store == co_amend_unsafe(w, a, b, c)
           seen == IF val[a] = 0 THEN {val[b]} ELSE {}
<1>1. Platter("amend", p)
  BY DEF CompileAmendment
<1>2. /\ ran' = p /\ jit.time + 1 <= MaxBlk /\ Ready(w)
      /\ w.z = jit.z /\ w.nz = jit.nz /\ jit.at \in {"inl", "outl"}
      /\ w.cset = jit.cset /\ w.con = jit.con
      /\ Good(jit) => Knows(w, val)
  BY <1>1, PlatterIs
<1>3. \E x : Goon(x, 1) /\ Serves(w, x, val, Amends(val, a, b, c, seen))
  <2>1. ASSUME a \in w.nz PROVE Serves(w, store, val, Amends(val, a, b, c, seen))
    <3>1. a \in w.z \cup w.nz
      BY <2>1
    <3>2. Acts(w, store) /\ (Knows(w, val) => store.io = Amends(val, a, b, c, {}))
      <4> HIDE DEF w, val
      <4>. QED
        BY <1>2, <3>1, StoreIs
    <3>3. Knows(w, val) => seen = {}
      BY <2>1 DEF Knows, Told
    <3> HIDE DEF store, seen, w, val
    <3>4. Leads(w, store, val, val)
      BY <3>2, ActsLeads
    <3>5. Fits(w, store) /\ (Knows(w, val) => Passed(store, val))
      BY <1>2, <3>4, LeadsIs
    <3>. QED
      BY <3>2, <3>3, <3>5 DEF Serves
  <2>2. ASSUME a \in w.z, b \in w.cset
        PROVE  Serves(w, [store EXCEPT !.io.seen = {w.con[b]}], val, Amends(val, a, b, c, seen))
    <3> DEFINE x == [store EXCEPT !.io.seen = {w.con[b]}]
    <3>1. Acts(w, x) /\ (Knows(w, val) => x.io = Amends(val, a, b, c, {val[b]}))
      <4> HIDE DEF w, val
      <4>1. Ready(w) /\ a \in w.z /\ b \in w.cset
        BY <1>2, <2>2
      <4>. QED
        BY <4>1, StoreSeenIs, SMTT(30)
    <3>2. Knows(w, val) => seen = {val[b]}
      BY <2>2 DEF Knows, Told
    <3> HIDE DEF x, seen, w, val
    <3>3. Leads(w, x, val, val)
      BY <3>1, ActsLeads
    <3>4. Fits(w, x) /\ (Knows(w, val) => Passed(x, val))
      BY <1>2, <3>3, LeadsIs
    <3>5. Serves(w, x, val, Amends(val, a, b, c, seen))
      BY <3>1, <3>2, <3>4 DEF Serves
    <3>. QED
      BY <3>5 DEF x
  <2>3. ASSUME a \in w.z, NEW back \in BOOLEAN, NEW junk \in Word
        PROVE  Serves(w, co_postwrite_0(ra_vflushall(store), b, back, junk), val,
                    Amends(val, a, b, c, seen))
    <3> HIDE DEF w, val, seen
    <3>1. Ready(w) /\ a \in w.z
      BY <1>2, <2>3
    <3>2. Serves(w, co_postwrite_0(ra_vflushall(store), b, back, junk), val,
               Amends(val, a, b, c, {val[b]}))
      BY <3>1, StoreToldIs
    <3>3. Knows(w, val) => seen = {val[b]}
      BY <2>3 DEF Knows, Told, seen
    <3>. QED
      BY <3>2, <3>3 DEF Serves
  <2>4. \/ a \in w.nz /\ Goon(store, 1)
        \/ a \in w.z /\ b \in w.cset /\ Goon([store EXCEPT !.io.seen = {w.con[b]}], 1)
        \/ /\ a \in w.z
           /\ \E back \in BOOLEAN, junk \in Word :
                Goon(co_postwrite_0(ra_vflushall(store), b, back, junk), 1)
    BY <1>2 DEF CompileAmendment, Constant
  <2> HIDE DEF store, w, val, seen
  <2>. QED
    BY <2>1, <2>2, <2>3, <2>4
<1>4. PICK x : Goon(x, 1) /\ Serves(w, x, val, Amends(val, a, b, c, seen))
  BY <1>3
<1>5. Fits(w, x) /\ (Knows(w, val) => Passed(x, val) /\ x.io = Amends(val, a, b, c, seen))
  BY <1>4 DEF Serves
<1> HIDE DEF p
<1>6. /\ Whole(jit') /\ jit'.io = x.io
      /\ Good(jit) => Good(jit') /\ Vals(jit') = val
  BY <1>2, <1>4, <1>5, GoonIs
<1>7. ASSUME Good(jit) PROVE UM!ArrayAmendment(a, b, c)
  BY <1>2, <1>5, <1>6, <1>7, Mapped DEF UM!ArrayAmendment, Amends, p
<1>. QED
  BY <1>6, <1>7

\* A store to any array keeps the tables.
LEMMA AmendmentAnyStep ==
  ASSUME Whole(jit), NEW a \in VRegs, NEW b \in VRegs, NEW c \in VRegs, CompileAmendmentAny(a, b, c)
  PROVE  Whole(jit') /\ "amend any" \in Platters
<1>1. PICK back \in BOOLEAN, junk \in Word :
        Goon(co_postwrite(ra_vflushall(co_amend_unsafe(Compiler, a, b, c)), a, b, back, junk), 1)
  BY DEF CompileAmendmentAny
<1> DEFINE x == co_postwrite(ra_vflushall(co_amend_unsafe(Compiler, a, b, c)), a, b, back, junk)
           p == <<"amend", a, b, c>>
<1>2. Platter("amend any", p) /\ Goon(x, 1) /\ a \notin jit.z \cup jit.nz
  BY <1>1 DEF CompileAmendmentAny
<1>3. /\ "amend any" \in Platters /\ jit.time + 1 <= MaxBlk /\ Ready(Compiler)
      /\ Compiler.z = jit.z /\ Compiler.nz = jit.nz /\ jit.at \in {"inl", "outl"}
  BY <1>2, PlatterIs
<1>4. Fits(Compiler, x)
  BY <1>2, <1>3, StoreAnyIs
<1>5. /\ Goon(x, 1) /\ Fits(Compiler, x)
      /\ jit.time + 1 <= MaxBlk /\ jit.at \in {"inl", "outl"}
  BY <1>2, <1>3, <1>4
<1> HIDE DEF x
<1>6. Whole(jit')
  BY <1>5, GoonIs
<1>. QED
  BY <1>3, <1>6

\* A platter that ends the block, and leaves it for other code.
LEMMA GoneStep ==
  ASSUME Whole(jit), jit.at \in {"inl", "outl"}, NEW x, NEW val \in [VRegs -> Word], NEW io,
         Fits(Compiler, x), End(x)
  PROVE  /\ Whole(jit')
         /\ Gone(x, val, io) => Good(jit') /\ Vals(jit') = val /\ jit'.io = io
<1>1. /\ Whole(jit') /\ jit'.io = x.io
      /\ \A y \in [VRegs -> Word] : \A o : Gone(x, y, o) => Good(jit') /\ Vals(jit') = y
  BY EndIs
<1>2. Gone(x, val, io) => x.io = io
  BY DEF Gone
<1>. QED
  BY <1>1, <1>2

\* A move and a load of a program, compiled as one, are the two of the UM.
LEMMA BranchStep ==
  ASSUME Whole(jit), NEW a \in VRegs, NEW b \in VRegs, NEW c \in VRegs, NEW zero \in VRegs,
         CompileBranch(a, b, c, zero)
  PROVE  Whole(jit') /\ (Good(jit) => Good(jit') /\ UM!BranchTo(a, b, c, zero))
<1> DEFINE w == Compiler
           x == co_condbr(ra_vflushall(w), c, a, w.con[b], w.con[a],
                          Branched(w, a, c, w.con[b], TRUE), Branched(w, a, c, w.con[a], FALSE))
           p == <<"branch", a, b, c, zero>>
           val == Vals(jit)
           d == IF val[c] # 0 THEN val[b] ELSE val[a]
           new == [val EXCEPT ![a] = d]
<1>1. Platter("cmov", p)
  BY DEF CompileBranch
<1>2. /\ ran' = p /\ jit.at \in {"inl", "outl"} /\ Ready(w)
      /\ w.cset = jit.cset /\ w.con = jit.con /\ w.z = jit.z /\ w.nz = jit.nz
      /\ Good(jit) => Knows(w, val) /\ val \in [VRegs -> Word]
  BY <1>1, PlatterIs
<1>3. End(x)
  BY <1>2 DEF CompileBranch, Branched
<1>4. a \in w.cset /\ b \in w.cset /\ a # c /\ zero \in w.z
  BY <1>2 DEF CompileBranch, Constant
<1>5. Fits(w, x) /\ (Knows(w, val) => Gone(x, new, Loads(val[zero], d)))
  <2> HIDE DEF w, val
  <2>. QED
    BY <1>2, <1>4, BranchIs
<1> HIDE DEF x, new, p, d
<1>6. Whole(jit')
  BY <1>2, <1>3, <1>5, EndIs
<1>7. ASSUME Good(jit) PROVE Good(jit') /\ UM!BranchTo(a, b, c, zero)
  <2>1. d \in Word /\ new \in [VRegs -> Word]
    BY <1>2, <1>7 DEF d, new
  <2>2. Good(jit') /\ Vals(jit') = new /\ jit'.io = Loads(val[zero], d)
    BY <1>2, <1>3, <1>5, <1>7, <2>1, GoneStep
  <2>. QED
    BY <1>2, <2>2, Mapped DEF UM!BranchTo, UM!Put, Loads, p, new, d
<1>. QED
  BY <1>6, <1>7

\* A load of a program is one of the UM.
LEMMA LoadStep ==
  ASSUME Whole(jit), NEW b \in VRegs, NEW c \in VRegs, CompileLoad(b, c)
  PROVE  Whole(jit') /\ (Good(jit) => Good(jit') /\ UM!LoadProgram(b, c))
<1> DEFINE w == Compiler
           near == co_loadguard_x(ra_vflushall(w), b, c)
           x == IF c \in w.cset THEN co_load_0c(near, w.con[c], Facts(near)) ELSE co_load_0(near, c)
           p == <<"load", b, c>>
           val == Vals(jit)
<1>1. Platter("load", p)
  BY DEF CompileLoad
<1>2. /\ ran' = p /\ jit.at \in {"inl", "outl"} /\ Ready(w)
      /\ w.cset = jit.cset /\ w.con = jit.con
      /\ Good(jit) => Knows(w, val) /\ val \in [VRegs -> Word]
  BY <1>1, PlatterIs
<1>3. End(x)
  BY <1>2 DEF CompileLoad, Constant
<1>4. Fits(w, x) /\ (Knows(w, val) => Gone(x, val, Loads(val[b], val[c])))
  <2> HIDE DEF w, val
  <2>. QED
    BY <1>2, LoadedIs
<1> HIDE DEF x, p
<1>5. Whole(jit')
  BY <1>2, <1>3, <1>4, EndIs
<1>6. ASSUME Good(jit) PROVE Good(jit') /\ UM!LoadProgram(b, c)
  <2>1. Good(jit') /\ Vals(jit') = val /\ jit'.io = Loads(val[b], val[c])
    BY <1>2, <1>3, <1>4, <1>6, GoneStep
  <2>. QED
    BY <1>2, <2>1, Mapped DEF UM!LoadProgram, Loads, p
<1>. QED
  BY <1>5, <1>6

\* A halt is one of the UM.
LEMMA HaltStep ==
  ASSUME Whole(jit), CompileHalt
  PROVE  Whole(jit') /\ (Good(jit) => Good(jit') /\ UM!Halt)
<1> DEFINE w == Compiler
           x == Jump(Do(ra_vflushall(w), [op |-> "halt"]), "halted")
           p == <<"halt">>
           val == Vals(jit)
<1>1. Platter("halt", p) /\ End(x)
  BY DEF CompileHalt
<1>2. /\ ran' = p /\ jit.at \in {"inl", "outl"} /\ Ready(w)
      /\ Good(jit) => Knows(w, val) /\ val \in [VRegs -> Word]
  BY <1>1, PlatterIs
<1>3. /\ Fits(w, x)
      /\ Knows(w, val) => x.at = "halted" /\ x.gpr = val /\ x.io = [op |-> "halt"]
  <2> HIDE DEF w, val
  <2>. QED
    BY <1>2, HaltIs
<1> HIDE DEF x, p
<1>4. /\ Whole(jit') /\ jit'.io = x.io
      /\ \A y \in [VRegs -> Word] :
           x.at = "halted" /\ x.gpr = y => Good(jit') /\ Vals(jit') = y
  BY <1>1, <1>2, <1>3, EndIs
<1>5. ASSUME Good(jit) PROVE Good(jit') /\ UM!Halt
  BY <1>2, <1>3, <1>4, <1>5, Mapped DEF UM!Halt, p
<1>. QED
  BY <1>4, <1>5

\* The same platter is to be run again, by other means.
LEMMA NoexStep ==
  ASSUME Whole(jit), CompileNoex
  PROVE  /\ Whole(jit')
         /\ Good(jit) => Good(jit') /\ Vals(jit') = Vals(jit) /\ jit'.io = jit.io /\ ran' = ran
<1> DEFINE f == ra_vflushall(jit)
           x == Go(f, jit.io, Facts(f))
           val == Vals(jit)
<1>1. Platter("noex", ran) /\ End(x)
  BY DEF CompileNoex
<1>2. /\ ran' = ran /\ jit.at \in {"inl", "outl"}
      /\ Good(jit) => val \in [VRegs -> Word]
  BY <1>1, PlatterIs
<1>3. Ready(jit)
  BY <1>2 DEF Ready, Whole
<1>4. Fits(jit, x) /\ (Knows(jit, val) => Gone(x, val, jit.io))
  <2> HIDE DEF val
  <2>. QED
    BY <1>3, NoexIs
<1> HIDE DEF x
<1>5. Fits(Compiler, x)
  <2>1. /\ Compiler.ok = jit.ok /\ Compiler.time = jit.time /\ Compiler.c = jit.c
        /\ Compiler.mtov = jit.mtov /\ Compiler.facts = jit.facts
    BY <1>3 DEF Compiler, Ready, Tables, Fields
  <2>. QED
    BY <1>4, <2>1 DEF Fits
<1>6. Whole(jit')
  BY <1>1, <1>2, <1>5, EndIs
<1>7. ASSUME Good(jit) PROVE Good(jit') /\ Vals(jit') = val /\ jit'.io = jit.io
  <2>1. Knows(jit, val)
    BY <1>2, <1>7 DEF Good, Passed
  <2>. QED
    BY <1>1, <1>2, <1>4, <1>5, <1>7, <2>1, GoneStep
<1>. QED
  BY <1>2, <1>6, <1>7

-----------------------------------------------------------------------------
(* The theorems *)

\* The program has no platter that the code generator gets wrong: no access to an
\* array not known to be array 0 or not, and no abandonment (runs Spill, Tables).
ArraysKnown == Platters \cap {"index any", "amend any", "free"} = {}

\* Every step but a stutter, by the platter it compiles.
LEMMA Steps ==
  ASSUME Whole(jit), Next
  PROVE  /\ Whole(jit')
         /\ Good(jit) /\ ArraysKnown => Good(jit') /\ [UM!Next]_(UM!vars)
<1> DEFINE Right == /\ Whole(jit')
                    /\ Good(jit) /\ ArraysKnown => Good(jit') /\ [UM!Next]_(UM!vars)
<1>1. ASSUME NEW a \in VRegs, NEW b \in VRegs, NEW c \in VRegs, CompileKnownMove(a, b, c) PROVE Right
  BY <1>1, KnownMoveStep DEF UM!Next
<1>2. ASSUME NEW a \in VRegs, NEW b \in VRegs, NEW c \in VRegs, CompileMove(a, b, c) PROVE Right
  BY <1>2, MoveStep DEF UM!Next
<1>3. ASSUME NEW a \in VRegs, NEW b \in VRegs, NEW c \in VRegs, CompileIndex(a, b, c) PROVE Right
  BY <1>3, IndexStep DEF UM!Next, ArraysKnown
<1>4. ASSUME NEW a \in VRegs, NEW b \in VRegs, NEW c \in VRegs, CompileAmendment(a, b, c) PROVE Right
  BY <1>4, AmendmentStep DEF UM!Next
<1>5. ASSUME NEW a \in VRegs, NEW b \in VRegs, NEW c \in VRegs, CompileAmendmentAny(a, b, c) PROVE Right
  BY <1>5, AmendmentAnyStep DEF ArraysKnown
<1>6. ASSUME NEW a \in VRegs, NEW b \in VRegs, NEW c \in VRegs, CompileArith("add", a, b, c) PROVE Right
  BY <1>6, AddStep DEF UM!Next
<1>7. ASSUME NEW a \in VRegs, NEW b \in VRegs, NEW c \in VRegs, CompileArith("mul", a, b, c) PROVE Right
  BY <1>7, MulStep DEF UM!Next
<1>8. ASSUME NEW a \in VRegs, NEW b \in VRegs, NEW c \in VRegs, CompileDiv(a, b, c) PROVE Right
  BY <1>8, DivStep DEF UM!Next
<1>9. ASSUME NEW a \in VRegs, NEW b \in VRegs, NEW c \in VRegs, CompileNand(a, b, c) PROVE Right
  BY <1>9, NandStep DEF UM!Next
<1>10. ASSUME NEW a \in VRegs, NEW b \in VRegs, NEW c \in VRegs, CompileNandNot(a, b, c) PROVE Right
  BY <1>10, NandNotStep DEF UM!Next
<1>11. ASSUME NEW a \in VRegs, NEW b \in VRegs, NEW c \in VRegs, NEW zero \in VRegs,
              CompileBranch(a, b, c, zero)
       PROVE  Right
  BY <1>11, BranchStep DEF UM!Next
<1>12. ASSUME NEW b \in VRegs, NEW c \in VRegs, CompileAlloc(b, c) PROVE Right
  BY <1>12, AllocStep DEF UM!Next
<1>13. ASSUME NEW b \in VRegs, NEW c \in VRegs, CompileLoad(b, c) PROVE Right
  BY <1>13, LoadStep DEF UM!Next
<1>14. ASSUME NEW c \in VRegs, CompileOrtho(c) PROVE Right
  BY <1>14, OrthoStep, UMWords DEF UM!Next
<1>15. ASSUME NEW c \in VRegs, CompileFree(c) PROVE Right
  BY <1>15, FreeStep DEF ArraysKnown
<1>16. ASSUME NEW c \in VRegs, CompileOutput(c) PROVE Right
  BY <1>16, OutputStep DEF UM!Next
<1>17. ASSUME NEW c \in VRegs, CompileInput(c) PROVE Right
  BY <1>17, InputStep DEF UM!Next
<1>18. ASSUME CompileHalt PROVE Right
  BY <1>18, HaltStep DEF UM!Next
<1>19. ASSUME CompileNoex PROVE Right
  BY <1>19, NoexStep, Mapped DEF UM!vars
<1>20. ASSUME CompileFall PROVE Right
  BY <1>20, FallIs, Mapped DEF UM!vars, CompileFall
<1>21. ASSUME Enter PROVE Right
  BY <1>21, EnterIs, Mapped DEF UM!vars, Enter
<1> HIDE DEF Right
<1>22. Right
  BY <1>1, <1>2, <1>3, <1>4, <1>5, <1>6, <1>7, <1>8, <1>9, <1>10, <1>11, <1>12, <1>13, <1>14,
     <1>15, <1>16, <1>17, <1>18, <1>19, <1>20, <1>21 DEF Next
<1>. QED
  BY <1>22 DEF Right

\* A step that changes nothing.
LEMMA StutterIs ==
  ASSUME UNCHANGED vars
  PROVE  /\ Whole(jit) => Whole(jit')
         /\ Good(jit) => Good(jit')
         /\ [UM!Next]_(UM!vars)
<1>1. jit' = jit /\ ran' = ran
  BY DEF vars
<1>2. Vals(jit') = Vals(jit)
  BY <1>1
<1>. QED
  BY <1>1, <1>2, Mapped DEF UM!vars

\* The inductive invariant for every program.
LEMMA WholeInvariant == Spec => []Whole(jit)
<1>1. Init => Whole(jit)
  BY InitIs
<1>2. Whole(jit) /\ [Next]_vars => Whole(jit)'
  BY Steps, StutterIs
<1>. QED
  BY <1>1, <1>2, PTL DEF Spec

\* That for the programs whose platters are all compiled right.
LEMMA GoodInvariant ==
  ASSUME ArraysKnown
  PROVE  Spec => []Good(jit) /\ [][UM!Next]_(UM!vars)
<1>1. Init => Whole(jit) /\ Good(jit)
  BY InitIs
<1>2. Whole(jit) /\ Good(jit) /\ [Next]_vars => Whole(jit)' /\ Good(jit)' /\ [UM!Next]_(UM!vars)
  BY Steps, StutterIs
<1>. QED
  BY <1>1, <1>2, PTL DEF Spec

\* For every program, any number of registers and blocks of any length: the tables
\* of the register allocator and the compiler have their types, nothing is held
\* between platters, and code goes on inline.
THEOREM Types == Spec => []TypeOK
<1>1. Whole(jit) => TypeOK
  <2> SUFFICES ASSUME Whole(jit) PROVE TypeOK
    OBVIOUS
  <2>1. Typed(jit) /\ jit.time \in 0 .. MaxBlk /\ jit.c = "inl" /\ jit.at \in Places
    BY DEF Whole, Tables, Loose
  <2>2. jit.mtov \in [MRegs -> VRegs \cup {Free}]
    BY <2>1 DEF Whole, Typed
  <2>3. jit.mlru \in [MRegs -> 0 .. MaxBlk]
    <3>1. \A m \in MRegs : jit.mlru[m] \in 0 .. MaxBlk
      BY <2>1, CodegenAssumption DEF Typed
    <3>. QED
      BY <2>1, <3>1 DEF Typed
  <2>. QED
    BY <2>1, <2>2, <2>3 DEF TypeOK, Typed, Places
<1>. QED
  BY <1>1, WholeInvariant, PTL

\* For every program: the two tables of ra.c stay inverse to each other, and no vreg
\* is lost, through every ejection, renaming and swap of mregs.
THEOREM TablesInverse == Spec => []OneToOne
<1>1. Whole(jit) => OneToOne
  <2> SUFFICES ASSUME Whole(jit) PROVE OneToOne
    OBVIOUS
  <2>1. Typed(jit) /\ Mirrored(jit, {}) /\ Somewhere(jit, {})
    BY DEF Whole, Tables, Loose
  <2>2. \A m \in MRegs : jit.mtov[m] # Free => jit.mtov[m] \in VRegs
    BY <2>1 DEF Whole, Typed
  <2>3. jit.rset \cup jit.mset \cup jit.cset = VRegs
    BY <2>1 DEF Typed, Somewhere
  <2>. QED
    BY <2>1, <2>2, <2>3 DEF OneToOne, Mirrored
<1>. QED
  BY <1>1, WholeInvariant, PTL

\* For every program and any mregs, as few as three: ra_mget always finds one to
\* eject, what ra_mrelse releases was held, and no divisor is in EAX or EDX.
THEOREM NoAssertFails == Spec => []AssertsHold
<1>1. Whole(jit) => AssertsHold
  BY DEF Whole, AssertsHold
<1>. QED
  BY <1>1, WholeInvariant, PTL

\* Mreg, memory and constant agree, and the compiler is right about what is zero and
\* what is not, at every platter of a program that never touches an unknown array
\* nor abandons one.
THEOREM Coherence ==
  ASSUME ArraysKnown
  PROVE  Spec => []Coherent
<1>1. Whole(jit) /\ Good(jit) => Coherent
  <2> SUFFICES ASSUME Whole(jit), Good(jit), jit.at = "inl", NEW v \in VRegs
               PROVE  /\ v \in jit.rset \cap jit.mset => Reg(jit, v) = jit.gpr[v]
                      /\ v \in jit.cset => jit.con[v] = Current(v)
                      /\ v \in jit.z => Current(v) = 0
                      /\ v \in jit.nz => Current(v) # 0
    BY DEF Coherent
  <2>1. Knows(jit, Vals(jit))
    BY DEF Good, Passed
  <2>2. Current(v) = Vals(jit)[v]
    BY Mapped
  <2> DEFINE val == Vals(jit)
  <2> HIDE DEF val
  <2>3. Holds(jit, v, val[v]) /\ Told([z |-> jit.z, nz |-> jit.nz], val) /\ Current(v) = val[v]
    BY <2>1, <2>2 DEF Knows, Has, val
  <2>. QED
    BY <2>3 DEF Holds, Told
<1>. QED
  BY <1>1, WholeInvariant, GoodInvariant, PTL

\* Code that control goes to is never told a falsehood about the vregs in memory.
THEOREM HandsOverTruth ==
  ASSUME ArraysKnown
  PROVE  Spec => []HandsOver
<1>1. Good(jit) => HandsOver
  BY DEF Good, Passed, Told, HandsOver
<1>. QED
  BY <1>1, GoodInvariant, PTL

\* What went out of line has come back: control never runs off the end of a block,
\* nor into the out-of-line code of another platter.
THEOREM InlineThroughout ==
  ASSUME ArraysKnown
  PROVE  Spec => []StaysInline
<1>1. Good(jit) => StaysInline
  BY DEF Good, Passed, StaysInline
<1>. QED
  BY <1>1, GoodInvariant, PTL

\* The emitted code of such a program does, platter by platter, what the Universal
\* Machine does with its registers, and asks of the outside the same.
THEOREM CodeImplementsUM ==
  ASSUME ArraysKnown
  PROVE  Spec => ImplementsUM
<1>1. Init => UM!Init
  <2> SUFFICES ASSUME Init PROVE UM!Init
    OBVIOUS
  <2>1. Vals(jit) = [v \in VRegs |-> 0] /\ ran = <<"start">> /\ jit.io = Nothing
    BY InitIs DEF Init
  <2>. QED
    BY <2>1, Mapped DEF UM!Init
<1>. QED
  BY <1>1, GoodInvariant, PTL DEF Spec, ImplementsUM, UM!Spec

=============================================================================
