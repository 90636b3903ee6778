------------------------------ MODULE RegAlloc ------------------------------
(***************************************************************************)
(* The register allocator of umx (ra.c): which register of the Universal   *)
(* Machine (a vreg) is in which register of the processor (an mreg), which *)
(* are up to date in memory, and which are constants the compiler knows.   *)
(*                                                                         *)
(* The allocator runs while a block is compiled, and emits the loads and   *)
(* stores it decides on.  The model runs the block as it is compiled: each *)
(* instruction emitted takes effect at once if control is in the section   *)
(* it is emitted to, and is passed over if not.  A state w is both the     *)
(* compiler's tables and the processor, and an allocator function takes    *)
(* one state to the next:                                                  *)
(*   con, cset    the constants, and which vregs are known to be one       *)
(*   z, nz        g.znz: the vregs known to be zero, known not to be       *)
(*   rset, vtom   which vregs are in an mreg, and in which                 *)
(*   mset         which vregs are up to date in memory                     *)
(*   mtov, mlru   what is in each mreg, and when it was last asked for     *)
(*   time         platters since the block began                           *)
(*   c            the section being emitted to: "inl", "outl"              *)
(*   at           where control is: in a section, or                       *)
(*                "over" a skipped instruction, "gone" to another block,   *)
(*                "halted", "trapped" at a division by zero, or "lost"     *)
(*                beyond the code of the block                             *)
(*   m, gpr       the mregs, and the vregs' places in memory               *)
(*   ok           no assertion of the compiler has failed                  *)
(***************************************************************************)
EXTENDS Integers, Sequences, SequencesExt, Words

CONSTANTS
  VRegs,     \* the vregs, 8 of them in the Universal Machine
  regpref    \* the mregs, the preferred ones first: 6 of them in emit.h

Free == "free"   \* mtov of -1
Held == "held"   \* mtov of -2

MRegs == ToSet(regpref)

ASSUME RegAllocAssumption ==
  /\ regpref \in Seq(STRING)
  /\ {"EAX", "EDX"} \subseteq MRegs      \* div and the calls need these two,
  /\ MRegs # {"EAX", "EDX"}             \* and a platter has up to three operands
  /\ \A i, j \in DOMAIN regpref : regpref[i] = regpref[j] => i = j
  /\ {Free, Held} \cap VRegs = {}

-----------------------------------------------------------------------------
(* Emitting an instruction *)

Live(w) == w.at = w.c

\* What the mreg of a vreg holds.
Reg(w, v) == w.m[w.vtom[v]]

SetM(w, m, x)   == IF Live(w) THEN [w EXCEPT !.m[m] = x] ELSE w
SetReg(w, v, x) == SetM(w, w.vtom[v], x)
SetGpr(w, v, x) == IF Live(w) THEN [w EXCEPT !.gpr[v] = x] ELSE w

-----------------------------------------------------------------------------
(* The allocator *)

\* What a vreg that is not up to date in memory holds.
Deferred(w, v) == IF v \in w.rset THEN Reg(w, v) ELSE w.con[v]

ra_vflush(w, v) ==
  IF v \in w.mset THEN w
  ELSE [SetGpr(w, v, Deferred(w, v)) EXCEPT !.mset = @ \cup {v}]

ra_vflushall(w) ==
  LET flushed == [v \in VRegs |-> IF v \in w.mset THEN w.gpr[v] ELSE Deferred(w, v)]
  IN  [w EXCEPT !.mset = VRegs, !.gpr = IF Live(w) THEN flushed ELSE @]

MclearDrops(w, m) ==                                            \* mutant
  IF w.mtov[m] \notin VRegs THEN w
  ELSE [w EXCEPT !.rset = @ \ {w.mtov[m]}, !.mtov[m] = Free]

ra_mclear(w, m) ==
  IF w.mtov[m] \notin VRegs THEN w
  ELSE [ra_vflush(w, w.mtov[m]) EXCEPT !.rset = @ \ {w.mtov[m]}, !.mtov[m] = Free]

HoldForever(w, m) == w                                          \* mutant
ra_mhold(w, m)  == [ra_mclear(w, m) EXCEPT !.mtov[m] = Held]
ra_mrelse(w, m) == [w EXCEPT !.ok = @ /\ w.mtov[m] = Held, !.mtov[m] = Free]

DislikeHeld(w, m) ==                                            \* mutant
  IF w.mtov[m] = Free THEN 2 ^ 30 ELSE 4 * (w.time - w.mlru[m])

\* How much the compiler wants to eject an mreg.
ra__dislike(w, m) ==
  LET v   == w.mtov[m]
      d   == 4 * (w.time - w.mlru[m])
      off == IF v \in w.cset THEN d \div 2 ELSE d \div 4
  IN  CASE v = Held -> -1
        [] v = Free -> 2 ^ 30
        [] OTHER    -> IF v \in w.mset THEN d + off ELSE d - off

\* The mreg ra_mget returns: the first of those disliked most.
MostDisliked(dislike) ==
  regpref[CHOOSE i \in DOMAIN regpref :
            \A j \in DOMAIN regpref : dislike[i] >= dislike[j]
                                      /\ (j < i => dislike[i] > dislike[j])]
Victim(w) == MostDisliked([i \in DOMAIN regpref |-> ra__dislike(w, regpref[i])])

Eject(w, m) == [ra_mclear(w, m) EXCEPT !.ok = @ /\ ra__dislike(w, m) > 0]
ra_mget(w)  == Eject(w, Victim(w))

Touch(w, m) == [w EXCEPT !.mlru[m] = w.time]

Bind(w, v, m) ==
  Touch([w EXCEPT !.rset = @ \cup {v}, !.mtov[m] = v, !.vtom[v] = m], m)

Load(w, v, m) ==
  IF v \in w.rset
  THEN Bind([SetM(w, m, Reg(w, v)) EXCEPT !.mtov[w.vtom[v]] = Free], v, m)
  ELSE Bind(SetM(w, m, IF v \in w.cset THEN w.con[v] ELSE w.gpr[v]), v, m)
ra_ldvm(w, v, m) == Load(ra_mclear(w, m), v, m)

MgetvUntouched(w, v) ==                                         \* mutant
  IF v \in w.rset THEN w ELSE ra_ldvm(ra_mget(w), v, Victim(w))

\* The mreg that ra_mgetv and ra_mgetvd return is vtom[v] of the state they lead to.
ra_mgetv(w, v) ==
  IF v \in w.rset THEN Touch(w, w.vtom[v]) ELSE ra_ldvm(ra_mget(w), v, Victim(w))

ra_vdirty(w, v) == [w EXCEPT !.mset = @ \ {v}]

VinvalHalf(w, v) == ra_vdirty([w EXCEPT !.rset = @ \ {v}], v)     \* mutant

ra_vinval(w, v) ==
  ra_vdirty(IF v \in w.rset THEN [w EXCEPT !.mtov[w.vtom[v]] = Free, !.rset = @ \ {v}]
            ELSE w, v)

MchangeForgets(w, m, v) ==                                      \* mutant
  ra_vdirty(Bind(IF v \in w.rset THEN [w EXCEPT !.mtov[w.vtom[v]] = Free] ELSE w, v, m), v)

ra_mchange(w, m, v) ==
  LET om    == w.vtom[v]
      freed == IF v \in w.rset THEN [w EXCEPT !.mtov[om] = Free] ELSE w
  IN  IF v \in w.rset /\ om = m THEN ra_vdirty(Touch(w, m), v)
      ELSE ra_vdirty(Bind(ra_mclear(freed, m), v, m), v)

\* The mreg of one vreg becomes that of another.
Rename(w, b, a) == ra_mchange(w, w.vtom[b], a)

ra_mgetvd(w, v) ==
  ra_vdirty(IF v \in w.rset THEN Touch(w, w.vtom[v]) ELSE Bind(ra_mget(w), v, Victim(w)), v)

-----------------------------------------------------------------------------
(* What the compiler knows of a vreg (co.h) *)

noncon(w, v) == [w EXCEPT !.cset = @ \ {v}, !.z = @ \ {v}, !.nz = @ \ {v}]

setcon(w, v, x) ==
  [w EXCEPT !.cset = @ \cup {v}, !.con[v] = x,
            !.z  = IF x = 0 THEN @ \cup {v} ELSE @ \ {v},
            !.nz = IF x = 0 THEN @ \ {v} ELSE @ \cup {v}]

setnz(w, v) == [noncon(w, v) EXCEPT !.nz = @ \cup {v}]

=============================================================================
