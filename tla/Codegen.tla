------------------------------ MODULE Codegen ------------------------------
(***************************************************************************)
(* The code generator of umx (the cases of umc_mkblk and the functions of  *)
(* i386/co.c) on top of the register allocator: every step compiles one    *)
(* platter, of any kind and on any registers, and runs what was emitted    *)
(* for it.  What leaves the block is handed over through memory alone.     *)
(* Arrays, their sizes and the program itself are left to CodeCache.       *)
(***************************************************************************)
EXTENDS RegAlloc

CONSTANTS
  MaxBlk,      \* UM_MAXBLK
  MaxInline,   \* the largest constant size of an array allocated inline: 33
  Platters     \* the kinds of platter the program has

ASSUME CodegenAssumption == MaxBlk \in Nat \ {0} /\ MaxInline \in Nat

VARIABLES
  jit,    \* the compiler and the processor: see RegAlloc, and
          \*   io      what the last platter did outside the registers
          \*   facts   what the code control has gone to may rely on
  ran     \* the platter compiled last

vars == <<jit, ran>>

Nothing == [op |-> "nothing"]
Unknown == [z |-> {}, nz |-> {}]

Facts(w) == [z |-> w.z, nz |-> w.nz]

\* umc_mkblk up to its loop: all is in memory, zeros are constants.
Fresh(w, facts) ==
  [w EXCEPT !.con = [v \in VRegs |-> 0], !.cset = facts.z, !.z = facts.z, !.nz = facts.nz,
            !.rset = {}, !.vtom = [v \in VRegs |-> Free], !.mset = VRegs,
            !.mtov = [m \in MRegs |-> Free], !.mlru = [m \in MRegs |-> 0],
            !.time = 0, !.c = "inl"]

\* umc_start: the registers of the Universal Machine are zero, and known to be.
Init ==
  /\ ran = <<"start">>
  /\ jit = [con |-> [v \in VRegs |-> 0], cset |-> VRegs, z |-> VRegs, nz |-> {},
            rset |-> {}, vtom |-> [v \in VRegs |-> Free], mset |-> VRegs,
            mtov |-> [m \in MRegs |-> Free], mlru |-> [m \in MRegs |-> 0],
            time |-> 0, c |-> "inl", at |-> "inl",
            m |-> [m \in MRegs |-> 0], gpr |-> [v \in VRegs |-> 0], ok |-> TRUE,
            io |-> Nothing, facts |-> Unknown]

-----------------------------------------------------------------------------
(* Control in the emitted code *)

To(w, c)      == [w EXCEPT !.c = c]                               \* g.c = &g.c
Jump(w, t)    == IF Live(w) THEN [w EXCEPT !.at = t] ELSE w       \* e_jmpi
Jcc(w, p, t)  == IF p THEN Jump(w, t) ELSE w                      \* e_jcc, jcc_over
EndOver(w)    == IF w.at = "over" THEN [w EXCEPT !.at = w.c] ELSE w
Do(w, io)     == IF Live(w) THEN [w EXCEPT !.io = io] ELSE w

\* Leaving for other code, which is told what is known of the vregs.
Go(w, io, facts) ==
  IF Live(w) THEN [w EXCEPT !.at = "gone", !.io = io, !.facts = facts] ELSE w

\* A call destroys the registers that C leaves to the caller.
CallerSaved == {"EAX", "ECX", "EDX"} \cap MRegs

Cclear(w, m) == IF m \in CallerSaved THEN ra_mclear(w, m) ELSE w

CclearTwo(w)  == Cclear(Cclear(w, "EAX"), "ECX")                 \* mutant
co__cclear(w) == Cclear(Cclear(Cclear(w, "EAX"), "ECX"), "EDX")

Clobber(w, junk) ==
  IF Live(w)
  THEN [w EXCEPT !.m = [m \in MRegs |-> IF m \in CallerSaved THEN junk ELSE w.m[m]]]
  ELSE w

\* The operand of co__push.
Pushed(w, v) ==
  IF v \in w.rset THEN Reg(w, v) ELSE IF v \in w.cset THEN w.con[v] ELSE w.gpr[v]

-----------------------------------------------------------------------------
(* Moves and arithmetic *)

co_ortho(w, v, x) == setcon(ra_vinval(w, v), v, x)

CopyNz(w, a, b)  == IF b \in w.nz THEN setnz(w, a) ELSE w
co_mov(w, a, b)  == CopyNz(noncon(Rename(ra_mgetv(w, b), b, a), a), a, b)

co_cmov(w, a, b, c) ==
  LET got == ra_mgetv(ra_mgetv(ra_mgetv(w, c), a), b)
  IN  ra_vdirty(EndOver(SetReg(Jcc(got, Reg(got, c) = 0, "over"), a, Reg(got, b))), a)

Alu(op, x, y) ==
  CASE op = "add" -> Add(x, y) [] op = "mul" -> Mul(x, y) [] op = "and" -> And(x, y)

\* The BOILERPLATE of add, mul and and, for two registers and for a constant.
Apply(w, op, a, y) == SetReg(w, a, Alu(op, Reg(w, a), y))

co_alu(w, op, a, b, c) ==
  LET got == ra_mgetv(ra_mgetv(w, b), c) IN Apply(Rename(got, b, a), op, a, Reg(got, c))

co_alu_i(w, op, a, b, imm) == Apply(Rename(ra_mgetv(w, b), b, a), op, a, imm)

OP_IMM_COMM(w, op, a, b0, c0) ==
  LET b == IF c0 = a THEN c0 ELSE b0   \* COMMUTE
      c == IF c0 = a THEN b0 ELSE c0
  IN  noncon(IF c \in w.cset THEN co_alu_i(w, op, a, b, w.con[c])
             ELSE IF b \in w.cset THEN co_alu_i(w, op, a, c, w.con[b])
             ELSE co_alu(w, op, a, b, c),
             a)

\* EAX, which is a's from now on, and EDX after the division by an mreg.
Divide(w, a, mc) ==
  LET chg == ra_mchange(SetM(ra_mclear(w, "EDX"), "EDX", 0), "EAX", a)
      x   == w.m["EAX"]
      y   == chg.m[mc]
  IN  SetM(SetM(Jcc(chg, y = 0, "trapped"), "EAX", Div(x, y)), "EDX", x % y)

co_div(w, a, b, c) ==
  LET got == ra_mgetv(ra_mhold(ra_ldvm(w, b, "EAX"), "EDX"), c)
      mc  == got.vtom[c]
  IN  ra_mrelse(Divide([got EXCEPT !.ok = @ /\ mc \notin {"EAX", "EDX"}], a, mc), "EDX")

-----------------------------------------------------------------------------
(* Arrays *)

\* The access itself, with vreg d in an mreg: index and array as the code has them.
Access(w, array, at, d, load, x) ==
  IF load THEN SetReg(Do(w, [op |-> "index", array |-> array, at |-> at]), d, x)
  ELSE Do(w, [op |-> "amend", array |-> array, at |-> at, value |-> Reg(w, d), seen |-> {}])

Dget(w, d, load) == IF load THEN ra_mgetvd(w, d) ELSE ra_mgetv(w, d)

\* co__ldst_sz: array 0 lies at progdata.
co__ldst_sz(w, i, d, load, x) ==
  LET index == IF i \in w.cset THEN w ELSE ra_mgetv(w, i)
      got   == Dget(index, d, load)
      at    == IF i \in w.cset THEN w.con[i] ELSE got.m[index.vtom[i]]
  IN  Access(got, 0, at, d, load, x)

co__ldst_snz(w, s, i, d, load, x) ==
  LET index == IF i \in w.cset THEN w ELSE ra_mgetv(w, i)
      base  == ra_mgetv(index, s)
      got   == Dget(base, d, load)
      at    == IF i \in w.cset THEN w.con[i] ELSE got.m[index.vtom[i]]
  IN  Access(got, got.m[base.vtom[s]], at, d, load, x)

co__ldst(w, s, i, d, load, x) ==
  LET base == ra_mgetv(w, s)
      isz  == Jcc(base, Reg(base, s) = 0, "outl")
      inl  == co__ldst_snz(isz, s, i, d, load, x)
      outl == co__ldst_sz(To(inl, "outl"), i, d, load, x)
  IN  IF s \in w.z THEN co__ldst_sz(w, i, d, load, x)
      ELSE IF s \in w.nz THEN co__ldst_snz(w, s, i, d, load, x)
      ELSE To(Jump(outl, "inl"), "inl")

co_index(w, a, b, c, x)       == ra_vdirty(co__ldst(w, b, c, a, TRUE, x), a)
co_amend_unsafe(w, a, b, c)   == co__ldst(w, a, b, c, FALSE, 0)

\* The call of um_postwrite, which returns to where it was called from, or to a
\* new block that begins at the next platter.
co__postwrite(w, i, facts, back, junk) ==
  LET told == IF Live(w) THEN [w EXCEPT !.io.seen = {Pushed(w, i)}] ELSE w
      ret  == Clobber(told, junk)
  IN  IF back THEN ret ELSE Go(ret, ret.io, facts)

co_postwrite_0(w, b, back, junk) == co__postwrite(co__cclear(w), b, Facts(w), back, junk)

co_postwrite(w, a, b, back, junk) ==
  LET got   == ra_mgetv(w, a)
      clear == co__cclear(got)
      outl  == To(Jcc(clear, Reg(got, a) = 0, "outl"), "outl")
  IN  To(co__postwrite(outl, b, [Facts(w) EXCEPT !.z = @ \cup {a}], back, junk), "inl")

\* um_alloc, or the allocation inlined for a small constant size.
co_alloc(w, b, c, id, junk) ==
  LET small == SetReg(ra_mgetvd(w, b), b, id)
      zero  == SetM(ra_mget(small), Victim(small), 0)
      got   == ra_mgetv(w, c)
      chg   == ra_mchange(co__cclear(got), "EAX", b)
  IN  IF c \in w.cset /\ w.con[c] <= MaxInline
      THEN Do(zero, [op |-> "alloc", size |-> w.con[c]])
      ELSE Do(SetM(Clobber(chg, junk), "EAX", id), [op |-> "alloc", size |-> Reg(got, c)])

\* sfree inlined: it computes in the mreg that holds the array's identifier.
HoldSome(w) == ra_mhold(ra_mget(w), Victim(w))

co_free(w, c, junk) ==
  LET got  == ra_mgetv(w, c)
      mlen == Victim(got)
      mlfr == Victim(HoldSome(got))
      done == SetM(SetM(SetReg(HoldSome(HoldSome(got)), c, junk), mlen, junk), mlfr, junk)
  IN  ra_mrelse(ra_mrelse(Do(done, [op |-> "free", array |-> Reg(got, c)]), mlfr), mlen)

-----------------------------------------------------------------------------
(* Input, output and leaving the block *)

co_output(w, c, junk) ==
  LET got == ra_mgetv(w, c)
  IN  Do(Clobber(co__cclear(got), junk), [op |-> "output", char |-> Reg(got, c)])

co_input(w, c, x, junk) ==
  LET chg == ra_mchange(co__cclear(w), "EAX", c)
  IN  Do(SetM(Clobber(chg, junk), "EAX", x), [op |-> "input"])

Loads(array, at) == [op |-> "load", array |-> array, at |-> at]

LoadguardZero(w, b, c) ==                                       \* mutant
  LET got  == ra_mgetv(w, b)
      mb   == Reg(got, b)
      outl == To(Jcc(got, mb # 0, "outl"), "outl")
  IN  To(Go(outl, Loads(mb, Pushed(got, c)), [Facts(w) EXCEPT !.z = @ \cup {b}]), "inl")

co_loadguard(w, b, c) ==
  LET got  == ra_mgetv(w, b)
      mb   == Reg(got, b)
      far(s) == Go(s, Loads(mb, Pushed(got, c)), [Facts(w) EXCEPT !.nz = @ \cup {b}])
  IN  IF b \in w.nz THEN far(got)
      ELSE To(far(To(Jcc(got, mb # 0, "outl"), "outl")), "inl")

co_loadguard_x(w, b, c) ==
  IF b \in w.z THEN w ELSE [co_loadguard(w, b, c) EXCEPT !.z = @ \cup {b}]

co_load_0c(w, x, facts) == Go(w, Loads(0, x), facts)

Load0Stays(w, c) == Do(w, Loads(0, w.gpr[c]))                    \* mutant

co_load_0(w, c) ==
  LET got == ra_mgetv(w, c)
  IN  Go(got, Loads(0, Reg(got, c)), Facts(w))

CondbrSwapped(w, c, i, ct, cf, zt, zf) ==                       \* mutant
  LET got  == ra_mgetv(w, c)
      over == Jcc(got, Reg(got, c) # 0, "over")
  IN  co_load_0c(EndOver(co_load_0c(ra_vflush(co_ortho(over, i, ct), i), ct, zt)), cf, zf)

co_condbr(w, c, i, ct, cf, zt, zf) ==
  LET got  == ra_mgetv(w, c)
      over == Jcc(got, Reg(got, c) = 0, "over")
      true == co_load_0c(ra_vflush(co_ortho(over, i, ct), i), ct, zt)
  IN  co_load_0c(EndOver(true), cf, zf)

-----------------------------------------------------------------------------
(* The switch of umc_mkblk: what it compiles each kind of platter to *)

Platter(kind, platter) ==
  /\ kind \in Platters
  /\ ran' = platter
  /\ jit.at \in {"inl", "outl"}
  /\ jit.time < MaxBlk

Compiler == [jit EXCEPT !.io = Nothing]

\* On to the next platter, or past one that was taken in with the last.
Goon(w, n) == jit' = [w EXCEPT !.time = @ + n]

\* The end of the block: if control has not left it, it runs on into whatever
\* was emitted there before.
End(w) == jit' = [w EXCEPT !.at = IF @ \in {"gone", "halted"} THEN @ ELSE "lost"]

\* What each vreg holds, wherever that is.
Current(v) ==
  IF jit.at \in {"gone", "halted"} THEN jit.gpr[v]
  ELSE IF v \in jit.rset THEN Reg(jit, v)
  ELSE IF v \in jit.mset THEN jit.gpr[v] ELSE jit.con[v]

Constant(v) == v \in jit.cset

CompileKnownMove(a, b, c) ==
  /\ Platter("cmov", <<"cmov", a, b, c>>)
  /\ a = b \/ c \in jit.z \cup jit.nz
  /\ Goon(IF a = b \/ c \in jit.z THEN Compiler
          ELSE IF Constant(b) THEN co_ortho(Compiler, a, jit.con[b])
          ELSE co_mov(Compiler, a, b), 1)

CompileMove(a, b, c) ==
  /\ Platter("cmov", <<"cmov", a, b, c>>)
  /\ a # b /\ c \notin jit.z \cup jit.nz
  /\ LET moved == noncon(co_cmov(Compiler, a, b, c), a)
     IN  Goon(IF {a, b} \subseteq jit.nz THEN setnz(moved, a) ELSE moved, 1)

\* A move between constants, and a load program of array 0 at the one moved.
CompileBranch(a, b, c, zero) ==
  /\ Platter("cmov", <<"branch", a, b, c, zero>>) /\ "load" \in Platters
  /\ a # b /\ c \notin jit.z \cup jit.nz
  /\ jit.time + 1 < MaxBlk
  /\ a # c /\ Constant(a) /\ Constant(b)
  /\ zero \in jit.z /\ zero # a
  /\ LET to(x, nonzero) ==
           [z  |-> ((jit.z \ {a}) \cup (IF x = 0 THEN {a} ELSE {}))
                     \cup (IF nonzero THEN {} ELSE {c}),
            nz |-> ((jit.nz \ {a}) \cup (IF x # 0 THEN {a} ELSE {}))
                     \cup (IF nonzero THEN {c} ELSE {})]
     IN  End(co_condbr(ra_vflushall(Compiler), c, a, jit.con[b], jit.con[a],
                       to(jit.con[b], TRUE), to(jit.con[a], FALSE)))

CompileIndex(a, b, c) ==
  /\ Platter(IF b \in jit.z \cup jit.nz THEN "index" ELSE "index any", <<"index", a, b, c>>)
  /\ \E x \in Word : Goon(noncon(co_index(Compiler, a, b, c, x), a), 1)

\* A store to array 0 is reported, unless the place is known and was not compiled:
\* then it is execute-protected, and the runtime need not be told.
CompileAmendment(a, b, c) ==
  /\ Platter("amend", <<"amend", a, b, c>>)
  /\ a \in jit.z \cup jit.nz
  /\ LET store == co_amend_unsafe(Compiler, a, b, c)
     IN  \/ a \in jit.nz /\ Goon(store, 1)
         \/ a \in jit.z /\ Constant(b) /\ Goon([store EXCEPT !.io.seen = {jit.con[b]}], 1)
         \/ /\ a \in jit.z
            /\ \E back \in BOOLEAN, junk \in Word :
                 Goon(co_postwrite_0(ra_vflushall(store), b, back, junk), 1)

CompileAmendmentAny(a, b, c) ==
  /\ Platter("amend any", <<"amend", a, b, c>>)
  /\ a \notin jit.z \cup jit.nz
  /\ \E back \in BOOLEAN, junk \in Word :
       Goon(co_postwrite(ra_vflushall(co_amend_unsafe(Compiler, a, b, c)), a, b, back, junk), 1)

CompileArith(op, a, b, c) ==
  /\ Platter(op, <<op, a, b, c>>)
  /\ Goon(IF Constant(b) /\ Constant(c)
          THEN co_ortho(Compiler, a, Alu(op, jit.con[b], jit.con[c]))
          ELSE OP_IMM_COMM(Compiler, op, a, b, c), 1)

\* A program that divides by zero has failed.
CompileDiv(a, b, c) ==
  /\ Platter("div", <<"div", a, b, c>>)
  /\ Current(c) # 0
  /\ LET k     == jit.con[c]
         moved == Rename(ra_mgetv(Compiler, b), b, a)
         shift == SetReg(moved, a, Reg(moved, a) \div Pow2[Zeros(k)])      \* co_shr_i
         fold  == Constant(b) /\ Constant(c) /\ k # 0
         power == Constant(c) /\ IsPowerOf2(k)
     IN  Goon(IF fold THEN co_ortho(Compiler, a, Div(jit.con[b], k))
              ELSE IF b = c THEN co_ortho(Compiler, a, 1)
              ELSE noncon(IF power THEN shift ELSE co_div(Compiler, a, b, c), a), 1)

\* The conjunction of two vregs, which are not both constants.
Conjoin(a, b, c) == IF b # c THEN OP_IMM_COMM(Compiler, "and", a, b, c) ELSE co_mov(Compiler, a, b)

CompileNand(a, b, c) ==
  /\ Platter("nand", <<"nand", a, b, c>>)
  /\ LET and == Conjoin(a, b, c)
         got == Rename(ra_mgetv(and, a), a, a)
         not == SetReg(got, a, Not(Reg(got, a)))      \* co_not
     IN  Goon(IF Constant(b) /\ Constant(c)
              THEN co_ortho(Compiler, a, Not(And(jit.con[b], jit.con[c])))
              ELSE noncon(not, a), 1)

\* A nand, and the complement of its result.
CompileNandNot(a, b, c) ==
  /\ Platter("nand", <<"and", a, b, c>>)
  /\ ~(Constant(b) /\ Constant(c))
  /\ jit.time + 1 < MaxBlk
  /\ Goon(Conjoin(a, b, c), 2)

CompileOrtho(a) ==
  \E x \in Word : Platter("ortho", <<"ortho", a, x>>) /\ Goon(co_ortho(Compiler, a, x), 1)

CompileAlloc(b, c) ==
  /\ Platter("alloc", <<"alloc", b, c>>)
  /\ \E id \in Word \ {0}, junk \in Word :
       Goon(setnz(noncon(co_alloc(Compiler, b, c, id, junk), b), b), 1)

\* A program that abandons array 0 has failed.
CompileFree(c) ==
  /\ Platter("free", <<"free", c>>)
  /\ Current(c) # 0
  /\ \E junk \in Word : Goon(setnz(co_free(Compiler, c, junk), c), 1)

CompileOutput(c) ==
  /\ Platter("io", <<"output", c>>)
  /\ \E junk \in Word : Goon(co_output(Compiler, c, junk), 1)

CompileInput(c) ==
  /\ Platter("io", <<"input", c>>)
  /\ \E x, junk \in Word : Goon(noncon(co_input(Compiler, c, x, junk), c), 1)

CompileHalt ==
  /\ Platter("halt", <<"halt">>)
  /\ End(Jump(Do(ra_vflushall(Compiler), [op |-> "halt"]), "halted"))

CompileLoad(b, c) ==
  /\ Platter("load", <<"load", b, c>>)
  /\ LET near == co_loadguard_x(ra_vflushall(Compiler), b, c)
     IN  End(IF Constant(c) THEN co_load_0c(near, jit.con[c], Facts(near))
             ELSE co_load_0(near, c))

\* The platter is execute-protected: control goes to umc_enter, at the same platter.
CompileNoex ==
  /\ Platter("noex", ran)
  /\ LET flushed == ra_vflushall(jit) IN End(Go(flushed, jit.io, Facts(flushed)))

\* The end of a block at its limit: the next one follows it.
CompileFall ==
  /\ jit.at \in {"inl", "outl"}
  /\ jit.time >= MaxBlk
  /\ jit' = Fresh(ra_vflushall(jit), Facts(jit))
  /\ UNCHANGED ran

\* Control comes to a block that was compiled for no more than is known to hold.
Enter ==
  /\ jit.at = "gone"
  /\ \E z \in SUBSET jit.facts.z, nz \in SUBSET jit.facts.nz :
       jit' = [Fresh(jit, [z |-> z, nz |-> nz]) EXCEPT !.at = "inl", !.facts = Unknown]
  /\ UNCHANGED ran

Next ==
  \/ \E a, b, c \in VRegs :
       \/ CompileKnownMove(a, b, c)
       \/ CompileMove(a, b, c)
       \/ CompileIndex(a, b, c)
       \/ CompileAmendment(a, b, c)
       \/ CompileAmendmentAny(a, b, c)
       \/ CompileArith("add", a, b, c)
       \/ CompileArith("mul", a, b, c)
       \/ CompileDiv(a, b, c)
       \/ CompileNand(a, b, c)
       \/ CompileNandNot(a, b, c)
  \/ \E a, b, c, zero \in VRegs : CompileBranch(a, b, c, zero)
  \/ \E b, c \in VRegs : CompileAlloc(b, c) \/ CompileLoad(b, c)
  \/ \E c \in VRegs : CompileOrtho(c) \/ CompileFree(c) \/ CompileOutput(c) \/ CompileInput(c)
  \/ CompileHalt
  \/ CompileNoex
  \/ CompileFall
  \/ Enter

Spec == Init /\ [][Next]_vars

-----------------------------------------------------------------------------
(* Properties *)

\* Between platters nothing is held by ra_mhold, and what is emitted next goes inline.
TypeOK ==
  /\ jit.con \in [VRegs -> Word] /\ jit.gpr \in [VRegs -> Word] /\ jit.m \in [MRegs -> Word]
  /\ {jit.cset, jit.z, jit.nz, jit.rset, jit.mset} \subseteq SUBSET VRegs
  /\ jit.vtom \in [VRegs -> MRegs \cup {Free}]
  /\ jit.mtov \in [MRegs -> VRegs \cup {Free}]
  /\ jit.mlru \in [MRegs -> 0 .. MaxBlk] /\ jit.time \in 0 .. MaxBlk
  /\ jit.c = "inl"
  /\ jit.at \in {"inl", "outl", "gone", "halted", "lost", "trapped"}

\* The two tables of ra.c, vtom and mtov, are inverse to each other between platters:
\* no mreg is left held, and each vreg is somewhere.
OneToOne ==
  /\ \A v \in jit.rset : jit.mtov[jit.vtom[v]] = v
  /\ \A m \in MRegs : jit.mtov[m] # Free => jit.mtov[m] \in jit.rset /\ jit.vtom[jit.mtov[m]] = m
  /\ jit.rset \cup jit.mset \cup jit.cset = VRegs

\* The assertions of ra_mget, ra_mrelse and co_div hold: there is always an mreg to
\* eject that the platter does not use itself, and a divisor is never in EAX or EDX.
AssertsHold == jit.ok

\* Wherever a vreg is kept, it is the same: mreg, memory and constant agree, and
\* what the compiler knows of it is true.
Coherent ==
  jit.at = "inl" =>
    \A v \in VRegs :
      /\ v \in jit.rset \cap jit.mset => Reg(jit, v) = jit.gpr[v]
      /\ v \in jit.cset => jit.con[v] = Current(v)
      /\ v \in jit.z => Current(v) = 0
      /\ v \in jit.nz => Current(v) # 0

\* What other code is told when control goes to it is true of the vregs in memory,
\* which is all it has of them.
HandsOver ==
  jit.at = "gone" => /\ \A v \in jit.facts.z : jit.gpr[v] = 0
                     /\ \A v \in jit.facts.nz : jit.gpr[v] # 0

\* Between platters control is in the inline code of the block, which goes on with
\* the next one, or has left for other code: what went out of line has come back.
StaysInline == jit.at \in {"inl", "gone", "halted"}

\* The code that umc_mkblk emits for each platter does with the registers of the
\* Universal Machine, and asks of the outside, what that machine does.
UM == INSTANCE UMachine
        WITH reg <- [v \in VRegs |-> Current(v)], platter <- ran, io <- jit.io
ImplementsUM == UM!Spec

=============================================================================
