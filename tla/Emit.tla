-------------------------------- MODULE Emit --------------------------------
(***************************************************************************)
(* The i386 instructions umx emits (i386/emit.h): which form is chosen for *)
(* an immediate operand or a distance, and what the processor makes of it. *)
(* An instruction is its operation, its operand as the processor reads it  *)
(* back, and its length; "mov" of 0 is the exclusive or of a register with *)
(* itself, "inc" and "dec" are "add" and "sub" of 1.                       *)
(***************************************************************************)
EXTENDS Integers, Words

Ins(op, x, n) == [op |-> op, x |-> x, n |-> n]

\* An int that is to be a signed byte (CC), and one that is to be a word (CW).
ISB(n)  == n >= -128 /\ n < 128
Byte(n) == ((n + 128) % 256) - 128
Long(n) == n % Modulus

-----------------------------------------------------------------------------
(* Arithmetic with an immediate operand; eax says that the register is EAX, *)
(* which has shorter forms.                                                *)

e_xxxri(op, eax, i) ==
  IF ISB(i) THEN <<Ins(op, Long(Byte(i)), 3)>>
  ELSE <<Ins(op, Long(i), IF eax THEN 5 ELSE 6)>>

\* The general form comes after the special ones, not instead of them.
\* (e_subri and e_addri call each other; e_addri of -128 is the general form.)
e_subri(eax, i) ==
  (CASE i = -1  -> <<Ins("add", 1, 1)>>
     [] i = 1   -> <<Ins("sub", 1, 1)>>
     [] i = 128 -> e_xxxri("add", eax, -i)
     [] OTHER   -> <<>>)
  \o e_xxxri("sub", eax, i)

e_addri(eax, i) ==
  CASE i = 1   -> <<Ins("add", 1, 1)>>
    [] i = -1  -> <<Ins("sub", 1, 1)>>
    [] i = 128 -> e_subri(eax, -i)
    [] OTHER   -> e_xxxri("add", eax, i)

Clear == <<Ins("mov", 0, 2)>>

e_andri(eax, i) ==
  CASE i = 0  -> Clear
    [] i = -1 -> <<>>
    [] OTHER  -> e_xxxri("and", eax, i)

e_movri(i) == IF i = 0 THEN Clear ELSE <<Ins("mov", Long(i), 5)>>

e_shxri(op, i) ==
  CASE i = 0 -> <<>>
    [] i = 1 -> <<Ins(op, 1, 2)>>
    [] OTHER -> <<Ins(op, i, 3)>>

\* A multiplier is an odd number shifted left by as many places as its lowest
\* bit that is set.
Odd(i)   == i \div Pow2[Zeros(i)]
e_mulri(i) ==
  CASE i = 0               -> Clear
    [] i # 0 /\ Odd(i) = 1 -> e_shxri("shl", Zeros(i))
    [] i # 0 /\ Odd(i) \in {3, 5, 9} ->
         <<Ins("lea", Odd(i) - 1, 3)>> \o e_shxri("shl", Zeros(i))
    [] OTHER               -> <<IF i < 128 THEN Ins("mul", Long(Byte(i)), 3)
                                ELSE Ins("mul", i, 6)>>

\* What the processor leaves in a register that holds x.
Exec(x, ins) ==
  CASE ins.op = "add" -> Add(x, ins.x)
    [] ins.op = "sub" -> Long(x - ins.x)
    [] ins.op = "and" -> And(x, ins.x)
    [] ins.op = "mov" -> ins.x
    [] ins.op = "shl" -> Mul(x, Pow2[ins.x])
    [] ins.op = "shr" -> x \div Pow2[ins.x]
    [] ins.op = "lea" -> Add(x, Mul(x, ins.x))
    [] ins.op = "mul" -> Mul(x, ins.x)
ExecAll(x, code) ==
  LET run[k \in 0 .. Len(code)] == IF k = 0 THEN x ELSE Exec(run[k - 1], code[k])
  IN  run[Len(code)]

Length(code) == Total([k \in DOMAIN code |-> code[k].n])

-----------------------------------------------------------------------------
(* Jumps are relative to where they end.                                   *)

e_jmpi(here, to) ==
  IF ISB(to - (here + 2)) THEN Ins("jmp", Byte(to - (here + 2)), 2)
  ELSE Ins("jmp", Long(to - (here + 5)), 5)

JccCountedAsJmp(here, to) ==                                         \* mutant
  IF ISB(to - (here + 2)) THEN Ins("jcc", Byte(to - (here + 2)), 2)
  ELSE Ins("jcc", Long(to - (here + 5)), 6)
e_jcc(here, to) ==
  IF ISB(to - (here + 2)) THEN Ins("jcc", Byte(to - (here + 2)), 2)
  ELSE Ins("jcc", Long(to - (here + 6)), 6)

\* jcc_over ... end_over: the jump is emitted first, to itself and so in its short
\* form, and given its displacement when the end of what it skips is known.
JccOver(here, body) == Ins("jcc", Byte(body), 2)

Lands(here, jump) == Long(here + jump.n + jump.x)

-----------------------------------------------------------------------------
(* How long things get.  A move to or from memory at a register is an opcode *)
(* and e_xxxrd; one to or from a fixed address takes six bytes.            *)

e_xxxrd(disp) == IF disp = 0 THEN 1 ELSE IF ISB(disp) THEN 2 ELSE 5
Absolute == 6
StoreLen == 7                      \* e_umsti, the longest store of a vreg
FlushLen == 8 * StoreLen           \* ra_vflushall
CallLen  == 5
JccLen   == 6

\* e_pushi at its longest.
PushLen == 5

\* co_alloc of an array whose length is a constant not above 33: every word of
\* the array is cleared by a store of its own.
InlinedMany(c) == c <= 333                                           \* mutant
Inlined(c) == c <= 33
AllocLen(c) == IF c = 0 THEN 8 ELSE 4 * (c + 1)

\* The lengths of those stores.
Cleared(len) == [k \in 1 .. len \div 4 - 1 |-> 1 + e_xxxrd(4 * (k - 1))]

AllocBytes(c) ==
  2 * StoreLen                                          \* two mregs are ejected
  + 3 * Absolute + Length(e_subri(FALSE, AllocLen(c) + 8)) + JccLen
  + Length(e_addri(FALSE, 8)) + 1 + e_xxxrd(0) + 4 + Length(e_addri(FALSE, 4))
  + Length(e_movri(0)) + Total(Cleared(AllocLen(c)))

\* co_badness and co_fltnoex.
BadLen  == Length(e_addri(FALSE, 8)) + 2 * PushLen + CallLen + 1
NoexLen == Length(e_addri(FALSE, 12)) + 2 * PushLen + 2 + Length(e_subri(TRUE, 8)) + 1 + CallLen

\* No instruction is longer: a store of an immediate word, an access to an array.
LongestIns == 7

\* At most as many instructions, in both chains, for each case of the switch of
\* umc_mkblk but co_alloc above: get is ra_mgetv (an ejection and a load), clear
\* co__cclear, call e_calli_rtnp, flush ra_vflushall, farjump co_load_0c, ldst co__ldst.
Instructions ==
  LET get     == 2
      clear   == 3
      call    == 4
      flush   == 8
      farjump == 12
      ldst    == 6 * get + 5
      arith   == 2 * get + 3
  IN  [cmov   |-> 3 * get + 3,
       index  |-> ldst,
       amend  |-> ldst + flush + get + clear + 2 + 4 + call,
       arith  |-> arith,
       div    |-> 2 * get + 5,
       nand   |-> arith + get + 2,
       halt   |-> flush + 7,
       alloc  |-> get + 2 + clear + 2,
       free   |-> get + 2 + 7 + 5,
       output |-> get + 2 + clear + 1,
       input  |-> clear + 2,
       load   |-> flush + get + 2 + 4 + call + farjump,
       branch |-> flush + get + 3 + 2 * farjump,
       bad    |-> flush + 5]

\* What co_condbr skips: the store of a constant, and a jump or a call.
SkippedLen == {2, StoreLen + 2, StoreLen + CallLen}

=============================================================================
