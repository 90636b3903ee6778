----------------------------- MODULE UMControl -----------------------------
(***************************************************************************)
(* What umx promises about control: the Universal Machine executing the    *)
(* platters of array 0 one after the other, with the registers, the other  *)
(* arrays and the console left out.  A platter is the class of instruction *)
(* it decodes to (see CodeCache); what depends on a register is arbitrary. *)
(***************************************************************************)
EXTENDS Naturals, Sequences

CONSTANTS
  Images,    \* the program images array 0 can be loaded with
  Insns      \* the classes of platter an amendment may write

VARIABLES prog, proglen, pc, halted

vars == <<prog, proglen, pc, halted>>

Load(im) ==
  /\ proglen' = Len(im)
  /\ prog' = [x \in 0 .. Len(im) - 1 |-> im[x + 1]]

Init ==
  /\ \E im \in Images :
       /\ proglen = Len(im)
       /\ prog = [x \in 0 .. Len(im) - 1 |-> im[x + 1]]
  /\ pc = 0
  /\ halted = FALSE

At(classes) == ~halted /\ pc < proglen /\ prog[pc] \in classes

\* An instruction that leaves array 0 and control alone.
Step ==
  /\ At({"op", "cmov", "nand"})
  /\ pc' = pc + 1
  /\ UNCHANGED <<prog, proglen, halted>>

\* Array amendment of array 0.
Amend ==
  /\ At({"amend"})
  /\ \E t \in 0 .. proglen - 1, v \in Insns : prog' = [prog EXCEPT ![t] = v]
  /\ pc' = pc + 1
  /\ UNCHANGED <<proglen, halted>>

\* Load program, from array 0: only the execution finger moves.
Jump ==
  /\ At({"load", "loadc"})
  /\ pc' \in 0 .. proglen
  /\ UNCHANGED <<prog, proglen, halted>>

\* Load program, from another array, which replaces array 0.
LoadProgram ==
  /\ At({"load", "loadc"})
  /\ \E im \in Images : Load(im)
  /\ pc' \in 0 .. proglen'
  /\ UNCHANGED halted

\* Halt, an illegal instruction, or running off the end of the program.
Stop ==
  /\ At({"stop"}) \/ (~halted /\ pc >= proglen)
  /\ halted' = TRUE
  /\ UNCHANGED <<prog, proglen, pc>>

Next == Step \/ Amend \/ Jump \/ LoadProgram \/ Stop

Spec == Init /\ [][Next]_vars

=============================================================================
