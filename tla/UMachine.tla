------------------------------ MODULE UMachine ------------------------------
(***************************************************************************)
(* What umx promises about registers: the Universal Machine's registers    *)
(* and what each platter does to them and asks of the outside, with the    *)
(* contents of arrays, the console and the allocator left arbitrary.       *)
(***************************************************************************)
EXTENDS Words

CONSTANT VRegs   \* the registers of the Universal Machine

VARIABLES
  reg,       \* what they hold
  platter,   \* the last platter run: its operator and operands
  io         \* what it did outside the registers

vars == <<reg, platter, io>>

Nothing == [op |-> "nothing"]

Init == reg = [v \in VRegs |-> 0] /\ platter = <<"start">> /\ io = Nothing

Put(v, x) == reg' = [reg EXCEPT ![v] = x]

\* A platter that does nothing outside the registers.
Internal(p) == platter' = p /\ io' = Nothing

ConditionalMove(a, b, c) ==
  Internal(<<"cmov", a, b, c>>) /\ Put(a, IF reg[c] # 0 THEN reg[b] ELSE reg[a])

Addition(a, b, c)       == Internal(<<"add", a, b, c>>) /\ Put(a, Add(reg[b], reg[c]))
Multiplication(a, b, c) == Internal(<<"mul", a, b, c>>) /\ Put(a, Mul(reg[b], reg[c]))
NotAnd(a, b, c)         == Internal(<<"nand", a, b, c>>) /\ Put(a, Not(And(reg[b], reg[c])))
Orthography(a, x)       == Internal(<<"ortho", a, x>>) /\ Put(a, x)

Division(a, b, c) ==
  Internal(<<"div", a, b, c>>) /\ reg[c] # 0 /\ Put(a, Div(reg[b], reg[c]))

ArrayIndex(a, b, c) ==
  /\ platter' = <<"index", a, b, c>>
  /\ io' = [op |-> "index", array |-> reg[b], at |-> reg[c]]
  /\ \E x \in Word : Put(a, x)

\* An amendment of array 0 changes the program, which must not go unseen.
ArrayAmendment(a, b, c) ==
  /\ platter' = <<"amend", a, b, c>>
  /\ io' = [op |-> "amend", array |-> reg[a], at |-> reg[b], value |-> reg[c],
            seen |-> IF reg[a] = 0 THEN {reg[b]} ELSE {}]
  /\ UNCHANGED reg

Allocation(b, c) ==
  /\ platter' = <<"alloc", b, c>>
  /\ io' = [op |-> "alloc", size |-> reg[c]]
  /\ \E id \in Word \ {0} : Put(b, id)

Abandonment(c) ==
  platter' = <<"free", c>> /\ io' = [op |-> "free", array |-> reg[c]] /\ UNCHANGED reg

Output(c) ==
  platter' = <<"output", c>> /\ io' = [op |-> "output", char |-> reg[c]] /\ UNCHANGED reg

Input(c) == platter' = <<"input", c>> /\ io' = [op |-> "input"] /\ \E x \in Word : Put(c, x)

LoadProgram(b, c) ==
  /\ platter' = <<"load", b, c>>
  /\ io' = [op |-> "load", array |-> reg[b], at |-> reg[c]]
  /\ UNCHANGED reg

Halt == platter' = <<"halt">> /\ io' = [op |-> "halt"] /\ UNCHANGED reg

\* Two platters that umx compiles as one: a nand and the complement of its
\* result, a move between two places and the load program that goes there.
NotAndNot(a, b, c) == Internal(<<"and", a, b, c>>) /\ Put(a, And(reg[b], reg[c]))

BranchTo(a, b, c, z) ==
  LET to == IF reg[c] # 0 THEN reg[b] ELSE reg[a]
  IN  /\ platter' = <<"branch", a, b, c, z>>
      /\ io' = [op |-> "load", array |-> reg[z], at |-> to]
      /\ Put(a, to)

Next ==
  \/ \E a, b, c \in VRegs :
       \/ ConditionalMove(a, b, c)
       \/ ArrayIndex(a, b, c)
       \/ ArrayAmendment(a, b, c)
       \/ Addition(a, b, c)
       \/ Multiplication(a, b, c)
       \/ Division(a, b, c)
       \/ NotAnd(a, b, c)
       \/ NotAndNot(a, b, c)
  \/ \E a, b, c, z \in VRegs : BranchTo(a, b, c, z)
  \/ \E b, c \in VRegs : Allocation(b, c) \/ LoadProgram(b, c)
  \/ \E c \in VRegs : Abandonment(c) \/ Output(c) \/ Input(c)
  \/ \E a \in VRegs, x \in Word : Orthography(a, x)
  \/ Halt

Spec == Init /\ [][Next]_vars

=============================================================================
