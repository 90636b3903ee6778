-------------------------------- MODULE Heap --------------------------------
(***************************************************************************)
(* What the storage allocator promises its one caller at a time: an array  *)
(* of the length asked for, apart from every other array, which stays as   *)
(* it is until it is freed.                                                *)
(***************************************************************************)
EXTENDS Regions

CONSTANT Addresses    \* every word there is

VARIABLES
  live,      \* the arrays that have been allocated and not freed
  asked      \* the words asked for and not yet given, or 0

vars == <<live, asked>>

Init ==
  /\ live = {}
  /\ asked = 0

Ask ==
  /\ asked = 0
  /\ asked' \in Nat \ {0}
  /\ UNCHANGED live

Give ==
  /\ asked # 0
  /\ \E p \in Addresses :
       LET a == Region(p, p + asked)
       IN  /\ Words(a) \subseteq Addresses
           /\ Words(a) \cap AllWords(live) = {}
           /\ live' = live \cup {a}
  /\ asked' = 0

Free ==
  /\ asked = 0
  /\ \E a \in live : live' = live \ {a}
  /\ UNCHANGED asked

Next == Ask \/ Give \/ Free

Spec == Init /\ [][Next]_vars

=============================================================================
