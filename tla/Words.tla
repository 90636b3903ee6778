------------------------------- MODULE Words -------------------------------
(***************************************************************************)
(* The platters' unsigned arithmetic (p_t of stuff.h) on words of WordBits *)
(* bits, 32 in umx; and sums.                                              *)
(***************************************************************************)
EXTENDS Naturals, Sequences

CONSTANT WordBits

ASSUME WordBitsAssumption == WordBits \in Nat \ {0}

\* 2 ^ n, by a recursion that the provers can follow.
Pow2[n \in Nat] == IF n = 0 THEN 1 ELSE 2 * Pow2[n - 1]

Modulus == Pow2[WordBits]
Word    == 0 .. Modulus - 1

Add(x, y) == (x + y) % Modulus
Mul(x, y) == (x * y) % Modulus
Div(x, y) == x \div y
Not(x)    == Modulus - 1 - x

Bits(x) == {i \in 0 .. WordBits - 1 : (x \div Pow2[i]) % 2 = 1}

\* The place of the lowest bit that is set.
Zeros(x) == CHOOSE z \in 0 .. WordBits - 1 : z \in Bits(x) /\ x % Pow2[z] = 0
IsPowerOf2(x) == x # 0 /\ x = Pow2[Zeros(x)]

\* The word with the bits of S below the nth.
LowBits(S) ==
  LET low[n \in Nat] == IF n = 0 THEN 0
                        ELSE IF n - 1 \in S THEN low[n - 1] + Pow2[n - 1] ELSE low[n - 1]
  IN  low

And(x, y) == LowBits(Bits(x) \cap Bits(y))[WordBits]

\* The sum of a sequence of numbers.
Total(s) ==
  LET upto[k \in 0 .. Len(s)] == IF k = 0 THEN 0 ELSE upto[k - 1] + s[k]
  IN  upto[Len(s)]

=============================================================================
