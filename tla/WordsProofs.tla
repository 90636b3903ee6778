---------------------------- MODULE WordsProofs ----------------------------
(***************************************************************************)
(* Proofs about Words: the powers of two, the bits of a word and the       *)
(* arithmetic of words, whatever their width.                              *)
(***************************************************************************)
EXTENDS Words, SetInduction, TLAPS

\* The powers of two, as their recursion defines them.
LEMMA Pow2Type ==
  Pow2 \in [Nat -> Nat \ {0}] /\ Pow2[0] = 1 /\ \A n \in Nat : Pow2[n + 1] = 2 * Pow2[n]
<1> DEFINE S == Nat \ {0}
           step == [n \in Nat |-> [s \in S |-> 2 * s]]
<1>1. step \in [Nat -> [S -> S]]
  OBVIOUS
<1>2. PICK f \in [Nat -> S] : Follows(f, 1, step)
  <2>1. 1 \in S
    OBVIOUS
  <2> HIDE DEF step, S
  <2>. QED
    BY <1>1, <2>1, RecursiveSequence
<1>3. f[0] = 1 /\ \A n \in Nat : f[n + 1] = 2 * f[n]
  BY <1>2 DEF Follows
<1>4. f = [n \in Nat |-> IF n = 0 THEN 1 ELSE 2 * f[n - 1]]
  <2>1. ASSUME NEW n \in Nat PROVE f[n] = IF n = 0 THEN 1 ELSE 2 * f[n - 1]
    <3>1. CASE n # 0
      <4>1. n - 1 \in Nat /\ (n - 1) + 1 = n
        BY <3>1
      <4>. QED
        BY <1>3, <3>1, <4>1
    <3>. QED
      BY <1>3, <3>1
  <2>. QED
    BY <2>1
<1>5. Pow2 = [n \in Nat |-> IF n = 0 THEN 1 ELSE 2 * Pow2[n - 1]]
  BY <1>4 DEF Pow2
<1> HIDE DEF step
<1>6. Pow2[0] = 1 /\ \A n \in Nat : Pow2[n + 1] = 2 * Pow2[n]
  <2>1. ASSUME NEW n \in Nat PROVE Pow2[n + 1] = 2 * Pow2[n]
    <3>1. n + 1 \in Nat /\ n + 1 # 0 /\ (n + 1) - 1 = n
      OBVIOUS
    <3>. QED
      BY <1>5, <3>1
  <2>2. Pow2[0] = 1
    BY <1>5
  <2>. QED
    BY <2>1, <2>2
<1> DEFINE X == {n \in Nat : Pow2[n] \in S}
<1>7. X = Nat
  <2>1. 0 \in X
    BY <1>6
  <2>2. \A n \in X : n + 1 \in X
    BY <1>6
  <2>. QED
    BY <2>1, <2>2, NatSetInduction
<1>. QED
  <2>1. \A n \in Nat : Pow2[n] \in S
    BY <1>7
  <2>2. Pow2 \in [Nat -> S]
    BY <1>5, <2>1
  <2>. QED
    BY <1>6, <2>2

\* There are words, and zero is one.
LEMMA ModulusType == Modulus \in Nat \ {0} /\ 0 \in Word /\ Word \subseteq Nat
BY Pow2Type, WordBitsAssumption DEF Modulus, Word

\* The low bits of a word are those below the last, and the last.
LEMMA LowBitsIs ==
  ASSUME NEW S
  PROVE  /\ LowBits(S)[0] = 0
         /\ \A n \in Nat :
              LowBits(S)[n + 1] = IF n \in S THEN LowBits(S)[n] + Pow2[n] ELSE LowBits(S)[n]
<1> DEFINE Plus(n, s) == IF n \in S THEN s + Pow2[n] ELSE s
           step == [n \in Nat |-> [s \in Nat |-> Plus(n, s)]]
           low == LowBits(S)
<1>1. step \in [Nat -> [Nat -> Nat]]
  BY Pow2Type
<1>2. PICK f \in [Nat -> Nat] : Follows(f, 0, step)
  <2> DEFINE S_ == Nat
  <2>1. step \in [Nat -> [S_ -> S_]] /\ 0 \in S_
    BY <1>1
  <2> HIDE DEF step, S_
  <2>2. \E f \in [Nat -> S_] : Follows(f, 0, step)
    BY <2>1, RecursiveSequence
  <2>. QED
    BY <2>2 DEF S_
<1>3. f[0] = 0 /\ \A n \in Nat : f[n + 1] = Plus(n, f[n])
  BY <1>2 DEF Follows
<1> HIDE DEF step
<1>4. f = [n \in Nat |-> IF n = 0 THEN 0
                         ELSE IF n - 1 \in S THEN f[n - 1] + Pow2[n - 1] ELSE f[n - 1]]
  <2>1. ASSUME NEW n \in Nat
        PROVE  f[n] = IF n = 0 THEN 0
                      ELSE IF n - 1 \in S THEN f[n - 1] + Pow2[n - 1] ELSE f[n - 1]
    <3>1. CASE n # 0
      <4>1. n - 1 \in Nat /\ (n - 1) + 1 = n
        BY <3>1
      <4>. QED
        BY <1>3, <3>1, <4>1
    <3>. QED
      BY <1>3, <3>1
  <2>. QED
    BY <2>1
<1>5. low = [n \in Nat |-> IF n = 0 THEN 0
                           ELSE IF n - 1 \in S THEN low[n - 1] + Pow2[n - 1] ELSE low[n - 1]]
  BY <1>4 DEF LowBits
<1> HIDE DEF low
<1>6. ASSUME NEW n \in Nat
      PROVE  low[n + 1] = IF n \in S THEN low[n] + Pow2[n] ELSE low[n]
  <2>1. n + 1 \in Nat /\ n + 1 # 0 /\ (n + 1) - 1 = n
    OBVIOUS
  <2>. QED
    BY <1>5, <2>1
<1>7. low[0] = 0
  BY <1>5
<1>. QED
  BY <1>6, <1>7 DEF low

\* The bits below the nth are worth less than it.
LEMMA LowBitsBound == \A S : \A n \in Nat : LowBits(S)[n] \in 0 .. Pow2[n] - 1
<1> SUFFICES ASSUME NEW S PROVE \A n \in Nat : LowBits(S)[n] \in 0 .. Pow2[n] - 1
  OBVIOUS
<1> DEFINE low == LowBits(S)
<1>1. low[0] = 0 /\ \A n \in Nat : low[n + 1] = IF n \in S THEN low[n] + Pow2[n] ELSE low[n]
  BY LowBitsIs
<1> HIDE DEF low
<1> DEFINE X == {n \in Nat : low[n] \in 0 .. Pow2[n] - 1}
<1>2. X = Nat
  <2>1. 0 \in X
    BY <1>1, Pow2Type
  <2>2. ASSUME NEW n \in X PROVE n + 1 \in X
    <3>1. Pow2[n] \in Nat \ {0} /\ Pow2[n + 1] = 2 * Pow2[n] /\ low[n] \in 0 .. Pow2[n] - 1
      BY Pow2Type
    <3>2. low[n + 1] = low[n] + Pow2[n] \/ low[n + 1] = low[n]
      BY <1>1
    <3>3. low[n + 1] \in 0 .. Pow2[n + 1] - 1
      BY <3>1, <3>2
    <3>. QED
      BY <3>3
  <2>. QED
    BY <2>1, <2>2, NatSetInduction
<1>3. \A n \in Nat : low[n] \in 0 .. Pow2[n] - 1
  BY <1>2
<1>. QED
  BY <1>3 DEF low

\* The remainder of a number, given its quotient.
LEMMA ModIs ==
  ASSUME NEW d \in Nat \ {0}, NEW q \in Int, NEW r \in 0 .. d - 1, NEW x \in Int, x = q * d + r
  PROVE  x % d = r
<1> DEFINE p == x \div d
           s == x % d
<1>1. p \in Int /\ s \in 0 .. d - 1 /\ x = p * d + s
  OBVIOUS
<1> HIDE DEF p, s
<1>2. \A i \in Nat : i >= 1 => i * d >= d
  OBVIOUS
<1>3. CASE p > q
  <2>1. p - q \in Nat /\ p - q >= 1 /\ p * d = q * d + (p - q) * d
    BY <1>1, <1>3
  <2>2. (p - q) * d >= d
    BY <1>2, <2>1
  <2>. QED
    BY <1>1, <2>1, <2>2
<1>4. CASE q > p
  <2>1. q - p \in Nat /\ q - p >= 1 /\ q * d = p * d + (q - p) * d
    BY <1>1, <1>4
  <2>2. (q - p) * d >= d
    BY <1>2, <2>1
  <2>. QED
    BY <1>1, <2>1, <2>2
<1>5. CASE p = q
  BY <1>1, <1>5 DEF s
<1>. QED
  BY <1>1, <1>3, <1>4, <1>5

\* A word has the value of its bits.
LEMMA BitsAre == \A x \in Word : And(x, x) = x
<1> SUFFICES ASSUME NEW x \in Word PROVE And(x, x) = x
  OBVIOUS
<1> DEFINE low == LowBits(Bits(x))
<1>1. low[0] = 0 /\ \A n \in Nat : low[n + 1] = IF n \in Bits(x) THEN low[n] + Pow2[n] ELSE low[n]
  BY LowBitsIs
<1> HIDE DEF low
<1>2. x \in Nat /\ x < Pow2[WordBits] /\ WordBits \in Nat \ {0}
  BY Pow2Type, WordBitsAssumption DEF Word, Modulus
<1> DEFINE X == {n \in Nat : n <= WordBits => low[n] = x % Pow2[n]}
<1>3. 0 \in X
  BY <1>1, <1>2, Pow2Type
<1>4. ASSUME NEW n \in X PROVE n + 1 \in X
  <2> SUFFICES ASSUME n + 1 <= WordBits PROVE low[n + 1] = x % Pow2[n + 1]
    OBVIOUS
  <2> DEFINE p == Pow2[n]
             q == x \div p
             t == q % 2
             h == q \div 2
  <2>1. p \in Nat \ {0} /\ Pow2[n + 1] = 2 * p /\ n \in Nat
    BY Pow2Type
  <2>2. low[n] = x % p
    BY <1>2, <2>1
  <2>3. n \in Bits(x) <=> t = 1
    BY <1>2, <2>1 DEF Bits
  <2> HIDE DEF p
  <2>4. q \in Nat /\ x % p \in 0 .. p - 1 /\ x = q * p + (x % p)
    BY <1>2, <2>1
  <2> DEFINE r == x % p
  <2> HIDE DEF q, r
  <2>5. t \in 0 .. 1 /\ h \in Nat /\ q = 2 * h + t
    BY <2>4
  <2> HIDE DEF t, h
  <2>6. r \in 0 .. p - 1 /\ x = (2 * h + t) * p + r
    BY <2>4, <2>5 DEF r
  <2>7. x = h * (2 * p) + (IF t = 1 THEN r + p ELSE r)
    <3>1. CASE t = 1
      BY <2>1, <2>5, <2>6, <3>1
    <3>2. CASE t = 0
      BY <2>1, <2>5, <2>6, <3>2
    <3>. QED
      BY <2>5, <3>1, <3>2
  <2> DEFINE e == IF t = 1 THEN r + p ELSE r
  <2>8. e \in 0 .. (2 * p) - 1 /\ 2 * p \in Nat \ {0}
    BY <2>1, <2>6
  <2>9. x % (2 * p) = e
    <3> DEFINE pp == 2 * p
    <3>1. pp \in Nat \ {0} /\ e \in 0 .. pp - 1 /\ x = h * pp + e
      BY <2>7, <2>8
    <3> HIDE DEF pp, e
    <3>2. x % pp = e
      BY <1>2, <2>5, <3>1, ModIs
    <3>. QED
      BY <3>2 DEF pp
  <2>10. low[n + 1] = e
    BY <1>1, <2>1, <2>2, <2>3, <2>6 DEF p, r
  <2>. QED
    BY <2>1, <2>9, <2>10
<1>5. X = Nat
  BY <1>3, <1>4, NatSetInduction
<1>6. low[WordBits] = x % Pow2[WordBits]
  BY <1>2, <1>5
<1>7. x % Pow2[WordBits] = x
  <2> DEFINE m == Pow2[WordBits]
  <2>1. m \in Nat \ {0} /\ x \in 0 .. m - 1
    BY <1>2, Pow2Type
  <2> HIDE DEF m
  <2>2. x = 0 * m + x /\ 0 \in Nat
    BY <1>2, <2>1
  <2>3. x % m = x
    BY <1>2, <2>1, <2>2, ModIs
  <2>. QED
    BY <2>3 DEF m
<1>8. Bits(x) \cap Bits(x) = Bits(x)
  OBVIOUS
<1>. QED
  BY <1>6, <1>7, <1>8 DEF And, low

\* The platters' arithmetic stays within a word.
LEMMA Arithmetic ==
  ASSUME NEW x \in Word, NEW y \in Word
  PROVE  /\ Add(x, y) \in Word /\ Mul(x, y) \in Word /\ And(x, y) \in Word /\ Not(x) \in Word
         /\ y # 0 => Div(x, y) \in Word /\ x % y \in Word
<1>1. Modulus \in Nat \ {0} /\ x \in Nat /\ y \in Nat /\ x < Modulus /\ y < Modulus
  BY ModulusType DEF Word
<1>2. \A n \in Nat, k \in Nat \ {0} : n % k \in 0 .. k - 1
  OBVIOUS
<1>3. x + y \in Nat /\ x * y \in Nat
  BY <1>1
<1>4. Add(x, y) \in Word /\ Mul(x, y) \in Word
  BY <1>1, <1>2, <1>3 DEF Add, Mul, Word
<1>5. And(x, y) \in Word
  BY LowBitsBound, WordBitsAssumption DEF And, Word, Modulus
<1>6. Not(x) \in Word
  BY <1>1 DEF Not, Word
<1>7. ASSUME y # 0 PROVE Div(x, y) \in Word /\ x % y \in Word
  <2>1. x \div y \in Nat /\ x \div y <= x
    BY <1>1, <1>7
  <2>2. x % y \in 0 .. y - 1
    BY <1>1, <1>2, <1>7
  <2>. QED
    BY <1>1, <2>1, <2>2 DEF Div, Word
<1>. QED
  BY <1>4, <1>5, <1>6, <1>7

\* Addition, multiplication and conjunction may take their operands in any order.
LEMMA Commutes ==
  ASSUME NEW x \in Word, NEW y \in Word
  PROVE  Add(x, y) = Add(y, x) /\ Mul(x, y) = Mul(y, x) /\ And(x, y) = And(y, x)
<1>1. x \in Int /\ y \in Int
  BY ModulusType
<1>2. x + y = y + x /\ x * y = y * x
  BY <1>1
<1>3. Bits(x) \cap Bits(y) = Bits(y) \cap Bits(x)
  OBVIOUS
<1>. QED
  BY <1>2, <1>3 DEF Add, Mul, And

\* Powers of two grow.
LEMMA Pow2Grows ==
  ASSUME NEW n \in Nat, NEW k \in Nat
  PROVE  Pow2[n + k] >= Pow2[n]
<1> DEFINE X == {i \in Nat : Pow2[n + i] >= Pow2[n]}
<1>1. 0 \in X
  BY Pow2Type
<1>2. ASSUME NEW i \in X PROVE i + 1 \in X
  <2>1. i \in Nat /\ n + i \in Nat /\ n + (i + 1) = (n + i) + 1
    OBVIOUS
  <2>2. Pow2[n + i] \in Nat /\ Pow2[n + (i + 1)] = 2 * Pow2[n + i] /\ Pow2[n] \in Nat
    BY <2>1, Pow2Type
  <2>. QED
    BY <2>1, <2>2
<1>3. X = Nat
  <2> HIDE DEF X
  <2>1. X \in SUBSET Nat
    BY DEF X
  <2>. QED
    BY <1>1, <1>2, <2>1, NatSetInduction
<1>. QED
  BY <1>3

\* The first of them.
LEMMA SmallPow2 ==
  /\ Pow2[0] = 1 /\ Pow2[1] = 2 /\ Pow2[2] = 4 /\ Pow2[3] = 8 /\ Pow2[4] = 16 /\ Pow2[5] = 32
  /\ Pow2[6] = 64 /\ Pow2[7] = 128 /\ Pow2[8] = 256 /\ Pow2[9] = 512 /\ Pow2[10] = 1024
<1>1. Pow2[0] = 1 /\ Pow2[1] = 2 /\ Pow2[2] = 4 /\ Pow2[3] = 8
  <2>1. Pow2[0 + 1] = 2 * Pow2[0] /\ Pow2[1 + 1] = 2 * Pow2[1] /\ Pow2[2 + 1] = 2 * Pow2[2]
    BY Pow2Type
  <2>. QED
    BY <2>1, Pow2Type
<1>2. Pow2[4] = 16 /\ Pow2[5] = 32 /\ Pow2[6] = 64
  <2>1. Pow2[3 + 1] = 2 * Pow2[3] /\ Pow2[4 + 1] = 2 * Pow2[4] /\ Pow2[5 + 1] = 2 * Pow2[5]
    BY Pow2Type
  <2>. QED
    BY <1>1, <2>1
<1>3. Pow2[7] = 128 /\ Pow2[8] = 256 /\ Pow2[9] = 512 /\ Pow2[10] = 1024
  <2>1. /\ Pow2[6 + 1] = 2 * Pow2[6] /\ Pow2[7 + 1] = 2 * Pow2[7] /\ Pow2[8 + 1] = 2 * Pow2[8]
        /\ Pow2[9 + 1] = 2 * Pow2[9]
    BY Pow2Type
  <2>. QED
    BY <1>2, <2>1
<1>. QED
  BY <1>1, <1>2, <1>3

-----------------------------------------------------------------------------
(* Remainders of integers *)

\* What a remainder is.
LEMMA Remainder ==
  ASSUME NEW d \in Nat \ {0}, NEW x \in Int
  PROVE  \E q \in Int, r \in 0 .. d - 1 : x = q * d + r /\ r = x % d
<1> DEFINE p == x \div d
           s == x % d
<1>1. p \in Int /\ s \in 0 .. d - 1 /\ x = p * d + s
  OBVIOUS
<1> QED
  BY <1>1

\* A remainder may be taken early.
LEMMA ModPlus ==
  ASSUME NEW d \in Nat \ {0}, NEW x \in Int, NEW y \in Int
  PROVE  (x + (y % d)) % d = (x + y) % d
<1>1. PICK p \in Int, r \in 0 .. d - 1 : y = p * d + r /\ r = y % d
  BY Remainder
<1>2. PICK z \in Int : z = x + y
  OBVIOUS
<1>3. PICK q \in Int, s \in 0 .. d - 1 : z = q * d + s /\ s = z % d
  BY Remainder
<1>4. PICK v \in Int, w \in Int : v = x + r /\ w = q - p
  OBVIOUS
<1>5. v = w * d + s
  <2>1. w * d = q * d - p * d
    BY <1>4
  <2>2. PICK a \in Int, b \in Int, c \in Int : a = p * d /\ b = q * d /\ c = w * d
    OBVIOUS
  <2>3. y = a + r /\ z = b + s /\ c = b - a
    BY <1>1, <1>3, <2>1, <2>2
  <2>4. v = c + s
    BY <1>2, <1>4, <2>3
  <2> QED
    BY <2>2, <2>4
<1>6. v % d = s
  BY <1>5, ModIs
<1> QED
  BY <1>1, <1>2, <1>3, <1>4, <1>6

\* The same of a difference.
LEMMA ModMinus ==
  ASSUME NEW d \in Nat \ {0}, NEW x \in Int, NEW y \in Int
  PROVE  (x - (y % d)) % d = (x - y) % d
<1>1. PICK p \in Int, r \in 0 .. d - 1 : y = p * d + r /\ r = y % d
  BY Remainder
<1>2. PICK z \in Int : z = x - y
  OBVIOUS
<1>3. PICK q \in Int, s \in 0 .. d - 1 : z = q * d + s /\ s = z % d
  BY Remainder
<1>4. PICK v \in Int, w \in Int : v = x - r /\ w = q + p
  OBVIOUS
<1>5. v = w * d + s
  <2>1. w * d = q * d + p * d
    BY <1>4
  <2>2. PICK a \in Int, b \in Int, c \in Int : a = p * d /\ b = q * d /\ c = w * d
    OBVIOUS
  <2>3. y = a + r /\ z = b + s /\ c = b + a
    BY <1>1, <1>3, <2>1, <2>2
  <2>4. v = c + s
    BY <1>2, <1>4, <2>3
  <2> QED
    BY <2>2, <2>4
<1>6. v % d = s
  BY <1>5, ModIs
<1> QED
  BY <1>1, <1>2, <1>3, <1>4, <1>6

\* The same of a product.
LEMMA ModTimes ==
  ASSUME NEW d \in Nat \ {0}, NEW x \in Int, NEW y \in Int
  PROVE  (x * (y % d)) % d = (x * y) % d
<1>1. PICK p \in Int, r \in 0 .. d - 1 : y = p * d + r /\ r = y % d
  BY Remainder
<1>2. PICK z \in Int : z = x * y
  OBVIOUS
<1>3. PICK q \in Int, s \in 0 .. d - 1 : z = q * d + s /\ s = z % d
  BY Remainder
<1>4. PICK k \in Int : k = x * p
  OBVIOUS
<1>5. PICK v \in Int, w \in Int : v = x * r /\ w = q - k
  OBVIOUS
<1>6. z = k * d + v
  <2>1. z = x * (p * d + r)
    BY <1>1, <1>2
  <2>2. x * (p * d + r) = (x * p) * d + x * r
    OBVIOUS
  <2> QED
    BY <1>4, <1>5, <2>1, <2>2
<1>7. w * d = q * d - k * d
  BY <1>5
<1>8. v = w * d + s
  BY <1>3, <1>6, <1>7
<1>9. v % d = s
  BY <1>8, ModIs
<1> QED
  BY <1>1, <1>2, <1>3, <1>5, <1>9

\* The quotient of a number, given its remainder.
LEMMA QuotientIs ==
  ASSUME NEW d \in Nat \ {0}, NEW q \in Nat, NEW r \in 0 .. d - 1, NEW x \in Nat, x = q * d + r
  PROVE  x \div d = q
<1> DEFINE p == x \div d
           s == x % d
<1>1. p \in Nat /\ s \in 0 .. d - 1 /\ x = p * d + s
  OBVIOUS
<1>2. s = r
  BY ModIs
<1> HIDE DEF p, s
<1>3. \A i \in Nat : i >= 1 => i * d >= d
  OBVIOUS
<1>4. p * d = q * d
  <2>1. PICK a \in Nat, b \in Nat : a = p * d /\ b = q * d
    BY <1>1
  <2>2. x = a + s /\ x = b + r
    BY <1>1, <2>1
  <2> QED
    BY <1>1, <1>2, <2>1, <2>2
<1>5. CASE p > q
  <2>1. p - q \in Nat /\ p - q >= 1 /\ (p - q) * d = p * d - q * d
    BY <1>1, <1>5
  <2> QED
    BY <1>3, <1>4, <2>1
<1>6. CASE q > p
  <2>1. q - p \in Nat /\ q - p >= 1 /\ (q - p) * d = q * d - p * d
    BY <1>1, <1>6
  <2> QED
    BY <1>3, <1>4, <2>1
<1>7. CASE p = q
  BY <1>7 DEF p
<1> QED
  BY <1>1, <1>5, <1>6, <1>7

-----------------------------------------------------------------------------
(* Powers of two, and the bits of some words *)

\* The power of a sum.
LEMMA Pow2Plus ==
  ASSUME NEW n \in Nat, NEW k \in Nat
  PROVE  Pow2[n + k] = Pow2[n] * Pow2[k]
<1> DEFINE X == {i \in Nat : Pow2[n + i] = Pow2[n] * Pow2[i]}
<1>1. 0 \in X
  BY Pow2Type
<1>2. ASSUME NEW i \in X PROVE i + 1 \in X
  <2>1. n + (i + 1) = (n + i) + 1 /\ n + i \in Nat /\ i \in Nat
    OBVIOUS
  <2>2. Pow2[n + (i + 1)] = 2 * Pow2[n + i] /\ Pow2[i + 1] = 2 * Pow2[i]
    BY <2>1, Pow2Type
  <2>3. PICK a \in Nat, b \in Nat, c \in Nat : a = Pow2[n] /\ b = Pow2[i] /\ c = Pow2[n + i]
    BY <2>1, Pow2Type
  <2>4. c = a * b
    BY <2>3
  <2>5. 2 * c = a * (2 * b)
    BY <2>4
  <2> QED
    BY <2>1, <2>2, <2>3, <2>5
<1>3. X = Nat
  BY <1>1, <1>2, NatSetInduction
<1> QED
  BY <1>3

\* Nothing is left of a word and no bits.
LEMMA AndNothing ==
  ASSUME NEW x
  PROVE  And(x, 0) = 0
<1>1. Bits(0) = {}
  <2>1. ASSUME NEW i \in 0 .. WordBits - 1 PROVE (0 \div Pow2[i]) % 2 # 1
    <3>1. i \in Nat
      BY WordBitsAssumption
    <3>2. PICK d \in Nat \ {0} : d = Pow2[i]
      BY <3>1, Pow2Type
    <3>3. 0 = 0 * d + 0 /\ 0 \in 0 .. d - 1
      BY <3>2
    <3>4. 0 \div d = 0
      BY <3>3, QuotientIs
    <3>5. 0 % 2 # 1
      OBVIOUS
    <3> QED
      BY <3>2, <3>4, <3>5
  <2> QED
    BY <2>1 DEF Bits
<1>2. PICK low : low = LowBits({})
  OBVIOUS
<1>3. low[0] = 0 /\ \A n \in Nat : low[n + 1] = low[n]
  BY <1>2, LowBitsIs
<1> DEFINE X == {n \in Nat : low[n] = 0}
<1>4. 0 \in X /\ \A n \in X : n + 1 \in X
  BY <1>3
<1>5. X = Nat
  <2> HIDE DEF X
  <2>1. X \subseteq Nat
    BY DEF X
  <2> QED
    BY <1>4, <2>1, NatSetInduction
<1>6. low[WordBits] = 0
  BY <1>5, WordBitsAssumption
<1>7. Bits(x) \cap Bits(0) = {}
  BY <1>1
<1> QED
  BY <1>2, <1>6, <1>7 DEF And

\* All of it is left of a word and all bits.
LEMMA AndAll ==
  ASSUME NEW x \in Word
  PROVE  And(x, Modulus - 1) = x
<1>1. ASSUME NEW i \in 0 .. WordBits - 1 PROVE i \in Bits(Modulus - 1)
  <2>1. PICK n \in Nat : n = WordBits - i /\ n >= 1 /\ i \in Nat /\ n + i = WordBits /\ n - 1 \in Nat
                         /\ (n - 1) + 1 = n
    BY WordBitsAssumption
  <2>2. PICK a \in Nat \ {0}, d \in Nat \ {0} : a = Pow2[n - 1] /\ d = Pow2[i]
    BY <2>1, Pow2Type
  <2>3. Pow2[n] = 2 * a
    BY <2>1, <2>2, Pow2Type
  <2>4. Modulus = (2 * a) * d
    <3>1. n \in Nat /\ i \in Nat
      BY <2>1
    <3>2. Pow2[n + i] = Pow2[n] * Pow2[i]
      BY <3>1, Pow2Plus, Zenon
    <3>3. Modulus = Pow2[n + i]
      BY <2>1 DEF Modulus
    <3> QED
      BY <2>2, <2>3, <3>2, <3>3, Zenon
  <2>5. PICK q \in Nat : q = 2 * a - 1
    BY <2>2
  <2>6. PICK x0 \in Nat : x0 = Modulus - 1
    BY ModulusType
  <2>7. x0 = q * d + (d - 1)
    <3>1. q * d = (2 * a) * d - d
      BY <2>5
    <3>2. PICK b \in Nat, c \in Nat : b = (2 * a) * d /\ c = q * d
      OBVIOUS
    <3> QED
      BY <2>4, <2>6, <3>1, <3>2
  <2>8. d - 1 \in 0 .. d - 1
    OBVIOUS
  <2>9. x0 \div d = q
    BY <2>7, <2>8, QuotientIs
  <2>10. q % 2 = 1
    <3>1. q = (a - 1) * 2 + 1 /\ a - 1 \in Int /\ 1 \in 0 .. 2 - 1 /\ 2 \in Nat \ {0}
      BY <2>2, <2>5
    <3>2. PICK e \in Int : e = a - 1
      OBVIOUS
    <3> QED
      BY <3>1, <3>2, ModIs
  <2> QED
    BY <2>2, <2>6, <2>9, <2>10 DEF Bits
<1>2. Bits(x) \cap Bits(Modulus - 1) = Bits(x) \cap Bits(x)
  BY <1>1 DEF Bits
<1>3. And(x, Modulus - 1) = And(x, x)
  BY <1>2 DEF And
<1> QED
  BY <1>3, BitsAre

\* A number that is not zero is an odd one shifted left.
LEMMA OddShifted ==
  ASSUME NEW n \in Nat, NEW m \in Nat \ {0}, m < Pow2[n]
  PROVE  \E z \in 0 .. n - 1, o \in Nat : o % 2 = 1 /\ m = o * Pow2[z]
<1> DEFINE P(k, x) == \E z \in 0 .. k - 1, o \in Nat : o % 2 = 1 /\ x = o * Pow2[z]
           X == {k \in Nat : \A x \in Nat \ {0} : x < Pow2[k] => P(k, x)}
<1>1. 0 \in X
  BY Pow2Type
<1>2. ASSUME NEW k \in X PROVE k + 1 \in X
  <2>1. SUFFICES ASSUME NEW x \in Nat \ {0}, x < Pow2[k + 1] PROVE P(k + 1, x)
    OBVIOUS
  <2>2. k \in Nat /\ Pow2[k + 1] = 2 * Pow2[k] /\ Pow2[k] \in Nat
    BY Pow2Type
  <2>3. CASE x % 2 = 1
    <3>1. 0 \in 0 .. (k + 1) - 1 /\ x = x * Pow2[0]
      BY <2>2, Pow2Type
    <3> QED
      BY <2>3, <3>1
  <2>4. CASE x % 2 = 0
    <3>1. PICK h \in Nat : x = 2 * h
      <4>1. x = 2 * (x \div 2) /\ x \div 2 \in Nat
        BY <2>4
      <4> QED
        BY <4>1
    <3>2. h \in Nat \ {0} /\ h < Pow2[k]
      BY <2>1, <2>2, <3>1
    <3>3. P(k, h)
      BY <3>2
    <3>4. PICK z \in 0 .. k - 1, o \in Nat : o % 2 = 1 /\ h = o * Pow2[z]
      BY <3>3
    <3>5. z \in Nat /\ z + 1 \in 0 .. (k + 1) - 1 /\ Pow2[z + 1] = 2 * Pow2[z]
      BY <2>2, Pow2Type
    <3>6. PICK a \in Nat : a = Pow2[z]
      BY <3>5, Pow2Type
    <3>7. x = o * (2 * a)
      <4>1. h = o * a
        BY <3>4, <3>6
      <4> QED
        BY <3>1, <4>1
    <3>8. x = o * Pow2[z + 1]
      BY <3>5, <3>6, <3>7
    <3> QED
      BY <3>4, <3>5, <3>8
  <2> QED
    BY <2>3, <2>4
<1>3. X = Nat
  <2> HIDE DEF X
  <2>1. X \subseteq Nat
    BY DEF X
  <2> QED
    BY <1>1, <1>2, <2>1, NatSetInduction
<1> QED
  BY <1>3

\* What a quotient is.
LEMMA Quotient ==
  ASSUME NEW d \in Nat \ {0}, NEW x \in Nat
  PROVE  \E q \in Nat, r \in 0 .. d - 1 : x = q * d + r /\ r = x % d /\ q = x \div d
<1> DEFINE p == x \div d
           s == x % d
<1>1. p \in Nat /\ s \in 0 .. d - 1 /\ x = p * d + s
  OBVIOUS
<1> QED
  BY <1>1

=============================================================================
