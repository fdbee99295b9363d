--------------------------- MODULE Frost32WordProofs ---------------------------
(***************************************************************************)
(* Facts about words that every other proof rests on.                      *)
(***************************************************************************)
EXTENDS Frost32Word, TLAPS

\* A half word has at least four values, and a word as many as two halves.
LEMMA WordSizes ==
  /\ Byte \in Nat /\ Byte >= 2
  /\ Half \in Nat /\ Half >= 4 /\ Half >= 2 * Byte
  /\ WordMod \in Nat /\ WordMod >= 16 /\ WordMod >= 4 * Half
  /\ WordMod = Half * Half
<1>1. Byte \in Nat /\ Byte >= 2
  BY ByteAssumption
<1>2. Half \in Nat /\ Half >= 2 * Byte
  BY <1>1, SMT DEF Half
<1>3. Half >= 4
  BY <1>1, <1>2
<1>4. WordMod \in Nat /\ WordMod >= 4 * Half
  BY <1>2, <1>3, SMT DEF WordMod
<1> QED
  BY <1>1, <1>2, <1>3, <1>4 DEF WordMod

(***************************************************************************)
(* Remainders.                                                             *)
(***************************************************************************)
\* The only multiple of m between -m and m is 0.
LEMMA MultipleBelow ==
  ASSUME NEW m \in Nat, m > 0, NEW z \in Int, m * z < m, -m < m * z
  PROVE  z = 0
<1>1. z >= 1 => m * z >= m
  OBVIOUS
<1>2. z <= -1 => m * z <= -m
  OBVIOUS
<1> QED
  BY <1>1, <1>2

\* Multiples of m do not change a remainder by m.
LEMMA ModOfMultiple ==
  ASSUME NEW a \in Int, NEW k \in Int, NEW m \in Nat, m > 0
  PROVE  (a + k * m) % m = a % m
<1> DEFINE b  == a + k * m
           q1 == a \div m
           r1 == a % m
           q2 == b \div m
           r2 == b % m
<1>0. b \in Int
  OBVIOUS
<1>1. q1 \in Int /\ r1 \in 0 .. m - 1 /\ a = m * q1 + r1
  OBVIOUS
<1>2. q2 \in Int /\ r2 \in 0 .. m - 1 /\ b = m * q2 + r2
  BY <1>0
<1>3. b = a + k * m
  OBVIOUS
<1> HIDE DEF b, q1, q2, r1, r2
<1>4. m * (q2 - q1 - k) = r1 - r2
  <2>1. m * (q2 - q1 - k) = m * q2 - m * q1 - m * k
    BY <1>1, <1>2
  <2> QED
    BY <1>1, <1>2, <1>3, <2>1
<1>5. q2 - q1 - k = 0
  <2> DEFINE z == q2 - q1 - k
  <2>1. z \in Int
    BY <1>1, <1>2
  <2>2. m * z < m /\ -m < m * z
    BY <1>1, <1>2, <1>4
  <2> QED
    BY <2>1, <2>2, MultipleBelow
<1>6. r1 = r2
  BY <1>1, <1>2, <1>4, <1>5
<1> QED
  BY <1>6 DEF b, r1, r2

\* A number below m that has the remainder of another one is that remainder.
LEMMA ModIs ==
  ASSUME NEW x \in Int, NEW k \in Int, NEW m \in Nat, 0 <= x, x < m
  PROVE  (x + k * m) % m = x
<1>1. (x + k * m) % m = x % m
  BY ModOfMultiple
<1>2. x % m = x
  OBVIOUS
<1> QED
  BY <1>1, <1>2

\* There is one quotient that leaves a remainder between 0 and m.
LEMMA QuotientIs ==
  ASSUME NEW a \in Int, NEW q \in Int, NEW m \in Nat, m > 0,
         0 <= a - m * q, a - m * q < m
  PROVE  a \div m = q
<1> DEFINE d == a \div m
           r == a % m
<1>1. d \in Int /\ r \in 0 .. m - 1 /\ a = m * d + r
  OBVIOUS
<1> HIDE DEF d, r
<1>2. m * (d - q) = (a - m * q) - r
  <2>1. m * (d - q) = m * d - m * q
    BY <1>1
  <2> QED
    BY <1>1, <2>1
<1>3. m * q \in Int
  OBVIOUS
<1>4. d - q = 0
  <2> DEFINE z == d - q
  <2>1. z \in Int
    BY <1>1
  <2>2. m * z < m /\ -m < m * z
    BY <1>1, <1>2, <1>3
  <2> HIDE DEF z
  <2>3. z = 0
    BY <2>1, <2>2, MultipleBelow
  <2> QED
    BY <2>3 DEF z
<1>5. d = q
  BY <1>1, <1>4
<1> QED
  BY <1>5 DEF d

(***************************************************************************)
(* Words.                                                                  *)
(***************************************************************************)
\* What is left of any integer in a 32-bit signal is a word.
LEMMA TruncIsWord ==
  ASSUME NEW x \in Int
  PROVE  Trunc(x) \in Word
<1>1. WordMod \in Nat /\ WordMod > 0
  BY WordSizes
<1>2. x % WordMod \in 0 .. WordMod - 1
  BY <1>1
<1> QED
  BY <1>2 DEF Trunc, Word

\* A word is what is left of it and any carries.
LEMMA TruncIs ==
  ASSUME NEW x \in Word, NEW k \in Int
  PROVE  Trunc(x + k * WordMod) = x
<1>1. WordMod \in Nat /\ x \in Int /\ 0 <= x /\ x < WordMod
  BY WordSizes DEF Word
<1> QED
  BY <1>1, ModIs DEF Trunc

\* Carries may be dropped early.
LEMMA TruncOfTrunc ==
  ASSUME NEW x \in Int, NEW y \in Int
  PROVE  Trunc(Trunc(x) + y) = Trunc(x + y)
<1> DEFINE k == x \div WordMod
           r == x % WordMod
<1>1. WordMod \in Nat /\ WordMod > 0
  BY WordSizes
<1>2. k \in Int /\ r \in Int /\ x = WordMod * k + r
  BY <1>1
<1>3. Trunc(x) = r
  BY DEF Trunc
<1> HIDE DEF k, r
<1>4. x + y = (r + y) + k * WordMod
  BY <1>1, <1>2
<1> DEFINE a == r + y
<1>5. a \in Int
  BY <1>2
<1> HIDE DEF a
<1>6. (a + k * WordMod) % WordMod = a % WordMod
  BY <1>1, <1>2, <1>5, ModOfMultiple
<1> QED
  BY <1>3, <1>4, <1>6 DEF Trunc, a

\* The sign extensions of a half word, a byte and a load/store immediate.
LEMMA SignExtensions ==
  /\ \A h \in HalfWord : SignExtHalf(h) \in Word
  /\ \A b \in 0 .. Byte - 1 : SignExtByte(b) \in Word
  /\ \A i \in 0 .. Imm12Mod - 1 : SignExtImm12(i) \in HalfWord
<1>1. ASSUME NEW h \in HalfWord PROVE SignExtHalf(h) \in Word
  <2>1. Trunc(h - Half) \in Word
    BY TruncIsWord, WordSizes DEF HalfWord
  <2> QED
    BY <2>1, WordSizes DEF SignExtHalf, HalfWord, Word
<1>2. ASSUME NEW b \in 0 .. Byte - 1 PROVE SignExtByte(b) \in Word
  <2>1. Trunc(b - Byte) \in Word
    BY TruncIsWord, WordSizes
  <2> QED
    BY <2>1, WordSizes DEF SignExtByte, Word
<1>3. ASSUME NEW i \in 0 .. Imm12Mod - 1 PROVE SignExtImm12(i) \in HalfWord
  <2>1. Half \in Nat /\ Half > 0
    BY WordSizes
  <2>2. (i - Imm12Mod) % Half \in 0 .. Half - 1
    BY <2>1, Imm12Assumption
  <2>3. i % Half \in 0 .. Half - 1
    BY <2>1
  <2> QED
    BY <2>2, <2>3 DEF SignExtImm12, HalfWord
<1> QED
  BY <1>1, <1>2, <1>3

\* The parts of a word, and a word made of two halves.
LEMMA WordParts ==
  ASSUME NEW w \in Word
  PROVE  /\ w % Half \in HalfWord
         /\ w % Byte \in 0 .. Byte - 1
         /\ w % Half \in Word
         /\ w % Byte \in Word
         /\ w \div Half \in HalfWord
<1>1. w \in Int /\ 0 <= w /\ w < WordMod
  BY WordSizes DEF Word
<1>2. w % Half \in 0 .. Half - 1
  BY <1>1, WordSizes
<1>3. w % Byte \in 0 .. Byte - 1
  BY <1>1, WordSizes
<1>4. w \div Half \in 0 .. Half - 1
  <2> DEFINE q == w \div Half
             r == w % Half
  <2>1. q \in Int /\ r \in 0 .. Half - 1 /\ w = Half * q + r
    BY <1>1, WordSizes
  <2>2. q >= 0
    BY <1>1, WordSizes
  <2>3. q < Half
    <3> HIDE DEF q, r
    <3>1. SUFFICES ASSUME q >= Half PROVE FALSE
      BY <2>1, WordSizes
    <3>2. Half * q >= Half * Half
      BY <2>1, <3>1, WordSizes
    <3> QED
      BY <1>1, <2>1, <3>2, WordSizes
  <2> QED
    BY <2>1, <2>2, <2>3, WordSizes
<1> QED
  BY <1>2, <1>3, <1>4, WordSizes DEF HalfWord, Word

LEMMA TwoHalves ==
  ASSUME NEW high \in HalfWord, NEW low \in HalfWord
  PROVE  high * Half + low \in Word
<1>1. high \in Int /\ 0 <= high /\ high <= Half - 1
      /\ low \in Int /\ 0 <= low /\ low <= Half - 1
  BY WordSizes DEF HalfWord
<1>2. high * Half <= (Half - 1) * Half /\ high * Half >= 0
  BY <1>1, WordSizes
<1>3. (Half - 1) * Half = WordMod - Half
  BY WordSizes
<1> QED
  BY <1>1, <1>2, <1>3, WordSizes DEF Word

\* The product of two half words fits a word.
LEMMA HalfProduct ==
  ASSUME NEW a \in HalfWord, NEW b \in HalfWord
  PROVE  a * b \in Word
<1>1. a \in Nat /\ a < Half /\ b \in Nat /\ b < Half
  BY WordSizes DEF HalfWord
<1>2. a * b <= a * Half /\ a * b >= 0 /\ a * Half < Half * Half
  BY <1>1, WordSizes
<1> QED
  BY <1>1, <1>2, WordSizes DEF Word

\* The products of the halves of two words are words, but for the one of the two
\* high halves, which the multiplier does not need.
LEMMA HalfProducts ==
  ASSUME NEW x \in Word, NEW y \in Word
  PROVE  /\ (x % Half) * (y % Half) \in Word
         /\ (x % Half) * (y \div Half) \in Word
         /\ (x \div Half) * (y % Half) \in Word
<1>1. /\ x % Half \in HalfWord /\ x \div Half \in HalfWord
      /\ y % Half \in HalfWord /\ y \div Half \in HalfWord
  BY WordParts
<1> QED
  BY <1>1, HalfProduct

(***************************************************************************)
(* The arithmetic: three half-word products are enough for the low word.   *)
(***************************************************************************)
LEMMA LowWordOfProduct ==
  ASSUME NEW x \in Word, NEW y \in Word
  PROVE  Trunc(((x \div Half) * (y % Half) + (x % Half) * (y \div Half)) * Half
               + (x % Half) * (y % Half)) = Trunc(x * y)
<1> DEFINE x1 == x \div Half
           x0 == x % Half
           y1 == y \div Half
           y0 == y % Half
           low == (x1 * y0 + x0 * y1) * Half + x0 * y0
<1>1. x \in Int /\ y \in Int /\ Half \in Nat /\ Half > 0 /\ WordMod \in Nat
      /\ WordMod > 0 /\ WordMod = Half * Half
  BY WordSizes DEF Word
<1>2. x1 \in Int /\ x0 \in Int /\ x = Half * x1 + x0
  BY <1>1
<1>3. y1 \in Int /\ y0 \in Int /\ y = Half * y1 + y0
  BY <1>1
<1> HIDE DEF x1, x0, y1, y0
<1>4. x * y = low + (x1 * y1) * WordMod
  <2>1. x * y = (Half * x1 + x0) * (Half * y1 + y0)
    BY <1>2, <1>3
  <2>2. (Half * x1 + x0) * (Half * y1 + y0)
          = (x1 * y1) * (Half * Half) + (x1 * y0 + x0 * y1) * Half + x0 * y0
    BY <1>1, <1>2, <1>3
  <2> QED
    BY <1>1, <1>2, <1>3, <2>1, <2>2
<1>5. low \in Int /\ x1 * y1 \in Int
  BY <1>1, <1>2, <1>3
<1> HIDE DEF low
<1>6. (low + (x1 * y1) * WordMod) % WordMod = low % WordMod
  BY <1>1, <1>5, ModOfMultiple
<1> QED
  BY <1>4, <1>6 DEF Trunc, low, x1, x0, y1, y0
================================================================================
