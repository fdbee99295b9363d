----------------------- MODULE NonRestoringDividerProofs -----------------------
(***************************************************************************)
(* The digits of a non-restoring division: what an iteration preserves,    *)
(* and what the last one leaves, for every width and number of iterations  *)
(* per cycle.                                                              *)
(***************************************************************************)
EXTENDS NonRestoringDivider, Frost32WordProofs, FiniteSetTheorems

\* Powers of two, from the number of subsets: the provers have no induction.
LEMMA PowerOfNext ==
  ASSUME NEW n \in Nat
  PROVE  2 ^ n \in Nat /\ 2 ^ n > 0 /\ 2 ^ (n + 1) = 2 * 2 ^ n
<1> DEFINE S == 1 .. n
           A == SUBSET S
           B == {T \cup {n + 1} : T \in A}
           f == [T \in A |-> T \cup {n + 1}]
<1>1. /\ IsFiniteSet(S) /\ Cardinality(S) = n
      /\ IsFiniteSet(1 .. n + 1) /\ Cardinality(1 .. n + 1) = n + 1
  BY FS_Interval
<1>2. IsFiniteSet(A) /\ Cardinality(A) = 2 ^ n
  BY <1>1, FS_SUBSET
<1>3. Cardinality(SUBSET (1 .. n + 1)) = 2 ^ (n + 1)
  BY <1>1, FS_SUBSET
<1>4. f \in Surjection(A, B)
  BY DEF Surjection
<1>5. f \in Injection(A, B)
  <2>1. \A T \in A : n + 1 \notin T
    OBVIOUS
  <2>2. \A T, U \in A : f[T] = f[U] => T = U
    <3> SUFFICES ASSUME NEW T \in A, NEW U \in A, f[T] = f[U] PROVE T = U
      OBVIOUS
    <3>1. T = f[T] \ {n + 1} /\ U = f[U] \ {n + 1}
      BY <2>1
    <3> QED
      BY <3>1
  <2>3. f \in [A -> B]
    OBVIOUS
  <2> QED
    BY <2>2, <2>3 DEF Injection, IsInjective
<1>6. IsFiniteSet(B) /\ Cardinality(B) = 2 ^ n
  <2> HIDE DEF A, B, f
  <2> QED
    BY <1>2, <1>4, <1>5, FS_Surjection
<1>7. SUBSET (1 .. n + 1) = A \cup B
  <2>1. ASSUME NEW T \in SUBSET (1 .. n + 1) PROVE T \in A \cup B
    <3>1. CASE n + 1 \in T
      <4>1. T \ {n + 1} \in A /\ T = (T \ {n + 1}) \cup {n + 1}
        BY <3>1
      <4> QED
        BY <4>1
    <3>2. CASE n + 1 \notin T
      BY <3>2
    <3> QED
      BY <3>1, <3>2
  <2>2. ASSUME NEW T \in A PROVE T \subseteq 1 .. n + 1 /\ T \cup {n + 1} \subseteq 1 .. n + 1
    <3>1. T \subseteq 1 .. n
      OBVIOUS
    <3>2. 1 .. n \subseteq 1 .. n + 1 /\ n + 1 \in 1 .. n + 1
      OBVIOUS
    <3> QED
      BY <3>1, <3>2
  <2>3. A \cup B \subseteq SUBSET (1 .. n + 1)
    <3> SUFFICES ASSUME NEW U \in A \cup B PROVE U \subseteq 1 .. n + 1
      OBVIOUS
    <3>1. CASE U \in A
      BY <2>2, <3>1
    <3>2. CASE U \in B
      <4>1. PICK T \in A : U = T \cup {n + 1}
        BY <3>2
      <4> QED
        BY <2>2, <4>1
    <3> QED
      BY <3>1, <3>2
  <2>4. SUBSET (1 .. n + 1) \subseteq A \cup B
    <3> HIDE DEF A, B
    <3> QED
      BY <2>1
  <2> QED
    BY <2>3, <2>4, Zenon
<1>8. A \cap B = {}
  OBVIOUS
<1>9. Cardinality(A \cup B) = 2 ^ n + 2 ^ n
  <2> HIDE DEF A, B, f
  <2>1. Cardinality(A \cup B) = Cardinality(A) + Cardinality(B) - Cardinality(A \cap B)
    BY <1>2, <1>6, FS_Union
  <2>2. Cardinality(A \cap B) = 0
    BY <1>8, FS_EmptySet
  <2>3. Cardinality(A) \in Nat
    BY <1>2, FS_CardinalityType
  <2> QED
    BY <1>2, <1>6, <2>1, <2>2, <2>3
<1>10. 2 ^ n \in Nat /\ 2 ^ n > 0
  <2>1. Cardinality(A) \in Nat
    BY <1>2, FS_CardinalityType
  <2>2. A # {}
    OBVIOUS
  <2>3. Cardinality(A) # 0
    <3> HIDE DEF A
    <3> QED
      BY <1>2, <2>2, FS_EmptySet
  <2> QED
    BY <1>2, <2>1, <2>3
<1>11. 2 ^ (n + 1) = 2 ^ n + 2 ^ n
  BY <1>3, <1>7, <1>9, Zenon
<1>12. \A x \in Nat : x + x = 2 * x
  OBVIOUS
<1> QED
  BY <1>10, <1>11, <1>12, Zenon

(***************************************************************************)
(* The loop invariant.                                                     *)
(***************************************************************************)
\* The remainder as a signed number p, in two's complement.
IsRemainder(P, p) == P = IF p < 0 THEN p + TempMod ELSE p

\* Bits i .. 0 of the quotient's digits are still to come.  Of the others, which
\* are 1 for a digit 1 and 0 for a digit -1, h is the number; u is 2 to the power
\* of how many there are.
Partial(P, q, num, denom, i) ==
  \E u \in Nat \ {0}, h \in Nat, p \in Int :
    /\ 2 ^ (i + 1) * u = WordMod
    /\ h < u /\ q = 2 ^ (i + 1) * h
    /\ p = u * num - (denom * WordMod) * (2 * h - u + 1)
    /\ -(denom * WordMod) <= p /\ p < denom * WordMod
    /\ IsRemainder(P, p)

\* The divisor has TEMP_WIDTH bits with some to spare.
LEMMA DivisorFits ==
  ASSUME NEW denom \in Word, denom # 0
  PROVE  /\ denom * WordMod \in Nat
         /\ WordMod <= denom * WordMod
         /\ denom * WordMod < WordMod * WordMod
         /\ WordMod * WordMod \in Nat
         /\ TempMod = 2 * (WordMod * WordMod)
<1>1. WordMod \in Nat /\ WordMod > 0 /\ denom \in Nat /\ denom < WordMod /\ denom >= 1
  BY WordSizes DEF Word
<1>2. denom * WordMod \in Nat /\ WordMod * WordMod \in Nat
  BY <1>1
<1>3. WordMod <= denom * WordMod
  BY <1>1
<1>4. denom * WordMod < WordMod * WordMod
  BY <1>1
<1>5. TempMod = 2 * (WordMod * WordMod)
  BY <1>1 DEF TempMod
<1> QED
  BY <1>2, <1>3, <1>4, <1>5

\* The sign bit of the remainder is its sign.
LEMMA SignOfRemainder ==
  ASSUME NEW D \in Nat, D < WordMod * WordMod, NEW p \in Int, -D <= p, p < D,
         NEW P, IsRemainder(P, p)
  PROVE  /\ NegativeP(P) <=> p < 0
         /\ P \in Int
<1>1. WordMod * WordMod \in Nat
  BY WordSizes
<1>2. TempMod = 2 * (WordMod * WordMod)
  BY WordSizes DEF TempMod
<1> QED
  BY <1>1, <1>2 DEF IsRemainder, NegativeP

\* A number between -D and D is kept by TEMP_WIDTH bits, whatever has been
\* carried out of them.
LEMMA RemainderIs ==
  ASSUME NEW D \in Nat, D < WordMod * WordMod, NEW p \in Int, -D <= p, p < D,
         NEW k \in Int
  PROVE  IsRemainder((p + k * TempMod) % TempMod, p)
<1>1. WordMod * WordMod \in Nat
  BY WordSizes
<1>2. TempMod = 2 * (WordMod * WordMod) /\ TempMod \in Nat
  BY <1>1, WordSizes DEF TempMod
<1>3. CASE p >= 0
  <2>1. p < TempMod
    BY <1>1, <1>2
  <2>2. (p + k * TempMod) % TempMod = p
    BY <1>2, <1>3, <2>1, ModIs
  <2> QED
    BY <1>3, <2>2 DEF IsRemainder
<1>4. CASE p < 0
  <2>1. 0 <= p + TempMod /\ p + TempMod < TempMod /\ p + TempMod \in Int
    BY <1>1, <1>2, <1>4
  <2>2. ((p + TempMod) + (k - 1) * TempMod) % TempMod = p + TempMod
    <3> DEFINE x == p + TempMod
               j == k - 1
    <3>1. x \in Int /\ j \in Int /\ 0 <= x /\ x < TempMod
      BY <2>1
    <3> HIDE DEF x, j
    <3>2. (x + j * TempMod) % TempMod = x
      BY <1>2, <3>1, ModIs
    <3> QED
      BY <3>2 DEF x, j
  <2>3. (p + TempMod) + (k - 1) * TempMod = p + k * TempMod
    BY <1>2
  <2> QED
    BY <1>4, <2>2, <2>3 DEF IsRemainder
<1> QED
  BY <1>3, <1>4

\* Before the first iteration.
LEMMA PartialStart ==
  ASSUME NEW num \in Word, NEW denom \in Word, denom # 0
  PROVE  Partial(num, 0, num, denom, Width - 1)
<1>1. 2 ^ ((Width - 1) + 1) * 1 = WordMod /\ 2 ^ ((Width - 1) + 1) * 0 = 0
  <2>1. (Width - 1) + 1 = Width
    BY WidthAssumption
  <2> QED
    BY <2>1, WidthAssumption, WordSizes
<1>2. num \in Int /\ 0 <= num /\ num < WordMod
  BY WordSizes DEF Word
<1>3. num = 1 * num - (denom * WordMod) * (2 * 0 - 1 + 1)
  BY <1>2, DivisorFits
<1>4. -(denom * WordMod) <= num /\ num < denom * WordMod
  BY <1>2, DivisorFits, WordSizes
<1>5. IsRemainder(num, num)
  BY <1>2 DEF IsRemainder
<1> QED
  BY <1>1, <1>2, <1>3, <1>4, <1>5 DEF Partial

\* The bit of a digit that is still to come is 0, and is set for a digit 1.
LEMMA SetNextBit ==
  ASSUME NEW i \in 0 .. Width - 1, NEW u \in Nat \ {0}, NEW h \in Nat,
         2 ^ (i + 1) * u = WordMod, h < u
  PROVE  /\ 2 ^ i * (2 * u) = WordMod
         /\ 2 ^ (i + 1) * h = 2 ^ i * (2 * h)
         /\ SetBit(2 ^ (i + 1) * h, i) = 2 ^ i * (2 * h + 1)
<1> DEFINE e == 2 ^ i
           q == 2 ^ (i + 1) * h
<1>1. e \in Nat /\ e > 0 /\ 2 ^ (i + 1) = 2 * e
  BY PowerOfNext
<1>2. q = (2 * e) * h /\ (2 * e) * u = WordMod
  BY <1>1
<1>3. i < Width /\ WordMod \in Nat /\ WordMod > 0
  BY WidthAssumption, WordSizes
<1> HIDE DEF e, q
<1>4. e * (2 * u) = WordMod /\ q = e * (2 * h)
  BY <1>1, <1>2
<1>5. q \in Int /\ q \div e = 2 * h
  <2>1. q \in Int /\ q - e * (2 * h) = 0
    BY <1>1, <1>4
  <2> DEFINE d == 2 * h
  <2>2. d \in Int /\ 0 <= q - e * d /\ q - e * d < e
    BY <1>1, <2>1
  <2> HIDE DEF d
  <2>3. q \div e = d
    BY <1>1, <2>1, <2>2, QuotientIs
  <2> QED
    BY <2>1, <2>3 DEF d
<1>6. (2 * h) % 2 = 0
  OBVIOUS
<1>7. q + e = e * (2 * h + 1)
  BY <1>1, <1>4
<1>8. Trunc(q + e) = q + e
  <2>1. 2 * h + 1 < 2 * u
    OBVIOUS
  <2>2. e * (2 * h + 1) < e * (2 * u)
    BY <1>1, <2>1
  <2>3. q + e \in Int /\ 0 <= q + e /\ q + e < WordMod
    BY <1>1, <1>2, <1>4, <1>5, <1>7, <2>2
  <2> QED
    BY <1>3, <2>3 DEF Trunc
<1>9. SetBit(q, i) = e * (2 * h + 1)
  BY <1>3, <1>5, <1>6, <1>7, <1>8 DEF SetBit, e
<1> QED
  BY <1>1, <1>4, <1>9 DEF e, q

\* One iteration adds one digit.
LEMMA IterateStep ==
  ASSUME NEW num \in Word, NEW denom \in Word, denom # 0,
         div.D = denom * WordMod,
         NEW i \in 0 .. Width - 1, NEW d,
         Partial(d.P, d.quot_buf, num, denom, i)
  PROVE  Partial(Iterate(d, i).P, Iterate(d, i).quot_buf, num, denom, i - 1)
<1> DEFINE D == denom * WordMod
<1>1. D \in Nat /\ D < WordMod * WordMod /\ num \in Int
      /\ TempMod \in Int
  BY DivisorFits, WordSizes DEF Word
<1>2. PICK u \in Nat \ {0}, h \in Nat, p \in Int :
        /\ 2 ^ (i + 1) * u = WordMod
        /\ h < u /\ d.quot_buf = 2 ^ (i + 1) * h
        /\ p = u * num - D * (2 * h - u + 1)
        /\ -D <= p /\ p < D
        /\ IsRemainder(d.P, p)
  BY DEF Partial
<1>3. /\ 2 ^ i * (2 * u) = WordMod
      /\ d.quot_buf = 2 ^ i * (2 * h)
      /\ SetBit(d.quot_buf, i) = 2 ^ i * (2 * h + 1)
  BY <1>2, SetNextBit
<1>4. NegativeP(d.P) <=> p < 0
  BY <1>1, <1>2, SignOfRemainder
<1>5. (i - 1) + 1 = i
  OBVIOUS
<1>6. div.D = D
  OBVIOUS
<1> HIDE DEF D
<1>7. CASE p >= 0
  <2> DEFINE q2 == 2 * p - D
             u2 == 2 * u
             h2 == 2 * h + 1
  <2>1. d.P = p
    BY <1>2, <1>7 DEF IsRemainder
  <2>2. q2 \in Int /\ -D <= q2 /\ q2 < D /\ u2 \in Nat \ {0} /\ h2 \in Nat /\ h2 < u2
    BY <1>1, <1>2, <1>7
  <2>3. q2 = u2 * num - D * (2 * h2 - u2 + 1)
    <3>1. u2 * num = 2 * (u * num)
      BY <1>1
    <3>2. D * (2 * h2 - u2 + 1) = 2 * (D * (2 * h - u + 1)) + D
      BY <1>1
    <3>3. u * num \in Int /\ D * (2 * h - u + 1) \in Int
      BY <1>1
    <3> QED
      BY <1>1, <1>2, <3>1, <3>2, <3>3
  <2>4. Iterate(d, i).P = (q2 + 0 * TempMod) % TempMod
    BY <1>1, <1>2, <1>4, <1>6, <1>7, <2>1 DEF Iterate
  <2>5. Iterate(d, i).quot_buf = 2 ^ i * h2
    BY <1>3, <1>4, <1>7 DEF Iterate
  <2> HIDE DEF q2, u2, h2
  <2>6. IsRemainder(Iterate(d, i).P, q2)
    <3>1. \A k \in Int : IsRemainder((q2 + k * TempMod) % TempMod, q2)
      BY <1>1, <2>2, RemainderIs
    <3>2. IsRemainder((q2 + 0 * TempMod) % TempMod, q2)
      BY <3>1
    <3> QED
      BY <2>4, <3>2, Zenon
  <2>7. 2 ^ i * u2 = WordMod
    BY <1>3 DEF u2
  <2> QED
    BY <1>5, <2>2, <2>3, <2>5, <2>6, <2>7 DEF Partial, D
<1>8. CASE p < 0
  <2> DEFINE q2 == 2 * p + D
             u2 == 2 * u
             h2 == 2 * h
  <2>1. d.P = p + TempMod
    BY <1>2, <1>8 DEF IsRemainder
  <2>2. q2 \in Int /\ -D <= q2 /\ q2 < D /\ u2 \in Nat \ {0} /\ h2 \in Nat /\ h2 < u2
    BY <1>1, <1>2, <1>8
  <2>3. q2 = u2 * num - D * (2 * h2 - u2 + 1)
    <3>1. u2 * num = 2 * (u * num)
      BY <1>1
    <3>2. D * (2 * h2 - u2 + 1) = 2 * (D * (2 * h - u + 1)) - D
      BY <1>1
    <3>3. u * num \in Int /\ D * (2 * h - u + 1) \in Int
      BY <1>1
    <3> QED
      BY <1>1, <1>2, <3>1, <3>2, <3>3
  <2>4. Iterate(d, i).P = (q2 + 2 * TempMod) % TempMod
    <3>1. 2 * d.P + div.D = q2 + 2 * TempMod
      BY <1>1, <1>6, <2>1
    <3> QED
      BY <1>4, <1>8, <3>1 DEF Iterate
  <2>5. Iterate(d, i).quot_buf = 2 ^ i * h2
    BY <1>3, <1>4, <1>8 DEF Iterate
  <2> HIDE DEF q2, u2, h2
  <2>6. IsRemainder(Iterate(d, i).P, q2)
    <3>1. \A k \in Int : IsRemainder((q2 + k * TempMod) % TempMod, q2)
      BY <1>1, <2>2, RemainderIs
    <3>2. IsRemainder((q2 + 2 * TempMod) % TempMod, q2)
      BY <3>1
    <3> QED
      BY <2>4, <3>2, Zenon
  <2>7. 2 ^ i * u2 = WordMod
    BY <1>3 DEF u2
  <2> QED
    BY <1>5, <2>2, <2>3, <2>5, <2>6, <2>7 DEF Partial, D
<1> QED
  BY <1>2, <1>7, <1>8

\* The digits as a binary number: __quot_buf - ~__quot_buf, and one less if the
\* last remainder is negative.
FromDigits(P, q) ==
  IF NegativeP(P) THEN Trunc(Trunc(2 * q + 1) - 1) ELSE Trunc(2 * q + 1)

\* The last remainder, put right if it is negative.
LastRemainder(P, D) ==
  Trunc((IF NegativeP(P) THEN (P + D) % TempMod ELSE P) \div WordMod)

\* After the last iteration they are the quotient and the remainder.
LEMMA PartialEnd ==
  ASSUME NEW num \in Word, NEW denom \in Word, denom # 0,
         NEW P, NEW q, Partial(P, q, num, denom, -1)
  PROVE  /\ FromDigits(P, q) = num \div denom
         /\ LastRemainder(P, denom * WordMod) = num % denom
<1> DEFINE D == denom * WordMod
<1>1. D \in Nat /\ D < WordMod * WordMod
  BY DivisorFits
<1>2. TempMod \in Nat /\ TempMod = 2 * (WordMod * WordMod)
  BY DivisorFits
<1>3. PICK u \in Nat \ {0}, h \in Nat, p \in Int :
        /\ 2 ^ (-1 + 1) * u = WordMod
        /\ h < u /\ q = 2 ^ (-1 + 1) * h
        /\ p = u * num - D * (2 * h - u + 1)
        /\ -D <= p /\ p < D
        /\ IsRemainder(P, p)
  BY DEF Partial
<1>4. u = WordMod /\ q = h
  <2>1. 2 ^ (-1 + 1) = 1
    BY SMT
  <2> QED
    BY <1>3, <2>1
<1>5. /\ WordMod \in Nat /\ WordMod > 0
      /\ num \in Int /\ 0 <= num /\ num < WordMod
      /\ denom \in Nat /\ denom > 0
  BY WordSizes DEF Word
<1>6. NegativeP(P) <=> p < 0
  BY <1>1, <1>3, SignOfRemainder
<1> DEFINE Q == 2 * q - WordMod + 1
           r == num - denom * Q
<1>7. Q \in Int /\ denom * Q \in Int /\ r \in Int /\ 2 * q + 1 = Q + 1 * WordMod
  BY <1>4, <1>5
<1>8. p = WordMod * r
  <2>1. 2 * h - u + 1 = Q
    BY <1>4
  <2> HIDE DEF Q
  <2>2. p = WordMod * num - (denom * WordMod) * Q
    BY <1>3, <1>4, <2>1
  <2>3. (denom * WordMod) * Q = WordMod * (denom * Q)
    BY <1>5, <1>7
  <2>4. WordMod * r = WordMod * num - WordMod * (denom * Q)
    BY <1>5, <1>7
  <2> QED
    BY <2>2, <2>3, <2>4
<1> HIDE DEF Q
<1>9. -denom <= r /\ r < denom /\ (p < 0 <=> r < 0)
  <2> HIDE DEF r
  <2>1. WordMod * (-denom) <= WordMod * r /\ WordMod * r < WordMod * denom
    BY <1>3, <1>5, <1>8
  <2>2. -denom <= r
    <3>1. CASE r < -denom
      <4>1. r + 1 <= -denom
        BY <1>5, <1>7, <3>1
      <4>2. WordMod * (r + 1) <= WordMod * (-denom)
        BY <1>5, <1>7, <4>1
      <4> QED
        BY <1>5, <1>7, <2>1, <4>2
    <3> QED
      BY <1>5, <1>7, <3>1
  <2>3. r < denom
    <3>1. CASE r >= denom
      <4>1. WordMod * r >= WordMod * denom
        BY <1>5, <1>7, <3>1
      <4> QED
        BY <1>5, <1>7, <2>1, <4>1
    <3> QED
      BY <1>5, <1>7, <3>1
  <2>4. p < 0 <=> r < 0
    BY <1>5, <1>7, <1>8
  <2> QED
    BY <2>2, <2>3, <2>4
<1>10. ASSUME NEW x \in Int, 0 <= x, x < denom PROVE Trunc((WordMod * x) \div WordMod) = x
  <2>1. (WordMod * x) \div WordMod = x
    BY <1>5, QuotientIs
  <2>2. x < WordMod
    BY <1>5, <1>10, WordSizes DEF Word
  <2> QED
    BY <1>5, <1>10, <2>1, <2>2 DEF Trunc
<1>11. CASE r >= 0
  <2>1. num \div denom = Q
    BY <1>5, <1>7, <1>9, <1>11, QuotientIs
  <2>2. 0 <= Q /\ Q < WordMod
    BY <1>5, <1>7, <1>9, <1>11
  <2>3. Trunc(2 * q + 1) = Q
    <3>1. Q \in Word
      BY <1>7, <2>2, WordSizes DEF Word
    <3>2. \A k \in Int : Trunc(Q + k * WordMod) = Q
      BY <3>1, TruncIs
    <3> QED
      BY <1>7, <3>2
  <2>4. ~NegativeP(P)
    BY <1>6, <1>7, <1>9, <1>11
  <2>5. LastRemainder(P, D) = r
    <3>1. P = WordMod * r
      BY <1>3, <1>8, <2>4, <1>6 DEF IsRemainder
    <3> QED
      BY <1>10, <1>7, <1>9, <1>11, <2>4, <3>1 DEF LastRemainder
  <2>6. num % denom = r
    <3>1. num = r + Q * denom
      BY <1>5, <1>7
    <3> HIDE DEF r
    <3>2. (r + Q * denom) % denom = r
      BY <1>5, <1>7, <1>9, <1>11, ModIs
    <3> QED
      BY <3>1, <3>2
  <2> QED
    BY <2>1, <2>3, <2>4, <2>5, <2>6 DEF FromDigits
<1>12. CASE r < 0
  <2> DEFINE Q1 == Q - 1
  <2>1. Q1 \in Int /\ num - denom * Q1 = r + denom
    BY <1>5, <1>7
  <2>2. num \div denom = Q1
    BY <1>5, <1>7, <1>9, <1>12, <2>1, QuotientIs
  <2>3. 0 <= Q1 /\ Q1 < WordMod
    BY <1>5, <1>7, <1>9, <1>12, <2>1
  <2>4. Trunc(Trunc(2 * q + 1) - 1) = Q1
    <3>1. Q1 \in Word
      BY <2>1, <2>3, WordSizes DEF Word
    <3>2. \A k \in Int : Trunc(Q1 + k * WordMod) = Q1
      BY <3>1, TruncIs
    <3>3. 2 * q + 1 \in Int /\ (2 * q + 1) - 1 = Q1 + 1 * WordMod
      BY <1>4, <1>7
    <3> DEFINE x == 2 * q + 1
               y == -1
    <3>4. x \in Int /\ y \in Int /\ x + y = Q1 + 1 * WordMod
          /\ Trunc(2 * q + 1) - 1 = Trunc(x) + y
      <4>1. Trunc(2 * q + 1) \in Int
        BY <3>3, TruncIsWord, WordSizes DEF Word
      <4> QED
        BY <3>3, <4>1
    <3> HIDE DEF x, y, Q1
    <3>5. Trunc(Trunc(x) + y) = Trunc(x + y)
      BY <3>4, TruncOfTrunc
    <3> QED
      BY <3>2, <3>4, <3>5
  <2>5. NegativeP(P)
    BY <1>6, <1>9, <1>12
  <2> DEFINE s == r + denom
  <2>6. s \in Int /\ 0 <= s /\ s < denom
    BY <1>5, <1>7, <1>9, <1>12
  <2>7. LastRemainder(P, D) = s
    <3>1. P + D = WordMod * s + 1 * TempMod
      <4>1. P = p + TempMod
        BY <1>3, <1>6, <2>5 DEF IsRemainder
      <4>2. WordMod * s = WordMod * r + D
        BY <1>5, <1>7
      <4>3. s \in Int /\ r \in Int /\ WordMod \in Int
        BY <1>5, <1>7
      <4> HIDE DEF s, D, r
      <4> QED
        BY <1>1, <1>3, <1>8, <1>2, <4>1, <4>2, <4>3
    <3> HIDE DEF s, D
    <3>2. WordMod * s \in Int /\ 0 <= WordMod * s /\ WordMod * s < TempMod
      <4>1. 0 <= WordMod * s /\ WordMod * s < WordMod * denom
        BY <1>5, <2>6
      <4>2. D = WordMod * denom /\ D < WordMod * WordMod
        BY <1>1, <1>5 DEF D
      <4>3. WordMod * s \in Int /\ WordMod * denom \in Int /\ WordMod * WordMod \in Nat
        BY <1>5, <2>6
      <4> QED
        BY <4>1, <4>2, <4>3, <1>2
    <3>3. (WordMod * s + 1 * TempMod) % TempMod = WordMod * s
      <4> DEFINE x == WordMod * s
      <4>1. x \in Int /\ 0 <= x /\ x < TempMod /\ TempMod \in Nat
        BY <3>2, <1>2
      <4> HIDE DEF x
      <4>2. \A k \in Int : (x + k * TempMod) % TempMod = x
        BY <4>1, ModIs
      <4> QED
        BY <4>2 DEF x
    <3> QED
      BY <1>10, <2>5, <2>6, <3>1, <3>3 DEF LastRemainder
  <2>8. num % denom = s
    <3>1. num = s + Q1 * denom
      BY <1>5, <1>7
    <3> HIDE DEF s, Q1
    <3>2. (s + Q1 * denom) % denom = s
      BY <1>5, <2>1, <2>6, ModIs
    <3> QED
      BY <3>1, <3>2
  <2> QED
    BY <2>2, <2>4, <2>5, <2>7, <2>8 DEF FromDigits
<1> QED
  BY <1>7, <1>11, <1>12

(***************************************************************************)
(* The types of the unit's registers.                                      *)
(***************************************************************************)
\* The sizes of the divider's registers.
LEMMA DividerSizes ==
  /\ TempMod \in Nat /\ TempMod > 0
  /\ 0 \in Word /\ Word \subseteq 0 .. TempMod - 1
  /\ \A w \in Word : w * WordMod \in 0 .. TempMod - 1
  /\ \A x \in Int : x % TempMod \in 0 .. TempMod - 1
  /\ \A x \in Int : x % CounterMod \in 0 .. CounterMod - 1
  /\ Width \in Nat /\ Width - 1 \in 0 .. CounterMod - 1
<1>1. TempMod = 2 * (WordMod * WordMod) /\ WordMod * WordMod >= WordMod
  BY WordSizes DEF TempMod
<1>2. TempMod \in Nat /\ TempMod > 0 /\ WordMod <= TempMod
  BY <1>1, WordSizes
<1>3. 0 \in Word /\ Word \subseteq 0 .. TempMod - 1
  BY <1>2, WordSizes DEF Word
<1>4. ASSUME NEW w \in Word PROVE w * WordMod \in 0 .. TempMod - 1
  <2>1. w \in Nat /\ w <= WordMod - 1
    BY WordSizes DEF Word
  <2>2. w * WordMod <= (WordMod - 1) * WordMod /\ w * WordMod >= 0
    BY <2>1, WordSizes
  <2>3. (WordMod - 1) * WordMod = WordMod * WordMod - WordMod
    BY WordSizes
  <2> QED
    BY <1>1, <2>1, <2>2, <2>3, WordSizes
<1>5. \A x \in Int : x % TempMod \in 0 .. TempMod - 1
  BY <1>2
<1>6. \A x \in Int : x % CounterMod \in 0 .. CounterMod - 1
  BY DEF CounterMod
<1>7. Width \in Nat /\ Width - 1 \in 0 .. CounterMod - 1
  BY WidthAssumption, IterationsAssumption DEF CounterMod
<1> QED
  BY <1>2, <1>3, <1>4, <1>5, <1>6, <1>7

PathType ==
  [counter : 0 .. CounterMod - 1, P : 0 .. TempMod - 1, D : 0 .. TempMod - 1,
   quot_buf : Word]

LEMMA IterateTypes ==
  ASSUME div \in DivState,
         NEW p \in 0 .. TempMod - 1, NEW q \in Word,
         NEW d, d.P = p, d.quot_buf = q, NEW i \in 0 .. CounterMod - 1
  PROVE  /\ Iterate(d, i).P \in 0 .. TempMod - 1
         /\ Iterate(d, i).quot_buf \in Word
         /\ Iterate(d, i) = [P |-> Iterate(d, i).P,
                             quot_buf |-> Iterate(d, i).quot_buf]
<1>1. i \in Nat /\ p \in Int /\ div.D \in Int
  BY DividerSizes DEF DivState
<1>2. SetBit(q, i) \in Word
  <2>1. q + 2 ^ i \in Int
    BY <1>1, WordSizes DEF Word
  <2> QED
    BY <2>1, TruncIsWord DEF SetBit
<1>3. 2 * p - div.D \in Int /\ 2 * p + div.D \in Int
  BY <1>1
<1>4. /\ (2 * p - div.D) % TempMod \in 0 .. TempMod - 1
      /\ (2 * p + div.D) % TempMod \in 0 .. TempMod - 1
  BY <1>3, DividerSizes
<1> QED
  BY <1>2, <1>4 DEF Iterate

LEMMA DatapathTypes ==
  ASSUME div \in DivState
  PROVE  Datapath \in PathType
<1>0. /\ div.counter \in 0 .. CounterMod - 1
      /\ div.P \in 0 .. TempMod - 1 /\ div.D \in 0 .. TempMod - 1
      /\ div.quot_buf \in Word /\ div.num_buf \in Word /\ div.denom_buf \in Word
  BY DEF DivState
<1>1. CASE Negative8(div.state_counter)
  BY <1>0, <1>1, DividerSizes DEF Datapath, PathType
<1>2. CASE ~Negative8(div.state_counter) /\ ~div.can_accept_cmd
  <2> DEFINE index(n) == (div.counter - n) % CounterMod
             once     == Iterate(div, index(0))
             twice    == Iterate(once, index(1))
             thrice   == Iterate(twice, index(2))
             fourth   == Iterate(thrice, index(3))
             IsIterated(x) == /\ x.P \in 0 .. TempMod - 1 /\ x.quot_buf \in Word
                              /\ x = [P |-> x.P, quot_buf |-> x.quot_buf]
  <2>1. \A n \in 0 .. 4 : index(n) \in 0 .. CounterMod - 1
    <3> SUFFICES ASSUME NEW n \in 0 .. 4 PROVE index(n) \in 0 .. CounterMod - 1
      OBVIOUS
    <3>1. div.counter - n \in Int
      BY <1>0 DEF CounterMod
    <3> QED
      BY <3>1, DividerSizes
  <2> HIDE DEF index
  <2>2. IsIterated(once)
    BY <1>0, <2>1, IterateTypes
  <2> HIDE DEF once
  <2>3. IsIterated(twice)
    BY <2>1, <2>2, IterateTypes
  <2> HIDE DEF twice
  <2>4. IsIterated(thrice)
    BY <2>1, <2>3, IterateTypes
  <2> HIDE DEF thrice
  <2>5. IsIterated(fourth)
    BY <2>1, <2>4, IterateTypes
  <2>6. Iterations.P \in 0 .. TempMod - 1 /\ Iterations.quot_buf \in Word
    BY <2>2, <2>3, <2>5, IterationsAssumption
       DEF Iterations, index, once, twice, thrice
  <2>7. (div.counter - IterationsPerCycle) % CounterMod \in 0 .. CounterMod - 1
    <3>1. div.counter - IterationsPerCycle \in Int
      BY <1>0, IterationsAssumption DEF CounterMod
    <3> QED
      BY <3>1, DividerSizes
  <2> QED
    BY <1>0, <1>2, <2>6, <2>7 DEF Datapath, PathType
<1>3. CASE ~Negative8(div.state_counter) /\ div.can_accept_cmd
  BY <1>0, <1>3 DEF Datapath, PathType
<1> QED
  BY <1>1, <1>2, <1>3

LEMMA NegateType == \A w \in Word : Negate(w) \in Word
<1> SUFFICES ASSUME NEW w \in Word PROVE Negate(w) \in Word
  OBVIOUS
<1>1. -w \in Int
  BY WordSizes DEF Word
<1> QED
  BY <1>1, TruncIsWord DEF Negate

LEMMA CorrectedTypes ==
  ASSUME div \in DivState
  PROVE  Corrected.quot \in Word /\ Corrected.rem \in Word
<1>1. /\ Seen.P \in 0 .. TempMod - 1 /\ Seen.D \in 0 .. TempMod - 1
      /\ Seen.quot_buf \in Word
  BY DatapathTypes DEF Seen, DivState, PathType
<1> DEFINE digits == Trunc(2 * Seen.quot_buf + 1)
           sum    == (Seen.P + Seen.D) % TempMod
<1>2. digits \in Word /\ Trunc(digits - 1) \in Word
  <2>1. 2 * Seen.quot_buf + 1 \in Int
    BY <1>1, WordSizes DEF Word
  <2>2. digits \in Word
    BY <2>1, TruncIsWord
  <2> HIDE DEF digits
  <2>3. digits - 1 \in Int
    BY <2>2, WordSizes DEF Word
  <2> QED
    BY <2>2, <2>3, TruncIsWord
<1>3. Trunc(sum \div WordMod) \in Word /\ Trunc(Seen.P \div WordMod) \in Word
  <2>1. sum \in Int
    BY <1>1, DividerSizes
  <2> HIDE DEF sum
  <2>2. sum \div WordMod \in Int /\ Seen.P \div WordMod \in Int
    BY <1>1, <2>1, WordSizes, DividerSizes
  <2> QED
    BY <2>2, TruncIsWord
<1>4. \A q, r \in Word : Negate(q) \in Word /\ Negate(r) \in Word
  BY NegateType
<1> HIDE DEF digits, sum
<1>5. (IF NegativeP(Seen.P) THEN Trunc(digits - 1) ELSE digits) \in Word
  BY <1>2
<1>6. Trunc((IF NegativeP(Seen.P) THEN sum ELSE Seen.P) \div WordMod) \in Word
  BY <1>3
<1> QED
  BY <1>4, <1>5, <1>6 DEF Corrected, digits, sum

LEMMA WithDatapathTypes ==
  ASSUME div \in DivState, NEW d \in DivState
  PROVE  WithDatapath(d) \in DivState
  BY DatapathTypes DEF WithDatapath, PathType, DivState

LEMMA DivTypes ==
  ASSUME div \in DivState,
         NEW in \in [enable : BOOLEAN, unsgn_or_sgn : BOOLEAN,
                     num : Word, denom : Word],
         DivStep(in)
  PROVE  div' \in DivState
<1>0. /\ CounterMod - 1 \in 0 .. CounterMod - 1
      /\ in.num \in Word /\ in.denom \in Word /\ in.unsgn_or_sgn \in BOOLEAN
      /\ (2 * in.num >= WordMod) \in BOOLEAN
      /\ (2 * in.denom >= WordMod) \in BOOLEAN
  BY DEF CounterMod
<1>1. CASE DivAccept(in)
  <2> DEFINE d == [div EXCEPT !.can_accept_cmd = FALSE, !.data_ready = FALSE,
                   !.state_counter = CounterMod - 1,
                   !.num_buf = in.num, !.denom_buf = in.denom,
                   !.sgn = in.unsgn_or_sgn,
                   !.num_was_negative = 2 * in.num >= WordMod,
                   !.denom_was_negative = 2 * in.denom >= WordMod,
                   !.start_state = 0, !.end_state = 0]
  <2>1. d \in DivState
    BY <1>0, ZenonT(30) DEF DivState
  <2>2. div' = WithDatapath(d)
    BY <1>1 DEF DivAccept
  <2> QED
    BY <2>1, <2>2, WithDatapathTypes
<1>2. CASE DivStart(in)
  <2> DEFINE d == [div EXCEPT !.start_state = 1,
                   !.num_buf = IF div.sgn /\ div.num_was_negative
                               THEN Negate(@) ELSE @,
                   !.denom_buf = IF div.sgn /\ div.denom_was_negative
                                 THEN Negate(@) ELSE @]
  <2>1. d \in DivState
    BY NegateType, ZenonT(30) DEF DivState
  <2>2. div' = WithDatapath(d)
    BY <1>2 DEF DivStart
  <2> QED
    BY <2>1, <2>2, WithDatapathTypes
<1>3. CASE DivIterate(in)
  <2> DEFINE d == [div EXCEPT !.state_counter = (@ + 1) % CounterMod,
                              !.end_state = 0]
  <2>1. (div.state_counter + 1) % CounterMod \in 0 .. CounterMod - 1
    BY DEF DivState, CounterMod
  <2>2. d \in DivState
    BY <2>1 DEF DivState
  <2>3. div' = WithDatapath(d)
    BY <1>3 DEF DivIterate
  <2> QED
    BY <2>2, <2>3, WithDatapathTypes
<1>4. CASE DivCorrect(in)
  <2> DEFINE d == [div EXCEPT !.end_state = 1, !.quot_buf_2 = Corrected.quot,
                              !.rem_buf_2 = Corrected.rem]
  <2>1. d \in DivState
    BY CorrectedTypes DEF DivState
  <2>2. div' = WithDatapath(d)
    BY <1>4 DEF DivCorrect
  <2> QED
    BY <2>1, <2>2, WithDatapathTypes
<1>5. CASE DivFinish(in)
  <2> DEFINE d == [div EXCEPT !.can_accept_cmd = TRUE, !.data_ready = TRUE,
                   !.state_counter = CounterMod - 1,
                   !.quot = div.quot_buf_2, !.rem = div.rem_buf_2]
  <2>1. d \in DivState
    BY <1>0 DEF DivState
  <2>2. div' = WithDatapath(d)
    BY <1>5 DEF DivFinish
  <2> QED
    BY <2>1, <2>2, WithDatapathTypes
<1>6. CASE DivIdle(in)
  BY <1>6, WithDatapathTypes DEF DivIdle
<1> QED
  BY <1>1, <1>2, <1>3, <1>4, <1>5, <1>6 DEF DivStep

LEMMA DivInitTypes == DivInit => div \in DivState
  BY DividerSizes DEF DivInit, DivState, CounterMod

(***************************************************************************)
(* A clock cycle of the unit.                                              *)
(***************************************************************************)
\* The clock cycles in which the unit iterates.
Cycles == Width \div IterationsPerCycle

LEMMA CyclesFacts ==
  /\ IterationsPerCycle \in {1, 2, 4}
  /\ Cycles \in Nat /\ Cycles >= 1 /\ Cycles < CounterMod \div 2
  /\ IterationsPerCycle * Cycles = Width
  /\ Width <= 128 /\ CounterMod = 256
<1>1. IterationsPerCycle \in {1, 2, 4} /\ Width \in Nat \ {0} /\ Width <= 128
  BY IterationsAssumption, WidthAssumption DEF CounterMod
<1>2. Width % IterationsPerCycle = 0
  BY IterationsAssumption
<1>3. Cycles \in Nat /\ IterationsPerCycle * Cycles = Width
  BY <1>1, <1>2 DEF Cycles
<1>4. Cycles >= 1
  BY <1>1, <1>3
<1>5. Cycles < CounterMod \div 2
  BY IterationsAssumption DEF Cycles
<1> QED
  BY <1>1, <1>3, <1>4, <1>5 DEF CounterMod

LEMMA IterationsStep ==
  ASSUME NEW num \in Word, NEW denom \in Word, denom # 0,
         div.D = denom * WordMod,
         NEW k \in 1 .. Cycles, div.counter = IterationsPerCycle * k - 1,
         Partial(div.P, div.quot_buf, num, denom, IterationsPerCycle * k - 1)
  PROVE  Partial(Iterations.P, Iterations.quot_buf, num, denom,
                 IterationsPerCycle * (k - 1) - 1)
<1> DEFINE c == IterationsPerCycle * k - 1
<1>1. /\ c \in Int /\ c < Width /\ c >= IterationsPerCycle - 1
      /\ IterationsPerCycle * (k - 1) - 1 = c - IterationsPerCycle
      /\ Width <= 128 /\ Width \in Nat
  <2>1. IterationsPerCycle * k <= IterationsPerCycle * Cycles
    BY CyclesFacts
  <2> QED
    BY <2>1, CyclesFacts, WidthAssumption
<1>2. div.counter = c /\ Partial(div.P, div.quot_buf, num, denom, c)
  OBVIOUS
<1> HIDE DEF c
<1>3. \A n \in 0 .. IterationsPerCycle - 1 :
        (div.counter - n) % CounterMod = c - n /\ c - n \in 0 .. Width - 1
  BY <1>1, <1>2, CyclesFacts
<1>4. \A i \in 0 .. Width - 1 : \A d :
        Partial(d.P, d.quot_buf, num, denom, i)
          => Partial(Iterate(d, i).P, Iterate(d, i).quot_buf, num, denom, i - 1)
  BY IterateStep
<1> DEFINE once == Iterate(div, c)
           twice == Iterate(once, c - 1)
           thrice == Iterate(twice, c - 2)
           four == Iterate(thrice, c - 3)
<1>5. Partial(once.P, once.quot_buf, num, denom, c - 1)
  BY <1>2, <1>3, <1>4, CyclesFacts
<1>6. CASE IterationsPerCycle = 1
  BY <1>1, <1>3, <1>5, <1>6 DEF Iterations
<1>7. IterationsPerCycle # 1 => Partial(twice.P, twice.quot_buf, num, denom, c - 2)
  <2> HIDE DEF once
  <2>1. IterationsPerCycle # 1 => c - 1 \in 0 .. Width - 1 /\ (c - 1) - 1 = c - 2
    BY <1>1, <1>3, CyclesFacts
  <2> QED
    BY <1>4, <1>5, <2>1
<1>8. CASE IterationsPerCycle = 2
  <2>1. Iterations = twice
    <3>1. (div.counter - 0) % CounterMod = c /\ (div.counter - 1) % CounterMod = c - 1
      BY <1>1, <1>3, <1>8
    <3>2. Iterations = Iterate(Iterate(div, (div.counter - 0) % CounterMod),
                               (div.counter - 1) % CounterMod)
      BY <1>8 DEF Iterations
    <3> QED
      BY <3>1, <3>2, Zenon
  <2> QED
    BY <1>1, <1>7, <1>8, <2>1
<1>9. CASE IterationsPerCycle = 4
  <2>1. Iterations = four
    <3>1. /\ (div.counter - 0) % CounterMod = c
          /\ (div.counter - 1) % CounterMod = c - 1
          /\ (div.counter - 2) % CounterMod = c - 2
          /\ (div.counter - 3) % CounterMod = c - 3
      BY <1>1, <1>3, <1>9
    <3>2. Iterations = Iterate(Iterate(Iterate(Iterate(div,
                         (div.counter - 0) % CounterMod),
                         (div.counter - 1) % CounterMod),
                         (div.counter - 2) % CounterMod),
                         (div.counter - 3) % CounterMod)
      BY <1>9 DEF Iterations
    <3> QED
      BY <3>1, <3>2, Zenon
  <2> HIDE DEF twice
  <2>2. /\ c - 2 \in 0 .. Width - 1 /\ (c - 2) - 1 = c - 3
        /\ c - 3 \in 0 .. Width - 1 /\ (c - 3) - 1 = c - 4
    BY <1>1, <1>3, <1>9
  <2>3. Partial(thrice.P, thrice.quot_buf, num, denom, c - 3)
    BY <1>4, <1>7, <1>9, <2>2
  <2> HIDE DEF thrice
  <2>4. Partial(four.P, four.quot_buf, num, denom, c - 4)
    BY <1>4, <2>2, <2>3
  <2> QED
    BY <1>1, <1>9, <2>1, <2>4
<1> QED
  BY <1>6, <1>8, <1>9, CyclesFacts

(***************************************************************************)
(* The phases of a division, as predicates of the unit's registers d and   *)
(* of the command.                                                         *)
(***************************************************************************)
IsNegative(w) == 2 * w >= WordMod

Size(command, w) ==
  IF command.unsgn_or_sgn /\ IsNegative(w) THEN Negate(w) ELSE w

\* The quotient of a command with a denominator.
QuotientOf(command) ==
  LET q == Size(command, command.num) \div Size(command, command.denom)
  IN  IF command.unsgn_or_sgn /\ IsNegative(command.num) # IsNegative(command.denom)
      THEN Negate(q) ELSE q

\* Its remainder, with the sign of the numerator.
RemainderOf(command) ==
  LET r == Size(command, command.num) % Size(command, command.denom)
  IN  IF command.unsgn_or_sgn /\ IsNegative(command.num) THEN Negate(r) ELSE r

Signs(d, command) ==
  /\ d.sgn = command.unsgn_or_sgn
  /\ d.num_was_negative = IsNegative(command.num)
  /\ d.denom_was_negative = IsNegative(command.denom)

Waiting(d) == d.can_accept_cmd /\ d.start_state = 1

\* The operands have been taken.
Accepted(d, command) ==
  /\ ~d.can_accept_cmd /\ d.start_state = 0 /\ d.end_state = 0
  /\ d.state_counter = CounterMod - 1
  /\ d.num_buf = command.num /\ d.denom_buf = command.denom
  /\ Signs(d, command)

Working(d, command) ==
  /\ ~d.can_accept_cmd /\ d.start_state = 1
  /\ Signs(d, command)

\* They have been made positive.
Sized(d, command) ==
  /\ Working(d, command) /\ d.end_state = 0
  /\ d.state_counter = CounterMod - 1 /\ d.counter = Width - 1
  /\ d.num_buf = Size(command, command.num)
  /\ d.denom_buf = Size(command, command.denom)

Remaining(d, command, i) ==
  LET denom == Size(command, command.denom)
  IN  /\ d.D = denom * WordMod
      /\ command.denom # 0 =>
           Partial(d.P, d.quot_buf, Size(command, command.num), denom, i)

\* k cycles of iterations are left.
Iterating(d, command, k) ==
  /\ Working(d, command) /\ d.end_state = 0
  /\ d.state_counter = Cycles - k
  /\ d.counter = IterationsPerCycle * k - 1
  /\ Remaining(d, command, IterationsPerCycle * k - 1)

\* The control has not seen yet that none are.
Iterated(d, command) ==
  /\ Working(d, command) /\ d.end_state = 0
  /\ d.state_counter = Cycles
  /\ d.counter = CounterMod - 1
  /\ Remaining(d, command, -1)

\* The signs have been put back.
SignsPutBack(d, command) ==
  /\ Working(d, command) /\ d.end_state = 1
  /\ d.state_counter \in 0 .. Cycles
  /\ d.counter \in CounterMod - 1 - IterationsPerCycle .. CounterMod - 1
  /\ command.denom # 0 => /\ d.quot_buf_2 = QuotientOf(command)
                          /\ d.rem_buf_2 = RemainderOf(command)

Ready(d, command) ==
  /\ Waiting(d) /\ d.data_ready
  /\ command.denom # 0 => /\ d.quot = QuotientOf(command)
                          /\ d.rem = RemainderOf(command)

\* Magnitudes are words, and only that of 0 is 0.
LEMMA SizeIsWord ==
  ASSUME NEW command, NEW w \in Word
  PROVE  Size(command, w) \in Word /\ (w # 0 => Size(command, w) # 0)
<1>1. WordMod \in Nat /\ WordMod > 0 /\ w \in Int /\ 0 <= w /\ w < WordMod
  BY WordSizes DEF Word
<1>2. CASE w = 0
  BY <1>1, <1>2 DEF Size, IsNegative
<1>3. CASE w # 0
  <2>1. Negate(w) = WordMod - w
    <3>1. WordMod - w \in Word
      BY <1>1, <1>3 DEF Word
    <3>2. \A j \in Int : Trunc((WordMod - w) + j * WordMod) = WordMod - w
      BY <3>1, TruncIs
    <3>3. Trunc((WordMod - w) + (-1) * WordMod) = WordMod - w
      BY <3>2
    <3>4. (WordMod - w) + (-1) * WordMod = -w
      BY <1>1
    <3> QED
      BY <3>3, <3>4 DEF Negate
  <2> QED
    BY <1>1, <1>3, <2>1 DEF Size, Word
<1> QED
  BY <1>2, <1>3

\* What the correction makes of the last digits and remainder is the quotient
\* and the remainder of the command.
LEMMA CorrectedIsRight ==
  ASSUME div \in DivState, NEW command, command.num \in Word,
         command.denom \in Word, command.denom # 0,
         Signs(div, command),
         Seen.D = Size(command, command.denom) * WordMod,
         Partial(Seen.P, Seen.quot_buf, Size(command, command.num),
                 Size(command, command.denom), -1)
  PROVE  /\ Corrected.quot = QuotientOf(command)
         /\ Corrected.rem = RemainderOf(command)
<1> DEFINE q == Size(command, command.num) \div Size(command, command.denom)
           r == Size(command, command.num) % Size(command, command.denom)
<1>1. /\ FromDigits(Seen.P, Seen.quot_buf) = q
      /\ LastRemainder(Seen.P, Seen.D) = r
  BY SizeIsWord, PartialEnd
<1> HIDE DEF q, r
<1>2. Corrected.quot
        = IF div.sgn /\ div.num_was_negative # div.denom_was_negative
          THEN Negate(FromDigits(Seen.P, Seen.quot_buf))
          ELSE FromDigits(Seen.P, Seen.quot_buf)
  BY DEF Corrected, FromDigits
<1>3. Corrected.rem
        = IF div.sgn /\ div.num_was_negative
          THEN Negate(LastRemainder(Seen.P, Seen.D))
          ELSE LastRemainder(Seen.P, Seen.D)
  BY DEF Corrected, LastRemainder
<1>4. Corrected.quot = QuotientOf(command)
  BY <1>1, <1>2 DEF QuotientOf, Signs, q
<1>5. Corrected.rem = RemainderOf(command)
  BY <1>1, <1>3 DEF RemainderOf, Signs, r
<1> QED
  BY <1>4, <1>5

(***************************************************************************)
(* From phase to phase.                                                    *)
(***************************************************************************)
\* The registers after an edge on which the unit is at work.
LEMMA WorkingStep ==
  ASSUME div \in DivState, NEW in, DivStep(in),
         ~div.can_accept_cmd, div.start_state = 1
  PROVE  /\ div'.blocking_first = div.blocking_first /\ div'.start_state = 1
         /\ div'.num_buf = div.num_buf /\ div'.denom_buf = div.denom_buf
         /\ div'.sgn = div.sgn
         /\ div'.num_was_negative = div.num_was_negative
         /\ div'.denom_was_negative = div.denom_was_negative
         /\ div'.counter = Datapath.counter /\ div'.P = Datapath.P
         /\ div'.D = Datapath.D /\ div'.quot_buf = Datapath.quot_buf
         /\ ~Negative8(Seen.counter) =>
              /\ ~div'.can_accept_cmd /\ div'.end_state = 0
              /\ div'.state_counter = (div.state_counter + 1) % CounterMod
         /\ Negative8(Seen.counter) /\ div.end_state = 0 =>
              /\ ~div'.can_accept_cmd /\ div'.end_state = 1
              /\ div'.state_counter = div.state_counter
              /\ div'.quot_buf_2 = Corrected.quot
              /\ div'.rem_buf_2 = Corrected.rem
         /\ Negative8(Seen.counter) /\ div.end_state = 1 =>
              /\ div'.can_accept_cmd /\ div'.data_ready
              /\ div'.quot = div.quot_buf_2 /\ div'.rem = div.rem_buf_2
<1>1. DivIterate(in) \/ DivCorrect(in) \/ DivFinish(in)
  BY DEF DivStep, DivAccept, DivStart, DivIdle
<1> DEFINE path == Datapath
           fixed == Corrected
<1> HIDE DEF path, fixed
<1>2. CASE DivIterate(in)
  <2>1. div' = [[div EXCEPT !.state_counter = (@ + 1) % CounterMod, !.end_state = 0]
                 EXCEPT !.counter = path.counter, !.P = path.P,
                        !.D = path.D, !.quot_buf = path.quot_buf]
        /\ ~Negative8(Seen.counter)
    BY <1>2 DEF DivIterate, WithDatapath, path
  <2> QED
    BY <2>1 DEF DivState, path
<1>3. CASE DivCorrect(in)
  <2>1. div' = [[div EXCEPT !.end_state = 1, !.quot_buf_2 = fixed.quot,
                            !.rem_buf_2 = fixed.rem]
                 EXCEPT !.counter = path.counter, !.P = path.P,
                        !.D = path.D, !.quot_buf = path.quot_buf]
        /\ Negative8(Seen.counter) /\ div.end_state = 0
    BY <1>3 DEF DivCorrect, WithDatapath, path, fixed
  <2> QED
    BY <2>1 DEF DivState, path, fixed
<1>4. CASE DivFinish(in)
  <2>1. div' = [[div EXCEPT !.can_accept_cmd = TRUE, !.data_ready = TRUE,
                            !.state_counter = CounterMod - 1,
                            !.quot = div.quot_buf_2, !.rem = div.rem_buf_2]
                 EXCEPT !.counter = path.counter, !.P = path.P,
                        !.D = path.D, !.quot_buf = path.quot_buf]
        /\ Negative8(Seen.counter) /\ div.end_state = 1
    BY <1>4 DEF DivFinish, WithDatapath, path
  <2> QED
    BY <2>1 DEF DivState, path
<1> QED
  BY <1>1, <1>2, <1>3, <1>4

\* The results stay until the next ones are handed out.
LEMMA OutputsStay ==
  ASSUME div \in DivState, NEW in, DivStep(in),
         ~div.can_accept_cmd, ~div'.can_accept_cmd
  PROVE  /\ div'.data_ready = div.data_ready
         /\ div'.quot = div.quot /\ div'.rem = div.rem
<1>1. DivStart(in) \/ DivIterate(in) \/ DivCorrect(in) \/ DivFinish(in)
  BY DEF DivStep, DivAccept, DivIdle
<1>2. CASE DivStart(in)
  BY <1>2 DEF DivStart, WithDatapath, DivState
<1>3. CASE DivIterate(in)
  BY <1>3 DEF DivIterate, WithDatapath, DivState
<1>4. CASE DivCorrect(in)
  BY <1>4 DEF DivCorrect, WithDatapath, DivState
<1>5. CASE DivFinish(in)
  BY <1>5 DEF DivFinish, WithDatapath, DivState
<1> QED
  BY <1>1, <1>2, <1>3, <1>4, <1>5

\* A unit that waits stays as it is without a command, and takes one.
LEMMA WaitingStep ==
  ASSUME div \in DivState, NEW in, DivStep(in), Waiting(div)
  PROVE  /\ div'.blocking_first = div.blocking_first
         /\ ~in.enable => /\ Waiting(div')
                          /\ div'.data_ready = div.data_ready
                          /\ div'.quot = div.quot /\ div'.rem = div.rem
         /\ in.enable => /\ Accepted(div', in)
                         /\ div'.data_ready = FALSE
                         /\ div'.quot = div.quot /\ div'.rem = div.rem
<1> DEFINE path == Datapath
<1> HIDE DEF path
<1>1. CASE in.enable
  <2>1. div' = [[div EXCEPT !.can_accept_cmd = FALSE, !.data_ready = FALSE,
                   !.state_counter = CounterMod - 1,
                   !.num_buf = in.num, !.denom_buf = in.denom,
                   !.sgn = in.unsgn_or_sgn,
                   !.num_was_negative = 2 * in.num >= WordMod,
                   !.denom_was_negative = 2 * in.denom >= WordMod,
                   !.start_state = 0, !.end_state = 0]
                 EXCEPT !.counter = path.counter, !.P = path.P,
                        !.D = path.D, !.quot_buf = path.quot_buf]
    BY <1>1 DEF Waiting, DivStep, DivAccept, DivStart, Busy, DivIterate,
       DivCorrect, DivFinish, DivIdle, WithDatapath, path
  <2> QED
    BY <1>1, <2>1 DEF DivState, Accepted, Signs, IsNegative
<1>2. CASE ~in.enable
  <2>1. div' = [div EXCEPT !.counter = path.counter, !.P = path.P,
                           !.D = path.D, !.quot_buf = path.quot_buf]
    BY <1>2 DEF Waiting, DivStep, DivAccept, DivStart, Busy, DivIterate,
       DivCorrect, DivFinish, DivIdle, WithDatapath, path
  <2> QED
    BY <1>2, <2>1 DEF DivState, Waiting
<1> QED
  BY <1>1, <1>2

\* The operands are made positive, and the counter loaded.
LEMMA AcceptedStep ==
  ASSUME div \in DivState, NEW in, DivStep(in), NEW command, Accepted(div, command)
  PROVE  /\ div'.blocking_first = div.blocking_first
         /\ Sized(div', command)
<1> DEFINE path == Datapath
<1>1. Negative8(div.state_counter)
  BY DEF Accepted, Negative8, CounterMod
<1>2. path.counter = Width - 1
  BY <1>1 DEF Datapath
<1> HIDE DEF path
<1>3. div' = [[div EXCEPT !.start_state = 1,
                 !.num_buf = IF div.sgn /\ div.num_was_negative
                             THEN Negate(@) ELSE @,
                 !.denom_buf = IF div.sgn /\ div.denom_was_negative
                               THEN Negate(@) ELSE @]
               EXCEPT !.counter = path.counter, !.P = path.P,
                      !.D = path.D, !.quot_buf = path.quot_buf]
  BY DEF Accepted, DivStep, DivAccept, DivStart, Busy, DivIterate,
     DivCorrect, DivFinish, DivIdle, WithDatapath, path
<1> QED
  BY <1>2, <1>3 DEF DivState, Accepted, Sized, Working, Signs, Size

\* The operands are loaded into the data path.
LEMMA SizedStep ==
  ASSUME div \in DivState, NEW in, DivStep(in), NEW command,
         command.num \in Word, command.denom \in Word, Sized(div, command)
  PROVE  /\ div'.blocking_first = div.blocking_first
         /\ Iterating(div', command, Cycles)
<1> DEFINE denom == Size(command, command.denom)
           num == Size(command, command.num)
<1>1. ~div.can_accept_cmd /\ div.start_state = 1
      /\ Negative8(div.state_counter) /\ div.counter = Width - 1
      /\ div.state_counter = CounterMod - 1
  BY DEF Sized, Working, Negative8, CounterMod
<1>2. Datapath = [counter |-> Width - 1, P |-> num, D |-> denom * WordMod, quot_buf |-> 0]
  BY <1>1 DEF Datapath, Sized
<1>3. ~Negative8(Seen.counter)
  <2>1. Width - 1 < 128 /\ Width - 1 \in Int
    BY CyclesFacts, WidthAssumption
  <2> QED
    BY <1>1, <1>2, <2>1 DEF Seen, Negative8, CounterMod
<1>4. num \in Word /\ denom \in Word /\ (command.denom # 0 => denom # 0)
  BY SizeIsWord
<1>5. IterationsPerCycle * Cycles - 1 = Width - 1
  BY CyclesFacts
<1>6. (div.state_counter + 1) % CounterMod = Cycles - Cycles
  BY <1>1, CyclesFacts
<1>7. Remaining(div', command, Width - 1)
  <2>1. div'.P = num /\ div'.D = denom * WordMod /\ div'.quot_buf = 0
    BY <1>1, <1>2, WorkingStep
  <2>2. command.denom # 0 => Partial(num, 0, num, denom, Width - 1)
    BY <1>4, PartialStart
  <2> QED
    BY <2>1, <2>2 DEF Remaining
<1>8. /\ div'.counter = Width - 1 /\ div'.state_counter = Cycles - Cycles
      /\ div'.end_state = 0 /\ ~div'.can_accept_cmd /\ div'.start_state = 1
      /\ Signs(div', command) /\ div'.blocking_first = div.blocking_first
  BY <1>1, <1>2, <1>3, <1>6, WorkingStep DEF Sized, Working, Signs
<1> QED
  BY <1>5, <1>7, <1>8 DEF Iterating, Working

\* What the data path does while the unit iterates.
LEMMA IteratingDatapath ==
  ASSUME div \in DivState, NEW command,
         command.num \in Word, command.denom \in Word,
         NEW k \in 1 .. Cycles, Iterating(div, command, k)
  PROVE  LET left == IterationsPerCycle * (k - 1) - 1
         IN  /\ Datapath.counter = left % CounterMod
             /\ Datapath.D = Size(command, command.denom) * WordMod
             /\ command.denom # 0 =>
                  Partial(Datapath.P, Datapath.quot_buf,
                          Size(command, command.num),
                          Size(command, command.denom), left)
<1> DEFINE denom == Size(command, command.denom)
           num == Size(command, command.num)
           left == IterationsPerCycle * (k - 1) - 1
<1>1. ~Negative8(div.state_counter) /\ ~div.can_accept_cmd
  BY CyclesFacts DEF Iterating, Working, Negative8
<1>2. /\ Datapath.counter = (div.counter - IterationsPerCycle) % CounterMod
      /\ Datapath.D = div.D
      /\ Datapath.P = Iterations.P /\ Datapath.quot_buf = Iterations.quot_buf
  BY <1>1 DEF Datapath
<1>3. div.counter = IterationsPerCycle * k - 1 /\ div.D = denom * WordMod
  BY DEF Iterating, Remaining
<1>4. div.counter - IterationsPerCycle = left
  BY <1>3, CyclesFacts
<1>5. num \in Word /\ denom \in Word /\ (command.denom # 0 => denom # 0)
  BY SizeIsWord
<1>6. command.denom # 0 => Partial(Iterations.P, Iterations.quot_buf, num, denom, left)
  <2>1. command.denom # 0 =>
          Partial(div.P, div.quot_buf, num, denom, IterationsPerCycle * k - 1)
    BY DEF Iterating, Remaining
  <2> QED
    BY <1>3, <1>5, <2>1, IterationsStep
<1> QED
  BY <1>2, <1>3, <1>4, <1>6

\* A cycle of iterations: but for the last one, the next one follows; after the
\* last one the control has seen that it was, or will see it in the next cycle.
LEMMA IteratingStep ==
  ASSUME div \in DivState, NEW in, DivStep(in), NEW command,
         command.num \in Word, command.denom \in Word,
         NEW k \in 1 .. Cycles, Iterating(div, command, k)
  PROVE  /\ div'.blocking_first = div.blocking_first
         /\ k > 1 => Iterating(div', command, k - 1)
         /\ k = 1 => IF div.blocking_first THEN SignsPutBack(div', command)
                                           ELSE Iterated(div', command)
<1> DEFINE left == IterationsPerCycle * (k - 1) - 1
<1>1. /\ Datapath.counter = left % CounterMod
      /\ Datapath.D = Size(command, command.denom) * WordMod
      /\ command.denom # 0 =>
           Partial(Datapath.P, Datapath.quot_buf, Size(command, command.num),
                   Size(command, command.denom), left)
  BY IteratingDatapath
<1>2. /\ left \in Int /\ left < Width - 1
      /\ k > 1 => left >= 0 /\ left % CounterMod = left
      /\ k = 1 => left = -1 /\ left % CounterMod = CounterMod - 1
  <2>1. IterationsPerCycle * (k - 1) <= IterationsPerCycle * (Cycles - 1)
    BY CyclesFacts
  <2>2. left \in Int /\ left < Width - 1 /\ (k > 1 => left >= 0) /\ (k = 1 => left = -1)
    BY <2>1, CyclesFacts, WidthAssumption
  <2> HIDE DEF left
  <2> QED
    BY <2>2, CyclesFacts
<1>3. /\ ~div.can_accept_cmd /\ div.start_state = 1 /\ div.end_state = 0
      /\ Signs(div, command)
      /\ div.state_counter = Cycles - k
      /\ div.counter = IterationsPerCycle * k - 1
  BY DEF Iterating, Working
<1>4. ~Negative8(div.counter)
  <2>1. IterationsPerCycle * k <= IterationsPerCycle * Cycles
    BY CyclesFacts
  <2> QED
    BY <1>3, <2>1, CyclesFacts DEF Negative8
<1>5. (div.state_counter + 1) % CounterMod = Cycles - (k - 1)
  BY <1>3, CyclesFacts
<1>6. /\ div'.blocking_first = div.blocking_first
      /\ div'.start_state = 1 /\ Signs(div', command)
      /\ div'.counter = left % CounterMod
      /\ Remaining(div', command, left)
  BY <1>1, <1>3, WorkingStep DEF Signs, Remaining
<1> HIDE DEF left
<1>7. CASE ~Negative8(Seen.counter)
  <2>1. ~div'.can_accept_cmd /\ div'.end_state = 0
        /\ div'.state_counter = Cycles - (k - 1)
    BY <1>3, <1>5, <1>7, WorkingStep
  <2>2. CASE k > 1
    BY <1>2, <1>6, <2>1, <2>2 DEF Iterating, Working, left
  <2>3. CASE k = 1
    <3>1. ~div.blocking_first
      BY <1>1, <1>2, <1>7, <2>3 DEF Seen, Negative8, CounterMod
    <3> QED
      BY <1>2, <1>6, <2>1, <2>3, <3>1, CyclesFacts DEF Iterated, Working
  <2> QED
    BY <2>2, <2>3
<1>8. CASE Negative8(Seen.counter)
  <2>1. k = 1 /\ div.blocking_first
    <3>1. div.blocking_first /\ Seen = Datapath
      BY <1>4, <1>8 DEF Seen
    <3>2. k > 1 => ~Negative8(left)
      BY <1>2, CyclesFacts DEF Negative8
    <3> QED
      BY <1>1, <1>2, <1>8, <3>1, <3>2
  <2>2. ~div'.can_accept_cmd /\ div'.end_state = 1
        /\ div'.state_counter = div.state_counter
        /\ div'.quot_buf_2 = Corrected.quot
        /\ div'.rem_buf_2 = Corrected.rem
    BY <1>3, <1>8, WorkingStep
  <2>3. command.denom # 0 => /\ Corrected.quot = QuotientOf(command)
                             /\ Corrected.rem = RemainderOf(command)
    <3>1. Seen = Datapath /\ left = -1
      BY <1>2, <2>1 DEF Seen
    <3> QED
      BY <1>1, <1>3, <3>1, CorrectedIsRight
  <2>4. div'.state_counter \in 0 .. Cycles
        /\ div'.counter \in CounterMod - 1 - IterationsPerCycle .. CounterMod - 1
    BY <1>2, <1>3, <1>6, <2>1, <2>2, CyclesFacts
  <2> QED
    BY <1>6, <2>1, <2>2, <2>3, <2>4 DEF SignsPutBack, Working
<1> QED
  BY <1>7, <1>8

\* The control, which sees the registers of before the edge, sees that the
\* iterations are over; the data path iterates once more, on registers nobody
\* reads again.
LEMMA IteratedStep ==
  ASSUME div \in DivState, NEW in, DivStep(in), NEW command,
         command.num \in Word, command.denom \in Word,
         Iterated(div, command), ~div.blocking_first
  PROVE  /\ div'.blocking_first = div.blocking_first
         /\ SignsPutBack(div', command)
<1>1. /\ ~div.can_accept_cmd /\ div.start_state = 1 /\ div.end_state = 0
      /\ Signs(div, command)
      /\ div.state_counter = Cycles /\ div.counter = CounterMod - 1
  BY DEF Iterated, Working
<1>2. /\ Seen.counter = div.counter /\ Seen.P = div.P
      /\ Seen.D = div.D /\ Seen.quot_buf = div.quot_buf
  BY DEF Seen
<1>3. Negative8(Seen.counter)
  BY <1>1, <1>2 DEF Negative8, CounterMod
<1>4. command.denom # 0 => /\ Corrected.quot = QuotientOf(command)
                           /\ Corrected.rem = RemainderOf(command)
  BY <1>1, <1>2, CorrectedIsRight DEF Iterated, Remaining
<1>5. Datapath.counter = (div.counter - IterationsPerCycle) % CounterMod
  BY <1>1, CyclesFacts DEF Datapath, Negative8
<1>6. Datapath.counter \in CounterMod - 1 - IterationsPerCycle .. CounterMod - 1
  BY <1>1, <1>5, CyclesFacts
<1> QED
  BY <1>1, <1>3, <1>4, <1>6, CyclesFacts, WorkingStep
     DEF SignsPutBack, Working, Signs

\* The result is handed out.
LEMMA SignsPutBackStep ==
  ASSUME div \in DivState, NEW in, DivStep(in), NEW command,
         SignsPutBack(div, command)
  PROVE  /\ div'.blocking_first = div.blocking_first
         /\ Ready(div', command)
<1>1. /\ ~div.can_accept_cmd /\ div.start_state = 1 /\ div.end_state = 1
      /\ div.state_counter \in 0 .. Cycles
      /\ div.counter \in CounterMod - 1 - IterationsPerCycle .. CounterMod - 1
  BY DEF SignsPutBack, Working
<1>2. Datapath.counter = (div.counter - IterationsPerCycle) % CounterMod
  BY <1>1, CyclesFacts DEF Datapath, Negative8
<1>3. Negative8(Seen.counter)
  BY <1>1, <1>2, CyclesFacts DEF Seen, Negative8
<1> QED
  BY <1>1, <1>3, WorkingStep DEF SignsPutBack, Ready, Waiting
================================================================================
