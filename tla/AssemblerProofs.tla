---------------------------- MODULE AssemblerProofs ----------------------------
(***************************************************************************)
(* The second pass of the assembler replays the scopes of the first, for   *)
(* every file, and, for the files that keep to two rules, its addresses.   *)
(***************************************************************************)
EXTENDS AssemblerProperties, FiniteSetTheorems, WellFoundedInduction, TLAPS

(***************************************************************************)
(* Counting lines.                                                         *)
(***************************************************************************)
\* A finite set of naturals has a least element: the part of it up to an element
\* shrinks with the element.
LEMMA LeastNatural ==
  ASSUME NEW T, T \subseteq Nat, T # {}
  PROVE  Min(T) \in T /\ \A y \in T : Min(T) <= y
<1> DEFINE Upto(x) == T \cap (0 .. x)
           F == {Upto(x) : x \in T}
<1>1. \A x \in T : Upto(x) \in FiniteSubsetsOf(T)
  <2> SUFFICES ASSUME NEW x \in T PROVE Upto(x) \in FiniteSubsetsOf(T)
    OBVIOUS
  <2>1. IsFiniteSet(0 .. x)
    BY FS_Interval
  <2>2. IsFiniteSet(Upto(x))
    BY <2>1, FS_Subset
  <2> QED
    BY <2>2 DEF FiniteSubsetsOf
<1>2. F \subseteq FiniteSubsetsOf(T) /\ F # {}
  BY <1>1
<1>3. IsWellFoundedOn(StrictSubsetOrdering(T), FiniteSubsetsOf(T))
  BY FS_StrictSubsetOrderingWellFounded
<1>4. \E U \in F : \A V \in F : <<V, U>> \notin StrictSubsetOrdering(T)
  <2> HIDE DEF F
  <2> QED
    BY <1>2, <1>3, WFMin
<1>5. PICK x \in T : \A y \in T : <<Upto(y), Upto(x)>> \notin StrictSubsetOrdering(T)
  BY <1>4
<1>6. ASSUME NEW y \in T, y < x PROVE FALSE
  <2>1. Upto(y) \subseteq Upto(x) /\ x \in Upto(x) /\ x \notin Upto(y)
    BY <1>6
  <2>2. Upto(y) \in SUBSET T /\ Upto(x) \in SUBSET T /\ Upto(y) # Upto(x)
    BY <2>1
  <2> HIDE DEF Upto
  <2>3. <<Upto(y), Upto(x)>> \in StrictSubsetOrdering(T)
    BY <2>1, <2>2 DEF StrictSubsetOrdering
  <2> QED
    BY <1>5, <2>3
<1>7. \A y \in T : x <= y
  BY <1>6
<1> QED
  BY <1>7 DEF Min

\* Induction, over a set of numbers.
LEMMA Induction ==
  ASSUME NEW S, 0 \in S, \A n \in Nat : n \in S => n + 1 \in S
  PROVE  \A n \in Nat : n \in S
<1> DEFINE T == {n \in Nat : n \notin S}
           m == Min(T)
<1> SUFFICES ASSUME T # {} PROVE FALSE
  OBVIOUS
<1>1. m \in T /\ \A y \in T : m <= y
  <2>1. T \subseteq Nat
    OBVIOUS
  <2> HIDE DEF T
  <2> QED
    BY <2>1, LeastNatural
<1> HIDE DEF m
<1>2. m \in Nat /\ m \notin S /\ m # 0
  BY <1>1
<1>3. m - 1 \in Nat /\ (m - 1) + 1 = m /\ ~(m <= m - 1)
  BY <1>2
<1>4. m - 1 \in S
  BY <1>1, <1>3
<1> QED
  BY <1>2, <1>3, <1>4

\* How often a kind occurs up to a line.
LEMMA CountStep ==
  ASSUME NEW lines, NEW kind
  PROVE  /\ Count(lines, kind, 0) = 0
         /\ \A n \in Nat :
              /\ Count(lines, kind, n) \in Nat
              /\ Count(lines, kind, n + 1) =
                   Count(lines, kind, n)
                     + (IF lines[n + 1].kind = kind THEN 1 ELSE 0)
<1> DEFINE Upto(n) == {i \in 1 .. n : lines[i].kind = kind}
<1>0. \A n : Count(lines, kind, n) = Cardinality(Upto(n))
  BY DEF Count
<1>1. Upto(0) = {}
  OBVIOUS
<1>2. ASSUME NEW n \in Nat
      PROVE  /\ Count(lines, kind, n) \in Nat
             /\ Count(lines, kind, n + 1) =
                  Count(lines, kind, n)
                    + (IF lines[n + 1].kind = kind THEN 1 ELSE 0)
  <2>1. IsFiniteSet(1 .. n) /\ Upto(n) \subseteq 1 .. n
    BY FS_Interval
  <2>2. IsFiniteSet(Upto(n))
    BY <2>1, FS_Subset
  <2>3. Upto(n + 1) = IF lines[n + 1].kind = kind THEN Upto(n) \cup {n + 1}
                      ELSE Upto(n)
    <3>1. \A i \in Int : i \in 1 .. n + 1 <=> i \in 1 .. n \/ i = n + 1
      OBVIOUS
    <3> QED
      BY <3>1
  <2>4. n + 1 \notin Upto(n)
    OBVIOUS
  <2> HIDE DEF Upto
  <2>5. Cardinality(Upto(n)) \in Nat
    BY <2>2, FS_CardinalityType
  <2>6. Cardinality(Upto(n) \cup {n + 1}) = Cardinality(Upto(n)) + 1
    BY <2>2, <2>4, FS_AddElement
  <2>7. Cardinality(Upto(n + 1)) =
          Cardinality(Upto(n)) + (IF lines[n + 1].kind = kind THEN 1 ELSE 0)
    BY <2>3, <2>5, <2>6
  <2> QED
    BY <1>0, <2>5, <2>7
<1>3. Count(lines, kind, 0) = 0
  <2> HIDE DEF Upto
  <2> QED
    BY <1>0, <1>1, FS_EmptySet
<1> QED
  BY <1>2, <1>3

\* The greatest element is the one no other is above.
LEMMA MaxIs ==
  ASSUME NEW S, S \subseteq Int, NEW m \in S, \A y \in S : m >= y
  PROVE  Max(S) = m
<1>1. \A x \in S : (\A y \in S : x >= y) => x = m
  OBVIOUS
<1> QED
  BY <1>1 DEF Max

(***************************************************************************)
(* Scopes of lines.  The kinds have names here, as the solver does not     *)
(* take a brace for a string.                                              *)
(***************************************************************************)
IsOpen(i)  == source[i].kind = "{"
IsClose(i) == source[i].kind = "}"

Opens  == {i \in Lines : IsOpen(i)}
Closes == {i \in Lines : IsClose(i)}

OpenCount(n)  == Count(source, "{", n)
CloseCount(n) == Count(source, "}", n)

\* What is parsed has no brace that closes nothing.
Finite == Len(source) \in Nat /\ Lines = 1 .. Len(source)

NoBraceTooMany == \A i \in Closes : OpenCount(i) - CloseCount(i) >= 0

WellNested == Finite /\ NoBraceTooMany

\* Line numbers, and the number of the end.
Places == 1 .. Len(source) + 1

\* The braces under their names.
LEMMA Kinds ==
  Opens = LinesOf("{") /\ Closes = LinesOf("}")
BY Zenon DEF Opens, Closes, LinesOf, IsOpen, IsClose

\* No line is both.
LEMMA OneKind == \A i : ~(IsOpen(i) /\ IsClose(i))
<1>1. "{" # "}"
  BY Zenon
<1> QED
  BY <1>1, Zenon DEF IsOpen, IsClose

\* Each line adds to the count of its kind.
LEMMA BraceCounts ==
  /\ OpenCount(0) = 0 /\ CloseCount(0) = 0
  /\ \A n \in Nat :
       /\ OpenCount(n) \in Nat
       /\ CloseCount(n) \in Nat
       /\ OpenCount(n + 1) = OpenCount(n) + (IF IsOpen(n + 1) THEN 1 ELSE 0)
       /\ CloseCount(n + 1) = CloseCount(n) + (IF IsClose(n + 1) THEN 1 ELSE 0)
<1>1. PICK open : open = "{"
  OBVIOUS
<1>2. PICK close : close = "}"
  OBVIOUS
<1>3. \A n : /\ OpenCount(n) = Count(source, open, n)
             /\ CloseCount(n) = Count(source, close, n)
             /\ IsOpen(n) <=> source[n].kind = open
             /\ IsClose(n) <=> source[n].kind = close
  BY <1>1, <1>2, Zenon DEF OpenCount, CloseCount, IsOpen, IsClose
<1> QED
  BY <1>3, CountStep, SMTT(30)

\* A brace changes the depth by one, and no other line does; it never falls
\* below 0.
LEMMA Depths ==
  ASSUME WellNested
  PROVE  /\ Depth(1) = 0
         /\ \A i \in Places : Depth(i) \in Int
         /\ \A i \in Opens : Depth(i + 1) = Depth(i) + 1
         /\ \A i \in Closes : Depth(i + 1) = Depth(i) - 1 /\ Depth(i) > 0
         /\ \A i \in Lines \ (Opens \cup Closes) : Depth(i + 1) = Depth(i)
<1>1. \A i \in Places : Depth(i) = OpenCount(i - 1) - CloseCount(i - 1)
  <2> SUFFICES ASSUME NEW i \in Places
               PROVE  Depth(i) = OpenCount(i - 1) - CloseCount(i - 1)
    OBVIOUS
  <2>1. \A kind : {j \in LinesOf(kind) : j < i}
                    = {j \in 1 .. i - 1 : source[j].kind = kind}
    BY DEF WellNested, Finite, LinesOf, Places
  <2> QED
    BY <2>1, Zenon DEF Depth, OpenCount, CloseCount, Count
<1>2. \A i \in Lines :
        /\ i \in Places /\ i + 1 \in Places /\ i - 1 \in Nat /\ i \in Int
        /\ (i + 1) - 1 = i /\ (i - 1) + 1 = i
  BY DEF WellNested, Finite, Places
<1>3. 1 \in Places /\ 1 - 1 = 0 /\ \A i \in Places : i - 1 \in Nat
  BY DEF WellNested, Finite, Places
<1>4. Depth(1) = 0 /\ \A i \in Places : Depth(i) \in Int
  BY <1>1, <1>3, BraceCounts
<1>5. \A i \in Lines :
        Depth(i + 1) = Depth(i) + (IF IsOpen(i) THEN 1 ELSE 0)
                                - (IF IsClose(i) THEN 1 ELSE 0)
  <2> SUFFICES ASSUME NEW i \in Lines
               PROVE  Depth(i + 1) = Depth(i) + (IF IsOpen(i) THEN 1 ELSE 0)
                                       - (IF IsClose(i) THEN 1 ELSE 0)
    OBVIOUS
  <2> DEFINE n == i - 1
  <2>1. n \in Nat /\ n + 1 = i /\ (i + 1) - 1 = n + 1
    BY <1>2
  <2>2. Depth(i) = OpenCount(n) - CloseCount(n)
        /\ Depth(i + 1) = OpenCount(n + 1) - CloseCount(n + 1)
    BY <1>1, <1>2, <2>1
  <2> HIDE DEF n
  <2> QED
    BY <2>1, <2>2, BraceCounts
<1>6. \A i \in Closes : Depth(i + 1) >= 0
  BY <1>1, <1>2 DEF WellNested, NoBraceTooMany, Closes
<1> QED
  BY <1>2, <1>4, <1>5, <1>6, OneKind DEF Opens, Closes

\* The node of the scope a place is in is numbered by the braces before it.
LEMMA Nodes ==
  ASSUME WellNested
  PROVE  /\ NodeOf(0) = Global
         /\ \A i \in 0 .. Len(source) : NodeOf(i) \in Nat /\ NodeOf(i) >= Global
         /\ \A i \in Opens : NodeOf(i) = NodeOf(i - 1) + 1
         /\ \A i \in Lines \ Opens : NodeOf(i) = NodeOf(i - 1)
         /\ \A i, j \in 0 .. Len(source) : i <= j => NodeOf(i) <= NodeOf(j)
         /\ \A i \in 0 .. Len(source), j \in Opens :
              i < j => NodeOf(i) < NodeOf(j)
<1> DEFINE n == Len(source)
           Upto(i) == {j \in Opens : j <= i}
<1>1. /\ n \in Nat /\ Lines = 1 .. n
      /\ \A j \in Opens : j \in Lines /\ j \in Nat /\ 1 <= j /\ j <= n
  BY DEF WellNested, Finite, Opens
<1>2. \A i : i # 0 => NodeOf(i) = Cardinality(Upto(i)) + 2
  BY Kinds, Zenon DEF NodeOf
<1>3. Upto(0) = {}
  BY <1>1
<1>4. \A i \in 0 .. n : IsFiniteSet(Upto(i)) /\ Cardinality(Upto(i)) \in Nat
  <2> SUFFICES ASSUME NEW i \in 0 .. n
               PROVE  IsFiniteSet(Upto(i)) /\ Cardinality(Upto(i)) \in Nat
    OBVIOUS
  <2>1. IsFiniteSet(1 .. n) /\ Upto(i) \subseteq 1 .. n
    BY <1>1, FS_Interval
  <2> HIDE DEF Upto
  <2> QED
    BY <2>1, FS_Subset, FS_CardinalityType
<1>5. ASSUME NEW i \in Opens
      PROVE  Upto(i) = Upto(i - 1) \cup {i} /\ i \notin Upto(i - 1)
  BY <1>1
<1>6. ASSUME NEW i \in Lines \ Opens
      PROVE  Upto(i) = Upto(i - 1)
  BY <1>1
<1>7. \A i, j \in 0 .. n : i <= j => Upto(i) \subseteq Upto(j)
  BY <1>1
<1> HIDE DEF Upto
<1>8. NodeOf(0) = Global /\ \A i \in 0 .. n : NodeOf(i) = Cardinality(Upto(i)) + 2
  <2>1. Cardinality(Upto(0)) + 2 = 2
    BY <1>3, FS_EmptySet
  <2>2. NodeOf(0) = 2
    BY DEF NodeOf, Global
  <2> QED
    BY <1>2, <2>1, <2>2 DEF Global
<1>9. \A i, j \in 0 .. n : i <= j => NodeOf(i) <= NodeOf(j)
  <2> SUFFICES ASSUME NEW i \in 0 .. n, NEW j \in 0 .. n, i <= j
               PROVE  NodeOf(i) <= NodeOf(j)
    OBVIOUS
  <2>1. Cardinality(Upto(i)) <= Cardinality(Upto(j))
    BY <1>4, <1>7, FS_Subset
  <2> QED
    BY <1>4, <1>8, <2>1
<1>10. \A i \in Opens : NodeOf(i) = NodeOf(i - 1) + 1
  <2> SUFFICES ASSUME NEW i \in Opens PROVE NodeOf(i) = NodeOf(i - 1) + 1
    OBVIOUS
  <2>1. i \in 0 .. n /\ i - 1 \in 0 .. n
    BY <1>1
  <2>2. Cardinality(Upto(i)) = Cardinality(Upto(i - 1)) + 1
    BY <1>4, <1>5, <2>1, FS_AddElement
  <2>3. Cardinality(Upto(i)) \in Nat /\ Cardinality(Upto(i - 1)) \in Nat
    BY <1>4, <2>1
  <2>4. /\ NodeOf(i) = Cardinality(Upto(i)) + 2
        /\ NodeOf(i - 1) = Cardinality(Upto(i - 1)) + 2
    BY <1>8, <2>1
  <2> QED
    BY <2>2, <2>3, <2>4
<1>11. \A i \in Lines \ Opens : NodeOf(i) = NodeOf(i - 1)
  <2> SUFFICES ASSUME NEW i \in Lines \ Opens PROVE NodeOf(i) = NodeOf(i - 1)
    OBVIOUS
  <2>1. i \in 0 .. n /\ i - 1 \in 0 .. n
    BY <1>1
  <2> QED
    BY <1>6, <1>8, <2>1
<1>12. \A i \in 0 .. n : NodeOf(i) \in Nat /\ NodeOf(i) >= Global
  BY <1>4, <1>8 DEF Global
<1>13. \A i \in 0 .. n, j \in Opens : i < j => NodeOf(i) < NodeOf(j)
  <2> SUFFICES ASSUME NEW i \in 0 .. n, NEW j \in Opens, i < j
               PROVE  NodeOf(i) < NodeOf(j)
    OBVIOUS
  <2>1. i <= j - 1 /\ j - 1 \in 0 .. n
    BY <1>1
  <2>2. NodeOf(i) <= NodeOf(j - 1)
    BY <1>9, <2>1
  <2> QED
    BY <1>10, <1>12, <2>1, <2>2
<1> QED
  BY <1>8, <1>9, <1>10, <1>11, <1>12, <1>13

(***************************************************************************)
(* What the parser leaves.                                                 *)
(***************************************************************************)
IsLines(lines) ==
  /\ Len(lines) \in Nat
  /\ lines = [i \in 1 .. Len(lines) |-> lines[i]]

NestedUpTo(lines, n) ==
  \A i \in 1 .. n : lines[i].kind = "}" => OpenAt(lines, i) >= 0

\* The depth at a line depends on the lines up to it only.
LEMMA PrefixCounts ==
  ASSUME NEW lines, NEW more, NEW n \in Nat,
         \A i \in 1 .. n : lines[i] = more[i], NEW i \in 1 .. n
  PROVE  OpenAt(lines, i) = OpenAt(more, i)
<1>1. \A kind : {j \in 1 .. i : lines[j].kind = kind}
                  = {j \in 1 .. i : more[j].kind = kind}
  OBVIOUS
<1> QED
  BY <1>1, Zenon DEF OpenAt, Count

\* The parser stops before a brace that closes nothing.
LEMMA ParsedIs ==
  ASSUME NEW lines, IsLines(lines)
  PROVE  LET p == Parsed(lines)
         IN /\ Len(p) \in Nat
            /\ DOMAIN p = 1 .. Len(p)
            /\ \A i \in 1 .. Len(p) : i \in 1 .. Len(lines) /\ p[i] = lines[i]
            /\ NestedUpTo(p, Len(p))
<1> DEFINE ends == {i \in DOMAIN lines : EndsProgram(lines, i)} \cup {Len(lines) + 1}
           m == Min(ends)
           p == Parsed(lines)
<1>1. Len(lines) \in Nat /\ DOMAIN lines = 1 .. Len(lines)
  BY DEF IsLines
<1>2. m \in ends /\ \A i \in ends : m <= i
  <2>1. ends \subseteq Nat /\ ends # {}
    BY <1>1
  <2> HIDE DEF ends
  <2> QED
    BY <2>1, LeastNatural
<1>3. p = SubSeq(lines, 1, m - 1)
  BY DEF Parsed
<1>4. \A i \in DOMAIN lines : i < m => ~EndsProgram(lines, i)
  <2> HIDE DEF m
  <2> SUFFICES ASSUME NEW i \in DOMAIN lines, i < m, EndsProgram(lines, i)
               PROVE  FALSE
    OBVIOUS
  <2>1. i \in ends
    BY DEF ends
  <2> HIDE DEF ends
  <2>2. m <= i /\ i \in Int
    BY <1>1, <1>2, <2>1
  <2>3. m \in Int
    BY <1>1, <1>2 DEF ends
  <2> QED
    BY <2>2, <2>3
<1>5. m \in 1 .. Len(lines) + 1
  BY <1>1, <1>2
<1> HIDE DEF m, p, ends
<1> DEFINE n == m - 1
<1>6. n \in Nat /\ n <= Len(lines) /\ \A i \in 1 .. n : i < m /\ i \in DOMAIN lines /\ i \in Nat
  BY <1>1, <1>5
<1>7. Len(p) = n /\ DOMAIN p = 1 .. n /\ \A i \in 1 .. n : p[i] = lines[i]
  <2>1. lines \in Seq({lines[i] : i \in 1 .. Len(lines)})
    <3> DEFINE S == {lines[i] : i \in 1 .. Len(lines)}
    <3>1. \A i \in 1 .. Len(lines) : lines[i] \in S
      OBVIOUS
    <3> HIDE DEF S
    <3>2. lines \in [1 .. Len(lines) -> S]
      BY <3>1 DEF IsLines
    <3>3. lines \in Seq(S)
      BY <1>1, <3>2
    <3> QED
      BY <3>3 DEF S
  <2> QED
    BY <1>1, <1>3, <1>6, <2>1
<1> HIDE DEF n
<1>8. ASSUME NEW i \in 1 .. n, p[i].kind = "}"
      PROVE  OpenAt(p, i) >= 0
  <2>1. OpenAt(p, i) = OpenAt(lines, i)
    BY <1>6, <1>7, PrefixCounts
  <2>2. lines[i].kind = "}"
    BY <1>7, <1>8, Zenon
  <2>3. ~EndsProgram(lines, i)
    BY <1>4, <1>6
  <2>4. ~(OpenAt(lines, i) < 0)
    BY <2>2, <2>3, Zenon DEF EndsProgram
  <2>5. OpenAt(lines, i) \in Int
    <3>1. i \in Nat
      BY <1>6
    <3>2. Count(lines, "{", i) \in Nat /\ Count(lines, "}", i) \in Nat
      BY <3>1, CountStep, Zenon
    <3>3. \A a, b \in Nat : a - b \in Int
      OBVIOUS
    <3> QED
      BY <3>2, <3>3, Zenon DEF OpenAt
  <2> QED
    BY <2>1, <2>4, <2>5
<1> QED
  <2>1. NestedUpTo(p, Len(p))
    BY <1>7, <1>8, Zenon DEF NestedUpTo
  <2>2. \A i \in 1 .. Len(p) : i \in 1 .. Len(lines)
    BY <1>1, <1>6, <1>7
  <2> QED
    BY <1>6, <1>7, <2>1, <2>2 DEF p

\* What the parser leaves is well nested.
LEMMA Nested ==
  Finite /\ NestedUpTo(source, Len(source)) => WellNested
<1> SUFFICES ASSUME Finite, NestedUpTo(source, Len(source)) PROVE WellNested
  OBVIOUS
<1>1. \A i : i \in Closes => i \in 1 .. Len(source) /\ source[i].kind = "}"
  BY Zenon DEF Closes, IsClose, Finite
<1>2. \A i : OpenCount(i) - CloseCount(i) = OpenAt(source, i)
  BY Zenon DEF OpenCount, CloseCount, OpenAt
<1> QED
  BY <1>1, <1>2, Zenon DEF WellNested, NoBraceTooMany, NestedUpTo

(***************************************************************************)
(* How the scope of a line follows from that of the line before it.        *)
(***************************************************************************)
\* The innermost open brace of a place is the last one, and the others are those
\* around it.
Innermost(i) ==
  /\ Around(i) \subseteq {j \in Opens : j < i}
  /\ IF ScopeOf(i) = 0
     THEN Around(i) = {} /\ Depth(i) = 0
     ELSE /\ ScopeOf(i) \in Opens /\ ScopeOf(i) < i
          /\ Depth(i) = Depth(ScopeOf(i)) + 1
          /\ Around(i) = Around(ScopeOf(i)) \cup {ScopeOf(i)}

\* The open braces around a line, without a string.
LEMMA AroundIs ==
  \A i : Around(i) = {j \in Opens : j < i /\ \A k \in j + 1 .. i : Depth(k) > Depth(j)}
BY Kinds, Zenon DEF Around

\* Nothing is around the first line.
LEMMA FirstPlace ==
  ASSUME WellNested
  PROVE  ScopeOf(1) = 0 /\ Innermost(1)
<1>1. Around(1) = {}
  BY AroundIs DEF WellNested, Finite, Opens
<1>2. ScopeOf(1) = 0
  BY <1>1, MaxIs DEF ScopeOf
<1> QED
  BY <1>1, <1>2, Depths DEF Innermost

\* A place around which there are the same braces as around another one.
LEMMA SameBraces ==
  ASSUME NEW i, NEW j, Around(i) = Around(j)
  PROVE  ScopeOf(i) = ScopeOf(j)
BY DEF ScopeOf

\* A line that is no brace leaves the scope as it is.
LEMMA BehindOther ==
  ASSUME WellNested, NEW i \in Lines \ (Opens \cup Closes), Innermost(i)
  PROVE  ScopeOf(i + 1) = ScopeOf(i) /\ Around(i + 1) = Around(i) /\ Innermost(i + 1)
<1>1. /\ i \in Int /\ Depth(i) \in Int /\ Depth(i + 1) = Depth(i)
      /\ \A j \in Opens : j \in Int /\ (j < i + 1 <=> j < i)
      /\ \A j \in Opens : \A k \in Int :
            j < i => (k \in j + 1 .. i + 1 <=> k \in j + 1 .. i \/ k = i + 1)
  BY Depths DEF WellNested, Finite, Opens, Places
<1>2. \A j \in Opens : j < i => i \in j + 1 .. i
  BY <1>1
<1>3. Around(i + 1) = Around(i)
  <2> DEFINE In(j, p) == \A k \in j + 1 .. p : Depth(k) > Depth(j)
  <2>1. ASSUME NEW j \in Opens, j < i
        PROVE  In(j, i + 1) <=> In(j, i)
    <3>1. In(j, i + 1) => In(j, i)
      BY <1>1, <2>1
    <3>2. In(j, i) => Depth(i + 1) > Depth(j)
      BY <1>1, <1>2, <2>1
    <3>3. In(j, i) => In(j, i + 1)
      BY <1>1, <2>1, <3>2
    <3> QED
      BY <3>1, <3>3
  <2> QED
    BY <1>1, <2>1, AroundIs
<1>4. ScopeOf(i + 1) = ScopeOf(i)
  BY <1>3, SameBraces
<1> QED
  BY <1>1, <1>3, <1>4 DEF Innermost

\* A brace that opens is the scope of what follows.
LEMMA BehindOpen ==
  ASSUME WellNested, NEW i \in Opens, Innermost(i)
  PROVE  /\ ScopeOf(i + 1) = i /\ Around(i + 1) = Around(i) \cup {i}
         /\ Innermost(i + 1)
<1>1. i \in Int /\ i >= 1 /\ Depth(i) \in Int /\ Depth(i + 1) = Depth(i) + 1
      /\ \A j \in Opens : j \in Int /\ j >= 1 /\ Depth(j) \in Int
  BY Depths DEF WellNested, Finite, Opens, Places
<1>2. Around(i + 1) = Around(i) \cup {i}
  <2> DEFINE In(j, p) == \A k \in j + 1 .. p : Depth(k) > Depth(j)
  <2>1. ASSUME NEW j \in Opens, j < i
        PROVE  In(j, i + 1) <=> In(j, i)
    <3>0. \A k \in Int : k \in j + 1 .. i + 1 <=> k \in j + 1 .. i \/ k = i + 1
      BY <1>1, <2>1
    <3>1. In(j, i + 1) => In(j, i)
      BY <3>0
    <3>2. In(j, i) => Depth(i) > Depth(j)
      BY <1>1, <2>1
    <3>3. In(j, i) => In(j, i + 1)
      BY <1>1, <3>0, <3>2
    <3> QED
      BY <3>1, <3>3
  <2>2. In(i, i + 1)
    BY <1>1
  <2>3. \A j \in Opens : j < i + 1 <=> j < i \/ j = i
    BY <1>1
  <2> QED
    BY <2>1, <2>2, <2>3, AroundIs
<1>3. \A j \in Around(i) : j \in Opens /\ j < i
  BY AroundIs
<1>4. ScopeOf(i + 1) = i
  <2>1. Max(Around(i + 1) \cup {0}) = i
    <3> DEFINE S == Around(i + 1) \cup {0}
    <3>0. ASSUME NEW y \in Around(i) PROVE y \in Int /\ i >= y
      <4>1. y \in Opens /\ y < i
        BY <1>3
      <4>2. y \in Int
        BY <1>1, <4>1
      <4> QED
        BY <1>1, <4>1, <4>2
    <3>1. S \subseteq Int /\ i \in S /\ \A y \in S : i >= y
      BY <1>1, <1>2, <3>0
    <3> HIDE DEF S
    <3> QED
      BY <3>1, MaxIs DEF S
  <2> QED
    BY <2>1 DEF ScopeOf
<1>5. i # 0 /\ i < i + 1 /\ \A j \in Opens : j < i => j < i + 1
  BY <1>1
<1> QED
  BY <1>1, <1>2, <1>3, <1>4, <1>5 DEF Innermost

\* Behind a brace that closes, the scope is the one around the closed one.
LEMMA BehindClose ==
  ASSUME WellNested, NEW i \in Closes, Innermost(i), Innermost(ScopeOf(i))
  PROVE  /\ ScopeOf(i) \in Opens /\ ScopeOf(i) < i
         /\ ScopeOf(i + 1) = ScopeOf(ScopeOf(i))
         /\ Around(i + 1) = Around(ScopeOf(i))
         /\ Depth(i + 1) = Depth(ScopeOf(i))
         /\ Innermost(i + 1)
<1> DEFINE s == ScopeOf(i)
<1>1. i \in Int /\ i >= 1 /\ Depth(i) \in Int /\ Depth(i) > 0
      /\ Depth(i + 1) = Depth(i) - 1 /\ i \notin Opens
      /\ \A j \in Opens : j \in Int /\ j >= 1 /\ Depth(j) \in Int
  BY Depths, OneKind DEF WellNested, Finite, Opens, Closes, Places
<1>2. /\ s \in Opens /\ s < i /\ Depth(i) = Depth(s) + 1
      /\ Around(i) = Around(s) \cup {s}
  BY <1>1 DEF Innermost
<1> HIDE DEF s
<1>3. s \in Int /\ s # 0 /\ Depth(s) \in Int /\ Depth(i + 1) = Depth(s)
  BY <1>1, <1>2
<1>4. \A j \in Around(s) : j \in Opens /\ j < s /\ Depth(s) > Depth(j)
  <2> SUFFICES ASSUME NEW j \in Around(s)
               PROVE  j \in Opens /\ j < s /\ Depth(s) > Depth(j)
    OBVIOUS
  <2>1. j \in Opens /\ j < s /\ \A k \in j + 1 .. s : Depth(k) > Depth(j)
    BY AroundIs
  <2> QED
    BY <1>1, <1>3, <2>1
<1>5. Around(i + 1) \subseteq Around(s)
  <2> SUFFICES ASSUME NEW j \in Around(i + 1) PROVE j \in Around(s)
    OBVIOUS
  <2>1. /\ j \in Opens /\ j < i + 1
        /\ \A k \in j + 1 .. i + 1 : Depth(k) > Depth(j)
    BY AroundIs
  <2>2. j < i /\ \A k \in j + 1 .. i : Depth(k) > Depth(j)
    BY <1>1, <2>1
  <2>3. j \in Around(i)
    BY <2>1, <2>2, AroundIs
  <2>4. Depth(i + 1) > Depth(j)
    BY <1>1, <2>1
  <2>5. j # s
    BY <1>3, <2>4
  <2> QED
    BY <1>2, <2>3, <2>5
<1>6. Around(s) \subseteq Around(i + 1)
  <2> SUFFICES ASSUME NEW j \in Around(s) PROVE j \in Around(i + 1)
    OBVIOUS
  <2>1. j \in Around(i)
    BY <1>2
  <2>2. j \in Opens /\ j < i /\ \A k \in j + 1 .. i : Depth(k) > Depth(j)
    BY <2>1, AroundIs
  <2>3. Depth(i + 1) > Depth(j)
    BY <1>3, <1>4
  <2>4. \A k \in j + 1 .. i + 1 : k \in j + 1 .. i \/ k = i + 1
    BY <1>1, <2>2
  <2>5. \A k \in j + 1 .. i + 1 : Depth(k) > Depth(j)
    BY <2>2, <2>3, <2>4
  <2>6. j < i + 1
    BY <1>1, <2>2
  <2> QED
    BY <2>2, <2>5, <2>6, AroundIs
<1>7. Around(i + 1) = Around(s)
  BY <1>5, <1>6
<1>8. ScopeOf(i + 1) = ScopeOf(s)
  BY <1>7, SameBraces
<1>9. Innermost(i + 1)
  <2>1. \A j \in Opens : j < s => j < i + 1
    BY <1>1, <1>2
  <2>2. Innermost(s)
    BY DEF s
  <2> QED
    BY <1>3, <1>7, <1>8, <2>1, <2>2 DEF Innermost
<1> QED
  BY <1>2, <1>3, <1>7, <1>8, <1>9 DEF s

\* The least place of which it does not hold would follow one of which it does.
LEMMA EveryPlace ==
  ASSUME WellNested
  PROVE  \A i \in Places : Innermost(i)
<1> DEFINE Bad == {i \in Places : ~Innermost(i)}
           m == Min(Bad)
<1> SUFFICES ASSUME Bad # {} PROVE FALSE
  OBVIOUS
<1>1. Len(source) \in Nat /\ Lines = 1 .. Len(source) /\ Places = 1 .. Len(source) + 1
  BY DEF WellNested, Finite, Places
<1>2. m \in Bad /\ \A i \in Bad : m <= i
  <2>1. Bad \subseteq Nat
    BY <1>1
  <2> HIDE DEF Bad
  <2> QED
    BY <2>1, LeastNatural
<1> HIDE DEF m
<1>3. m \in Places /\ ~Innermost(m) /\ m \in Nat
  BY <1>1, <1>2
<1>4. \A i \in Places : i < m => Innermost(i)
  BY <1>1, <1>2, <1>3
<1>5. m # 1
  BY <1>3, FirstPlace
<1>6. PICK p \in Lines : p + 1 = m /\ p \in Places /\ p < m /\ p \in Int
  <2>1. m - 1 \in Lines /\ (m - 1) + 1 = m /\ m - 1 \in Places
    BY <1>1, <1>3, <1>5
  <2> QED
    BY <1>1, <1>3, <2>1
<1>7. Innermost(p)
  BY <1>4, <1>6
<1>8. CASE p \in Lines \ (Opens \cup Closes)
  BY <1>3, <1>6, <1>7, <1>8, BehindOther
<1>9. CASE p \in Opens
  BY <1>3, <1>6, <1>7, <1>9, BehindOpen
<1>10. CASE p \in Closes
  <2>1. Depth(p) > 0
    BY <1>10, Depths
  <2>2. Depth(p) # 0
    BY <1>6, <2>1, Depths
  <2>3. ScopeOf(p) \in Opens /\ ScopeOf(p) < p
    BY <1>7, <2>2 DEF Innermost
  <2>4. ScopeOf(p) \in Places /\ ScopeOf(p) < m
    BY <1>1, <1>3, <1>6, <2>3 DEF Opens
  <2>5. Innermost(ScopeOf(p))
    BY <1>4, <2>4
  <2> QED
    BY <1>3, <1>6, <1>7, <1>10, <2>5, BehindClose
<1> QED
  BY <1>6, <1>8, <1>9, <1>10

\* Every place has a scope that begins before it.
LEMMA Scopes ==
  ASSUME WellNested, NEW i \in Places
  PROVE  /\ ScopeOf(i) \in {0} \cup Opens
         /\ ScopeOf(i) < i
         /\ ScopeOf(i) \in Int
         /\ \A j \in Around(i) : /\ j \in Opens /\ j < i /\ j \in Places
                                 /\ Depth(j) < Depth(i)
<1>1. Innermost(i) /\ i \in Int /\ 0 < i /\ \A j \in Opens : j \in Int /\ j \in Places
  BY EveryPlace DEF WellNested, Finite, Places, Opens
<1>2. /\ ScopeOf(i) \in {0} \cup Opens
      /\ ScopeOf(i) < i
  BY <1>1 DEF Innermost
<1>3. ASSUME NEW j \in Around(i)
      PROVE  /\ j \in Opens /\ j < i /\ j \in Places
             /\ Depth(j) < Depth(i)
  <2>1. j \in Opens /\ j < i /\ \A k \in j + 1 .. i : Depth(k) > Depth(j)
    BY AroundIs
  <2>2. i \in j + 1 .. i /\ j \in Places
    BY <1>1, <2>1
  <2>3. Depth(i) \in Int /\ Depth(j) \in Int
    BY <2>2, Depths
  <2> QED
    BY <2>1, <2>2, <2>3
<1> QED
  BY <1>1, <1>2, <1>3

\* A scope that begins in another one is no sibling of it.
LEMMA NoSibling ==
  ASSUME WellNested, NEW i \in Places, NEW s \in Around(i), NEW o \in Opens,
         s < o, o < i
  PROVE  ScopeOf(o) # ScopeOf(s)
<1>1. s \in Opens /\ s \in Places /\ o \in Places /\ i \in Int /\ s \in Int /\ o \in Int
  BY Scopes DEF WellNested, Finite, Places, Opens
<1>2. \A k \in s + 1 .. i : Depth(k) > Depth(s)
  BY AroundIs
<1>3. \A k \in s + 1 .. o : Depth(k) > Depth(s)
  BY <1>1, <1>2
<1>4. s \in Around(o)
  BY <1>1, <1>3, AroundIs
<1>5. s \notin Around(s)
  BY <1>1, AroundIs
<1>6. Around(s) # Around(o)
  BY <1>4, <1>5
<1>7. Innermost(s) /\ Innermost(o)
  BY <1>1, EveryPlace
<1> QED
  BY <1>6, <1>7 DEF Innermost

(***************************************************************************)
(* The tree.                                                               *)
(***************************************************************************)
NodeIn(T) == [parent : Nat, children : Seq(Nat), table : T]

IsTree(tr) == \E T : tr \in Seq(NodeIn(T))

\* A new node is the last one, and the last child of its parent.
Made(new, tr, node) ==
  /\ IsTree(new)
  /\ Len(new) = Len(tr) + 1
  /\ new[Len(tr) + 1].parent = node
  /\ new[Len(tr) + 1].children = <<>>
  /\ \A n \in 1 .. Len(tr) : new[n].parent = tr[n].parent
  /\ \A n \in 1 .. Len(tr) :
       new[n].children = IF n = node THEN Append(tr[n].children, Len(tr) + 1)
                         ELSE tr[n].children

LEMMA MkScopeIs ==
  ASSUME NEW tr, IsTree(tr), NEW node \in 1 .. Len(tr)
  PROVE  Made(MkScope(tr, node), tr, node)
<1>0. PICK T : tr \in Seq(NodeIn(T))
  BY DEF IsTree
<1> DEFINE U == T \cup {<<>>}
           c == Append(tr[node].children, Len(tr) + 1)
           changed == [tr EXCEPT ![node].children = c]
<1>1. Len(tr) \in Nat /\ \A n \in 1 .. Len(tr) : tr[n] \in NodeIn(T)
  BY <1>0
<1>2. c \in Seq(Nat)
  BY <1>1 DEF NodeIn
<1> HIDE DEF c
<1>3. changed = [n \in 1 .. Len(tr) |->
                   IF n = node THEN [tr[n] EXCEPT !.children = c] ELSE tr[n]]
  BY <1>0, <1>1
<1> HIDE DEF changed
<1>4. \A n \in 1 .. Len(tr) :
        /\ changed[n] \in NodeIn(U)
        /\ changed[n].parent = tr[n].parent
        /\ changed[n].children = IF n = node THEN c ELSE tr[n].children
  BY <1>1, <1>2, <1>3 DEF NodeIn
<1>5. changed \in Seq(NodeIn(U)) /\ Len(changed) = Len(tr)
  <2>1. changed \in [1 .. Len(tr) -> NodeIn(U)]
    BY <1>3, <1>4
  <2> HIDE DEF U
  <2> QED
    BY <1>1, <2>1
<1>6. /\ NewNode(node) \in NodeIn(U)
      /\ NewNode(node).parent = node /\ NewNode(node).children = <<>>
  BY <1>1 DEF NewNode, NodeIn
<1> DEFINE new == MkScope(tr, node)
<1>7. new = Append(changed, NewNode(node))
  BY DEF MkScope, changed, c
<1> HIDE DEF new
<1>8. /\ new \in Seq(NodeIn(U)) /\ Len(new) = Len(tr) + 1
      /\ new[Len(tr) + 1] = NewNode(node)
      /\ \A n \in 1 .. Len(tr) : new[n] = changed[n]
  <2> HIDE DEF U
  <2> QED
    BY <1>1, <1>5, <1>6, <1>7
<1>9. Made(new, tr, node)
  BY <1>4, <1>6, <1>8 DEF c, IsTree, Made
<1> QED
  BY <1>9 DEF new

\* A label changes only a table.
LEMMA BindIs ==
  ASSUME NEW tr, IsTree(tr), NEW node, NEW name, NEW addr,
         NEW new, new = Bind(tr, node, name, addr)
  PROVE  /\ IsTree(new)
         /\ Len(new) = Len(tr)
         /\ \A n \in 1 .. Len(tr) : /\ new[n].parent = tr[n].parent
                                    /\ new[n].children = tr[n].children
<1>0. PICK T : tr \in Seq(NodeIn(T))
  BY DEF IsTree
<1> DEFINE f == FindOrInsert(tr, node, name)
           t == WithSymbol(tr[f].table, name, [addr |-> addr, found_as_label |-> TRUE])
           U == T \cup {t}
<1>1. Len(tr) \in Nat /\ \A n \in 1 .. Len(tr) : tr[n] \in NodeIn(T)
  BY <1>0
<1>2. new = [tr EXCEPT ![f].table = t]
  BY DEF Bind
<1> HIDE DEF f, t
<1>3. new = [n \in 1 .. Len(tr) |->
               IF n = f THEN [tr[n] EXCEPT !.table = t] ELSE tr[n]]
  <2>1. DOMAIN tr = 1 .. Len(tr)
    BY <1>0
  <2>2. new = [n \in DOMAIN tr |->
                 IF n = f THEN [tr[n] EXCEPT !.table = t] ELSE tr[n]]
    BY <1>2, Zenon
  <2> QED
    BY <2>1, <2>2
<1>4. \A n \in 1 .. Len(tr) : /\ new[n] \in NodeIn(U)
                              /\ new[n].parent = tr[n].parent
                              /\ new[n].children = tr[n].children
  BY <1>1, <1>3 DEF NodeIn
<1>5. new \in Seq(NodeIn(U)) /\ Len(new) = Len(tr)
  <2>1. new \in [1 .. Len(tr) -> NodeIn(U)]
    BY <1>3, <1>4
  <2> HIDE DEF U
  <2> QED
    BY <1>1, <2>1
<1> QED
  BY <1>4, <1>5 DEF IsTree

(***************************************************************************)
(* What the tree holds when the scopes before line l have been made: every *)
(* node's parent is the node of the scope around it, and its children are  *)
(* those of the scopes directly in it, in the order of the source.         *)
(***************************************************************************)
Before(l) == {0} \cup {o \in Opens : o < l}

Inside(b, l) == {o \in Opens : o < l /\ ScopeOf(o) = b}

ChildrenAre(c, b, l) ==
  /\ c \in Seq(Nat)
  /\ \A k, m \in 1 .. Len(c) : k < m => c[k] < c[m]
  /\ \A k \in 1 .. Len(c) : \E o \in Inside(b, l) : c[k] = NodeOf(o)
  /\ \A o \in Inside(b, l) : \E k \in 1 .. Len(c) : c[k] = NodeOf(o)

ParentsAre(tr, l) ==
  \A o \in Before(l) \ {0} : tr[NodeOf(o)].parent = NodeOf(ScopeOf(o))

AllChildren(tr, l) == \A b \in Before(l) : ChildrenAre(tr[NodeOf(b)].children, b, l)

TreeOf(tr, l) ==
  /\ IsTree(tr)
  /\ Len(tr) = NodeOf(l - 1)
  /\ ParentsAre(tr, l)
  /\ AllChildren(tr, l)

\* The numbers of nodes and of lines have the same order.
LEMMA InTree ==
  ASSUME WellNested, NEW l \in Places
  PROVE  /\ l - 1 \in 0 .. Len(source) /\ NodeOf(l - 1) \in Nat
         /\ \A b \in Before(l) : /\ NodeOf(b) \in 1 .. NodeOf(l - 1)
                                 /\ b \in 0 .. Len(source)
         /\ \A a, b \in Before(l) : NodeOf(a) = NodeOf(b) => a = b
<1>1. /\ l - 1 \in 0 .. Len(source)
      /\ 0 \in 0 .. Len(source) /\ l \in Int /\ 0 <= l - 1
      /\ \A o \in Opens : o \in 0 .. Len(source) /\ o > 0 /\ (o < l => o <= l - 1)
  BY DEF WellNested, Finite, Opens, Places
<1>2. \A b \in Before(l) : b \in 0 .. Len(source) /\ b <= l - 1
  BY <1>1 DEF Before
<1>3. \A b \in Before(l) : NodeOf(b) \in 1 .. NodeOf(l - 1)
  <2> SUFFICES ASSUME NEW b \in Before(l) PROVE NodeOf(b) \in 1 .. NodeOf(l - 1)
    OBVIOUS
  <2>1. NodeOf(b) <= NodeOf(l - 1)
    BY <1>1, <1>2, Nodes
  <2>2. NodeOf(b) \in Nat /\ NodeOf(b) >= 2 /\ NodeOf(l - 1) \in Nat
    BY <1>1, <1>2, Nodes DEF Global
  <2> QED
    BY <2>1, <2>2
<1>4. ASSUME NEW a \in Before(l), NEW b \in Before(l), NodeOf(a) = NodeOf(b)
      PROVE  a = b
  <2>1. a \in Int /\ b \in Int /\ NodeOf(a) \in Int
    BY <1>2, Nodes
  <2>2. a < b => NodeOf(a) < NodeOf(b)
    BY <1>1, <1>2, Nodes DEF Before
  <2>3. b < a => NodeOf(b) < NodeOf(a)
    BY <1>1, <1>2, Nodes DEF Before
  <2> QED
    BY <1>4, <2>1, <2>2, <2>3
<1> QED
  BY <1>1, <1>2, <1>3, <1>4, Nodes

\* The empty table is the tree of no scopes.
LEMMA FreshTree ==
  ASSUME WellNested
  PROVE  TreeOf(EmptyTable, 1)
<1> DEFINE root == <<NewNode(NullPtr)>>
<1>1. IsTree(root) /\ Len(root) = 1
  <2>1. root \in Seq(NodeIn({<<>>})) /\ Len(root) = 1
    BY DEF NodeIn, NewNode, NullPtr
  <2> QED
    BY <2>1, Zenon DEF IsTree
<1>2. \A o \in Opens : ~(o < 1)
  BY DEF WellNested, Finite, Opens
<1> HIDE DEF root
<1>3. EmptyTable = MkScope(root, Tree)
  BY DEF EmptyTable, root
<1>4. /\ IsTree(EmptyTable)
      /\ Len(EmptyTable) = 2
      /\ EmptyTable[2].children = <<>>
  <2>1. Tree \in 1 .. Len(root)
    BY <1>1 DEF Tree
  <2>2. Made(EmptyTable, root, Tree)
    BY <1>1, <1>3, <2>1, MkScopeIs, Zenon
  <2> QED
    BY <1>1, <2>2 DEF Made
<1>5. Before(1) = {0} /\ \A b : Inside(b, 1) = {}
  BY <1>2 DEF Before, Inside
<1>6. NodeOf(0) = 2 /\ 1 - 1 = 0
  BY Nodes DEF Global
<1>7. AllChildren(EmptyTable, 1)
  <2>1. \A c : c = <<>> => c \in Seq(Nat) /\ Len(c) = 0
    OBVIOUS
  <2>2. ChildrenAre(EmptyTable[NodeOf(0)].children, 0, 1)
    BY <1>4, <1>5, <1>6, <2>1 DEF ChildrenAre
  <2> QED
    BY <1>5, <2>2, Zenon DEF AllChildren
<1>8. ParentsAre(EmptyTable, 1)
  BY <1>5 DEF ParentsAre
<1> QED
  BY <1>4, <1>6, <1>7, <1>8 DEF TreeOf

\* Nothing but a brace that opens adds to the tree.
LEMMA TreeBehindOther ==
  ASSUME WellNested, NEW l \in Lines \ Opens, NEW tr, TreeOf(tr, l)
  PROVE  TreeOf(tr, l + 1)
<1>1. /\ (l + 1) - 1 = l
      /\ \A o \in Opens : o < l + 1 <=> o < l
  BY DEF WellNested, Finite, Opens
<1>2. NodeOf(l) = NodeOf(l - 1)
  BY Nodes
<1>3. Before(l + 1) = Before(l) /\ \A b : Inside(b, l + 1) = Inside(b, l)
  BY <1>1 DEF Before, Inside
<1>4. ParentsAre(tr, l + 1)
  BY <1>3, Zenon DEF TreeOf, ParentsAre
<1>5. AllChildren(tr, l + 1)
  <2>1. AllChildren(tr, l)
    BY DEF TreeOf
  <2>2. \A c, b : ChildrenAre(c, b, l) => ChildrenAre(c, b, l + 1)
    BY <1>3, Zenon DEF ChildrenAre
  <2> QED
    BY <1>3, <2>1, <2>2, Zenon DEF AllChildren
<1>6. Len(tr) = NodeOf((l + 1) - 1)
  BY <1>1, <1>2 DEF TreeOf
<1> QED
  BY <1>4, <1>5, <1>6, Zenon DEF TreeOf

\* A label leaves parents and children as they are.
LEMMA TreeWithLabel ==
  ASSUME WellNested, NEW l \in Places, NEW tr, TreeOf(tr, l),
         NEW node, NEW name, NEW addr
  PROVE  TreeOf(Bind(tr, node, name, addr), l)
<1> DEFINE new == Bind(tr, node, name, addr)
<1>1. IsTree(tr)
  BY DEF TreeOf
<1>2. /\ IsTree(new)
      /\ Len(new) = Len(tr)
      /\ \A n \in 1 .. Len(tr) : /\ new[n].parent = tr[n].parent
                                 /\ new[n].children = tr[n].children
  BY <1>1, BindIs
<1> HIDE DEF new
<1>3. \A b \in Before(l) : NodeOf(b) \in 1 .. Len(tr)
  BY InTree DEF TreeOf
<1>4. ParentsAre(new, l)
  <2>1. ParentsAre(tr, l)
    BY DEF TreeOf
  <2> QED
    BY <1>2, <1>3, <2>1 DEF ParentsAre
<1>5. AllChildren(new, l)
  <2>1. AllChildren(tr, l)
    BY DEF TreeOf
  <2> QED
    BY <1>2, <1>3, <2>1, Zenon DEF AllChildren
<1>6. TreeOf(new, l)
  BY <1>2, <1>4, <1>5 DEF TreeOf
<1> QED
  BY <1>6 DEF new

\* The node of a scope that is made.
LEMMA TreeBehindOpen ==
  ASSUME WellNested, NEW l \in Opens, NEW tr, TreeOf(tr, l)
  PROVE  TreeOf(MkScope(tr, NodeOf(ScopeOf(l))), l + 1)
<1> DEFINE b == ScopeOf(l)
           node == NodeOf(b)
           new == MkScope(tr, node)
<1>1. /\ l \in Places /\ l + 1 \in Places /\ l \in Nat /\ l # 0 /\ (l + 1) - 1 = l
      /\ \A o \in Opens : o < l + 1 <=> o < l \/ o = l
  BY DEF WellNested, Finite, Opens, Places
<1>2. IsTree(tr)
  BY DEF TreeOf
<1>3. b \in Before(l) /\ b # l
  BY <1>1, Scopes DEF Before
<1> HIDE DEF b
<1>4. Len(tr) = NodeOf(l - 1) /\ NodeOf(l) = Len(tr) + 1 /\ Len(tr) \in Nat
  BY <1>1, Nodes, InTree DEF TreeOf
<1>5. \A a \in Before(l) : NodeOf(a) \in 1 .. Len(tr)
  BY <1>1, <1>4, InTree
<1>6. \A a, c \in Before(l) : NodeOf(a) = NodeOf(c) => a = c
  BY <1>1, InTree
<1> HIDE DEF node
<1>7. node \in 1 .. Len(tr)
  BY <1>3, <1>5 DEF node
<1>8. new = MkScope(tr, node)
  OBVIOUS
<1> HIDE DEF new
<1>9. /\ IsTree(new)
      /\ Len(new) = Len(tr) + 1
      /\ new[NodeOf(l)].parent = node
      /\ new[NodeOf(l)].children = <<>>
      /\ \A n \in 1 .. Len(tr) : new[n].parent = tr[n].parent
      /\ \A n \in 1 .. Len(tr) :
           new[n].children = IF n = node
                             THEN Append(tr[n].children, NodeOf(l))
                             ELSE tr[n].children
  <2>1. Made(new, tr, node)
    BY <1>2, <1>7, <1>8, MkScopeIs, Zenon
  <2> QED
    BY <1>4, <2>1 DEF Made
<1>10. Before(l + 1) = Before(l) \cup {l}
  BY <1>1 DEF Before
<1>11. ParentsAre(new, l + 1)
  <2>1. new[NodeOf(l)].parent = NodeOf(ScopeOf(l))
    BY <1>9 DEF node, b
  <2>2. \A o \in Before(l) \ {0} : new[NodeOf(o)].parent = NodeOf(ScopeOf(o))
    BY <1>5, <1>9 DEF TreeOf, ParentsAre
  <2> QED
    BY <1>10, <2>1, <2>2 DEF ParentsAre
<1>12. ASSUME NEW a \in Before(l)
       PROVE  ChildrenAre(new[NodeOf(a)].children, a, l + 1)
  <2> DEFINE c == tr[NodeOf(a)].children
  <2>1. ChildrenAre(c, a, l)
    BY DEF TreeOf, AllChildren
  <2> HIDE DEF c
  <2>2. CASE a # b
    <3>1. new[NodeOf(a)].children = c
      BY <1>3, <1>5, <1>6, <1>9, <2>2 DEF node, c
    <3>2. Inside(a, l + 1) = Inside(a, l)
      BY <1>1, <2>2 DEF Inside, b
    <3> QED
      BY <2>1, <3>1, <3>2 DEF ChildrenAre
  <2>3. CASE a = b
    <3> DEFINE d == Append(c, NodeOf(l))
    <3>1. new[NodeOf(a)].children = d
      BY <1>5, <1>9, <2>3 DEF node, c
    <3>2. Inside(a, l + 1) = Inside(a, l) \cup {l}
      BY <1>1, <2>3 DEF Inside, b
    <3>3. c \in Seq(Nat) /\ Len(c) \in Nat /\ NodeOf(l) \in Nat
      BY <1>4, <2>1 DEF ChildrenAre
    <3>4. /\ d \in Seq(Nat) /\ Len(d) = Len(c) + 1
          /\ \A k \in 1 .. Len(c) : d[k] = c[k]
          /\ d[Len(c) + 1] = NodeOf(l)
      BY <3>3
    <3> HIDE DEF d
    <3>5. \A k \in 1 .. Len(d) : k \in 1 .. Len(c) \/ k = Len(c) + 1
      BY <3>3, <3>4
    <3>6. \A k \in 1 .. Len(c) : c[k] < NodeOf(l)
      <4> SUFFICES ASSUME NEW k \in 1 .. Len(c) PROVE c[k] < NodeOf(l)
        OBVIOUS
      <4>1. PICK o \in Inside(a, l) : c[k] = NodeOf(o)
        BY <2>1 DEF ChildrenAre
      <4>2. o \in Before(l)
        BY DEF Inside, Before
      <4>3. NodeOf(o) \in 1 .. Len(tr)
        BY <1>5, <4>2
      <4> QED
        BY <1>4, <4>1, <4>3
    <3>7. \A k, m \in 1 .. Len(d) : k < m => d[k] < d[m]
      <4> SUFFICES ASSUME NEW k \in 1 .. Len(d), NEW m \in 1 .. Len(d), k < m
                   PROVE  d[k] < d[m]
        OBVIOUS
      <4>1. k \in 1 .. Len(c)
        BY <3>3, <3>4
      <4>2. CASE m \in 1 .. Len(c)
        BY <2>1, <3>4, <4>1, <4>2 DEF ChildrenAre
      <4>3. CASE m = Len(c) + 1
        BY <3>4, <3>6, <4>1, <4>3
      <4> QED
        BY <3>5, <4>2, <4>3
    <3>8. \A k \in 1 .. Len(d) : \E o \in Inside(a, l + 1) : d[k] = NodeOf(o)
      <4> SUFFICES ASSUME NEW k \in 1 .. Len(d)
                   PROVE  \E o \in Inside(a, l + 1) : d[k] = NodeOf(o)
        OBVIOUS
      <4>1. CASE k \in 1 .. Len(c)
        BY <2>1, <3>2, <3>4, <4>1 DEF ChildrenAre
      <4>2. CASE k = Len(c) + 1
        BY <3>2, <3>4, <4>2
      <4> QED
        BY <3>5, <4>1, <4>2
    <3>9. \A o \in Inside(a, l + 1) : \E k \in 1 .. Len(d) : d[k] = NodeOf(o)
      <4> SUFFICES ASSUME NEW o \in Inside(a, l + 1)
                   PROVE  \E k \in 1 .. Len(d) : d[k] = NodeOf(o)
        OBVIOUS
      <4>1. CASE o \in Inside(a, l)
        <5>1. PICK k \in 1 .. Len(c) : c[k] = NodeOf(o)
          BY <2>1, <4>1 DEF ChildrenAre
        <5>2. k \in 1 .. Len(d)
          BY <3>3, <3>4
        <5> QED
          BY <3>4, <5>1, <5>2
      <4>2. CASE o = l
        <5>1. Len(c) + 1 \in 1 .. Len(d)
          BY <3>3, <3>4
        <5> QED
          BY <3>4, <4>2, <5>1
      <4> QED
        BY <3>2, <4>1, <4>2
    <3> QED
      BY <3>1, <3>4, <3>7, <3>8, <3>9 DEF ChildrenAre
  <2> QED
    BY <2>2, <2>3
<1>13. ChildrenAre(new[NodeOf(l)].children, l, l + 1)
  <2>1. Inside(l, l + 1) = {}
    <3> SUFFICES ASSUME NEW o \in Opens, o < l + 1, ScopeOf(o) = l PROVE FALSE
      BY DEF Inside
    <3>1. o \in Places /\ o \in Int
      BY DEF WellNested, Finite, Opens, Places
    <3>2. ScopeOf(o) < o
      BY <3>1, Scopes
    <3> QED
      BY <1>1, <3>1, <3>2
  <2>2. \A c : c = <<>> => Len(c) = 0 /\ c \in Seq(Nat)
    OBVIOUS
  <2> QED
    BY <1>9, <2>1, <2>2 DEF ChildrenAre
<1>14. AllChildren(new, l + 1)
  BY <1>10, <1>12, <1>13 DEF AllChildren
<1>15. TreeOf(new, l + 1)
  <2>1. Len(new) = NodeOf((l + 1) - 1)
    BY <1>1, <1>4, <1>9
  <2> QED
    BY <1>9, <1>11, <1>14, <2>1 DEF TreeOf
<1> QED
  BY <1>15 DEF new, node, b

(***************************************************************************)
(* The stack of the second pass at line l: for the line and for every      *)
(* scope around it, how many of the scopes next to it are already behind.  *)
(***************************************************************************)
End == Len(source) + 1

ChildrenAt(tr, i) == tr[NodeOf(ScopeOf(i))].children

Behind(c, n, i) == \A k \in 1 .. Len(c) : k <= n <=> c[k] <= NodeOf(i - 1)

Counted(tr, st, i) ==
  /\ Depth(i) + 1 \in 1 .. Len(st)
  /\ Behind(ChildrenAt(tr, i), st[Depth(i) + 1], i)

StackOf(tr, st, l) ==
  /\ st \in Seq(Nat)
  /\ Len(st) = Depth(l) + 1
  /\ \A i \in Around(l) \cup {l} : Counted(tr, st, i)

\* After the first pass the tree has the children of every scope.
LEMMA ChildrenAtIs ==
  ASSUME WellNested, NEW tr, TreeOf(tr, End), NEW i \in Places
  PROVE  ChildrenAre(ChildrenAt(tr, i), ScopeOf(i), End)
<1>1. ScopeOf(i) \in Before(End)
  BY Scopes DEF WellNested, Finite, Opens, Places, Before, End
<1> QED
  BY <1>1 DEF TreeOf, AllChildren, ChildrenAt

\* The scope that begins is the child behind those that are behind.
LEMMA ChildFound ==
  ASSUME WellNested, NEW tr, TreeOf(tr, End), NEW o \in Opens, NEW n \in Nat,
         Behind(ChildrenAt(tr, o), n, o)
  PROVE  /\ n + 1 \in 1 .. Len(ChildrenAt(tr, o))
         /\ ChildrenAt(tr, o)[n + 1] = NodeOf(o)
<1> DEFINE c == ChildrenAt(tr, o)
<1>1. o \in Places /\ o \in Inside(ScopeOf(o), End) /\ o - 1 \in 0 .. Len(source)
  BY DEF WellNested, Finite, Opens, Places, Inside, End
<1>2. ChildrenAre(c, ScopeOf(o), End)
  BY <1>1, ChildrenAtIs
<1>3. Behind(c, n, o)
  OBVIOUS
<1> HIDE DEF c
<1>4. PICK k \in 1 .. Len(c) : c[k] = NodeOf(o)
  BY <1>1, <1>2 DEF ChildrenAre
<1>5. NodeOf(o) = NodeOf(o - 1) + 1 /\ NodeOf(o - 1) \in Nat
  BY <1>1, Nodes
<1>6. Len(c) \in Nat /\ \A m \in 1 .. Len(c) : c[m] \in Nat
  BY <1>2, SMTT(30) DEF ChildrenAre
<1>7. ~(k <= n)
  BY <1>3, <1>4, <1>5 DEF Behind
<1>8. n + 1 \in 1 .. Len(c) /\ n + 1 <= k
  BY <1>4, <1>6, <1>7
<1>9. ~(c[n + 1] <= NodeOf(o - 1))
  BY <1>3, <1>8 DEF Behind
<1>10. c[n + 1] >= NodeOf(o)
  BY <1>5, <1>6, <1>8, <1>9
<1>11. n + 1 < k => c[n + 1] < c[k]
  BY <1>2, <1>8 DEF ChildrenAre
<1>12. ~(n + 1 < k)
  BY <1>4, <1>5, <1>6, <1>8, <1>10, <1>11
<1>13. n + 1 = k
  BY <1>4, <1>8, <1>12
<1> QED
  BY <1>4, <1>8, <1>13 DEF c

\* At the beginning of a scope, or of the source, no child is behind.
LEMMA NoneBehind ==
  ASSUME WellNested, NEW tr, TreeOf(tr, End), NEW b \in {0} \cup Opens,
         b + 1 \in Places, ScopeOf(b + 1) = b
  PROVE  Behind(ChildrenAt(tr, b + 1), 0, b + 1)
<1> DEFINE c == ChildrenAt(tr, b + 1)
<1>1. ChildrenAre(c, b, End)
  BY ChildrenAtIs
<1> HIDE DEF c
<1>2. b \in Int /\ (b + 1) - 1 = b /\ b \in 0 .. Len(source)
  BY DEF WellNested, Finite, Opens
<1>3. ASSUME NEW k \in 1 .. Len(c)
      PROVE  ~(k <= 0) /\ ~(c[k] <= NodeOf((b + 1) - 1))
  <2>1. PICK o \in Inside(b, End) : c[k] = NodeOf(o)
    BY <1>1 DEF ChildrenAre
  <2>2. o \in Opens /\ ScopeOf(o) = b /\ o \in Places /\ o \in 0 .. Len(source)
    BY DEF Inside, WellNested, Finite, Opens, Places
  <2>3. b < o
    BY <2>2, Scopes
  <2>4. NodeOf(b) < NodeOf(o) /\ NodeOf(b) \in Nat /\ NodeOf(o) \in Nat
    BY <1>2, <2>2, <2>3, Nodes
  <2>5. ~(k <= 0)
    OBVIOUS
  <2> QED
    BY <1>2, <2>1, <2>4, <2>5
<1>4. Behind(c, 0, b + 1)
  BY <1>3 DEF Behind
<1> QED
  BY <1>4 DEF c

\* The stack <<0>>, which the first pass leaves alone, is right for the second.
LEMMA FreshStack ==
  ASSUME WellNested, NEW tr, TreeOf(tr, End)
  PROVE  StackOf(tr, <<0>>, 1)
<1>1. Around(1) = {} /\ ScopeOf(1) = 0 /\ Depth(1) = 0
  BY FirstPlace, Depths DEF Innermost
<1>2. 1 \in Places /\ 0 + 1 = 1
  BY DEF WellNested, Finite, Places
<1>3. Behind(ChildrenAt(tr, 0 + 1), 0, 0 + 1)
  BY <1>1, <1>2, NoneBehind
<1>4. <<0>> \in Seq(Nat) /\ Len(<<0>>) = 1 /\ <<0>>[1] = 0
  OBVIOUS
<1>5. Counted(tr, <<0>>, 1)
  BY <1>1, <1>2, <1>3, <1>4 DEF Counted
<1> QED
  BY <1>1, <1>4, <1>5 DEF StackOf

\* A line that is no brace leaves the stack as it is.
LEMMA StackBehindOther ==
  ASSUME WellNested, NEW tr, NEW st, NEW l \in Lines \ (Opens \cup Closes),
         StackOf(tr, st, l)
  PROVE  StackOf(tr, st, l + 1)
<1>1. l \in Places /\ (l + 1) - 1 = l
  BY DEF WellNested, Finite, Places
<1>2. Innermost(l)
  BY <1>1, EveryPlace
<1>3. /\ ScopeOf(l + 1) = ScopeOf(l) /\ Around(l + 1) = Around(l)
      /\ Depth(l + 1) = Depth(l)
      /\ NodeOf((l + 1) - 1) = NodeOf(l - 1)
  BY <1>1, <1>2, BehindOther, Depths, Nodes
<1>4. Counted(tr, st, l + 1)
  <2>1. Counted(tr, st, l)
    BY DEF StackOf
  <2> QED
    BY <1>3, <2>1, Zenon DEF Counted, ChildrenAt, Behind
<1> QED
  BY <1>3, <1>4 DEF StackOf

\* What is below the top of the stack is about the scopes around.
LEMMA StackBehindOpen ==
  ASSUME WellNested, NEW tr, TreeOf(tr, End), NEW st, NEW l \in Opens,
         StackOf(tr, st, l)
  PROVE  StackOf(tr, Append(st, 0), l + 1)
<1> DEFINE new == Append(st, 0)
<1>1. l \in Places /\ l + 1 \in Places /\ l \in Int
  BY DEF WellNested, Finite, Places, Opens
<1>2. Innermost(l)
  BY <1>1, EveryPlace
<1>3. /\ ScopeOf(l + 1) = l /\ Around(l + 1) = Around(l) \cup {l}
      /\ Depth(l + 1) = Depth(l) + 1 /\ Depth(l) \in Int
  BY <1>1, <1>2, BehindOpen, Depths
<1>4. st \in Seq(Nat) /\ Len(st) = Depth(l) + 1 /\ Len(st) \in Nat
  BY DEF StackOf
<1>5. /\ new \in Seq(Nat) /\ Len(new) = Len(st) + 1
      /\ new[Len(st) + 1] = 0
      /\ \A j \in 1 .. Len(st) : new[j] = st[j] /\ j \in 1 .. Len(new)
  BY <1>4
<1> HIDE DEF new
<1>6. Counted(tr, new, l + 1)
  <2>1. Behind(ChildrenAt(tr, l + 1), 0, l + 1)
    BY <1>1, <1>3, NoneBehind
  <2>2. Depth(l + 1) + 1 = Len(st) + 1 /\ Len(st) + 1 \in 1 .. Len(new)
    BY <1>3, <1>4, <1>5
  <2> QED
    BY <1>5, <2>1, <2>2 DEF Counted
<1>7. ASSUME NEW i \in Around(l) \cup {l}
      PROVE  Counted(tr, new, i)
  <2>1. Counted(tr, st, i)
    BY DEF StackOf
  <2> QED
    BY <1>5, <2>1 DEF Counted
<1>8. StackOf(tr, new, l + 1)
  BY <1>3, <1>4, <1>5, <1>6, <1>7 DEF StackOf
<1> QED
  BY <1>8 DEF new

\* The number on the new top of the stack is one higher.
LEMMA NextChildIs ==
  ASSUME NEW st \in Seq(Nat), NEW n \in Nat, Len(st) = n + 1, n > 0
  PROVE  /\ NextChild(st) \in Seq(Nat)
         /\ Len(NextChild(st)) = n
         /\ NextChild(st)[n] = st[n] + 1
         /\ \A j \in 1 .. n - 1 : NextChild(st)[j] = st[j]
<1> DEFINE p == Popped(st)
           new == NextChild(st)
<1>1. p = [j \in 1 .. n |-> st[j]]
  BY DEF Popped
<1> HIDE DEF p
<1>2. \A j \in 1 .. n : st[j] \in Nat
  OBVIOUS
<1>3. new = [p EXCEPT ![n] = p[n] + 1]
  BY DEF NextChild, p
<1> HIDE DEF new
<1>4. new = [j \in 1 .. n |-> IF j = n THEN st[j] + 1 ELSE st[j]]
  BY <1>1, <1>3
<1>5. new \in [1 .. n -> Nat]
  BY <1>2, <1>4
<1>6. new \in Seq(Nat) /\ Len(new) = n
  BY <1>5
<1> QED
  BY <1>4, <1>6 DEF new

\* The scope that ends is behind, and so is no other one next to it.
LEMMA StackBehindClose ==
  ASSUME WellNested, NEW tr, TreeOf(tr, End), NEW st, NEW l \in Closes,
         StackOf(tr, st, l)
  PROVE  StackOf(tr, NextChild(st), l + 1)
<1> DEFINE s == ScopeOf(l)
           n == Depth(l)
           c == ChildrenAt(tr, s)
           new == NextChild(st)
<1>1. /\ l \in Places /\ l \in Lines /\ l \in 0 .. Len(source) /\ l \notin Opens
      /\ (l + 1) - 1 = l /\ l \in Int
      /\ Innermost(l)
  <2>1. l \in Places /\ l \in Lines /\ l \in 0 .. Len(source) /\ l \in Int
    BY DEF WellNested, Finite, Places, Closes
  <2> QED
    BY <2>1, EveryPlace, OneKind DEF Opens, Closes
<1>2. n > 0 /\ n \in Int
  BY <1>1, Depths
<1>3. s \in Opens /\ s < l /\ n = Depth(s) + 1 /\ Around(l) = Around(s) \cup {s}
  BY <1>1, <1>2 DEF Innermost
<1>4. s \in Places /\ s \in 0 .. Len(source) /\ s \in Int
  BY <1>3 DEF WellNested, Finite, Places, Opens
<1>5. Innermost(s)
  BY <1>4, EveryPlace
<1>6. /\ ScopeOf(l + 1) = ScopeOf(s)
      /\ Around(l + 1) = Around(s)
      /\ Depth(l + 1) = Depth(s)
  BY <1>1, <1>5, BehindClose
<1>7. st \in Seq(Nat) /\ Len(st) = n + 1 /\ \A i \in Around(l) : Counted(tr, st, i)
  BY DEF StackOf
<1>8. Counted(tr, st, s)
  BY <1>3, <1>7
<1> HIDE DEF s, n, c, new
<1>9. st[n] \in Nat /\ Behind(c, st[n], s)
  BY <1>2, <1>3, <1>7, <1>8 DEF Counted, c
<1>10. st[n] + 1 \in 1 .. Len(c) /\ c[st[n] + 1] = NodeOf(s)
  BY <1>3, <1>9, ChildFound DEF c
<1>11. ChildrenAre(c, ScopeOf(s), End)
  BY <1>4, ChildrenAtIs DEF c
<1>12. NodeOf(s) \in Nat /\ NodeOf(l) \in Nat /\ NodeOf(s) <= NodeOf(l)
  BY <1>1, <1>3, <1>4, Nodes
<1>13. Behind(c, st[n] + 1, l + 1)
  <2> SUFFICES ASSUME NEW k \in 1 .. Len(c)
               PROVE  k <= st[n] + 1 <=> c[k] <= NodeOf(l)
    BY <1>1 DEF Behind
  <2>1. c[k] \in Nat
    BY <1>11 DEF ChildrenAre
  <2>2. ASSUME k <= st[n] + 1 PROVE c[k] <= NodeOf(l)
    <3>1. k < st[n] + 1 => c[k] < c[st[n] + 1]
      BY <1>10, <1>11 DEF ChildrenAre
    <3>2. k = st[n] + 1 \/ k < st[n] + 1
      BY <1>9, <2>2
    <3> QED
      BY <1>10, <1>12, <2>1, <3>1, <3>2
  <2>3. ASSUME ~(k <= st[n] + 1), c[k] <= NodeOf(l) PROVE FALSE
    <3>1. st[n] + 1 < k
      BY <1>9, <2>3
    <3>2. NodeOf(s) < c[k]
      BY <1>10, <1>11, <3>1 DEF ChildrenAre
    <3>3. PICK o \in Inside(ScopeOf(s), End) : c[k] = NodeOf(o)
      BY <1>11 DEF ChildrenAre
    <3>4. o \in Opens /\ ScopeOf(o) = ScopeOf(s) /\ o \in 0 .. Len(source) /\ o \in Int
      BY <3>3 DEF Inside, WellNested, Finite, Opens
    <3>5. NodeOf(o) \in Nat
      BY <3>4, Nodes
    <3>6. s < o
      <4>1. o <= s => NodeOf(o) <= NodeOf(s)
        BY <1>4, <3>4, Nodes
      <4> QED
        BY <1>4, <1>12, <3>2, <3>3, <3>4, <3>5, <4>1
    <3>7. o < l
      <4>1. l < o => NodeOf(l) < NodeOf(o)
        BY <1>1, <3>4, Nodes
      <4>2. o # l
        BY <1>1, <3>4
      <4> QED
        BY <1>1, <1>12, <2>3, <3>3, <3>4, <3>5, <4>1, <4>2
    <3>8. s \in Around(l)
      BY <1>3
    <3> QED
      BY <1>1, <3>4, <3>6, <3>7, <3>8, NoSibling
  <2> QED
    BY <2>2, <2>3
<1>14. n \in Nat
  BY <1>2
<1>15. /\ new \in Seq(Nat) /\ Len(new) = n /\ new[n] = st[n] + 1
       /\ \A j \in 1 .. n - 1 : new[j] = st[j]
  BY <1>2, <1>7, <1>14, NextChildIs DEF new
<1>16. Counted(tr, new, l + 1)
  <2>1. ChildrenAt(tr, l + 1) = c
    BY <1>6 DEF ChildrenAt, c
  <2>2. Depth(l + 1) + 1 = n /\ n \in 1 .. n
    BY <1>2, <1>3, <1>6
  <2> QED
    BY <1>13, <1>15, <2>1, <2>2 DEF Counted
<1>17. ASSUME NEW i \in Around(s)
       PROVE  Counted(tr, new, i)
  <2>1. Counted(tr, st, i)
    BY <1>3, <1>7
  <2>2. Depth(i) < Depth(s) /\ Depth(i) \in Int /\ Depth(s) \in Int
    BY <1>4, Scopes, Depths
  <2>3. Depth(i) + 1 \in 1 .. n - 1
    BY <1>3, <2>1, <2>2 DEF Counted
  <2>4. new[Depth(i) + 1] = st[Depth(i) + 1] /\ Depth(i) + 1 \in 1 .. n
    BY <1>2, <1>15, <2>3
  <2> QED
    BY <1>15, <2>1, <2>4 DEF Counted
<1>18. Depth(l + 1) + 1 = n
  BY <1>3, <1>6
<1>19. StackOf(tr, new, l + 1)
  BY <1>6, <1>15, <1>16, <1>17, <1>18 DEF StackOf
<1> QED
  BY <1>19 DEF new

\* A label changes nothing the stack is about.
LEMMA StackWithLabel ==
  ASSUME WellNested, NEW tr, TreeOf(tr, End), NEW l \in Places, NEW st,
         StackOf(tr, st, l), NEW node, NEW name, NEW addr
  PROVE  StackOf(Bind(tr, node, name, addr), st, l)
<1> DEFINE new == Bind(tr, node, name, addr)
<1>1. IsTree(tr) /\ Len(tr) = NodeOf(End - 1) /\ End \in Places
  BY DEF TreeOf, End, WellNested, Finite, Places
<1>2. \A n \in 1 .. Len(tr) : new[n].children = tr[n].children
  BY <1>1, BindIs
<1> HIDE DEF new
<1>3. ASSUME NEW i \in Around(l) \cup {l}
      PROVE  Counted(tr, st, i) => Counted(new, st, i)
  <2>1. i \in Places
    BY Scopes
  <2>2. ScopeOf(i) \in Before(End)
    BY <2>1, Scopes DEF WellNested, Finite, Opens, Before, End
  <2>3. NodeOf(ScopeOf(i)) \in 1 .. Len(tr)
    BY <1>1, <2>2, InTree
  <2>4. ChildrenAt(new, i) = ChildrenAt(tr, i)
    BY <1>2, <2>3 DEF ChildrenAt
  <2> QED
    BY <2>4 DEF Counted
<1>4. StackOf(new, st, l)
  BY <1>3 DEF StackOf
<1> QED
  BY <1>4 DEF new

(***************************************************************************)
(* While the source stays, so does what is said of it.                     *)
(***************************************************************************)
LEMMA Still ==
  ASSUME source' = source
  PROVE  /\ WellNested' <=> WellNested
         /\ Places' = Places /\ End' = End /\ Lines' = Lines
         /\ \A i : NodeOf(i)' = NodeOf(i) /\ ScopeOf(i)' = ScopeOf(i)
         /\ \A tr, l : TreeOf(tr, l)' <=> TreeOf(tr, l)
         /\ \A tr, st, l : StackOf(tr, st, l)' <=> StackOf(tr, st, l)
<1>0. Lines' = Lines /\ Places' = Places /\ End' = End /\ Finite' = Finite
  BY DEF Lines, Places, End, Finite
<1>1. \A kind : LinesOf(kind)' = LinesOf(kind)
  BY <1>0 DEF LinesOf
<1>2. \A i : Depth(i)' = Depth(i)
  BY <1>1 DEF Depth
<1>3. \A i : Around(i)' = Around(i)
  BY <1>1, <1>2 DEF Around
<1>4. \A i : ScopeOf(i)' = ScopeOf(i)
  BY <1>3 DEF ScopeOf
<1>5. \A i : NodeOf(i)' = NodeOf(i)
  BY <1>1 DEF NodeOf
<1>6. Opens' = Opens /\ Closes' = Closes
  BY <1>0 DEF Opens, Closes, IsOpen, IsClose
<1>7. \A i : OpenCount(i)' = OpenCount(i) /\ CloseCount(i)' = CloseCount(i)
  BY DEF OpenCount, CloseCount
<1>8. WellNested' <=> WellNested
  BY <1>0, <1>6, <1>7 DEF WellNested, NoBraceTooMany
<1>9. \A l : Before(l)' = Before(l)
  BY <1>6 DEF Before
<1>10. \A b, l : Inside(b, l)' = Inside(b, l)
  BY <1>4, <1>6 DEF Inside
<1>11. \A c, b, l : ChildrenAre(c, b, l)' <=> ChildrenAre(c, b, l)
  BY <1>5, <1>10, ZenonT(30) DEF ChildrenAre
<1>12. \A tr, l : ParentsAre(tr, l)' <=> ParentsAre(tr, l)
  BY <1>4, <1>5, <1>9 DEF ParentsAre
<1>13. \A tr, l : AllChildren(tr, l)' <=> AllChildren(tr, l)
  BY <1>5, <1>9, <1>11 DEF AllChildren
<1>14. \A tr, l : TreeOf(tr, l)' <=> TreeOf(tr, l)
  BY <1>5, <1>12, <1>13 DEF TreeOf
<1>15. \A tr, i : ChildrenAt(tr, i)' = ChildrenAt(tr, i)
  BY <1>4, <1>5 DEF ChildrenAt
<1>16. \A c, n, i : Behind(c, n, i)' <=> Behind(c, n, i)
  BY <1>5 DEF Behind
<1>17. \A tr, st, i : Counted(tr, st, i)' <=> Counted(tr, st, i)
  BY <1>2, <1>15, <1>16 DEF Counted
<1>18. \A tr, st, l : StackOf(tr, st, l)' <=> StackOf(tr, st, l)
  BY <1>2, <1>3, <1>17 DEF StackOf
<1> QED
  BY <1>0, <1>4, <1>5, <1>8, <1>14, <1>18

(***************************************************************************)
(* The inductive invariant.                                                *)
(***************************************************************************)
Replayed ==
  /\ WellNested
  /\ file \in Sources
  /\ pass \in {0, 1}
  /\ at \in Places
  /\ curr_scope_node = NodeOf(ScopeOf(at))
  /\ TreeOf(tree, IF pass = 0 THEN at ELSE End)
  /\ IF pass = 0 THEN scope_child_num_stack = <<0>>
     ELSE StackOf(tree, scope_child_num_stack, at)
  /\ status = "parsing" =>
       /\ pass = 0 /\ at = 1
       /\ tree = EmptyTable
       /\ curr_scope_node = Global

\* What both passes begin with.
LEMMA AtTheStart ==
  WellNested => /\ 1 \in Places
                /\ NodeOf(ScopeOf(1)) = Global
                /\ TreeOf(EmptyTable, 1)
<1> SUFFICES ASSUME WellNested
             PROVE  /\ 1 \in Places
                    /\ NodeOf(ScopeOf(1)) = Global
                    /\ TreeOf(EmptyTable, 1)
  OBVIOUS
<1>1. 1 \in Places
  BY DEF WellNested, Finite, Places
<1>2. NodeOf(ScopeOf(1)) = Global
  BY FirstPlace, Nodes
<1> QED
  BY <1>1, <1>2, FreshTree

LEMMA StartsReplayed == AInit => Replayed
<1> SUFFICES ASSUME NEW input \in Sources, AStart(input)
             PROVE  Replayed
  BY DEF AInit
<1>1. Finite
  BY DEF AStart, Finite, Lines
<1>2. WellNested
  <2>1. Closes = {}
    BY DEF AStart, Closes, Lines
  <2> QED
    BY <1>1, <2>1 DEF WellNested, NoBraceTooMany
<1> QED
  BY <1>2, AtTheStart DEF AStart, Replayed

LEMMA ParseReplayed == Replayed /\ Parse => Replayed'
<1> SUFFICES ASSUME Replayed, Parse
             PROVE  Replayed'
  OBVIOUS
<1>1. IsLines(file)
  BY SourcesAssumption DEF Replayed, IsLines
<1>2. source' = Parsed(file) /\ UNCHANGED <<file, pass, at, tree, curr_scope_node,
                                            scope_child_num_stack>>
  BY DEF Parse
<1>3. /\ pass = 0 /\ at = 1 /\ tree = EmptyTable /\ curr_scope_node = Global
      /\ scope_child_num_stack = <<0>> /\ file \in Sources
  BY DEF Replayed, Parse
<1>4. /\ Len(source') \in Nat /\ DOMAIN source' = 1 .. Len(source')
      /\ NestedUpTo(source', Len(source'))
  BY <1>1, <1>2, ParsedIs, Zenon
<1>5. WellNested'
  <2>1. Finite'
    BY <1>4 DEF Finite, Lines
  <2>2. NestedUpTo(source, Len(source))'
    BY <1>4
  <2> QED
    BY <2>1, <2>2, Nested, PTL
<1>6. (1 \in Places)' /\ (NodeOf(ScopeOf(1)) = Global)' /\ TreeOf(EmptyTable, 1)'
  BY <1>5, AtTheStart, PTL
<1> QED
  BY <1>2, <1>3, <1>5, <1>6 DEF Replayed

(***************************************************************************)
(* The steps.                                                              *)
(***************************************************************************)
Scoping == <<tree, curr_scope_node, scope_child_num_stack>>

\* The kind of the line the visitor is at.
LEMMA OnLines ==
  /\ OnLine("{") => at \in Opens
  /\ OnLine("}") => at \in Closes
  /\ \A kind \in {"label", "instr", ".org", ".space", ".db"} :
       OnLine(kind) => at \in Lines \ (Opens \cup Closes)
<1>1. \A kind \in {"label", "instr", ".org", ".space", ".db"} :
        kind # "{" /\ kind # "}"
  BY Zenon
<1>2. \A kind : OnLine(kind) => at \in Lines /\ source[at].kind = kind
  BY Zenon DEF OnLine, Line, Lines
<1> QED
  BY <1>1, <1>2, Zenon DEF Opens, Closes, IsOpen, IsClose

LEMMA OnRunning == \A kind : OnLine(kind) => status = "running"
BY DEF OnLine

\* A step that stays at its line.
LEMMA Stays ==
  ASSUME Replayed, UNCHANGED <<file, source, pass, at>>, UNCHANGED Scoping,
         status' # "parsing" \/ UNCHANGED status
  PROVE  Replayed'
BY Still DEF Replayed, Scoping

\* A step behind a line that is no brace.
LEMMA MovesOn ==
  ASSUME Replayed, at \in Lines \ (Opens \cup Closes), at' = at + 1,
         UNCHANGED <<file, source, pass, status>>, UNCHANGED Scoping,
         status = "running"
  PROVE  Replayed'
<1>1. at + 1 \in Places
  BY DEF Replayed, WellNested, Finite, Places
<1>2. ScopeOf(at + 1) = ScopeOf(at)
  BY EveryPlace, BehindOther DEF Replayed
<1>3. TreeOf(tree, IF pass = 0 THEN at + 1 ELSE End)
  BY TreeBehindOther DEF Replayed
<1>4. pass # 0 => StackOf(tree, scope_child_num_stack, at + 1)
  BY StackBehindOther DEF Replayed
<1> QED
  BY <1>1, <1>2, <1>3, <1>4, Still DEF Replayed, Scoping

LEMMA EnterReplayed == Replayed /\ EnterScope => Replayed'
<1> SUFFICES ASSUME Replayed, EnterScope
             PROVE  Replayed'
  OBVIOUS
<1>1. at \in Opens /\ at' = at + 1 /\ UNCHANGED <<file, source, pass, status>>
      /\ status = "running"
  BY OnLines, OnRunning DEF EnterScope, Continue, Input
<1>2. /\ WellNested /\ at \in Places /\ at + 1 \in Places /\ pass \in {0, 1}
      /\ curr_scope_node = NodeOf(ScopeOf(at))
  BY <1>1 DEF Replayed, WellNested, Finite, Places, Opens
<1>3. ScopeOf(at + 1) = at
  BY <1>1, <1>2, EveryPlace, BehindOpen
<1>4. NodeOf(at) = NodeOf(at - 1) + 1
  BY <1>1, <1>2, Nodes
<1>5. CASE pass = 0
  <2>1. /\ tree' = MkScope(tree, curr_scope_node)
        /\ curr_scope_node' = Len(tree) + 1
        /\ scope_child_num_stack' = scope_child_num_stack
    BY <1>5 DEF EnterScope
  <2>2. TreeOf(tree, at) /\ scope_child_num_stack = <<0>>
    BY <1>5 DEF Replayed
  <2>3. TreeOf(tree', at + 1)
    BY <1>1, <1>2, <2>1, <2>2, TreeBehindOpen
  <2>4. curr_scope_node' = NodeOf(ScopeOf(at + 1))
    BY <1>3, <1>4, <2>1, <2>2 DEF TreeOf
  <2> QED
    BY <1>1, <1>2, <1>5, <2>1, <2>2, <2>3, <2>4, Still DEF Replayed
<1>6. CASE pass = 1
  <2> DEFINE top == TopOf(scope_child_num_stack)
  <2>0. pass # 0
    BY <1>6
  <2>1. /\ curr_scope_node' = tree[curr_scope_node].children[top + 1]
        /\ scope_child_num_stack' = Append(scope_child_num_stack, 0)
        /\ tree' = tree
    BY <2>0, Zenon DEF EnterScope
  <2>2. TreeOf(tree, End) /\ StackOf(tree, scope_child_num_stack, at)
    BY <1>6 DEF Replayed
  <2>3. StackOf(tree, scope_child_num_stack', at + 1)
    BY <1>1, <1>2, <2>1, <2>2, StackBehindOpen
  <2>4. top \in Nat /\ Behind(ChildrenAt(tree, at), top, at)
    BY <2>2 DEF StackOf, Counted, TopOf
  <2> HIDE DEF top
  <2>5. ChildrenAt(tree, at)[top + 1] = NodeOf(at)
    BY <1>1, <1>2, <2>2, <2>4, ChildFound
  <2>6. curr_scope_node' = NodeOf(ScopeOf(at + 1))
    BY <1>2, <1>3, <2>1, <2>5 DEF ChildrenAt
  <2> QED
    BY <1>1, <1>2, <1>6, <2>1, <2>2, <2>3, <2>6, Still DEF Replayed
<1> QED
  BY <1>2, <1>5, <1>6

LEMMA LeaveReplayed == Replayed /\ LeaveScope => Replayed'
<1> SUFFICES ASSUME Replayed, LeaveScope
             PROVE  Replayed'
  OBVIOUS
<1>1. at \in Closes /\ at' = at + 1 /\ UNCHANGED <<file, source, pass, status>>
      /\ status = "running"
  BY OnLines, OnRunning DEF LeaveScope, Continue, Input
<1>2. /\ WellNested /\ at \in Places /\ at + 1 \in Places /\ pass \in {0, 1}
      /\ at \in Lines \ Opens
      /\ curr_scope_node = NodeOf(ScopeOf(at))
  BY <1>1, OneKind DEF Replayed, WellNested, Finite, Places, Opens, Closes
<1>3. /\ curr_scope_node' = tree[curr_scope_node].parent
      /\ tree' = tree
      /\ scope_child_num_stack' = IF pass = 0 THEN scope_child_num_stack
                                  ELSE NextChild(scope_child_num_stack)
  BY DEF LeaveScope
<1>4. Innermost(at) /\ Innermost(ScopeOf(at)) /\ ScopeOf(at) \in Opens
     /\ ScopeOf(at) < at
  <2>1. Innermost(at) /\ Depth(at) > 0 /\ Depth(at) \in Int
    BY <1>1, <1>2, EveryPlace, Depths
  <2>2. ScopeOf(at) \in Opens /\ ScopeOf(at) < at
    BY <2>1 DEF Innermost
  <2>3. ScopeOf(at) \in Places
    BY <1>2, <2>2 DEF WellNested, Finite, Places, Opens
  <2> QED
    BY <1>2, <2>1, <2>2, <2>3, EveryPlace
<1>5. ScopeOf(at + 1) = ScopeOf(ScopeOf(at))
  BY <1>1, <1>2, <1>4, BehindClose
<1>6. curr_scope_node' = NodeOf(ScopeOf(at + 1))
  <2> DEFINE l == IF pass = 0 THEN at ELSE End
  <2>1. ParentsAre(tree, l)
    BY DEF Replayed, TreeOf
  <2>2. ScopeOf(at) \in Before(l) \ {0}
    BY <1>2, <1>4 DEF Before, WellNested, Finite, Opens, Places, End
  <2> HIDE DEF l
  <2> QED
    BY <1>2, <1>3, <1>5, <2>1, <2>2 DEF ParentsAre
<1>7. TreeOf(tree, IF pass = 0 THEN at + 1 ELSE End)
  BY <1>2, TreeBehindOther DEF Replayed
<1>8. pass # 0 => StackOf(tree, scope_child_num_stack', at + 1)
  BY <1>1, <1>3, StackBehindClose DEF Replayed
<1> QED
  BY <1>1, <1>2, <1>3, <1>6, <1>7, <1>8, Still DEF Replayed

LEMMA LabelReplayed == Replayed /\ VisitLabel => Replayed'
<1> SUFFICES ASSUME Replayed, VisitLabel
             PROVE  Replayed'
  OBVIOUS
<1>1. at \in Lines \ (Opens \cup Closes) /\ status = "running"
  BY OnLines, OnRunning DEF VisitLabel
<1>2. CASE Exit("error")
  BY <1>2, Stays DEF Exit, Input, Scoping
<1>3. CASE ~Exit("error")
  <2>1. /\ tree' = Bind(tree, curr_scope_node, Line.name, pc.curr)
        /\ at' = at + 1
        /\ UNCHANGED <<file, source, pass, status, curr_scope_node,
                       scope_child_num_stack>>
    BY <1>3 DEF VisitLabel, Continue, Input
  <2>2. at + 1 \in Places /\ End \in Places
    BY <1>1 DEF Replayed, WellNested, Finite, Places, End
  <2>3. ScopeOf(at + 1) = ScopeOf(at)
    BY <1>1, EveryPlace, BehindOther DEF Replayed
  <2>4. TreeOf(tree, IF pass = 0 THEN at + 1 ELSE End)
    BY <1>1, TreeBehindOther DEF Replayed
  <2>5. TreeOf(tree', IF pass = 0 THEN at + 1 ELSE End)
    BY <2>1, <2>2, <2>4, TreeWithLabel DEF Replayed
  <2>6. pass # 0 => StackOf(tree', scope_child_num_stack, at + 1)
    <3> SUFFICES ASSUME pass # 0
                 PROVE  StackOf(tree', scope_child_num_stack, at + 1)
      OBVIOUS
    <3>1. StackOf(tree, scope_child_num_stack, at + 1)
      BY <1>1, StackBehindOther DEF Replayed
    <3> QED
      BY <2>1, <2>2, <2>4, <3>1, StackWithLabel DEF Replayed
  <2> QED
    BY <1>1, <2>1, <2>2, <2>3, <2>5, <2>6, Still DEF Replayed
<1> QED
  BY <1>2, <1>3

LEMMA OthersReplayed ==
  Replayed /\ (VisitInstruction \/ VisitDotOrg \/ VisitDotSpace \/ VisitDotDb)
    => Replayed'
<1> SUFFICES ASSUME Replayed,
                    VisitInstruction \/ VisitDotOrg \/ VisitDotSpace \/ VisitDotDb
             PROVE  Replayed'
  OBVIOUS
<1>1. at \in Lines \ (Opens \cup Closes) /\ status = "running"
  BY OnLines, OnRunning DEF VisitInstruction, VisitDotOrg, VisitDotSpace, VisitDotDb
<1>2. ASSUME NEW how \in {"error", "crashed"}, Exit(how)
      PROVE  Replayed'
  BY <1>2, Stays DEF Exit, Input, Scoping
<1>3. ASSUME Continue, Unscoped
      PROVE  Replayed'
  BY <1>1, <1>3, MovesOn DEF Continue, Unscoped, Input, Scoping
<1>4. CASE VisitInstruction
  BY <1>2, <1>3, <1>4 DEF VisitInstruction, Failed
<1>5. ASSUME NEW start, MovePc(start)
      PROVE  Replayed'
  BY <1>2, <1>3, <1>5 DEF MovePc, Failed
<1>6. CASE VisitDotOrg \/ VisitDotSpace
  BY <1>5, <1>6 DEF VisitDotOrg, VisitDotSpace
<1>7. CASE VisitDotDb
  <2>1. /\ Unscoped
        /\ \/ \E how \in {"error", "crashed"} :
                status' = how /\ UNCHANGED <<Input, pass, at>>
           \/ Continue
    BY <1>7 DEF VisitDotDb, Failed
  <2> QED
    BY <1>3, <2>1, Stays DEF Unscoped, Input, Scoping
<1> QED
  BY <1>4, <1>6, <1>7

LEMMA EndReplayed == Replayed /\ EndOfPass => Replayed'
<1> SUFFICES ASSUME Replayed, EndOfPass
             PROVE  Replayed'
  OBVIOUS
<1>1. /\ status = "running" /\ at = End
      /\ UNCHANGED <<file, source, tree, scope_child_num_stack>>
  BY DEF EndOfPass, Input, End
<1>2. CASE pass = 0
  <2>1. pass' = 1 /\ at' = 1 /\ curr_scope_node' = Global /\ status' = status
    BY <1>2 DEF EndOfPass
  <2>2. TreeOf(tree, End) /\ scope_child_num_stack = <<0>>
    BY <1>1, <1>2 DEF Replayed
  <2>3. StackOf(tree, <<0>>, 1)
    BY <2>2, FreshStack DEF Replayed
  <2> QED
    BY <1>1, <2>1, <2>2, <2>3, AtTheStart, Still DEF Replayed
<1>3. CASE pass # 0
  <2>1. status' = "done" /\ UNCHANGED <<pass, at, pc, curr_scope_node>>
    BY <1>3 DEF EndOfPass
  <2> QED
    BY <1>1, <2>1, Stays DEF Scoping
<1> QED
  BY <1>2, <1>3

\* For every file, and in both passes, the visitor is in the node of the scope the
\* line is in: the second pass finds it again by counting children
\* (assembler_class.cpp:237-263).
THEOREM AlwaysScopesReplayed == ASpec => []ScopesReplayed
<1>1. AInit => Replayed
  BY StartsReplayed
<1>2. Replayed /\ [ANext]_avars => Replayed'
  <2> SUFFICES ASSUME Replayed, [ANext]_avars
               PROVE  Replayed'
    OBVIOUS
  <2>1. CASE ANext
    BY <2>1, ParseReplayed, EnterReplayed, LeaveReplayed, LabelReplayed,
       OthersReplayed, EndReplayed DEF ANext
  <2>2. CASE UNCHANGED avars
    BY <2>2, Stays DEF avars, Scoping
  <2> QED
    BY <2>1, <2>2
<1>3. Replayed => ScopesReplayed
  BY DEF Replayed, ScopesReplayed
<1> QED
  BY <1>1, <1>2, <1>3, PTL DEF ASpec

(***************************************************************************)
(* Expressions.                                                            *)
(***************************************************************************)
IsState(s) == s = [nums |-> s.nums, status |-> s.status]

\* An expression that the last pass evaluates has the same value in the first.
LEMMA LastPassAgrees ==
  ASSUME NEW expr, IsExpr(expr), NEW here, NEW addr,
         ~Failed(Evaluate(expr, TRUE, here, addr))
  PROVE  /\ ~Failed(Evaluate(expr, FALSE, here, addr))
         /\ Evaluate(expr, FALSE, here, addr).num = Evaluate(expr, TRUE, here, addr).num
<1> DEFINE Push(s, n) == [s EXCEPT !.nums = Append(@, n)]
      Stop(s, how) == [s EXCEPT !.status = how]
      Top(s, k) == s.nums[Len(s.nums) - k]
      Pop(s, k) == [s EXCEPT !.nums = SubSeq(@, 1, Len(@) - k)]
      Operate(s, op, last) ==
        IF op \in {"neg", "~", "!"} THEN Push(Pop(s, 1), Unary(op, Top(s, 0)))
        ELSE IF op = "/" /\ Top(s, 0) = 0 /\ last THEN Stop(s, "error")
        ELSE IF op = "%" /\ Top(s, 0) = 0 THEN Stop(s, "crashed")
        ELSE Push(Pop(s, 2), Binary(op, Top(s, 1), Top(s, 0)))
      Token(s, t, last) ==
        IF s.status # "running" THEN s
        ELSE CASE t[1] = "num" -> Push(s, t[2])
               [] t[1] = "pc"  -> Push(s, here)
               [] t[1] = "op"  -> Operate(s, t[2], last)
               [] t[1] = "ident" ->
                    IF addr[t[2]] = NotFound THEN Stop(s, "error")
                    ELSE Push(s, addr[t[2]])
      First[i \in 0 .. Len(expr)] ==
        IF i = 0 THEN [nums |-> <<>>, status |-> "running"]
        ELSE Token(First[i - 1], expr[i], FALSE)
      Last[i \in 0 .. Len(expr)] ==
        IF i = 0 THEN [nums |-> <<>>, status |-> "running"]
        ELSE Token(Last[i - 1], expr[i], TRUE)
      Result(end) ==
        [num    |-> IF end.status = "running" /\ expr # <<>> THEN end.nums[1] ELSE 0,
         status |-> end.status]
<1>1. Evaluate(expr, FALSE, here, addr) = Result(First[Len(expr)])
  BY DEF Evaluate
<1>2. Evaluate(expr, TRUE, here, addr) = Result(Last[Len(expr)])
  BY DEF Evaluate
<1> DEFINE n == Len(expr)
           Start == [nums |-> <<>>, status |-> "running"]
           Is(last, Q, m) == Q = [i \in 0 .. m |-> IF i = 0 THEN Start
                                               ELSE Token(Q[i - 1], expr[i], last)]
           Known(t) == t[1] \in {"num", "ident", "op", "pc"}
<1>3. n \in Nat /\ \A i \in 1 .. n : Known(expr[i])
  BY DEF IsExpr
<1>4. ASSUME NEW s, IsState(s), NEW t, Known(t), NEW last
      PROVE  IsState(Token(s, t, last))
  <2>1. ASSUME NEW u, IsState(u), NEW m PROVE IsState(Push(u, m))
    BY <2>1 DEF IsState
  <2>2. \A how : IsState(Stop(s, how))
    BY <1>4 DEF IsState
  <2>3. \A k : IsState(Pop(s, k))
    <3>1. \A v : IsState([s EXCEPT !.nums = v])
      BY <1>4 DEF IsState
    <3> QED
      BY <3>1, Zenon
  <2> HIDE DEF Push, Stop, Pop, Top
  <2>4. \A k, m : IsState(Push(Pop(s, k), m))
    BY <2>1, <2>3
  <2>5. \A op : IsState(Operate(s, op, last))
    BY <2>2, <2>4
  <2> HIDE DEF Operate
  <2> QED
    BY <1>4, <2>1, <2>2, <2>5
<1>5. ASSUME NEW s, IsState(s), NEW t, Known(t)
      PROVE  \/ Token(s, t, TRUE) = Token(s, t, FALSE)
             \/ Token(s, t, TRUE).status = "error"
  <2>1. Stop(s, "error").status = "error"
    BY <1>5 DEF IsState
  <2> HIDE DEF Push, Stop, Pop, Top
  <2>2. \A op : \/ Operate(s, op, TRUE) = Operate(s, op, FALSE)
                \/ Operate(s, op, TRUE) = Stop(s, "error")
    BY Zenon
  <2> HIDE DEF Operate
  <2> QED
    BY <1>5, <2>1, <2>2
<1>6. \A s, t, last : s.status # "running" => Token(s, t, last) = s
  BY Zenon
<1> HIDE DEF Push, Stop, Pop, Top, Operate
<1>7. IsState(Start)
  BY DEF IsState
<1> HIDE DEF Token, Start, n, Known
<1>8. ASSUME NEW last
      PROVE  \E Q : Is(last, Q, n)
  <2> DEFINE S == {m \in Nat : \E Q : Is(last, Q, m)}
  <2>1. 0 \in S
    <3>1. Is(last, [i \in 0 .. 0 |-> Start], 0)
      OBVIOUS
    <3> QED
      BY <3>1
  <2>2. ASSUME NEW m \in Nat, m \in S PROVE m + 1 \in S
    <3>1. PICK Q : Is(last, Q, m)
      BY <2>2
    <3> DEFINE R == [i \in 0 .. m + 1 |-> IF i = m + 1 THEN Token(Q[m], expr[m + 1], last)
                                          ELSE Q[i]]
    <3>2. ASSUME NEW i \in 0 .. m + 1
          PROVE  R[i] = IF i = 0 THEN Start ELSE Token(R[i - 1], expr[i], last)
      <4>1. CASE i = m + 1
        BY <4>1
      <4>2. CASE i # m + 1
        <5>1. i \in 0 .. m /\ (i # 0 => i - 1 \in 0 .. m)
          BY <4>2
        <5>2. R[i] = Q[i] /\ (i # 0 => R[i - 1] = Q[i - 1])
          BY <5>1
        <5> QED
          BY <3>1, <5>1, <5>2
      <4> QED
        BY <4>1, <4>2
    <3>3. Is(last, R, m + 1)
      BY <3>2
    <3> HIDE DEF R
    <3> QED
      BY <3>3
  <2> HIDE DEF S
  <2>3. n \in S
    BY <1>3, <2>1, <2>2, Induction
  <2> QED
    BY <2>3 DEF S
<1>9. First = CHOOSE Q : Is(FALSE, Q, n)
  BY DEF n, Start
<1>10. Last = CHOOSE Q : Is(TRUE, Q, n)
  BY DEF n, Start
<1> HIDE DEF First, Last
<1>11. Is(FALSE, First, n) /\ Is(TRUE, Last, n)
  BY <1>8, <1>9, <1>10
<1> DEFINE Agree(i) == /\ IsState(First[i]) /\ IsState(Last[i])
                       /\ Last[i] = First[i] \/ Last[i].status \in {"error", "crashed"}
           S == {m \in Nat : m <= n => Agree(m)}
<1>12. 0 \in S
  BY <1>3, <1>7, <1>11
<1>13. ASSUME NEW m \in Nat, m \in S PROVE m + 1 \in S
  <2> SUFFICES ASSUME m + 1 <= n PROVE Agree(m + 1)
    OBVIOUS
  <2>1. Agree(m) /\ m + 1 \in 1 .. n /\ m + 1 \in 0 .. n /\ (m + 1) - 1 = m /\ m + 1 # 0
    BY <1>3, <1>13
  <2>2. /\ First[m + 1] = Token(First[m], expr[m + 1], FALSE)
        /\ Last[m + 1] = Token(Last[m], expr[m + 1], TRUE)
    BY <1>11, <2>1
  <2>3. Known(expr[m + 1])
    BY <1>3, <2>1
  <2>4. IsState(First[m + 1]) /\ IsState(Last[m + 1])
    BY <1>4, <2>1, <2>2, <2>3, Zenon
  <2>5. CASE Last[m] = First[m]
    <3>1. Last[m + 1] = First[m + 1] \/ Last[m + 1].status = "error"
      BY <1>5, <2>1, <2>2, <2>3, <2>5, Zenon
    <3> QED
      BY <2>4, <3>1
  <2>6. CASE Last[m].status \in {"error", "crashed"}
    <3>1. Last[m + 1] = Last[m]
      BY <1>6, <2>2, <2>6
    <3> QED
      BY <2>4, <2>6, <3>1
  <2> QED
    BY <2>1, <2>5, <2>6
<1> HIDE DEF S
<1>14. n \in S
  BY <1>3, <1>12, <1>13, Induction
<1>15. Agree(n)
  BY <1>3, <1>14 DEF S
<1>16. Last[n].status \notin {"error", "crashed"}
  <2>1. \A s : Result(s).status = s.status
    OBVIOUS
  <2> HIDE DEF Result
  <2> QED
    BY <1>2, <2>1 DEF Failed, n
<1> HIDE DEF Result
<1>17. First[n] = Last[n]
  BY <1>15, <1>16
<1>18. Evaluate(expr, FALSE, here, addr) = Evaluate(expr, TRUE, here, addr)
  BY <1>1, <1>2, <1>17 DEF n
<1> QED
  BY <1>18

(***************************************************************************)
(* Which pseudo instructions the visitors know.                            *)
(***************************************************************************)
\* The names of the pseudo instructions that jump or call to an address, and bra.
Absolute == {"jmpa", "calla", "jmpane", "jmpaeq", "callane", "callaeq", "bra"}

Tabulated == {Iog0, Iog1, Iog2, Iog3, Iog4, Iog5, Iog6}

LEMMA TableEntries ==
  ASSUME NEW table \in Tabulated, NEW i \in DOMAIN table
  PROVE  /\ table[i][1] \notin Absolute
         /\ table[i][2] \notin {"OneReg", "TwoRegs", "OneImm", "OneRegOnePc"}
<1>1. CASE table = Iog0
  BY <1>1, SMT DEF Iog0, Named, Absolute
<1>2. CASE table = Iog1
  BY <1>2, SMTT(30) DEF Iog1, Named, Absolute
<1>3. CASE table = Iog2
  BY <1>3, SMT DEF Iog2, Named, Absolute
<1>4. CASE table = Iog3
  BY <1>4, SMT DEF Iog3, Named, Absolute
<1>5. CASE table = Iog4
  BY <1>5, SMT DEF Iog4, Named, Absolute
<1>6. CASE table = Iog5
  BY <1>6, SMT DEF Iog5, Named, Absolute
<1>7. CASE table = Iog6
  BY <1>7, SMT DEF Iog6, Absolute
<1> QED
  BY <1>1, <1>2, <1>3, <1>4, <1>5, <1>6, <1>7 DEF Tabulated

LEMMA TableNames ==
  ASSUME NEW table \in Tabulated, NEW args, NEW name \in NamesWith(table, args)
  PROVE  /\ name \notin Absolute
         /\ args \notin {"OneReg", "TwoRegs", "OneImm", "OneRegOnePc"}
<1>1. PICK i \in DOMAIN table : table[i][1] = name /\ table[i][2] = args
  BY DEF NamesWith
<1> QED
  BY <1>1, TableEntries

LEMMA VisitedNames ==
  ASSUME NEW text, ~Eek(text)
  PROVE  /\ text.name \in Absolute => text.args \in {"OneImm", "TwoRegsOneImm"}
         /\ text.name = "bra" => text.args = "OneImm"
         /\ text.args = "OneReg" => text.name \in {"jmp", "call", "inc", "dec"}
<1>1. PICK name \in Visited(text.args) : text.name = Spelled(name)
  BY DEF Eek
<1>2. /\ text.name \in Absolute => text.name = name
      /\ name \in {"jmp", "call", "inc", "dec"} => text.name = name
  BY <1>1 DEF Spelled, Absolute
<1>3. ASSUME NEW table \in Tabulated, name \in NamesWith(table, text.args)
      PROVE  name \notin Absolute /\ text.args # "OneReg"
  BY <1>3, TableNames
<1>4. CASE name \in PseudoInstructionNames(text.args)
  <2> DEFINE args == text.args
             P == PseudoInstructionNames(args)
  <2>1. CASE args \in {"TwoRegs", "OneRegOneImm"}
    <3>1. /\ \A n \in NamesWith(Iog0, "ThreeRegs") : n \notin Absolute
          /\ \A n \in NamesWith(Iog1, "TwoRegsOneImm") : n \notin Absolute
          /\ \A n \in NamesWith(Iog1, "TwoRegsOneSimm") : n \notin Absolute
      BY TableNames DEF Tabulated
    <3>2. name \notin Absolute
      BY <1>4, <2>1, <3>1 DEF PseudoInstructionNames, Absolute
    <3> QED
      BY <1>2, <2>1, <3>2 DEF Absolute
  <2>2. CASE args = "OneRegOnePc"
    BY <1>2, <1>4, <2>2 DEF PseudoInstructionNames, Absolute
  <2>3. CASE args = "OneImm"
    BY <2>3
  <2>4. CASE args = "OneReg"
    BY <1>2, <1>4, <2>4 DEF PseudoInstructionNames, Absolute
  <2>5. CASE args = "TwoRegsOneImm"
    BY <1>2, <1>4, <2>5 DEF PseudoInstructionNames, Absolute
  <2>6. CASE args \notin {"TwoRegs", "OneRegOneImm", "OneRegOnePc", "OneImm",
                          "OneReg", "TwoRegsOneImm"}
    BY <1>4, <2>6 DEF PseudoInstructionNames
  <2> QED
    BY <2>1, <2>2, <2>3, <2>4, <2>5, <2>6
<1>5. CASE name \in VisitedInAlu(text.args)
  <2>1. \E table \in Tabulated : name \in NamesWith(table, text.args)
    BY <1>5 DEF VisitedInAlu, Tabulated
  <2> QED
    BY <1>2, <1>3, <2>1 DEF Absolute
<1>6. CASE name \in VisitedInFlow(text.args)
  <2>1. \E table \in Tabulated : name \in NamesWith(table, text.args)
    BY <1>6 DEF VisitedInFlow, Tabulated
  <2> QED
    BY <1>2, <1>3, <2>1 DEF Absolute
<1>7. CASE name \in VisitedInMemoryAndInterrupts(text.args)
  <2>1. \E table \in Tabulated : name \in NamesWith(table, text.args)
    BY <1>7 DEF VisitedInMemoryAndInterrupts, Tabulated
  <2> QED
    BY <1>2, <1>3, <2>1 DEF Absolute
<1> QED
  BY <1>1, <1>4, <1>5, <1>6, <1>7 DEF Visited

(***************************************************************************)
(* How far a line moves the program counter.                               *)
(***************************************************************************)
\* b is n steps of a size behind a.
Steps(a, size, n, b) ==
  \E Q : Q[0] = a /\ Q[n] = b /\ \A k \in 1 .. n : Q[k] = Q[k - 1] + size

\* Of the steps, as far as they are counted.
LEMMA NoStep == \A a, size : Steps(a, size, 0, a)
<1> TAKE a, size
<1> DEFINE Q == [k \in {0} |-> a]
<1>1. Q[0] = a /\ \A k \in 1 .. 0 : Q[k] = Q[k - 1] + size
  OBVIOUS
<1> QED
  BY <1>1 DEF Steps

LEMMA OneStep ==
  ASSUME NEW a, NEW size, NEW n \in Nat, NEW b, Steps(a, size, n, b)
  PROVE  Steps(a, size, n + 1, b + size)
<1>1. PICK Q : Q[0] = a /\ Q[n] = b /\ \A k \in 1 .. n : Q[k] = Q[k - 1] + size
  BY DEF Steps
<1> DEFINE R == [k \in 0 .. n + 1 |-> IF k = n + 1 THEN b + size ELSE Q[k]]
<1>2. R[0] = a /\ R[n + 1] = b + size
  BY <1>1
<1>3. ASSUME NEW k \in 1 .. n + 1 PROVE R[k] = R[k - 1] + size
  <2>1. k - 1 \in 0 .. n + 1 /\ k - 1 # n + 1 /\ k \in 0 .. n + 1
    OBVIOUS
  <2>2. R[k - 1] = Q[k - 1]
    BY <2>1
  <2>3. CASE k = n + 1
    BY <1>1, <2>1, <2>2, <2>3
  <2>4. CASE k # n + 1
    <3>1. k \in 1 .. n
      BY <2>4
    <3> QED
      BY <1>1, <2>1, <2>2, <2>4, <3>1
  <2> QED
    BY <2>3, <2>4
<1> HIDE DEF R
<1> QED
  BY <1>2, <1>3 DEF Steps

\* There is one end.
LEMMA StepsEndOnce ==
  ASSUME NEW a, NEW size, NEW n \in Nat, NEW b, NEW c,
         Steps(a, size, n, b), Steps(a, size, n, c)
  PROVE  b = c
<1>1. PICK Q : Q[0] = a /\ Q[n] = b /\ \A k \in 1 .. n : Q[k] = Q[k - 1] + size
  BY DEF Steps
<1>2. PICK R : R[0] = a /\ R[n] = c /\ \A k \in 1 .. n : R[k] = R[k - 1] + size
  BY DEF Steps
<1> DEFINE S == {m \in Nat : m <= n => Q[m] = R[m]}
<1>3. 0 \in S
  BY <1>1, <1>2
<1>4. ASSUME NEW m \in Nat, m \in S PROVE m + 1 \in S
  <2> SUFFICES ASSUME m + 1 <= n PROVE Q[m + 1] = R[m + 1]
    OBVIOUS
  <2>1. m + 1 \in 1 .. n /\ (m + 1) - 1 = m /\ Q[m] = R[m]
    BY <1>4
  <2>2. Q[m + 1] = Q[m] + size /\ R[m + 1] = R[m] + size
    BY <1>1, <1>2, <2>1
  <2> QED
    BY <2>1, <2>2
<1> HIDE DEF S
<1>5. n \in S
  BY <1>3, <1>4, Induction
<1> QED
  BY <1>1, <1>2, <1>5 DEF S

IsPc(p) == p = [prev |-> p.prev, curr |-> p.curr]

\* Bytes move the program counter by their number.
LEMMA GenMoves ==
  ASSUME NEW s, NEW x, NEW size \in {1, 2, 4}
  PROVE  /\ Gen(s, Bytes(x, size)).pc.curr = s.pc.curr + size
         /\ IsPc(Gen(s, Bytes(x, size)).pc)
<1>1. Len(Bytes(x, size)) = size
  BY DEF Bytes
<1> QED
  BY <1>1 DEF Gen, IsPc

\* So does an instruction, word by word,
LEMMA GenWordsMoves ==
  ASSUME NEW words, Len(words) \in Nat, IsPc(pc)
  PROVE  /\ Steps(pc.curr, 4, Len(words), GenWords(words).pc.curr)
         /\ IsPc(GenWords(words).pc)
<1> DEFINE n == Len(words)
      Start == [pc |-> pc, out |-> out]
      Step(s, i) == Gen(s, Bytes(words[i], 4))
      Run[i \in 0 .. n] == IF i = 0 THEN Start ELSE Step(Run[i - 1], i)
      Is(Q, m) == Q = [i \in 0 .. m |-> IF i = 0 THEN Start ELSE Step(Q[i - 1], i)]
<1>1. GenWords(words) = Run[n]
  BY DEF GenWords
<1>2. Start.pc = pc
  OBVIOUS
<1>3. \A s, i : Step(s, i).pc.curr = s.pc.curr + 4 /\ IsPc(Step(s, i).pc)
  BY GenMoves
<1> HIDE DEF Step, Start, n
<1>4. \E Q : Is(Q, n)
  <2> DEFINE S == {m \in Nat : \E Q : Is(Q, m)}
  <2>1. 0 \in S
    <3>1. Is([i \in 0 .. 0 |-> Start], 0)
      OBVIOUS
    <3> QED
      BY <3>1
  <2>2. ASSUME NEW m \in Nat, m \in S PROVE m + 1 \in S
    <3>1. PICK Q : Is(Q, m)
      BY <2>2
    <3> DEFINE R == [i \in 0 .. m + 1 |-> IF i = m + 1 THEN Step(Q[m], m + 1) ELSE Q[i]]
    <3>2. ASSUME NEW i \in 0 .. m + 1
          PROVE  R[i] = IF i = 0 THEN Start ELSE Step(R[i - 1], i)
      <4>1. CASE i = m + 1
        BY <4>1
      <4>2. CASE i # m + 1
        <5>1. i \in 0 .. m /\ (i # 0 => i - 1 \in 0 .. m)
          BY <4>2
        <5>2. R[i] = Q[i] /\ (i # 0 => R[i - 1] = Q[i - 1])
          BY <5>1
        <5> QED
          BY <3>1, <5>1, <5>2
      <4> QED
        BY <4>1, <4>2
    <3>3. Is(R, m + 1)
      BY <3>2
    <3> HIDE DEF R
    <3> QED
      BY <3>3
  <2> HIDE DEF S
  <2>3. n \in S
    BY <2>1, <2>2, Induction DEF n
  <2> QED
    BY <2>3 DEF S
<1>5. Run = CHOOSE Q : Is(Q, n)
  OBVIOUS
<1> HIDE DEF Run
<1>6. Is(Run, n)
  BY <1>4, <1>5
<1> DEFINE Moved(i) == Steps(pc.curr, 4, i, Run[i].pc.curr) /\ IsPc(Run[i].pc)
           S == {m \in Nat : m <= n => Moved(m)}
<1>7. 0 \in S
  BY <1>2, <1>6, NoStep DEF n
<1>8. ASSUME NEW m \in Nat, m \in S PROVE m + 1 \in S
  <2> SUFFICES ASSUME m + 1 <= n PROVE Moved(m + 1)
    OBVIOUS
  <2>1. m + 1 \in 0 .. n /\ m + 1 # 0 /\ (m + 1) - 1 = m /\ Moved(m)
    BY <1>8 DEF n
  <2>2. Run[m + 1] = Step(Run[m], m + 1)
    BY <1>6, <2>1
  <2> QED
    BY <1>3, <2>1, <2>2, OneStep
<1> HIDE DEF S
<1>9. n \in S
  BY <1>7, <1>8, Induction DEF n
<1> QED
  BY <1>1, <1>9 DEF S, n
\* and a line of data, constant by constant, unless one of them ends the program.
LEMMA GenConstantsMoves ==
  ASSUME NEW exprs, Len(exprs) \in Nat, NEW size \in {1, 2, 4}, IsPc(pc),
         ~Failed(GenConstants(exprs, size))
  PROVE  /\ Steps(pc.curr, size, Len(exprs), GenConstants(exprs, size).pc.curr)
         /\ IsPc(GenConstants(exprs, size).pc)
<1> DEFINE n == Len(exprs)
      Start == [pc |-> pc, out |-> out, status |-> "running"]
      Step(s, i) ==
        LET value == Value(exprs[i], s.pc.curr)
            gen   == Gen(s, Bytes(value.num, size))
        IN IF s.status # "running" THEN s
           ELSE IF Failed(value) THEN [s EXCEPT !.status = value.status]
           ELSE [pc |-> gen.pc, out |-> gen.out, status |-> "running"]
      Run[i \in 0 .. n] == IF i = 0 THEN Start ELSE Step(Run[i - 1], i)
      Is(Q, m) == Q = [i \in 0 .. m |-> IF i = 0 THEN Start ELSE Step(Q[i - 1], i)]
      IsRun(s) == /\ s = [pc |-> s.pc, out |-> s.out, status |-> s.status]
                    /\ s.status \in {"running", "error", "crashed"}
                    /\ IsPc(s.pc)
<1>1. GenConstants(exprs, size) = Run[n]
  BY DEF GenConstants
<1>2. Start.pc = pc /\ IsRun(Start)
  OBVIOUS
<1>3. ASSUME NEW s, IsRun(s), NEW i
      PROVE  /\ IsRun(Step(s, i))
             /\ Step(s, i).status = "running" =>
                  /\ s.status = "running"
                  /\ Step(s, i).pc.curr = s.pc.curr + size
  <2> DEFINE value == Value(exprs[i], s.pc.curr)
             gen   == Gen(s, Bytes(value.num, size))
             stopped == [s EXCEPT !.status = value.status]
             on    == [pc |-> gen.pc, out |-> gen.out, status |-> "running"]
  <2>1. gen.pc.curr = s.pc.curr + size /\ IsPc(gen.pc)
    BY GenMoves
  <2> HIDE DEF value, gen
  <2>2. IsRun(on) /\ on.status = "running" /\ on.pc.curr = gen.pc.curr
    BY <2>1
  <2>3. Failed(value) => IsRun(stopped) /\ stopped.status # "running"
    BY <1>3 DEF Failed
  <2>4. Step(s, i) = IF s.status # "running" THEN s
                      ELSE IF Failed(value) THEN stopped ELSE on
    BY DEF value, gen
  <2> HIDE DEF Step, IsRun, stopped, on
  <2> QED
    BY <1>3, <2>1, <2>2, <2>3, <2>4
<1> HIDE DEF Step, Start, n
<1>4. \E Q : Is(Q, n)
  <2> DEFINE S == {m \in Nat : \E Q : Is(Q, m)}
  <2>1. 0 \in S
    <3>1. Is([i \in 0 .. 0 |-> Start], 0)
      OBVIOUS
    <3> QED
      BY <3>1
  <2>2. ASSUME NEW m \in Nat, m \in S PROVE m + 1 \in S
    <3>1. PICK Q : Is(Q, m)
      BY <2>2
    <3> DEFINE R == [i \in 0 .. m + 1 |-> IF i = m + 1 THEN Step(Q[m], m + 1) ELSE Q[i]]
    <3>2. ASSUME NEW i \in 0 .. m + 1
          PROVE  R[i] = IF i = 0 THEN Start ELSE Step(R[i - 1], i)
      <4>1. CASE i = m + 1
        BY <4>1
      <4>2. CASE i # m + 1
        <5>1. i \in 0 .. m /\ (i # 0 => i - 1 \in 0 .. m)
          BY <4>2
        <5>2. R[i] = Q[i] /\ (i # 0 => R[i - 1] = Q[i - 1])
          BY <5>1
        <5> QED
          BY <3>1, <5>1, <5>2
      <4> QED
        BY <4>1, <4>2
    <3>3. Is(R, m + 1)
      BY <3>2
    <3> HIDE DEF R
    <3> QED
      BY <3>3
  <2> HIDE DEF S
  <2>3. n \in S
    BY <2>1, <2>2, Induction DEF n
  <2> QED
    BY <2>3 DEF S
<1>5. Run = CHOOSE Q : Is(Q, n)
  OBVIOUS
<1> HIDE DEF Run
<1>6. Is(Run, n)
  BY <1>4, <1>5
<1> DEFINE Moved(i) == /\ IsRun(Run[i])
                       /\ Run[i].status = "running" =>
                            Steps(pc.curr, size, i, Run[i].pc.curr)
           S == {m \in Nat : m <= n => Moved(m)}
<1> HIDE DEF IsRun
<1>7. 0 \in S
  BY <1>2, <1>6, NoStep DEF n
<1>8. ASSUME NEW m \in Nat, m \in S PROVE m + 1 \in S
  <2> SUFFICES ASSUME m + 1 <= n PROVE Moved(m + 1)
    OBVIOUS
  <2>1. m + 1 \in 0 .. n /\ m + 1 # 0 /\ (m + 1) - 1 = m /\ Moved(m)
    BY <1>8 DEF n
  <2>2. Run[m + 1] = Step(Run[m], m + 1)
    BY <1>6, <2>1
  <2> QED
    BY <1>3, <2>1, <2>2, OneStep
<1> HIDE DEF S
<1>9. n \in S
  BY <1>7, <1>8, Induction DEF n
<1>10. Moved(n)
  BY <1>9 DEF S, n
<1>11. Run[n].status = "running"
  BY <1>1, <1>10 DEF Failed, IsRun, n
<1> QED
  BY <1>1, <1>10, <1>11 DEF n, IsRun

\* How many instructions a text stands for.
SizeOf(text) ==
  IF text.name \in DOMAIN AbsoluteToRegister THEN 3
  ELSE IF text.args = "OneRegOneImm" /\ text.name = "cpya" THEN 2 ELSE 1

Sized(texts, n) == DOMAIN texts = 1 .. n /\ Len(texts) = n

LEMMA One == \A t : Sized(<<t>>, 1)
BY DEF Sized

\* It depends on the name and the operands' kinds, not on a value.
LEMMA ExpandSize ==
  ASSUME NEW text, ~Eek(text)
  PROVE  Sized(Expand(text), SizeOf(text)) /\ SizeOf(text) \in Nat
<1> DEFINE name == text.name
           args == text.args
<1>1. \A n, a, b, c : Sized(To(n, a, b, c), 1)
  BY One DEF To
<1>2. DOMAIN AbsoluteToRegister = Absolute \ {"bra"}
  BY DEF AbsoluteToRegister, Absolute
<1>3. /\ name \in Absolute => args \in {"OneImm", "TwoRegsOneImm"}
      /\ name = "bra" => args = "OneImm"
      /\ args = "OneReg" => name \in {"jmp", "call", "inc", "dec"}
  BY VisitedNames
<1>4. "bra" \in Absolute /\ "cpy" \notin Absolute
  BY DEF Absolute
<1>5. CASE name \in DOMAIN AbsoluteToRegister
  <2>1. \A s, t, u : Sized(<<s, t>> \o <<u>>, 3)
    BY DEF Sized
  <2>2. Expand(text) = Cpya(TEMP, text.imm)
                         \o To(AbsoluteToRegister[name], text.ra, text.rb, TEMP)
    BY <1>2, <1>3, <1>5 DEF Expand
  <2>3. Sized(Expand(text), 3)
    BY <2>1, <2>2 DEF Cpya, To
  <2> QED
    BY <1>5, <2>3 DEF SizeOf
<1>6. CASE args = "TwoRegs"
  <2>1. Expand(text) = TwoRegsToThree(text)
    BY <1>2, <1>3, <1>6 DEF Expand
  <2>2. Sized(TwoRegsToThree(text), 1)
    BY <1>1 DEF TwoRegsToThree
  <2>3. SizeOf(text) = 1
    BY <1>2, <1>3, <1>6 DEF SizeOf
  <2> QED
    BY <2>1, <2>2, <2>3
<1>7. CASE args = "OneRegOneImm"
  <2>1. Expand(text) = OneRegOneImmToTwo(text) /\ name \notin DOMAIN AbsoluteToRegister
    BY <1>2, <1>3, <1>7 DEF Expand
  <2>2. CASE name = "cpya"
    <3>1. \A t, u : Sized(<<t, u>>, 2)
      BY DEF Sized
    <3>2. Sized(Cpya(text.ra, text.imm), 2)
      BY <3>1 DEF Cpya
    <3>3. OneRegOneImmToTwo(text) = Cpya(text.ra, text.imm)
      BY <2>2 DEF OneRegOneImmToTwo
    <3> QED
      BY <1>7, <2>1, <2>2, <3>2, <3>3 DEF SizeOf
  <2>3. CASE name # "cpya"
    <3>1. Sized(OneRegOneImmToTwo(text), 1)
      BY <2>3, One DEF OneRegOneImmToTwo
    <3> QED
      BY <2>1, <2>3, <3>1 DEF SizeOf
  <2> QED
    BY <2>2, <2>3
<1>8. CASE args = "OneReg"
  <2>1. Expand(text) = OneRegToOthers(text)
    BY <1>2, <1>3, <1>8 DEF Expand
  <2>2. Sized(OneRegToOthers(text), 1)
    BY <1>1, <1>3, <1>8, One DEF OneRegToOthers
  <2>3. SizeOf(text) = 1
    BY <1>2, <1>3, <1>8 DEF SizeOf
  <2> QED
    BY <2>1, <2>2, <2>3
<1>9. CASE name = "bra" \/ args = "OneRegOnePc"
  <2>1. \E t : Expand(text) = <<t>>
    BY <1>2, <1>3, <1>9 DEF Expand
  <2>2. SizeOf(text) = 1
    BY <1>2, <1>3, <1>9 DEF SizeOf
  <2> QED
    BY <2>1, <2>2, One
<1>10. CASE /\ name \notin DOMAIN AbsoluteToRegister /\ name # "bra"
            /\ args \notin {"TwoRegs", "OneRegOneImm", "OneReg", "OneRegOnePc"}
  <2>1. Expand(text) = <<text>> /\ SizeOf(text) = 1
    BY <1>10 DEF Expand, SizeOf
  <2> QED
    BY <2>1, One
<1> QED
  BY <1>5, <1>6, <1>7, <1>8, <1>9, <1>10

\* The value of an expression without names.
Fixed(expr, here) == Evaluate(expr, FALSE, here, [name \in {} |-> 0]).num

\* The line behind line i, which is at address a, is at address b.
Follows(i, a, b) ==
  LET line == source[i]
  IN /\ line.kind = ".org" => b = 0 + Fixed(line.expr, a)
     /\ line.kind = ".space" => b = a + Fixed(line.expr, a)
     /\ line.kind = ".db" => Steps(a, line.size, Len(line.exprs), b)
     /\ line.kind = "instr" => Steps(a, 4, SizeOf(line.text), b)
     /\ line.kind \notin {".org", ".space", ".db", "instr"} => b = a

\* There is one such address.
LEMMA FollowsOnce ==
  ASSUME NEW i, IsLine(source[i]), NEW a, NEW b, NEW c,
         Follows(i, a, b), Follows(i, a, c)
  PROVE  b = c
<1> DEFINE line == source[i]
<1>1. SizeOf(line.text) \in Nat
  BY DEF SizeOf
<1>2. CASE line.kind = ".org"
  BY <1>2 DEF Follows
<1>3. CASE line.kind = ".space"
  BY <1>3 DEF Follows
<1>4. CASE line.kind = ".db"
  <2>1. Len(line.exprs) \in Nat
    BY <1>4, Zenon DEF IsLine
  <2> QED
    BY <1>4, <2>1, StepsEndOnce DEF Follows
<1>5. CASE line.kind = "instr"
  BY <1>1, <1>5, StepsEndOnce DEF Follows
<1>6. CASE line.kind \notin {".org", ".space", ".db", "instr"}
  BY <1>6 DEF Follows
<1> QED
  BY <1>2, <1>3, <1>4, <1>5, <1>6

(***************************************************************************)
(* What a line that the visitor goes past does to the program counter.     *)
(***************************************************************************)
NamelessMoves ==
  \A i \in LinesOf(".org") \cup LinesOf(".space") : NamesIn(source[i].expr) = {}

\* The visitor goes on to the next line, behind this one.
GoesOn ==
  /\ at' = at + 1
  /\ status' = status
  /\ UNCHANGED <<file, source, pass>>
  /\ Follows(at, pc.curr, pc'.curr)
  /\ IsPc(pc')

Ends == status' \in {"error", "crashed"}

LEMMA OtherKinds ==
  \A kind \in {"{", "}", "label"} :
    OnLine(kind) => source[at].kind \notin {".org", ".space", ".db", "instr"}
BY Zenon DEF OnLine, Line

\* A brace or a label.
LEMMA OtherLines ==
  (EnterScope \/ LeaveScope \/ VisitLabel) /\ IsPc(pc) => GoesOn \/ Ends
<1> SUFFICES ASSUME EnterScope \/ LeaveScope \/ VisitLabel, IsPc(pc), ~Ends
             PROVE  GoesOn
  OBVIOUS
<1>1. \E kind \in {"{", "}", "label"} : OnLine(kind)
  BY Zenon DEF EnterScope, LeaveScope, VisitLabel
<1>2. Follows(at, pc.curr, pc.curr)
  BY <1>1, OtherKinds DEF Follows
<1>3. Continue /\ pc' = pc
  BY DEF EnterScope, LeaveScope, VisitLabel, Exit, Ends
<1> QED
  BY <1>2, <1>3 DEF GoesOn, Continue, Input

\* The value of an expression without names is the same in both passes.
LEMMA FixedValue ==
  ASSUME pass \in {0, 1}, NEW expr, IsExpr(expr), NamesIn(expr) = {}, NEW here,
         ~Failed(Value(expr, here))
  PROVE  Value(expr, here).num = Fixed(expr, here)
<1> DEFINE addr == [name \in NamesIn(expr) |-> AddressOf(name)]
<1>1. addr = [name \in {} |-> 0]
  OBVIOUS
<1>2. Value(expr, here) = Evaluate(expr, pass = 1, here, addr)
  BY DEF Value
<1> HIDE DEF addr
<1>3. CASE pass = 0
  <2>1. (pass = 1) = FALSE
    BY <1>3
  <2>2. Value(expr, here) = Evaluate(expr, FALSE, here, addr)
    BY <1>2, <2>1, Zenon
  <2> QED
    BY <1>1, <2>2, Zenon DEF Fixed
<1>4. CASE pass = 1
  <2>1. (pass = 1) = TRUE
    BY <1>4
  <2>2. Value(expr, here) = Evaluate(expr, TRUE, here, addr)
    BY <1>2, <2>1, Zenon
  <2>3. Evaluate(expr, FALSE, here, addr).num = Evaluate(expr, TRUE, here, addr).num
    BY <2>2, LastPassAgrees
  <2> QED
    BY <1>1, <2>2, <2>3 DEF Fixed
<1> QED
  BY <1>3, <1>4

\* A .org or .space, which must have the same value in both passes.
LEMMA MovingLines ==
  ASSUME pass \in {0, 1}, IsLine(source[at]), NamelessMoves, IsPc(pc),
         VisitDotOrg \/ VisitDotSpace
  PROVE  GoesOn \/ Ends
<1> DEFINE expr == source[at].expr
           value == Value(expr, pc.curr)
<1>1. /\ at \in Lines
      /\ \/ source[at].kind = ".org" /\ MovePc(0)
         \/ source[at].kind = ".space" /\ MovePc(pc.curr)
  BY DEF VisitDotOrg, VisitDotSpace, OnLine, Line, Lines
<1>2. IsExpr(expr) /\ NamesIn(expr) = {}
  BY <1>1 DEF IsLine, NamelessMoves, LinesOf
<1>3. CASE Failed(value)
  BY <1>1, <1>3 DEF MovePc, Line, Exit, Ends, Failed
<1>4. CASE ~Failed(value)
  <2>1. value.num = Fixed(expr, pc.curr)
    BY <1>2, <1>4, FixedValue
  <2>2. \A start : MovePc(start) => /\ pc' = [pc EXCEPT !.curr = start + value.num]
                                    /\ Continue
    BY <1>4 DEF MovePc, Line
  <2> HIDE DEF value, expr
  <2>3. \A x : LET p == [pc EXCEPT !.curr = x] IN p.curr = x /\ IsPc(p)
    BY DEF IsPc
  <2>4. ASSUME NEW start, MovePc(start)
        PROVE  pc'.curr = start + value.num /\ IsPc(pc') /\ Continue
    BY <2>2, <2>3, <2>4
  <2>5. CASE source[at].kind = ".org" /\ MovePc(0)
    <3>1. Follows(at, pc.curr, pc'.curr)
      BY <2>1, <2>4, <2>5 DEF Follows, expr
    <3> QED
      BY <2>4, <2>5, <3>1 DEF GoesOn, Continue, Input
  <2>6. CASE source[at].kind = ".space" /\ MovePc(pc.curr)
    <3>1. Follows(at, pc.curr, pc'.curr)
      BY <2>1, <2>4, <2>6 DEF Follows, expr
    <3> QED
      BY <2>4, <2>6, <3>1 DEF GoesOn, Continue, Input
  <2> QED
    BY <1>1, <2>5, <2>6
<1> QED
  BY <1>3, <1>4

LEMMA DataLine ==
  ASSUME IsLine(source[at]), IsPc(pc), VisitDotDb
  PROVE  GoesOn \/ Ends
<1> DEFINE line == source[at]
           end  == GenConstants(line.exprs, line.size)
<1>1. /\ line.kind = ".db" /\ pc' = end.pc
      /\ IF Failed(end) THEN status' = end.status ELSE Continue
  BY DEF VisitDotDb, OnLine, Line
<1>2. line.size \in {1, 2, 4} /\ Len(line.exprs) \in Nat
  BY <1>1, Zenon DEF IsLine
<1>3. CASE Failed(end)
  BY <1>1, <1>3 DEF Ends, Failed
<1>4. CASE ~Failed(end)
  <2>1. Steps(pc.curr, line.size, Len(line.exprs), end.pc.curr) /\ IsPc(end.pc)
    BY <1>2, <1>4, GenConstantsMoves
  <2> HIDE DEF end
  <2>2. Follows(at, pc.curr, pc'.curr)
    BY <1>1, <2>1 DEF Follows
  <2> QED
    BY <1>1, <1>4, <2>1, <2>2 DEF GoesOn, Continue, Input
<1> QED
  BY <1>3, <1>4

LEMMA InstructionLine ==
  ASSUME IsLine(source[at]), IsPc(pc), VisitInstruction
  PROVE  GoesOn \/ Ends
<1> DEFINE text  == source[at].text
           value == Value(source[at].expr, pc.curr)
           given == [text EXCEPT !.imm = value.num]
           words == Words(given, pc.curr)
           end   == GenWords(words)
<1>1. /\ source[at].kind = "instr"
      /\ text = Text(text.name, text.args, text.ra, text.rb, text.rc, text.imm)
  BY DEF VisitInstruction, OnLine, Line, IsLine
<1>2. \/ \E how \in {"error", "crashed"} : status' = how
      \/ ~Eek(text) /\ pc' = end.pc /\ Continue
  <2> HIDE DEF words
  <2> QED
    BY DEF VisitInstruction, Line, Exit, Failed, words
<1>3. CASE \E how \in {"error", "crashed"} : status' = how
  BY <1>3 DEF Ends
<1>4. CASE ~Eek(text) /\ pc' = end.pc /\ Continue
  <2>1. given.name = text.name /\ given.args = text.args
    BY <1>1 DEF Text
  <2> HIDE DEF given
  <2>2. ~Eek(given) /\ SizeOf(given) = SizeOf(text)
    BY <1>4, <2>1 DEF Eek, SizeOf
  <2>3. Sized(Expand(given), SizeOf(text)) /\ SizeOf(text) \in Nat
    BY <2>2, ExpandSize
  <2>4. Len(words) = SizeOf(text)
    BY <2>3 DEF Words, Sized
  <2> HIDE DEF words
  <2>5. Steps(pc.curr, 4, SizeOf(text), end.pc.curr) /\ IsPc(end.pc)
    BY <2>3, <2>4, GenWordsMoves
  <2> HIDE DEF end
  <2>6. Follows(at, pc.curr, pc'.curr)
    BY <1>1, <1>4, <2>5 DEF Follows
  <2> QED
    BY <1>4, <2>5, <2>6 DEF GoesOn, Continue, Input
<1> QED
  BY <1>2, <1>3, <1>4

(***************************************************************************)
(* Looking a name up.                                                      *)
(***************************************************************************)
\* Every node but the first has its parent before it.
Upwards(tr) == \A n \in 2 .. Len(tr) : tr[n].parent \in 1 .. n - 1

Searches(R, tr, name, m) ==
  R = [n \in 1 .. m |-> IF n = Tree THEN NullPtr
                        ELSE IF name \in DOMAIN tr[n].table THEN n
                        ELSE R[tr[n].parent]]

\* The search is well defined.
LEMMA FindIs ==
  ASSUME NEW tr, Len(tr) \in Nat, Upwards(tr), NEW node \in 1 .. Len(tr), NEW name
  PROVE  \E R : Searches(R, tr, name, node) /\ Find(tr, node, name) = R[node]
<1> DEFINE S == {m \in Nat : m <= node => \E R : Searches(R, tr, name, m)}
<1>1. 0 \in S
  <2>1. Searches([n \in 1 .. 0 |-> 0], tr, name, 0)
    BY DEF Searches
  <2> QED
    BY <2>1
<1>2. ASSUME NEW m \in Nat, m \in S PROVE m + 1 \in S
  <2> SUFFICES ASSUME m + 1 <= node PROVE \E R : Searches(R, tr, name, m + 1)
    OBVIOUS
  <2>1. PICK Q : Searches(Q, tr, name, m)
    BY <1>2
  <2> DEFINE R == [n \in 1 .. m + 1 |->
                     IF n = m + 1
                     THEN IF n = Tree THEN NullPtr
                          ELSE IF name \in DOMAIN tr[n].table THEN n
                          ELSE Q[tr[n].parent]
                     ELSE Q[n]]
  <2>2. ASSUME NEW n \in 1 .. m + 1
        PROVE  R[n] = IF n = Tree THEN NullPtr
                      ELSE IF name \in DOMAIN tr[n].table THEN n
                      ELSE R[tr[n].parent]
    <3>1. n # Tree => tr[n].parent \in 1 .. m
      BY DEF Upwards, Tree
    <3>2. n # Tree => R[tr[n].parent] = Q[tr[n].parent]
      BY <3>1
    <3>3. CASE n = m + 1
      BY <3>2, <3>3
    <3>4. CASE n # m + 1
      <4>1. n \in 1 .. m
        BY <3>4
      <4>2. R[n] = Q[n]
        BY <4>1
      <4> HIDE DEF R
      <4> QED
        BY <2>1, <3>2, <4>1, <4>2 DEF Searches
    <3> QED
      BY <3>3, <3>4
  <2>3. Searches(R, tr, name, m + 1)
    <3> HIDE DEF S
    <3>1. R = [n \in 1 .. m + 1 |-> R[n]]
      OBVIOUS
    <3> HIDE DEF R
    <3> QED
      BY <2>2, <3>1 DEF Searches
  <2> HIDE DEF R
  <2> QED
    BY <2>3
<1> HIDE DEF S
<1>3. node \in S
  BY <1>1, <1>2, Induction
<1>4. \E R : Searches(R, tr, name, node)
  BY <1>3 DEF S
<1> DEFINE Search[n \in Tree .. node] ==
             IF n = Tree THEN NullPtr
             ELSE IF name \in DOMAIN tr[n].table THEN n
             ELSE Search[tr[n].parent]
<1>5. Find(tr, node, name) = Search[node]
  BY DEF Find
<1>6. Search = CHOOSE R : Searches(R, tr, name, node)
  BY DEF Searches, Tree
<1> HIDE DEF Search
<1> QED
  BY <1>4, <1>5, <1>6

\* A name of this node is found here.
LEMMA FindHere ==
  ASSUME NEW tr, Len(tr) \in Nat, Upwards(tr), NEW node \in 2 .. Len(tr),
         NEW name \in DOMAIN tr[node].table
  PROVE  Find(tr, node, name) = node
BY FindIs DEF Searches, Tree

\* A name that is in no scope around a place is not found from there.
LEMMA FindNowhere ==
  ASSUME WellNested, NEW l \in Places, NEW tr, TreeOf(tr, l), Upwards(tr), NEW name,
         \A s \in Around(l) \cup {0} : name \notin DOMAIN tr[NodeOf(s)].table
  PROVE  Find(tr, NodeOf(ScopeOf(l)), name) = NullPtr
<1> DEFINE node == NodeOf(ScopeOf(l))
<1>1. Len(tr) \in Nat /\ Len(tr) = NodeOf(l - 1) /\ ParentsAre(tr, l)
  BY DEF TreeOf, IsTree
<1>2. l \in Nat
  BY DEF Places, WellNested, Finite
<1>3. \A i \in Places : i <= l => ScopeOf(i) \in Before(l)
  BY <1>2, Scopes DEF Before, Places, WellNested, Finite
<1>4. node \in 1 .. Len(tr)
  BY <1>1, <1>2, <1>3, InTree
<1> HIDE DEF node
<1>5. PICK R : Searches(R, tr, name, node) /\ Find(tr, node, name) = R[node]
  BY <1>1, <1>4, FindIs
<1> DEFINE Absent(i) ==
             \A s \in Around(i) \cup {0} : name \notin DOMAIN tr[NodeOf(s)].table
           Inner(i) == i \in Places /\ i <= l /\ NodeOf(ScopeOf(i)) <= node /\ Absent(i)
           S == {m \in Nat : \A i \in Places :
                               i <= m /\ Inner(i) => R[NodeOf(ScopeOf(i))] = NullPtr}
<1>6. 0 \in S
  BY DEF Places
<1>7. ASSUME NEW m \in Nat, m \in S PROVE m + 1 \in S
  <2> SUFFICES ASSUME NEW i \in Places, i <= m + 1, Inner(i)
               PROVE  R[NodeOf(ScopeOf(i))] = NullPtr
    OBVIOUS
  <2> DEFINE s == ScopeOf(i)
  <2>1. s \in Before(l) /\ NodeOf(s) \in 1 .. node /\ NodeOf(s) >= 2
    BY <1>1, <1>2, <1>3, <1>4, InTree, Nodes DEF Global
  <2>2. NodeOf(s) # Tree /\ NodeOf(s) \in 2 .. Len(tr)
    BY <1>1, <1>4, <2>1 DEF Tree
  <2>3. Innermost(i)
    BY EveryPlace
  <2>4. CASE s = 0
    <3>1. NodeOf(s) = 2 /\ name \notin DOMAIN tr[2].table
      BY <2>4, Nodes DEF Global
    <3>2. tr[2].parent = 1
      BY <2>2, <3>1 DEF Upwards
    <3>3. 1 \in 1 .. node /\ 2 \in 1 .. node
      BY <1>1, <1>4, <2>1, <3>1
    <3>4. R[1] = NullPtr
      BY <1>5, <3>3, Zenon DEF Searches, Tree
    <3>5. R[2] = R[1]
      BY <1>5, <3>1, <3>2, <3>3 DEF Searches, Tree
    <3> QED
      BY <3>1, <3>4, <3>5
  <2>5. CASE s # 0
    <3>1. s \in Opens /\ s < i /\ Around(i) = Around(s) \cup {s} /\ s \in Places
      BY <2>3, <2>5 DEF Innermost, Opens, Places, WellNested, Finite
    <3>2. name \notin DOMAIN tr[NodeOf(s)].table
      BY <3>1
    <3>3. tr[NodeOf(s)].parent = NodeOf(ScopeOf(s))
      BY <1>1, <2>1, <2>5 DEF ParentsAre
    <3>4. R[NodeOf(s)] = R[NodeOf(ScopeOf(s))]
      BY <1>5, <2>1, <2>2, <3>2, <3>3 DEF Searches
    <3>5. s <= m /\ s <= l
      BY <1>2, <3>1 DEF Places, WellNested, Finite
    <3>6. NodeOf(ScopeOf(s)) <= node
      <4>1. tr[NodeOf(s)].parent \in 1 .. NodeOf(s) - 1
        BY <2>2 DEF Upwards
      <4> QED
        BY <1>4, <2>1, <3>3, <4>1
    <3>7. Absent(s)
      BY <3>1
    <3>8. Inner(s)
      BY <3>1, <3>5, <3>6, <3>7
    <3> HIDE DEF Inner
    <3>9. R[NodeOf(ScopeOf(s))] = NullPtr
      BY <1>7, <3>1, <3>5, <3>8
    <3> QED
      BY <3>4, <3>9
  <2> QED
    BY <2>4, <2>5
<1> HIDE DEF S
<1>8. l \in S
  BY <1>2, <1>6, <1>7, Induction
<1>9. Inner(l)
  BY <1>2, <1>4 DEF node
<1>10. R[node] = NullPtr
  BY <1>2, <1>8, <1>9 DEF S, node
<1> QED
  BY <1>5, <1>10 DEF node

(***************************************************************************)
(* The tables: each label that has been visited is in the node of its      *)
(* scope, and nothing else is in a table.                                  *)
(***************************************************************************)
IsFunction(f) == f = [x \in DOMAIN f |-> f[x]]

Entry(addr) == [addr |-> addr, found_as_label |-> TRUE]

Home(d) == NodeOf(ScopeOf(d))

Holds(table, name, addr) == name \in DOMAIN table /\ table[name] = Entry(addr)

TablesAre(tr, D, A) ==
  /\ \A n \in 1 .. Len(tr) : IsFunction(tr[n].table)
  /\ \A d \in D : Holds(tr[Home(d)].table, source[d].name, A[d])
  /\ \A n \in 1 .. Len(tr) : \A name \in DOMAIN tr[n].table :
       \E d \in D : source[d].name = name /\ Home(d) = n

\* The tables in a tree with a new node, and with a label.
LEMMA MkScopeTables ==
  ASSUME NEW tr, IsTree(tr), NEW node \in 1 .. Len(tr),
         NEW new, new = MkScope(tr, node)
  PROVE  /\ \A n \in 1 .. Len(tr) : new[n].table = tr[n].table
         /\ new[Len(tr) + 1].table = <<>>
<1>0. PICK T : tr \in Seq(NodeIn(T))
  BY DEF IsTree
<1> DEFINE c == Append(tr[node].children, Len(tr) + 1)
           changed == [tr EXCEPT ![node].children = c]
<1>1. Len(tr) \in Nat /\ \A n \in 1 .. Len(tr) : tr[n] \in NodeIn(T)
  BY <1>0
<1> HIDE DEF c
<1>2. changed = [n \in 1 .. Len(tr) |->
                   IF n = node THEN [tr[n] EXCEPT !.children = c] ELSE tr[n]]
  BY <1>0, <1>1
<1> HIDE DEF changed
<1>3. \A n \in 1 .. Len(tr) : changed[n].table = tr[n].table
  BY <1>1, <1>2 DEF NodeIn
<1>4. Len(changed) = Len(tr)
  BY <1>1, <1>2
<1>5. new = Append(changed, NewNode(node))
  BY DEF MkScope, changed, c
<1>6. /\ new[Len(tr) + 1] = NewNode(node)
      /\ \A n \in 1 .. Len(tr) : new[n] = changed[n]
  BY <1>1, <1>4, <1>5
<1> QED
  BY <1>3, <1>6 DEF NewNode

LEMMA BindTables ==
  ASSUME NEW tr, IsTree(tr), NEW node, NEW name, NEW addr,
         NEW f, f = FindOrInsert(tr, node, name),
         NEW new, new = Bind(tr, node, name, addr)
  PROVE  /\ \A n \in 1 .. Len(tr) : n # f => new[n] = tr[n]
         /\ f \in 1 .. Len(tr) =>
              /\ DOMAIN new[f].table = {name} \cup DOMAIN tr[f].table
              /\ IsFunction(new[f].table)
              /\ Holds(new[f].table, name, addr)
              /\ \A other \in DOMAIN tr[f].table \ {name} :
                   new[f].table[other] = tr[f].table[other]
         /\ f \in 1 .. Len(tr) /\ IsFunction(tr[f].table)
              /\ Holds(tr[f].table, name, addr) => new = tr
<1>0. PICK T : tr \in Seq(NodeIn(T))
  BY DEF IsTree
<1> DEFINE t == WithSymbol(tr[f].table, name, Entry(addr))
<1>1. Len(tr) \in Nat /\ \A n \in 1 .. Len(tr) : tr[n] \in NodeIn(T)
  BY <1>0
<1>2. new = [tr EXCEPT ![f].table = t]
  BY DEF Bind, Entry
<1>3. t = [x \in {name} \cup DOMAIN tr[f].table |->
             IF x = name THEN Entry(addr) ELSE tr[f].table[x]]
  BY DEF WithSymbol
<1>4. /\ DOMAIN t = {name} \cup DOMAIN tr[f].table
      /\ IsFunction(t) /\ Holds(t, name, addr)
      /\ \A other \in DOMAIN tr[f].table \ {name} : t[other] = tr[f].table[other]
  BY <1>3 DEF IsFunction, Holds
<1>5. IsFunction(tr[f].table) /\ Holds(tr[f].table, name, addr) => t = tr[f].table
  BY <1>3 DEF IsFunction, Holds
<1> HIDE DEF t
<1>6. new = [n \in 1 .. Len(tr) |->
               IF n = f THEN [tr[n] EXCEPT !.table = t] ELSE tr[n]]
  <2>1. DOMAIN tr = 1 .. Len(tr)
    BY <1>0
  <2>2. new = [n \in DOMAIN tr |->
                 IF n = f THEN [tr[n] EXCEPT !.table = t] ELSE tr[n]]
    BY <1>2, Zenon
  <2> QED
    BY <2>1, <2>2
<1>7. f \in 1 .. Len(tr) => new[f].table = t
  BY <1>1, <1>6 DEF NodeIn
<1>8. f \in 1 .. Len(tr) /\ t = tr[f].table => new = tr
  <2> SUFFICES ASSUME f \in 1 .. Len(tr), t = tr[f].table PROVE new = tr
    OBVIOUS
  <2>1. [tr[f] EXCEPT !.table = t] = tr[f]
    BY <1>1 DEF NodeIn
  <2>2. tr = [n \in 1 .. Len(tr) |-> tr[n]]
    BY <1>0
  <2> QED
    BY <1>6, <2>1, <2>2
<1> QED
  BY <1>4, <1>5, <1>6, <1>7, <1>8

LEMMA FreshTables ==
  Upwards(EmptyTable) /\ \A A : TablesAre(EmptyTable, {}, A)
<1> DEFINE root == <<NewNode(NullPtr)>>
<1>1. IsTree(root) /\ Len(root) = 1
  <2>1. NewNode(NullPtr) \in NodeIn({<<>>})
    BY DEF NewNode, NodeIn, NullPtr
  <2>2. root \in Seq(NodeIn({<<>>}))
    BY <2>1
  <2> QED
    BY <2>2 DEF IsTree
<1>2. root[1].table = <<>>
  BY DEF NewNode
<1>3. EmptyTable = MkScope(root, 1)
  BY DEF EmptyTable, Tree
<1> HIDE DEF root
<1>4. Made(EmptyTable, root, 1)
  BY <1>1, <1>3, MkScopeIs
<1>5. Len(EmptyTable) = 2 /\ EmptyTable[2].parent = 1
  BY <1>1, <1>4 DEF Made
<1>6. EmptyTable[1].table = <<>> /\ EmptyTable[2].table = <<>>
  BY <1>1, <1>2, <1>3, MkScopeTables
<1>7. IsFunction(<<>>) /\ DOMAIN <<>> = {}
  BY DEF IsFunction
<1> QED
  BY <1>5, <1>6, <1>7 DEF Upwards, TablesAre

\* The labels before place l.
LabelsBefore(l) == {d \in LinesOf("label") : d < l}

\* The scope of a label has its node.
LEMMA HomeIs ==
  ASSUME WellNested, NEW l \in Places, NEW tr, TreeOf(tr, l), NEW d \in LabelsBefore(l)
  PROVE  /\ ScopeOf(d) \in Before(l) /\ Home(d) \in 1 .. Len(tr)
         /\ d \in Places /\ d \in Lines /\ d < l
<1>1. d \in Places /\ d < l /\ d \in Int /\ l \in Int /\ d \in Lines
  BY DEF LabelsBefore, LinesOf, Places, WellNested, Finite
<1>2. ScopeOf(d) \in {0} \cup Opens /\ ScopeOf(d) < d /\ ScopeOf(d) \in Int
  BY <1>1, Scopes
<1>3. ScopeOf(d) \in Before(l)
  BY <1>1, <1>2 DEF Before
<1> QED
  BY <1>1, <1>3, InTree DEF TreeOf, Home

\* A new scope has no symbols yet.
LEMMA TablesBehindOpen ==
  ASSUME WellNested, NEW l \in Places, NEW tr, TreeOf(tr, l), Upwards(tr), NEW A,
         TablesAre(tr, LabelsBefore(l), A), NEW node \in 1 .. Len(tr),
         NEW new, new = MkScope(tr, node)
  PROVE  Upwards(new) /\ TablesAre(new, LabelsBefore(l), A)
<1>1. /\ Len(tr) \in Nat /\ Len(new) = Len(tr) + 1
      /\ \A n \in 1 .. Len(tr) : new[n].parent = tr[n].parent
      /\ new[Len(tr) + 1].parent = node
  <2>1. IsTree(tr) /\ Made(new, tr, node)
    BY MkScopeIs DEF TreeOf
  <2>2. Len(tr) \in Nat
    BY <2>1 DEF IsTree
  <2> QED
    BY <2>1, <2>2 DEF Made
<1>2. /\ \A n \in 1 .. Len(tr) : new[n].table = tr[n].table
      /\ new[Len(tr) + 1].table = <<>>
  BY MkScopeTables DEF TreeOf
<1>3. \A n \in 1 .. Len(new) : n \in 1 .. Len(tr) \/ n = Len(tr) + 1
  BY <1>1
<1>4. Upwards(new)
  <2> SUFFICES ASSUME NEW n \in 2 .. Len(new) PROVE new[n].parent \in 1 .. n - 1
    BY DEF Upwards
  <2>1. CASE n = Len(tr) + 1
    BY <1>1, <2>1
  <2>2. CASE n # Len(tr) + 1
    <3>1. n \in 2 .. Len(tr) /\ n \in 1 .. Len(tr)
      BY <1>1, <2>2
    <3> QED
      BY <1>1, <3>1 DEF Upwards
  <2> QED
    BY <2>1, <2>2
<1>5. \A d \in LabelsBefore(l) : Home(d) \in 1 .. Len(tr)
  BY HomeIs
<1>6. IsFunction(<<>>) /\ DOMAIN <<>> = {}
  BY DEF IsFunction
<1>7. TablesAre(new, LabelsBefore(l), A)
  BY <1>2, <1>3, <1>5, <1>6 DEF TablesAre
<1> QED
  BY <1>4, <1>7

\* In the first pass, the symbol of a label that none of the same name is above,
\* in its scope or around it, is put into its scope.
LEMMA TablesBehindLabel ==
  ASSUME WellNested, NEW l \in LinesOf("label"), NEW tr, TreeOf(tr, l), Upwards(tr),
         NEW A, TablesAre(tr, LabelsBefore(l), A),
         source[l].name \notin DOMAIN tr[Home(l)].table,
         \A d \in LabelsBefore(l) :
           source[d].name = source[l].name /\ ScopeOf(d) \in Around(l) \cup {0}
             => ScopeOf(d) = ScopeOf(l),
         NEW new, new = Bind(tr, Home(l), source[l].name, A[l])
  PROVE  Upwards(new) /\ TablesAre(new, LabelsBefore(l + 1), A)
<1> DEFINE name == source[l].name
           D    == LabelsBefore(l)
           f    == FindOrInsert(tr, Home(l), name)
<1>0. /\ l \in Places /\ l \in Lines /\ l \in Int
      /\ LabelsBefore(l + 1) = D \cup {l}
  BY DEF LabelsBefore, LinesOf, Places, WellNested, Finite
<1>1. /\ IsTree(tr) /\ Len(tr) \in Nat /\ Home(l) \in 1 .. Len(tr)
      /\ ScopeOf(l) \in Before(l)
  <2>1. ScopeOf(l) \in Before(l)
    BY <1>0, Scopes DEF Before
  <2> QED
    BY <1>0, <2>1, InTree DEF TreeOf, IsTree, Home
<1>2. \A s \in Around(l) \cup {0} : name \notin DOMAIN tr[NodeOf(s)].table
  <2> SUFFICES ASSUME NEW s \in Around(l) \cup {0}, name \in DOMAIN tr[NodeOf(s)].table
               PROVE  FALSE
    OBVIOUS
  <2>1. s \in Before(l)
    BY <1>0, Scopes DEF Before
  <2>2. NodeOf(s) \in 1 .. Len(tr)
    BY <1>0, <2>1, InTree DEF TreeOf
  <2>3. PICK d \in D : source[d].name = name /\ Home(d) = NodeOf(s)
    BY <2>2 DEF TablesAre
  <2>4. ScopeOf(d) = s
    BY <1>0, <2>1, <2>3, HomeIs, InTree DEF Home
  <2>5. Home(d) = Home(l)
    BY <2>3, <2>4 DEF Home
  <2>6. name \in DOMAIN tr[Home(d)].table
    BY <2>3 DEF TablesAre, Holds
  <2> QED
    BY <2>5, <2>6
<1>3. f = Home(l)
  BY <1>0, <1>2, FindNowhere DEF FindOrInsert, Home
<1> HIDE DEF f, name, D
<1>4. /\ Len(new) = Len(tr)
      /\ \A n \in 1 .. Len(tr) : new[n].parent = tr[n].parent
  BY <1>1, BindIs DEF name
<1>5. /\ \A n \in 1 .. Len(tr) : n # f => new[n].table = tr[n].table
      /\ DOMAIN new[f].table = {name} \cup DOMAIN tr[f].table
      /\ IsFunction(new[f].table)
      /\ Holds(new[f].table, name, A[l])
      /\ \A other \in DOMAIN tr[f].table \ {name} :
           new[f].table[other] = tr[f].table[other]
  BY <1>1, <1>3, BindTables DEF f, name
<1>6. name \notin DOMAIN tr[f].table
  BY <1>3 DEF name
<1>7. \A d \in D : Home(d) \in 1 .. Len(tr)
  BY <1>0, HomeIs DEF D
<1>8. TablesAre(tr, D, A)
  BY DEF D
<1>9. \A d \in D : Holds(new[Home(d)].table, source[d].name, A[d])
  <2> SUFFICES ASSUME NEW d \in D PROVE Holds(new[Home(d)].table, source[d].name, A[d])
    OBVIOUS
  <2>1. Holds(tr[Home(d)].table, source[d].name, A[d])
    BY <1>8 DEF TablesAre
  <2>2. CASE Home(d) = f
    BY <1>5, <1>6, <2>1, <2>2 DEF Holds
  <2>3. CASE Home(d) # f
    BY <1>5, <1>7, <2>1, <2>3
  <2> QED
    BY <2>2, <2>3
<1>10. Holds(new[Home(l)].table, source[l].name, A[l])
  BY <1>3, <1>5 DEF name
<1>11. \A n \in 1 .. Len(new) : IsFunction(new[n].table)
  BY <1>4, <1>5, <1>8 DEF TablesAre
<1>12. \A n \in 1 .. Len(new) : \A other \in DOMAIN new[n].table :
         \E d \in D \cup {l} : source[d].name = other /\ Home(d) = n
  BY <1>3, <1>4, <1>5, <1>8, SMTT(60) DEF TablesAre, name
<1>13. TablesAre(new, D \cup {l}, A)
  BY <1>9, <1>10, <1>11, <1>12 DEF TablesAre
<1>14. Upwards(new)
  BY <1>4 DEF Upwards
<1> QED
  BY <1>0, <1>13, <1>14 DEF D

\* In the second pass it is there.
LEMMA LabelStays ==
  ASSUME WellNested, NEW l \in LinesOf("label"), NEW tr, TreeOf(tr, End), Upwards(tr),
         NEW A, TablesAre(tr, LinesOf("label"), A)
  PROVE  Bind(tr, Home(l), source[l].name, A[l]) = tr
<1> DEFINE name == source[l].name
           f    == FindOrInsert(tr, Home(l), name)
<1>1. End \in Places /\ l \in LabelsBefore(End)
  BY DEF End, Places, LabelsBefore, LinesOf, WellNested, Finite
<1>2. Home(l) \in 1 .. Len(tr) /\ IsTree(tr) /\ Len(tr) \in Nat
  BY <1>1, HomeIs DEF TreeOf, IsTree
<1>3. Home(l) \in 2 .. Len(tr)
  BY <1>1, <1>2, HomeIs, InTree, Nodes DEF Home, Global
<1>4. Holds(tr[Home(l)].table, name, A[l]) /\ IsFunction(tr[Home(l)].table)
  BY <1>2 DEF TablesAre
<1>5. f = Home(l)
  BY <1>2, <1>3, <1>4, FindHere DEF Holds, FindOrInsert
<1> HIDE DEF f
<1> QED
  BY <1>2, <1>4, <1>5, BindTables DEF f

(***************************************************************************)
(* The addresses of the lines are the same in both passes.                 *)
(***************************************************************************)
Labels == LinesOf("label")

\* A gives each line up to place l its address.
AddressesTo(A, l) ==
  A[1] = 0 /\ \A i \in 1 .. l - 1 : Follows(i, A[i], A[i + 1])

KeptBy(A) ==
  IF pass = 0
  THEN AddressesTo(A, at) /\ A[at] = pc.curr /\ TablesAre(tree, LabelsBefore(at), A)
  ELSE AddressesTo(A, End) /\ A[at] = pc.curr /\ TablesAre(tree, Labels, A)

Kept ==
  status \in {"parsing", "running"} =>
    /\ \A i \in Lines : IsLine(source[i])
    /\ IsPc(pc)
    /\ Upwards(tree)
    /\ \E A : KeptBy(A)

\* No label comes behind one of the same name in a scope around it.
Unshadowed ==
  \A d, e \in Labels :
    d < e /\ source[d].name = source[e].name /\ ScopeOf(d) \in Around(e) \cup {0}
      => ScopeOf(d) = ScopeOf(e)

LEMMA StillKept ==
  ASSUME source' = source
  PROVE  /\ Labels' = Labels
         /\ \A l : LabelsBefore(l)' = LabelsBefore(l)
         /\ \A A, l : AddressesTo(A, l)' <=> AddressesTo(A, l)
         /\ \A tr, D, A : TablesAre(tr, D, A)' <=> TablesAre(tr, D, A)
<1>1. Lines' = Lines /\ \A i : ScopeOf(i)' = ScopeOf(i) /\ NodeOf(i)' = NodeOf(i)
  BY Still
<1>2. Labels' = Labels
  BY <1>1 DEF Labels, LinesOf
<1>3. \A l : LabelsBefore(l)' = LabelsBefore(l)
  BY <1>2 DEF Labels, LabelsBefore
<1>4. \A i, a, b : Follows(i, a, b)' <=> Follows(i, a, b)
  BY DEF Follows
<1>5. \A A, l : AddressesTo(A, l)' <=> AddressesTo(A, l)
  BY <1>4 DEF AddressesTo
<1>6. \A d : Home(d)' = Home(d)
  BY <1>1 DEF Home
<1>7. \A tr, D, A : TablesAre(tr, D, A)' <=> TablesAre(tr, D, A)
  BY <1>6 DEF TablesAre
<1> QED
  BY <1>2, <1>3, <1>5, <1>7

LEMMA StartsKept == AInit => Kept
<1> SUFFICES ASSUME NEW input \in Sources, AStart(input)
             PROVE  Kept
  BY DEF AInit
<1> DEFINE A == [i \in {1} |-> 0]
<1>1. A[1] = 0 /\ pass = 0 /\ at = 1 /\ pc = FirstPc
     /\ tree = EmptyTable /\ source = <<>>
  BY DEF AStart
<1>2. Lines = {} /\ LabelsBefore(1) = {}
  BY <1>1 DEF Lines, LabelsBefore, LinesOf
<1>3. IsPc(pc) /\ pc.curr = 0
  BY <1>1 DEF FirstPc, IsPc
<1>4. KeptBy(A)
  BY <1>1, <1>2, <1>3, FreshTables DEF KeptBy, AddressesTo
<1> HIDE DEF A
<1> QED
  BY <1>1, <1>2, <1>3, <1>4, FreshTables DEF Kept

LEMMA SameEntries ==
  ASSUME NEW tr, NEW D, NEW A, NEW B, TablesAre(tr, D, A), \A d \in D : B[d] = A[d]
  PROVE  TablesAre(tr, D, B)
BY DEF TablesAre

\* Behind a line the addresses go on: in the first pass they are being found, in
\* the second they are the same again.
LEMMA AddressesGoOn ==
  ASSUME Replayed, at \in Lines, IsLine(source[at]), NEW A, KeptBy(A), GoesOn
  PROVE  \E B : /\ B[at + 1] = pc'.curr
                /\ AddressesTo(B, IF pass = 0 THEN at + 1 ELSE End)
                /\ \A i \in 1 .. at : B[i] = A[i]
                /\ pass # 0 => B = A
<1>1. at \in Nat /\ 0 < at /\ at < End /\ End \in Nat /\ A[at] = pc.curr
      /\ Follows(at, A[at], pc'.curr)
  BY DEF Replayed, WellNested, Finite, Places, End, GoesOn, KeptBy
<1>2. CASE pass = 0
  <2> DEFINE B == [i \in 1 .. at + 1 |-> IF i = at + 1 THEN pc'.curr ELSE A[i]]
  <2>1. B[at + 1] = pc'.curr /\ \A i \in 1 .. at : B[i] = A[i]
    BY <1>1
  <2> HIDE DEF B
  <2>2. AddressesTo(A, at)
    BY <1>2 DEF KeptBy
  <2>3. B[1] = 0
    BY <1>1, <2>1, <2>2 DEF AddressesTo
  <2>4. ASSUME NEW i \in 1 .. at PROVE Follows(i, B[i], B[i + 1])
    <3>1. CASE i = at
      BY <1>1, <2>1, <3>1
    <3>2. CASE i # at
      <4>1. i \in 1 .. at - 1 /\ i + 1 \in 1 .. at
        BY <1>1, <3>2
      <4> QED
        BY <2>1, <2>2, <4>1 DEF AddressesTo
    <3> QED
      BY <3>1, <3>2
  <2>5. (at + 1) - 1 = at
    BY <1>1
  <2>6. AddressesTo(B, at + 1)
    BY <2>3, <2>4, <2>5 DEF AddressesTo
  <2> QED
    BY <1>2, <2>1, <2>6
<1>3. CASE pass # 0
  <2>1. AddressesTo(A, End)
    BY <1>3 DEF KeptBy
  <2>2. Follows(at, A[at], A[at + 1])
    BY <1>1, <2>1 DEF AddressesTo
  <2>3. A[at + 1] = pc'.curr
    BY <1>1, <2>2, FollowsOnce
  <2> QED
    BY <1>3, <2>1, <2>3
<1> QED
  BY <1>2, <1>3

LEMMA NoLabel ==
  ASSUME WellNested, NEW l \in Lines, source[l].kind # "label"
  PROVE  LabelsBefore(l + 1) = LabelsBefore(l)
BY DEF LabelsBefore, LinesOf, WellNested, Finite

\* What the lines do to the tables.
LEMMA TablesBehind ==
  ASSUME Replayed, Unshadowed, Upwards(tree), NEW A, KeptBy(A), ~Ends,
         EnterScope \/ LeaveScope \/ VisitLabel \/ VisitInstruction \/ VisitDotOrg
           \/ VisitDotSpace \/ VisitDotDb
  PROVE  /\ at \in Lines
         /\ Upwards(tree')
         /\ pass = 0 => TablesAre(tree', LabelsBefore(at + 1), A)
         /\ pass = 1 => tree' = tree
<1>1. WellNested /\ at \in Places /\ curr_scope_node = Home(at)
  BY DEF Replayed, Home
<1>2. CASE EnterScope
  <2>1. at \in Lines /\ source[at].kind # "label"
    <3>1. at \in Lines /\ source[at].kind = "{"
      BY <1>2, Zenon DEF EnterScope, OnLine, Line, Lines
    <3>2. "{" # "label"
      BY Zenon
    <3> QED
      BY <3>1, <3>2, Zenon
  <2>2. CASE pass = 0
    <3>1. tree' = MkScope(tree, curr_scope_node)
      BY <1>2, <2>2 DEF EnterScope
    <3>2. TreeOf(tree, at) /\ TablesAre(tree, LabelsBefore(at), A)
      BY <2>2 DEF Replayed, KeptBy
    <3>3. Home(at) \in 1 .. Len(tree)
      <4>1. ScopeOf(at) \in Before(at)
        BY <1>1, Scopes DEF Before
      <4> QED
        BY <1>1, <3>2, <4>1, InTree DEF TreeOf, Home
    <3>4. Upwards(tree') /\ TablesAre(tree', LabelsBefore(at), A)
      BY <1>1, <3>1, <3>2, <3>3, TablesBehindOpen
    <3> QED
      BY <1>1, <2>1, <2>2, <3>4, NoLabel
  <2>3. CASE pass # 0
    BY <1>2, <2>1, <2>3 DEF EnterScope
  <2> QED
    BY <2>2, <2>3
<1>3. CASE VisitLabel
  <2> DEFINE name == Line.name
  <2>1. at \in Labels /\ name = source[at].name /\ at \in Lines
    BY <1>3 DEF VisitLabel, OnLine, Line, Labels, LinesOf, Lines
  <2>2. ~DuplicateLabel /\ tree' = Bind(tree, curr_scope_node, name, pc.curr)
    BY <1>3 DEF VisitLabel, Exit, Ends
  <2>3. A[at] = pc.curr
    BY DEF KeptBy
  <2>4. CASE pass = 0
    <3>1. TreeOf(tree, at) /\ TablesAre(tree, LabelsBefore(at), A)
      BY <2>4 DEF Replayed, KeptBy
    <3>2. Home(at) \in 1 .. Len(tree) /\ Home(at) # NullPtr
      <4>1. ScopeOf(at) \in Before(at)
        BY <1>1, Scopes DEF Before
      <4> QED
        BY <1>1, <3>1, <4>1, InTree DEF TreeOf, Home, NullPtr
    <3>3. name \notin DOMAIN tree[Home(at)].table
      <4> SUFFICES ASSUME name \in DOMAIN tree[Home(at)].table PROVE FALSE
        OBVIOUS
      <4>1. PICK d \in LabelsBefore(at) : source[d].name = name /\ Home(d) = Home(at)
        BY <3>1, <3>2 DEF TablesAre
      <4>2. Holds(tree[Home(at)].table, name, A[d])
        BY <3>1, <4>1 DEF TablesAre
      <4>3. tree[Home(at)].table[name].found_as_label = TRUE
        BY <4>2 DEF Holds, Entry
      <4>4. FindInThisBlkLev(tree, curr_scope_node, name) = Home(at)
        BY <1>1 DEF FindInThisBlkLev
      <4> QED
        BY <2>2, <2>4, <3>2, <4>3, <4>4 DEF DuplicateLabel
    <3>4. \A d \in LabelsBefore(at) :
            source[d].name = source[at].name /\ ScopeOf(d) \in Around(at) \cup {0}
              => ScopeOf(d) = ScopeOf(at)
      BY <2>1 DEF Unshadowed, LabelsBefore, Labels
    <3>5. tree' = Bind(tree, Home(at), source[at].name, A[at])
      BY <1>1, <2>1, <2>2, <2>3
    <3> QED
      BY <1>1, <2>1, <2>4, <3>1, <3>3, <3>4, <3>5, TablesBehindLabel DEF Labels
  <2>5. CASE pass # 0
    <3>1. TreeOf(tree, End) /\ TablesAre(tree, Labels, A)
      BY <2>5 DEF Replayed, KeptBy
    <3>2. tree' = tree
      BY <1>1, <2>1, <2>2, <2>3, <3>1, LabelStays DEF Labels
    <3> QED
      BY <2>1, <2>5, <3>2
  <2> QED
    BY <2>4, <2>5
<1>4. CASE LeaveScope \/ VisitInstruction \/ VisitDotOrg \/ VisitDotSpace \/ VisitDotDb
  <2>1. at \in Lines /\ source[at].kind # "label"
    <3>1. \E kind \in {"}", "instr", ".org", ".space", ".db"} : OnLine(kind)
      BY <1>4, Zenon DEF LeaveScope, VisitInstruction, VisitDotOrg, VisitDotSpace,
                         VisitDotDb
    <3>2. \A kind \in {"}", "instr", ".org", ".space", ".db"} : kind # "label"
      BY Zenon
    <3> QED
      BY <3>1, <3>2, Zenon DEF OnLine, Line, Lines
  <2>2. tree' = tree
    BY <1>4 DEF LeaveScope, VisitInstruction, VisitDotOrg, VisitDotSpace, VisitDotDb,
                MovePc, Unscoped, Exit
  <2>3. pass = 0 => TablesAre(tree, LabelsBefore(at), A)
    BY DEF KeptBy
  <2> QED
    BY <1>1, <2>1, <2>2, <2>3, NoLabel
<1> QED
  BY <1>2, <1>3, <1>4

LEMMA LineKept ==
  ASSUME Replayed, Kept, Unshadowed, NamelessMoves,
         EnterScope \/ LeaveScope \/ VisitLabel \/ VisitInstruction \/ VisitDotOrg
           \/ VisitDotSpace \/ VisitDotDb
  PROVE  Kept'
<1> SUFFICES ASSUME ~Ends PROVE Kept'
  BY DEF Kept, Ends
<1>1. status = "running"
  BY OnRunning DEF EnterScope, LeaveScope, VisitLabel, VisitInstruction, VisitDotOrg,
                   VisitDotSpace, VisitDotDb
<1>2. PICK A : KeptBy(A)
  BY <1>1 DEF Kept
<1>3. IsPc(pc) /\ Upwards(tree) /\ \A i \in Lines : IsLine(source[i])
  BY <1>1 DEF Kept
<1>4. WellNested /\ at \in Places /\ pass \in {0, 1}
  BY DEF Replayed
<1>5. /\ at \in Lines
      /\ Upwards(tree')
      /\ pass = 0 => TablesAre(tree', LabelsBefore(at + 1), A)
      /\ pass = 1 => tree' = tree
  BY <1>2, <1>3, TablesBehind
<1>6. GoesOn
  BY <1>3, <1>4, <1>5, OtherLines, MovingLines, DataLine, InstructionLine
<1>7. PICK B : /\ B[at + 1] = pc'.curr
               /\ AddressesTo(B, IF pass = 0 THEN at + 1 ELSE End)
               /\ \A i \in 1 .. at : B[i] = A[i]
               /\ pass # 0 => B = A
  BY <1>2, <1>3, <1>5, <1>6, AddressesGoOn
<1>8. \A d \in LabelsBefore(at + 1) : d \in 1 .. at
  BY <1>4, <1>5 DEF LabelsBefore, LinesOf, WellNested, Finite
<1>9. /\ source' = source /\ pass' = pass /\ at' = at + 1 /\ IsPc(pc')
  BY <1>6 DEF GoesOn
<1>10. KeptBy(B)'
  <2>1. CASE pass = 0
    <3>1. TablesAre(tree', LabelsBefore(at + 1), B)
      BY <1>5, <1>7, <1>8, <2>1, SameEntries
    <3> QED
      BY <1>7, <1>9, <2>1, <3>1, StillKept DEF KeptBy
  <2>2. CASE pass = 1
    <3>1. TablesAre(tree, Labels, B) /\ pass # 0
      BY <1>2, <1>7, <2>2 DEF KeptBy
    <3> QED
      BY <1>5, <1>7, <1>9, <2>2, <3>1, Still, StillKept DEF KeptBy
  <2> QED
    BY <1>4, <2>1, <2>2
<1>11. (\A i \in Lines : IsLine(source[i]))'
  BY <1>3, <1>9, Still
<1>12. Upwards(tree)'
  BY <1>5 DEF Upwards
<1> QED
  BY <1>9, <1>10, <1>11, <1>12 DEF Kept

LEMMA EndKept ==
  ASSUME Replayed, Kept, EndOfPass
  PROVE  Kept'
<1>1. /\ status = "running" /\ at = End
      /\ UNCHANGED <<file, source, tree>>
  BY DEF EndOfPass, Input, End
<1>2. CASE pass = 0
  <2>1. pass' = 1 /\ at' = 1 /\ pc' = FirstPc
    BY <1>2 DEF EndOfPass, StartOfPass
  <2>2. PICK A : KeptBy(A)
    BY <1>1 DEF Kept
  <2>3. IsPc(pc') /\ pc'.curr = 0
    BY <2>1 DEF FirstPc, IsPc
  <2>4. LabelsBefore(End) = Labels
    BY DEF Replayed, WellNested, Finite, LabelsBefore, Labels, LinesOf, End
  <2>5. /\ AddressesTo(A, End) /\ TablesAre(tree, Labels, A) /\ A[1] = 0
    BY <1>1, <1>2, <2>2, <2>4 DEF KeptBy, AddressesTo
  <2>6. KeptBy(A)'
    BY <1>1, <2>1, <2>3, <2>5, Still, StillKept DEF KeptBy
  <2>7. IsPc(pc)' /\ Upwards(tree)' /\ (\A i \in Lines : IsLine(source[i]))'
    BY <1>1, <2>3, Still DEF Kept, Upwards
  <2> QED
    BY <2>6, <2>7 DEF Kept
<1>3. CASE pass # 0
  BY <1>3 DEF EndOfPass, Kept
<1> QED
  BY <1>2, <1>3

LEMMA ParseKept ==
  ASSUME Replayed, Kept, Parse
  PROVE  Kept'
<1>1. IsLines(file) /\ \A i \in 1 .. Len(file) : IsLine(file[i])
  BY SourcesAssumption DEF Replayed, IsLines
<1>2. /\ source' = Parsed(file) /\ UNCHANGED <<pass, at, pc, tree>>
      /\ status = "parsing"
  BY DEF Parse
<1>3. /\ Len(source') \in Nat /\ DOMAIN source' = 1 .. Len(source')
      /\ \A i \in 1 .. Len(source') : i \in 1 .. Len(file) /\ source'[i] = file[i]
  BY <1>1, <1>2, ParsedIs, Zenon
<1>4. /\ pass = 0 /\ at = 1 /\ tree = EmptyTable
      /\ IsPc(pc) /\ Upwards(tree)
  BY <1>2 DEF Replayed, Kept
<1>5. PICK B : KeptBy(B)
  BY <1>2 DEF Kept
<1>6. B[1] = 0 /\ B[1] = pc.curr
  BY <1>4, <1>5 DEF KeptBy, AddressesTo
<1>7. LabelsBefore(1)' = {}
  BY <1>3 DEF LabelsBefore, LinesOf, Lines
<1>8. TablesAre(EmptyTable, {}, B)'
  <2>1. TablesAre(EmptyTable, {}, B)
    BY FreshTables
  <2> QED
    BY <2>1 DEF TablesAre
<1>9. KeptBy(B)'
  BY <1>2, <1>4, <1>6, <1>7, <1>8 DEF KeptBy, AddressesTo
<1>10. (\A i \in Lines : IsLine(source[i]))'
  BY <1>1, <1>3 DEF Lines
<1> QED
  BY <1>2, <1>4, <1>9, <1>10 DEF Kept, Upwards

\* No step of the second pass changes the tree.
LEMMA TreeStays ==
  ASSUME Replayed, Kept, Unshadowed, pass = 1, ANext
  PROVE  tree' = tree
<1>1. CASE EnterScope \/ LeaveScope \/ VisitLabel \/ VisitInstruction \/ VisitDotOrg
             \/ VisitDotSpace \/ VisitDotDb
  <2>1. status = "running"
    BY <1>1, OnRunning DEF EnterScope, LeaveScope, VisitLabel, VisitInstruction,
                           VisitDotOrg, VisitDotSpace, VisitDotDb
  <2>2. CASE Ends
    <3>1. ~Continue
      BY <2>1, <2>2 DEF Continue, Ends
    <3> QED
      BY <1>1, <3>1 DEF EnterScope, LeaveScope, VisitLabel, VisitInstruction,
         VisitDotOrg, VisitDotSpace, VisitDotDb, MovePc, Unscoped, Exit
  <2>3. CASE ~Ends
    BY <1>1, <2>1, <2>3, TablesBehind DEF Kept
  <2> QED
    BY <2>2, <2>3
<1>2. CASE Parse \/ EndOfPass
  BY <1>2 DEF Parse, EndOfPass
<1> QED
  BY <1>1, <1>2 DEF ANext

\* For every file whose .org and .space lines have no names in their expressions, and
\* in which no label hides behind another of its name in a scope around it, the
\* second pass finds every label where the first one left it (visitLabel,
\* assembler_class.cpp:269-296).
THEOREM SecondPassKeepsAddresses ==
  ASpec /\ [](Unshadowed /\ NamelessMoves) => LabelsKeepTheirAddress
<1>1. AInit => Replayed /\ Kept
  BY StartsReplayed, StartsKept
<1>2. Replayed /\ Kept /\ Unshadowed /\ NamelessMoves /\ [ANext]_avars
        => /\ Replayed' /\ Kept'
           /\ [pass = 1 /\ pass' = 1 => UNCHANGED tree]_avars
  <2> SUFFICES ASSUME Replayed, Kept, Unshadowed, NamelessMoves, [ANext]_avars
               PROVE  /\ Replayed' /\ Kept'
                      /\ [pass = 1 /\ pass' = 1 => UNCHANGED tree]_avars
    OBVIOUS
  <2>1. CASE ANext
    <3>1. Replayed'
      BY <2>1, ParseReplayed, EnterReplayed, LeaveReplayed, LabelReplayed,
         OthersReplayed, EndReplayed DEF ANext
    <3>2. Kept'
      BY <2>1, LineKept, ParseKept, EndKept DEF ANext
    <3>3. pass = 1 => tree' = tree
      BY <2>1, TreeStays
    <3> QED
      BY <3>1, <3>2, <3>3
  <2>2. CASE UNCHANGED avars
    <3>1. Replayed'
      BY <2>2, Stays DEF avars, Scoping
    <3>2. Kept'
      BY <2>2, Still, StillKept DEF avars, Kept, KeptBy, Upwards
    <3> QED
      BY <2>2, <3>1, <3>2
  <2> QED
    BY <2>1, <2>2
<1> QED
  BY <1>1, <1>2, PTL DEF ASpec, LabelsKeepTheirAddress

(***************************************************************************)
(* Where the lines are.                                                    *)
(***************************************************************************)
\* The address behind line i, which is at address a.
NextAddress(i, a) ==
  LET line == source[i]
  IN CASE line.kind = ".org"   -> Fixed(line.expr, a)
       [] line.kind = ".space" -> a + Fixed(line.expr, a)
       [] line.kind = ".db"    -> a + line.size * Len(line.exprs)
       [] line.kind = "instr"  -> a + 4 * Len(Expand(line.text))
       [] OTHER                -> a

\* Each line is behind the one above it.
LEMMA LayoutIs ==
  WellNested /\ NamelessMoves =>
    /\ Layout[1] = 0
    /\ \A i \in Lines : Layout[i + 1] = NextAddress(i, Layout[i])
<1> SUFFICES ASSUME WellNested, NamelessMoves
             PROVE  /\ Layout[1] = 0
                    /\ \A i \in Lines : Layout[i + 1] = NextAddress(i, Layout[i])
  OBVIOUS
<1> DEFINE n == Len(source) + 1
      Address(Q, i, name) ==
        IF Candidates(i - 1, name) = {} THEN NotFound ELSE Q[Meaning(i - 1, name)]
      Moved(Q, i) ==
        Evaluate(source[i - 1].expr, FALSE, Q[i - 1],
                 [name \in NamesIn(source[i - 1].expr) |-> Address(Q, i, name)]).num
      Body(Q, i) ==
        IF i = 1 THEN 0
        ELSE CASE source[i - 1].kind = ".org"   -> Moved(Q, i)
               [] source[i - 1].kind = ".space" -> Q[i - 1] + Moved(Q, i)
               [] source[i - 1].kind = ".db"    ->
                    Q[i - 1] + source[i - 1].size * Len(source[i - 1].exprs)
               [] source[i - 1].kind = "instr"  ->
                    Q[i - 1] + 4 * Len(Expand(source[i - 1].text))
               [] OTHER                -> Q[i - 1]
      Is(Q, m) == Q = [i \in 1 .. m |-> Body(Q, i)]
      Goes(Q, m) == Q = [i \in 1 .. m |-> IF i = 1 THEN 0
                                          ELSE NextAddress(i - 1, Q[i - 1])]
      Addr[i \in 1 .. Len(source) + 1] == Body(Addr, i)
<1>1. Layout = Addr
  BY DEF Layout
<1>2. Addr = CHOOSE Q : Is(Q, n)
  OBVIOUS
<1>3. n \in Nat /\ n >= 1 /\ \A i \in 2 .. n : i - 1 \in Lines /\ i # 1
  BY DEF WellNested, Finite
<1>4. ASSUME NEW Q, NEW i \in 2 .. n
      PROVE  Body(Q, i) = NextAddress(i - 1, Q[i - 1])
  <2>1. i - 1 \in Lines /\ i # 1
    BY <1>3
  <2>2. source[i - 1].kind \in {".org", ".space"} =>
          Moved(Q, i) = Fixed(source[i - 1].expr, Q[i - 1])
    <3> SUFFICES ASSUME source[i - 1].kind \in {".org", ".space"}
                 PROVE  Moved(Q, i) = Fixed(source[i - 1].expr, Q[i - 1])
      OBVIOUS
    <3>1. NamesIn(source[i - 1].expr) = {}
      BY <2>1 DEF NamelessMoves, LinesOf
    <3>2. [name \in NamesIn(source[i - 1].expr) |-> Address(Q, i, name)]
            = [name \in {} |-> 0]
      BY <3>1
    <3> QED
      BY <3>2 DEF Fixed
  <2> HIDE DEF Moved
  <2> QED
    BY <2>1, <2>2 DEF NextAddress
<1> HIDE DEF Body
<1>5. \A Q : Is(Q, n) <=> Goes(Q, n)
  <2> SUFFICES ASSUME NEW Q PROVE Is(Q, n) <=> Goes(Q, n)
    OBVIOUS
  <2>1. \A i \in 1 .. n : Body(Q, i) = IF i = 1 THEN 0 ELSE NextAddress(i - 1, Q[i - 1])
    <3>1. \A i \in 1 .. n : i = 1 \/ i \in 2 .. n
      BY <1>3
    <3>2. Body(Q, 1) = 0
      BY DEF Body
    <3> QED
      BY <1>3, <1>4, <3>1, <3>2
  <2> QED
    BY <2>1
<1> DEFINE S == {m \in Nat : \E Q : Goes(Q, m)}
<1>6. 0 \in S
  <2>1. Goes([i \in 1 .. 0 |-> 0], 0)
    OBVIOUS
  <2> QED
    BY <2>1
<1>7. ASSUME NEW m \in Nat, m \in S PROVE m + 1 \in S
  <2>1. PICK Q : Goes(Q, m)
    BY <1>7
  <2> DEFINE R == [i \in 1 .. m + 1 |->
                     IF i = m + 1 THEN IF i = 1 THEN 0 ELSE NextAddress(i - 1, Q[i - 1])
                     ELSE Q[i]]
  <2>2. ASSUME NEW i \in 1 .. m + 1
        PROVE  R[i] = IF i = 1 THEN 0 ELSE NextAddress(i - 1, R[i - 1])
    <3>1. i # 1 => i - 1 \in 1 .. m
      OBVIOUS
    <3>2. i # 1 => R[i - 1] = Q[i - 1]
      BY <3>1
    <3>3. CASE i = m + 1
      BY <3>2, <3>3
    <3>4. CASE i # m + 1
      <4>1. i \in 1 .. m
        BY <3>4
      <4>2. R[i] = Q[i]
        BY <4>1
      <4> HIDE DEF R
      <4> QED
        BY <2>1, <3>2, <4>1, <4>2
    <3> QED
      BY <3>3, <3>4
  <2>3. Goes(R, m + 1)
    BY <2>2
  <2> HIDE DEF R
  <2> QED
    BY <2>3
<1> HIDE DEF S
<1>8. n \in S
  BY <1>3, <1>6, <1>7, Induction
<1>9. PICK Q : Goes(Q, n)
  BY <1>8 DEF S
<1> HIDE DEF n, Is, Addr
<1>10. Is(Addr, n)
  BY <1>2, <1>5, <1>9
<1>11. Goes(Addr, n)
  BY <1>5, <1>10
<1>12. \A i \in Lines : i + 1 \in 1 .. n /\ i + 1 # 1 /\ (i + 1) - 1 = i
  BY DEF WellNested, Finite, n
<1> QED
  BY <1>1, <1>3, <1>11, <1>12

\* A line that the visitor goes past is followed by where the next one is.
LEMMA LayoutFollows ==
  ASSUME WellNested, NamelessMoves, NEW i \in Lines, IsLine(source[i]),
         Layout[i] \in Nat, Layout[i + 1] \in Nat,
         source[i].kind = "instr" => ~Eek(source[i].text)
  PROVE  Follows(i, Layout[i], Layout[i + 1])
<1> DEFINE a == Layout[i]
           b == Layout[i + 1]
<1>1. b = NextAddress(i, a) /\ a \in Nat /\ b \in Nat
  BY LayoutIs
<1> SUFFICES Follows(i, a, b)
  OBVIOUS
<1> HIDE DEF a, b
<1>2. ASSUME NEW size \in Nat, NEW n \in Nat, b = a + size * n
      PROVE  Steps(a, size, n, b)
  <2> DEFINE Q == [k \in 0 .. n |-> a + size * k]
  <2>1. Q[0] = a /\ Q[n] = b
    BY <1>1, <1>2
  <2>2. ASSUME NEW k \in 1 .. n PROVE Q[k] = Q[k - 1] + size
    <3>1. k \in 0 .. n /\ k - 1 \in 0 .. n /\ k \in Nat
      OBVIOUS
    <3>2. size * k = size * (k - 1) + size
      BY <3>1
    <3> QED
      BY <1>1, <3>1, <3>2
  <2> HIDE DEF Q
  <2> QED
    BY <2>1, <2>2 DEF Steps
<1>3. CASE source[i].kind = ".org"
  <2>1. b = Fixed(source[i].expr, a)
    BY <1>1, <1>3 DEF NextAddress
  <2>2. b = 0 + Fixed(source[i].expr, a)
    BY <1>1, <2>1
  <2> QED
    BY <1>3, <2>2 DEF Follows
<1>4. CASE source[i].kind = ".space"
  <2>1. b = a + Fixed(source[i].expr, a)
    BY <1>1, <1>4 DEF NextAddress
  <2> QED
    BY <1>4, <2>1 DEF Follows
<1>5. CASE source[i].kind = ".db"
  <2>1. source[i].size \in Nat /\ Len(source[i].exprs) \in Nat
    <3>1. source[i].size \in {1, 2, 4} /\ Len(source[i].exprs) \in Nat
      BY <1>5, Zenon DEF IsLine
    <3> QED
      BY <3>1
  <2>2. b = a + source[i].size * Len(source[i].exprs)
    BY <1>1, <1>5 DEF NextAddress
  <2> QED
    BY <1>2, <1>5, <2>1, <2>2 DEF Follows
<1>6. CASE source[i].kind = "instr"
  <2>1. Sized(Expand(source[i].text), SizeOf(source[i].text)) /\ SizeOf(source[i].text) \in Nat
    BY <1>6, ExpandSize
  <2>2. b = a + 4 * SizeOf(source[i].text)
    BY <1>1, <1>6, <2>1 DEF NextAddress, Sized
  <2> QED
    BY <1>2, <1>6, <2>1, <2>2 DEF Follows
<1>7. CASE source[i].kind \notin {".org", ".space", ".db", "instr"}
  <2>1. b = a
    BY <1>1, <1>7 DEF NextAddress
  <2> QED
    BY <1>7, <2>1 DEF Follows
<1> QED
  BY <1>3, <1>4, <1>5, <1>6, <1>7

LEMMA StillLaid ==
  ASSUME source' = source, WellNested, NamelessMoves
  PROVE  /\ NamelessMoves'
         /\ \A i \in Places : Layout[i]' = Layout[i]
         /\ \A i, name : Candidates(i, name)' = Candidates(i, name)
<1>1. /\ Lines' = Lines /\ Places' = Places /\ WellNested'
      /\ \A i : ScopeOf(i)' = ScopeOf(i)
  BY Still
<1>2. \A kind : LinesOf(kind)' = LinesOf(kind)
  BY <1>1 DEF LinesOf
<1>3. NamelessMoves'
  BY <1>2 DEF NamelessMoves
<1>4. \A i : Around(i)' = Around(i)
  <2>1. \A i : Depth(i)' = Depth(i)
    BY <1>2 DEF Depth
  <2> QED
    BY <1>2, <2>1 DEF Around
<1>5. \A i, name : Candidates(i, name)' = Candidates(i, name)
  BY <1>1, <1>2, <1>4 DEF Candidates
<1>6. /\ Layout[1] = 0
      /\ \A i \in Lines : Layout[i + 1] = NextAddress(i, Layout[i])
  BY LayoutIs
<1>7. (/\ Layout[1] = 0
       /\ \A i \in Lines : Layout[i + 1] = NextAddress(i, Layout[i]))'
  BY <1>1, <1>3, LayoutIs, PTL
<1> DEFINE A == Layout
           B == Layout'
<1>8. /\ B[1] = 0
      /\ \A i \in Lines : A[i] = B[i] => A[i + 1] = B[i + 1]
  <2>1. B[1] = 0
    BY <1>7
  <2>2. ASSUME NEW i \in Lines, A[i] = B[i] PROVE A[i + 1] = B[i + 1]
    <3>1. NextAddress(i, Layout[i])' = NextAddress(i, Layout[i])
      BY <2>2 DEF NextAddress
    <3>2. i \in Lines'
      BY <1>1
    <3>3. Layout[i + 1]' = NextAddress(i, Layout[i])'
      BY <1>7, <3>2
    <3> QED
      BY <1>6, <3>1, <3>3
  <2> QED
    BY <2>1, <2>2
<1> HIDE DEF A, B
<1> DEFINE S == {m \in Nat : m \in Lines => A[m + 1] = B[m + 1]}
<1>9. Len(source) \in Nat /\ Lines = 1 .. Len(source) /\ Places = 1 .. Len(source) + 1
  BY DEF WellNested, Finite, Places
<1>10. A[1] = B[1]
  BY <1>6, <1>8 DEF A
<1>11. 0 \in S
  BY <1>9
<1>12. ASSUME NEW m \in Nat, m \in S PROVE m + 1 \in S
  <2> SUFFICES ASSUME m + 1 \in Lines PROVE A[(m + 1) + 1] = B[(m + 1) + 1]
    OBVIOUS
  <2>1. m = 0 \/ m \in Lines
    BY <1>9
  <2>2. A[m + 1] = B[m + 1]
    BY <1>10, <1>12, <2>1
  <2> QED
    BY <1>8, <2>2
<1> HIDE DEF S
<1>13. \A m \in Nat : m \in S
  BY <1>11, <1>12, Induction
<1>14. \A i \in Places : A[i] = B[i]
  <2> SUFFICES ASSUME NEW i \in Places, i # 1 PROVE A[i] = B[i]
    BY <1>10
  <2>1. i - 1 \in Nat /\ i - 1 \in Lines /\ (i - 1) + 1 = i
    BY <1>9
  <2>2. i - 1 \in S
    BY <1>13, <2>1
  <2> QED
    BY <2>1, <2>2 DEF S
<1> QED
  BY <1>3, <1>5, <1>14 DEF A, B

(***************************************************************************)
(* In both passes each line is at its address, if the addresses are        *)
(* numbers that a word of the output holds.                                *)
(***************************************************************************)
Addressable(a) == a \in Nat /\ a < 2 ^ 31

InMemory == \A i \in Places : Addressable(Layout[i])

Placed == status \in {"parsing", "running"} => KeptBy(Layout)

LEMMA InPlace ==
  ASSUME InMemory, NEW i \in Places
  PROVE  Layout[i] \in Nat
BY DEF InMemory, Addressable

LEMMA StartsPlaced == AInit /\ InMemory => Placed
<1> SUFFICES ASSUME NEW input \in Sources, AStart(input), InMemory
             PROVE  Placed
  BY DEF AInit
<1>1. pass = 0 /\ at = 1 /\ pc = FirstPc /\ tree = EmptyTable /\ source = <<>>
  BY DEF AStart
<1>2. Lines = {} /\ LabelsBefore(1) = {}
  BY <1>1 DEF Lines, LabelsBefore, LinesOf
<1>3. IsPc(pc) /\ pc.curr = 0
  BY <1>1 DEF FirstPc, IsPc
<1>4. WellNested /\ NamelessMoves
  BY <1>1, <1>2 DEF WellNested, Finite, NoBraceTooMany, Closes, NamelessMoves, LinesOf
<1>5. Layout[1] = 0
  BY <1>4, LayoutIs
<1>6. KeptBy(Layout)
  BY <1>1, <1>2, <1>3, <1>5, FreshTables DEF KeptBy, AddressesTo
<1> QED
  BY <1>6 DEF Placed

\* Under what the lines say of it, the next one is at its address.
LEMMA NextPlaced ==
  ASSUME Replayed, NamelessMoves, InMemory, at \in Lines, IsLine(source[at]),
         KeptBy(Layout), GoesOn,
         source[at].kind = "instr" => ~Eek(source[at].text)
  PROVE  /\ Follows(at, Layout[at], Layout[at + 1])
         /\ pc'.curr = Layout[at + 1]
<1>1. at \in Places /\ at + 1 \in Places /\ WellNested
  BY DEF Replayed, WellNested, Finite, Places
<1>2. Layout[at] \in Nat /\ Layout[at + 1] \in Nat
  BY <1>1, InPlace
<1>3. Follows(at, Layout[at], Layout[at + 1])
  BY <1>1, <1>2, LayoutFollows
<1>4. Follows(at, Layout[at], pc'.curr)
  BY DEF GoesOn, KeptBy
<1> QED
  BY <1>3, <1>4, FollowsOnce

\* The visitor goes past no instruction that it does not know.
LEMMA NotPast ==
  ASSUME at \in Lines, source[at].kind = "instr", ~Ends,
         EnterScope \/ LeaveScope \/ VisitLabel \/ VisitInstruction \/ VisitDotOrg
           \/ VisitDotSpace \/ VisitDotDb
  PROVE  VisitInstruction /\ ~Eek(source[at].text) /\ ~LookupThrows(source[at].text)
<1>1. VisitInstruction
  <2>1. \A kind : OnLine(kind) => kind = "instr"
    BY Zenon DEF OnLine, Line
  <2>2. "{" # "instr" /\ "}" # "instr" /\ "label" # "instr" /\ ".org" # "instr"
        /\ ".space" # "instr" /\ ".db" # "instr"
    BY Zenon
  <2> QED
    BY <2>1, <2>2, Zenon DEF EnterScope, LeaveScope, VisitLabel, VisitDotOrg,
                             VisitDotSpace, VisitDotDb
<1> QED
  BY <1>1 DEF VisitInstruction, Line, Exit, Ends

LEMMA LinePlaced ==
  ASSUME Replayed, Kept, Placed, Unshadowed, NamelessMoves, InMemory,
         EnterScope \/ LeaveScope \/ VisitLabel \/ VisitInstruction \/ VisitDotOrg
           \/ VisitDotSpace \/ VisitDotDb
  PROVE  Placed'
<1> SUFFICES ASSUME ~Ends PROVE Placed'
  BY DEF Placed, Ends
<1>1. status = "running"
  BY OnRunning DEF EnterScope, LeaveScope, VisitLabel, VisitInstruction, VisitDotOrg,
                   VisitDotSpace, VisitDotDb
<1>2. KeptBy(Layout)
  BY <1>1 DEF Placed
<1>3. IsPc(pc) /\ Upwards(tree) /\ \A i \in Lines : IsLine(source[i])
  BY <1>1 DEF Kept
<1>4. WellNested /\ at \in Places /\ pass \in {0, 1}
  BY DEF Replayed
<1>5. /\ at \in Lines
      /\ pass = 0 => TablesAre(tree', LabelsBefore(at + 1), Layout)
      /\ pass = 1 => tree' = tree
  BY <1>2, <1>3, TablesBehind
<1>6. GoesOn
  BY <1>3, <1>4, <1>5, OtherLines, MovingLines, DataLine, InstructionLine
<1>7. /\ Follows(at, Layout[at], Layout[at + 1])
      /\ pc'.curr = Layout[at + 1]
  BY <1>2, <1>3, <1>5, <1>6, NextPlaced, NotPast
<1>8. /\ source' = source /\ pass' = pass /\ at' = at + 1
      /\ at + 1 \in Places /\ at \in Nat /\ \A i \in 1 .. at + 1 : i \in Places
  BY <1>4, <1>5, <1>6 DEF GoesOn, WellNested, Finite, Places
<1>9. \A i \in Places : Layout[i]' = Layout[i]
  BY <1>4, <1>8, StillLaid
<1>10. KeptBy(Layout)'
  <2>1. CASE pass = 0
    <3>1. AddressesTo(Layout, at + 1)
      <4>1. AddressesTo(Layout, at)
        BY <1>2, <2>1 DEF KeptBy
      <4>2. \A i \in 1 .. (at + 1) - 1 : i \in 1 .. at - 1 \/ i = at
        BY <1>8
      <4> QED
        BY <1>7, <4>1, <4>2 DEF AddressesTo
    <3>2. \A i \in 1 .. (at + 1) - 1 : i \in Places /\ i + 1 \in Places
      BY <1>8
    <3>3. AddressesTo(Layout, at)'
      <4>1. Layout[1] = 0 /\ \A i \in 1 .. (at + 1) - 1 : Follows(i, Layout[i], Layout[i + 1])
        BY <3>1 DEF AddressesTo
      <4>2. 1 \in Places
        BY <1>8
      <4>3. \A i \in 1 .. (at + 1) - 1 : Follows(i, Layout[i], Layout[i + 1])'
        BY <1>8, <1>9, <3>2, <4>1 DEF Follows
      <4> QED
        BY <1>8, <1>9, <4>1, <4>2, <4>3 DEF AddressesTo
    <3>4. TablesAre(tree, LabelsBefore(at), Layout)'
      <4>1. \A d \in LabelsBefore(at + 1) : d \in Places
        BY <1>4 DEF LabelsBefore, LinesOf, WellNested, Finite, Places
      <4>2. TablesAre(tree', LabelsBefore(at + 1), Layout')
        BY <1>5, <1>9, <2>1, <4>1, SameEntries
      <4> QED
        BY <1>8, <4>2, StillKept
    <3> QED
      BY <1>7, <1>8, <1>9, <2>1, <3>3, <3>4 DEF KeptBy
  <2>2. CASE pass = 1
    <3>1. AddressesTo(Layout, End) /\ TablesAre(tree, Labels, Layout)
      BY <1>2, <2>2 DEF KeptBy
    <3>2. \A i \in 1 .. End - 1 : i \in Places /\ i + 1 \in Places
      BY <1>4 DEF WellNested, Finite, Places, End
    <3>3. AddressesTo(Layout, End)'
      <4>1. Layout[1] = 0 /\ \A i \in 1 .. End - 1 : Follows(i, Layout[i], Layout[i + 1])
        BY <3>1 DEF AddressesTo
      <4>2. 1 \in Places
        BY <1>8
      <4>3. \A i \in 1 .. End - 1 : Follows(i, Layout[i], Layout[i + 1])'
        BY <1>8, <1>9, <3>2, <4>1 DEF Follows
      <4>4. End' = End
        BY <1>8, Still
      <4> QED
        BY <1>9, <4>1, <4>2, <4>3, <4>4 DEF AddressesTo
    <3>4. TablesAre(tree, Labels, Layout)'
      <4>1. \A d \in Labels : d \in Places
        BY <1>4 DEF Labels, LinesOf, WellNested, Finite, Places
      <4>2. TablesAre(tree', Labels, Layout')
        BY <1>5, <1>9, <2>2, <3>1, <4>1, SameEntries
      <4> QED
        BY <1>8, <4>2, StillKept
    <3> QED
      BY <1>7, <1>8, <1>9, <2>2, <3>3, <3>4 DEF KeptBy
  <2> QED
    BY <1>4, <2>1, <2>2
<1> QED
  BY <1>10 DEF Placed

LEMMA EndPlaced ==
  ASSUME Replayed, Kept, Placed, NamelessMoves, InMemory, EndOfPass
  PROVE  Placed'
<1>1. /\ status = "running" /\ at = End
      /\ UNCHANGED <<file, source, tree>>
  BY DEF EndOfPass, Input, End
<1>2. CASE pass = 0
  <2>1. pass' = 1 /\ at' = 1 /\ pc' = FirstPc
    BY <1>2 DEF EndOfPass, StartOfPass
  <2>2. KeptBy(Layout) /\ WellNested
    BY <1>1 DEF Placed, Replayed
  <2>3. pc'.curr = 0
    BY <2>1 DEF FirstPc
  <2>4. LabelsBefore(End) = Labels
    BY DEF Replayed, WellNested, Finite, LabelsBefore, Labels, LinesOf, End
  <2>5. /\ AddressesTo(Layout, End) /\ TablesAre(tree, Labels, Layout) /\ Layout[1] = 0
    BY <1>1, <1>2, <2>2, <2>4 DEF KeptBy, AddressesTo
  <2>6. \A i \in Places : Layout[i]' = Layout[i]
    BY <1>1, <2>2, StillLaid
  <2>7. 1 \in Places /\ (\A d \in Labels : d \in Places)
        /\ \A i \in 1 .. End - 1 : i \in Places /\ i + 1 \in Places
    BY <2>2 DEF Labels, LinesOf, WellNested, Finite, Places, End
  <2>8. End' = End
    BY <1>1, Still
  <2>9. AddressesTo(Layout, End)'
    <3>1. \A i \in 1 .. End - 1 : Follows(i, Layout[i], Layout[i + 1])
      BY <2>5 DEF AddressesTo
    <3>2. \A i \in 1 .. End - 1 : Follows(i, Layout[i], Layout[i + 1])'
      BY <1>1, <2>6, <2>7, <3>1 DEF Follows
    <3> QED
      BY <2>5, <2>6, <2>7, <2>8, <3>2 DEF AddressesTo
  <2>10. TablesAre(tree, Labels, Layout)'
    <3>1. TablesAre(tree', Labels, Layout')
      BY <1>1, <2>5, <2>6, <2>7, SameEntries
    <3> QED
      BY <1>1, <3>1, StillKept
  <2> QED
    BY <2>1, <2>3, <2>5, <2>6, <2>7, <2>9, <2>10 DEF Placed, KeptBy
<1>3. CASE pass # 0
  BY <1>3 DEF EndOfPass, Placed
<1> QED
  BY <1>2, <1>3

LEMMA ParsePlaced ==
  ASSUME Replayed, Replayed', Kept, Kept', NamelessMoves', Parse
  PROVE  Placed'
<1> SUFFICES ASSUME status' = "running" PROVE KeptBy(Layout)'
  BY DEF Parse, Placed
<1>1. status = "parsing" /\ UNCHANGED <<pass, at, pc, tree>>
  BY DEF Parse
<1>2. pass = 0 /\ at = 1 /\ tree = EmptyTable
  BY <1>1 DEF Replayed
<1>3. PICK B : KeptBy(B)'
  BY DEF Kept
<1>4. pc'.curr = 0
  BY <1>1, <1>2, <1>3 DEF KeptBy, AddressesTo
<1>5. Layout[1]' = 0
  <2>1. WellNested'
    BY DEF Replayed
  <2>2. (/\ Layout[1] = 0
         /\ \A i \in Lines : Layout[i + 1] = NextAddress(i, Layout[i]))'
    BY <2>1, LayoutIs, PTL
  <2> QED
    BY <2>2
<1>6. LabelsBefore(1)' = {}
  BY DEF Replayed, LabelsBefore, LinesOf, WellNested, Finite
<1>7. TablesAre(EmptyTable, {}, Layout)'
  <2>1. TablesAre(EmptyTable, {}, B)
    BY FreshTables
  <2> QED
    BY <2>1 DEF TablesAre
<1> QED
  BY <1>1, <1>2, <1>4, <1>5, <1>6, <1>7 DEF KeptBy, AddressesTo

(***************************************************************************)
(* The meaning of names.                                                   *)
(***************************************************************************)
\* The search climbs from a place to the innermost of the scopes around it that has
\* the name.
LEMMA FindInnermost ==
  ASSUME WellNested, NEW l \in Places, NEW tr, TreeOf(tr, l), Upwards(tr), NEW name,
         NEW p \in Places, p <= l, NEW s \in Around(p) \cup {0},
         name \in DOMAIN tr[NodeOf(s)].table,
         \A t \in Around(p) \cup {0} : s < t => name \notin DOMAIN tr[NodeOf(t)].table
  PROVE  Find(tr, NodeOf(ScopeOf(p)), name) = NodeOf(s)
<1> DEFINE node == NodeOf(ScopeOf(p))
<1>1. Len(tr) \in Nat /\ Len(tr) = NodeOf(l - 1) /\ ParentsAre(tr, l)
  BY DEF TreeOf, IsTree
<1>2. l \in Nat /\ p \in Nat
  BY DEF Places, WellNested, Finite
<1>3. \A i \in Places : i <= l => ScopeOf(i) \in Before(l)
  BY <1>2, Scopes DEF Before, Places, WellNested, Finite
<1>4. node \in 1 .. Len(tr)
  BY <1>1, <1>2, <1>3, InTree
<1> HIDE DEF node
<1>5. PICK R : Searches(R, tr, name, node) /\ Find(tr, node, name) = R[node]
  BY <1>1, <1>4, FindIs
<1> DEFINE Leads(i) == /\ s \in Around(i) \cup {0}
                       /\ \A t \in Around(i) \cup {0} :
                            s < t => name \notin DOMAIN tr[NodeOf(t)].table
           Inner(i) == i \in Places /\ i <= l /\ NodeOf(ScopeOf(i)) <= node /\ Leads(i)
           S == {m \in Nat : \A i \in Places :
                               i <= m /\ Inner(i) => R[NodeOf(ScopeOf(i))] = NodeOf(s)}
<1>6. 0 \in S
  BY DEF Places
<1>7. ASSUME NEW m \in Nat, m \in S PROVE m + 1 \in S
  <2> SUFFICES ASSUME NEW i \in Places, i <= m + 1, Inner(i)
               PROVE  R[NodeOf(ScopeOf(i))] = NodeOf(s)
    OBVIOUS
  <2> DEFINE b == ScopeOf(i)
  <2>1. b \in Before(l) /\ NodeOf(b) \in 1 .. node /\ NodeOf(b) >= 2
    <3>1. b \in Before(l) /\ NodeOf(b) <= node
      BY <1>3
    <3>2. NodeOf(b) \in Nat /\ NodeOf(b) >= 2
      BY <3>1, InTree, Nodes DEF Global
    <3> QED
      BY <1>1, <1>4, <3>1, <3>2
  <2>2. NodeOf(b) # Tree /\ NodeOf(b) \in 2 .. Len(tr)
    BY <1>1, <1>4, <2>1 DEF Tree
  <2>3. Innermost(i)
    BY EveryPlace
  <2>4. CASE b = s
    BY <1>5, <2>1, <2>2, <2>4 DEF Searches
  <2>5. CASE b # s
    <3>1. b # 0
      BY <2>3, <2>5 DEF Innermost
    <3>2. b \in Opens /\ b < i /\ Around(i) = Around(b) \cup {b} /\ b \in Places
      BY <2>3, <3>1 DEF Innermost, Opens, Places, WellNested, Finite
    <3>3. s \in Around(b) \cup {0} /\ s < b
      <4>1. s \in Around(b) \cup {0}
        BY <2>5, <3>2
      <4> QED
        BY <3>2, <4>1, Scopes DEF Places, WellNested, Finite
    <3>4. name \notin DOMAIN tr[NodeOf(b)].table
      BY <3>2, <3>3
    <3>5. tr[NodeOf(b)].parent = NodeOf(ScopeOf(b))
      BY <1>1, <2>1, <3>1 DEF ParentsAre
    <3>6. R[NodeOf(b)] = R[NodeOf(ScopeOf(b))]
      BY <1>5, <2>1, <2>2, <3>4, <3>5 DEF Searches
    <3>7. b <= m /\ b <= l
      BY <1>2, <3>2 DEF Places, WellNested, Finite
    <3>8. NodeOf(ScopeOf(b)) <= node
      <4>1. tr[NodeOf(b)].parent \in 1 .. NodeOf(b) - 1
        BY <2>2 DEF Upwards
      <4> QED
        BY <1>4, <2>1, <3>5, <4>1
    <3>9. Leads(b)
      BY <3>2, <3>3
    <3>10. Inner(b)
      BY <3>2, <3>7, <3>8, <3>9
    <3> HIDE DEF Inner
    <3>11. R[NodeOf(ScopeOf(b))] = NodeOf(s)
      BY <1>7, <3>2, <3>7, <3>10
    <3> QED
      BY <3>6, <3>11
  <2> QED
    BY <2>4, <2>5
<1> HIDE DEF S
<1>8. p \in S
  BY <1>2, <1>6, <1>7, Induction
<1>9. Inner(p)
  BY <1>2, <1>4 DEF node
<1>10. R[node] = NodeOf(s)
  BY <1>2, <1>8, <1>9 DEF S, node
<1> QED
  BY <1>5, <1>10 DEF node

\* A name that is in no scope around a place is not found from there.
LEMMA FindNothing ==
  ASSUME WellNested, NEW l \in Places, NEW tr, TreeOf(tr, l), Upwards(tr), NEW name,
         NEW p \in Places, p <= l,
         \A s \in Around(p) \cup {0} : name \notin DOMAIN tr[NodeOf(s)].table
  PROVE  Find(tr, NodeOf(ScopeOf(p)), name) = NullPtr
<1> DEFINE node == NodeOf(ScopeOf(p))
<1>1. Len(tr) \in Nat /\ Len(tr) = NodeOf(l - 1) /\ ParentsAre(tr, l)
  BY DEF TreeOf, IsTree
<1>2. l \in Nat /\ p \in Nat
  BY DEF Places, WellNested, Finite
<1>3. \A i \in Places : i <= l => ScopeOf(i) \in Before(l)
  BY <1>2, Scopes DEF Before, Places, WellNested, Finite
<1>4. node \in 1 .. Len(tr)
  BY <1>1, <1>2, <1>3, InTree
<1> HIDE DEF node
<1>5. PICK R : Searches(R, tr, name, node) /\ Find(tr, node, name) = R[node]
  BY <1>1, <1>4, FindIs
<1> DEFINE Absent(i) ==
             \A s \in Around(i) \cup {0} : name \notin DOMAIN tr[NodeOf(s)].table
           Inner(i) == i \in Places /\ i <= l /\ NodeOf(ScopeOf(i)) <= node /\ Absent(i)
           S == {m \in Nat : \A i \in Places :
                               i <= m /\ Inner(i) => R[NodeOf(ScopeOf(i))] = NullPtr}
<1>6. 0 \in S
  BY DEF Places
<1>7. ASSUME NEW m \in Nat, m \in S PROVE m + 1 \in S
  <2> SUFFICES ASSUME NEW i \in Places, i <= m + 1, Inner(i)
               PROVE  R[NodeOf(ScopeOf(i))] = NullPtr
    OBVIOUS
  <2> DEFINE s == ScopeOf(i)
  <2>1. s \in Before(l) /\ NodeOf(s) \in 1 .. node /\ NodeOf(s) >= 2
    <3>1. s \in Before(l) /\ NodeOf(s) <= node
      BY <1>3
    <3>2. NodeOf(s) \in Nat /\ NodeOf(s) >= 2
      BY <3>1, InTree, Nodes DEF Global
    <3> QED
      BY <1>1, <1>4, <3>1, <3>2
  <2>2. NodeOf(s) # Tree /\ NodeOf(s) \in 2 .. Len(tr)
    BY <1>1, <1>4, <2>1 DEF Tree
  <2>3. Innermost(i)
    BY EveryPlace
  <2>4. CASE s = 0
    <3>1. NodeOf(s) = 2 /\ name \notin DOMAIN tr[2].table
      BY <2>4, Nodes DEF Global
    <3>2. tr[2].parent = 1
      BY <2>2, <3>1 DEF Upwards
    <3>3. 1 \in 1 .. node /\ 2 \in 1 .. node
      BY <1>1, <1>4, <2>1, <3>1
    <3>4. R[1] = NullPtr
      BY <1>5, <3>3, Zenon DEF Searches, Tree
    <3>5. R[2] = R[1]
      BY <1>5, <3>1, <3>2, <3>3 DEF Searches, Tree
    <3> QED
      BY <3>1, <3>4, <3>5
  <2>5. CASE s # 0
    <3>1. s \in Opens /\ s < i /\ Around(i) = Around(s) \cup {s} /\ s \in Places
      BY <2>3, <2>5 DEF Innermost, Opens, Places, WellNested, Finite
    <3>2. name \notin DOMAIN tr[NodeOf(s)].table
      BY <3>1
    <3>3. tr[NodeOf(s)].parent = NodeOf(ScopeOf(s))
      BY <1>1, <2>1, <2>5 DEF ParentsAre
    <3>4. R[NodeOf(s)] = R[NodeOf(ScopeOf(s))]
      BY <1>5, <2>1, <2>2, <3>2, <3>3 DEF Searches
    <3>5. s <= m /\ s <= l
      BY <1>2, <3>1 DEF Places, WellNested, Finite
    <3>6. NodeOf(ScopeOf(s)) <= node
      <4>1. tr[NodeOf(s)].parent \in 1 .. NodeOf(s) - 1
        BY <2>2 DEF Upwards
      <4> QED
        BY <1>4, <2>1, <3>3, <4>1
    <3>7. Absent(s)
      BY <3>1
    <3>8. Inner(s)
      BY <3>1, <3>5, <3>6, <3>7
    <3> HIDE DEF Inner
    <3>9. R[NodeOf(ScopeOf(s))] = NullPtr
      BY <1>7, <3>1, <3>5, <3>8
    <3> QED
      BY <3>4, <3>9
  <2> QED
    BY <2>4, <2>5
<1> HIDE DEF S
<1>8. p \in S
  BY <1>2, <1>6, <1>7, Induction
<1>9. Inner(p)
  BY <1>2, <1>4 DEF node
<1>10. R[node] = NullPtr
  BY <1>2, <1>8, <1>9 DEF S, node
<1> QED
  BY <1>5, <1>10 DEF node

\* Of the labels that a name may mean, one is in the innermost scope.
LEMMA MeaningIs ==
  ASSUME WellNested, NEW i \in Places, NEW name, Candidates(i, name) # {}
  PROVE  /\ Meaning(i, name) \in Candidates(i, name)
         /\ \A e \in Candidates(i, name) : ScopeOf(e) <= ScopeOf(Meaning(i, name))
<1> DEFINE C == Candidates(i, name)
           T == {End - ScopeOf(d) : d \in C}
           m == Min(T)
<1>1. End \in Nat /\ \A d \in C : ScopeOf(d) \in Int /\ ScopeOf(d) < End
  <2>1. \A d \in C : d \in Places /\ d < End /\ d \in Int
    BY DEF Candidates, LinesOf, Places, WellNested, Finite, End
  <2>2. \A d \in C : ScopeOf(d) \in Int /\ ScopeOf(d) < d
    BY <2>1, Scopes
  <2>3. End \in Nat
    BY DEF WellNested, Finite, End
  <2> HIDE DEF C
  <2> QED
    BY <2>1, <2>2, <2>3
<1> HIDE DEF C
<1>2. T \subseteq Nat /\ T # {}
  BY <1>1 DEF C
<1> HIDE DEF T
<1>3. m \in T /\ \A y \in T : m <= y
  BY <1>2, LeastNatural
<1> HIDE DEF m
<1>4. PICK d \in C : m = End - ScopeOf(d)
  BY <1>3 DEF T
<1>5. ASSUME NEW e \in C PROVE ScopeOf(e) <= ScopeOf(d)
  <2>1. m <= End - ScopeOf(e)
    BY <1>3 DEF T
  <2> QED
    BY <1>1, <1>4, <2>1
<1>6. \E x \in C : \A e \in C : ScopeOf(e) <= ScopeOf(x)
  BY <1>5
<1>7. Meaning(i, name) = CHOOSE x \in C : \A e \in C : ScopeOf(e) <= ScopeOf(x)
  BY DEF Meaning, C
<1> QED
  BY <1>6, <1>7 DEF C

\* In the second pass a name has the address of the label it means.
LEMMA NamesMean ==
  ASSUME Replayed, Upwards(tree), pass = 1, TablesAre(tree, Labels, Layout), NEW name
  PROVE  AddressOf(name) = AddressOfMeaning(at, name)
<1> DEFINE C == Candidates(at, name)
           node == Find(tree, curr_scope_node, name)
<1>1. /\ WellNested /\ at \in Places /\ TreeOf(tree, End)
      /\ curr_scope_node = NodeOf(ScopeOf(at))
      /\ End \in Places /\ at <= End /\ at \in Int /\ End \in Int
  BY DEF Replayed, End, Places, WellNested, Finite
<1>2. AddressOf(name) = IF node = NullPtr THEN NotFound ELSE tree[node].table[name].addr
  BY DEF AddressOf
<1>3. \A s \in Around(at) \cup {0} : s \in Before(End)
  <2>1. \A s \in Around(at) : s \in Opens /\ s < at /\ s \in Int
    <3>1. Innermost(at)
      BY <1>1, EveryPlace
    <3> QED
      BY <1>1, <3>1 DEF Innermost, Opens, WellNested, Finite
  <2>2. \A s \in Around(at) : s < End
    BY <1>1, <2>1
  <2> QED
    BY <2>1, <2>2 DEF Before
<1>4. /\ Labels = LabelsBefore(End)
      /\ \A d \in Labels : ScopeOf(d) \in Before(End)
  <2>1. Labels = LabelsBefore(End)
    BY <1>1 DEF Labels, LabelsBefore, LinesOf, WellNested, Finite, End
  <2> QED
    BY <1>1, <2>1, HomeIs
<1>5. ASSUME NEW s \in Around(at) \cup {0}
      PROVE  name \in DOMAIN tree[NodeOf(s)].table
               <=> \E d \in Labels : source[d].name = name /\ ScopeOf(d) = s
  <2>1. NodeOf(s) \in 1 .. Len(tree)
    BY <1>1, <1>3, InTree DEF TreeOf
  <2>2. ASSUME name \in DOMAIN tree[NodeOf(s)].table
        PROVE  \E d \in Labels : source[d].name = name /\ ScopeOf(d) = s
    <3>1. PICK d \in Labels : source[d].name = name /\ Home(d) = NodeOf(s)
      BY <2>1, <2>2 DEF TablesAre
    <3>2. ScopeOf(d) = s
      BY <1>1, <1>3, <1>4, <3>1, InTree DEF Home
    <3> QED
      BY <3>1, <3>2
  <2>3. ASSUME NEW d \in Labels, source[d].name = name, ScopeOf(d) = s
        PROVE  name \in DOMAIN tree[NodeOf(s)].table
    BY <2>3 DEF TablesAre, Holds, Home
  <2> QED
    BY <2>2, <2>3
<1>6. C = {d \in Labels : source[d].name = name /\ ScopeOf(d) \in Around(at) \cup {0}}
  BY DEF Candidates, Labels
<1> HIDE DEF C, node
<1>7. CASE C = {}
  <2>1. \A s \in Around(at) \cup {0} : name \notin DOMAIN tree[NodeOf(s)].table
    BY <1>5, <1>6, <1>7
  <2>2. node = NullPtr
    BY <1>1, <2>1, FindNothing DEF node
  <2> QED
    BY <1>2, <1>7, <2>2 DEF AddressOfMeaning, C
<1>8. CASE C # {}
  <2> DEFINE d == Meaning(at, name)
             s == ScopeOf(d)
  <2>1. d \in C /\ \A e \in C : ScopeOf(e) <= s
    BY <1>1, <1>8, MeaningIs DEF C
  <2> HIDE DEF d
  <2>2. d \in Labels /\ source[d].name = name /\ s \in Around(at) \cup {0}
    BY <1>6, <2>1
  <2>3. name \in DOMAIN tree[NodeOf(s)].table
    BY <1>5, <2>2
  <2>4. \A t \in Around(at) \cup {0} : s < t => name \notin DOMAIN tree[NodeOf(t)].table
    <3> SUFFICES ASSUME NEW t \in Around(at) \cup {0}, s < t,
                        name \in DOMAIN tree[NodeOf(t)].table
                 PROVE  FALSE
      OBVIOUS
    <3>1. PICK e \in Labels : source[e].name = name /\ ScopeOf(e) = t
      BY <1>5
    <3>2. e \in C
      BY <1>6, <3>1
    <3>3. s \in Int /\ t \in Int
      BY <1>1, <2>2, Scopes DEF Places, WellNested, Finite
    <3> QED
      BY <2>1, <3>1, <3>2, <3>3
  <2>5. node = NodeOf(s)
    BY <1>1, <2>2, <2>3, <2>4, FindInnermost DEF node
  <2>6. node # NullPtr
    BY <1>1, <1>3, <2>2, <2>5, InTree DEF NullPtr
  <2>7. tree[node].table[name].addr = Layout[d]
    <3>1. Holds(tree[Home(d)].table, source[d].name, Layout[d])
      BY <2>2 DEF TablesAre
    <3> QED
      BY <2>2, <2>5, <3>1 DEF Holds, Entry, Home
  <2> QED
    BY <1>2, <1>8, <2>6, <2>7 DEF AddressOfMeaning, C, d
<1> QED
  BY <1>7, <1>8

LEMMA ValuesAre ==
  ASSUME Replayed, Upwards(tree), pass = 1, TablesAre(tree, Labels, Layout),
         NEW expr, NEW here
  PROVE  Value(expr, here) = ValueIn(at, expr, here)
<1>1. [name \in NamesIn(expr) |-> AddressOf(name)]
        = [name \in NamesIn(expr) |-> AddressOfMeaning(at, name)]
  BY NamesMean
<1>2. (pass = 1) = TRUE
  OBVIOUS
<1> QED
  BY <1>1, <1>2, Zenon DEF Value, ValueIn

(***************************************************************************)
(* What the output says.                                                   *)
(***************************************************************************)
\* The lines of the output, as far as the parts of them have a type.
OutLines == [at : BOOLEAN, groups : Seq(Seq(Nat))]

\* A fold over numbers is what its steps say.
LEMMA LoadingOf ==
  ASSUME NEW lines \in Seq(OutLines)
  PROVE  \E R : /\ R[0] = [addr |-> 0, image |-> <<>>]
                /\ \A i \in 1 .. Len(lines) : R[i] = Load(R[i - 1], lines[i])
                /\ Loading(lines) = R[Len(lines)]
<1> DEFINE n == Len(lines)
           Start == [addr |-> 0, image |-> <<>>]
           Step(s, i) == Load(s, lines[i])
           Is(Q, m) == Q = [i \in 0 .. m |-> IF i = 0 THEN Start ELSE Step(Q[i - 1], i)]
           Run[i \in 0 .. n] == IF i = 0 THEN Start ELSE Step(Run[i - 1], i)
<1>1. Loading(lines) = Run[n]
  BY DEF Loading
<1>2. Run = CHOOSE Q : Is(Q, n)
  OBVIOUS
<1>3. n \in Nat
  OBVIOUS
<1> HIDE DEF n, Start, Step, Run
<1>4. \E Q : Is(Q, n)
  <2> DEFINE S == {m \in Nat : \E Q : Is(Q, m)}
  <2>1. 0 \in S
    <3>1. Is([i \in 0 .. 0 |-> Start], 0)
      OBVIOUS
    <3> QED
      BY <3>1
  <2>2. ASSUME NEW m \in Nat, m \in S PROVE m + 1 \in S
    <3>1. PICK Q : Is(Q, m)
      BY <2>2
    <3> DEFINE R == [i \in 0 .. m + 1 |-> IF i = m + 1 THEN Step(Q[m], m + 1) ELSE Q[i]]
    <3>2. ASSUME NEW i \in 0 .. m + 1
          PROVE  R[i] = IF i = 0 THEN Start ELSE Step(R[i - 1], i)
      <4>1. CASE i = m + 1
        BY <4>1
      <4>2. CASE i # m + 1
        <5>1. i \in 0 .. m /\ (i # 0 => i - 1 \in 0 .. m)
          BY <4>2
        <5>2. R[i] = Q[i] /\ (i # 0 => R[i - 1] = Q[i - 1])
          BY <5>1
        <5> QED
          BY <3>1, <5>1, <5>2
      <4> QED
        BY <4>1, <4>2
    <3>3. Is(R, m + 1)
      BY <3>2
    <3> HIDE DEF R
    <3> QED
      BY <3>3
  <2> HIDE DEF S
  <2>3. n \in S
    BY <1>3, <2>1, <2>2, Induction
  <2> QED
    BY <2>3 DEF S
<1>5. Is(Run, n)
  BY <1>2, <1>4
<1>6. Run[0] = Start /\ \A i \in 1 .. n : Run[i] = Step(Run[i - 1], i)
  <2>1. \A i \in 1 .. n : i \in 0 .. n /\ i # 0
    BY <1>3
  <2> QED
    BY <1>3, <1>5, <2>1
<1> QED
  BY <1>1, <1>6 DEF n, Start, Step

\* An empty text says nothing,
LEMMA LoadingNothing == Loading(<<>>) = [addr |-> 0, image |-> <<>>]
<1>1. <<>> \in Seq(OutLines) /\ Len(<<>>) = 0
  OBVIOUS
<1> QED
  BY <1>1, LoadingOf

\* and one more line is loaded behind the others.
LEMMA LoadingAppend ==
  ASSUME NEW lines \in Seq(OutLines), NEW l \in OutLines
  PROVE  /\ Append(lines, l) \in Seq(OutLines)
         /\ Loading(Append(lines, l)) = Load(Loading(lines), l)
<1> DEFINE more == Append(lines, l)
           n == Len(lines)
<1>1. /\ more \in Seq(OutLines) /\ Len(more) = n + 1 /\ more[n + 1] = l
      /\ \A i \in 1 .. n : more[i] = lines[i]
      /\ n \in Nat
  OBVIOUS
<1> HIDE DEF more
<1>2. PICK P : /\ P[0] = [addr |-> 0, image |-> <<>>]
               /\ \A i \in 1 .. n : P[i] = Load(P[i - 1], lines[i])
               /\ Loading(lines) = P[n]
  BY LoadingOf
<1>3. PICK R : /\ R[0] = [addr |-> 0, image |-> <<>>]
               /\ \A i \in 1 .. n + 1 : R[i] = Load(R[i - 1], more[i])
               /\ Loading(more) = R[n + 1]
  <2> HIDE DEF n
  <2> QED
    BY <1>1, LoadingOf
<1> HIDE DEF n
<1> DEFINE S == {m \in Nat : m <= n => P[m] = R[m]}
<1>4. 0 \in S
  BY <1>2, <1>3
<1>5. ASSUME NEW m \in Nat, m \in S PROVE m + 1 \in S
  <2> SUFFICES ASSUME m + 1 <= n PROVE P[m + 1] = R[m + 1]
    OBVIOUS
  <2>1. P[m] = R[m] /\ m + 1 \in 1 .. n /\ m + 1 \in 1 .. n + 1 /\ (m + 1) - 1 = m
    BY <1>1, <1>5
  <2>2. P[m + 1] = Load(P[m], lines[m + 1]) /\ R[m + 1] = Load(R[m], more[m + 1])
    BY <1>2, <1>3, <2>1
  <2> QED
    BY <1>1, <2>1, <2>2
<1> HIDE DEF S
<1>6. n \in S
  BY <1>1, <1>4, <1>5, Induction
<1>7. R[n + 1] = Load(R[n], more[n + 1])
  <2>1. n + 1 \in 1 .. n + 1 /\ (n + 1) - 1 = n
    BY <1>1
  <2> QED
    BY <1>3, <2>1
<1> QED
  BY <1>1, <1>2, <1>3, <1>6, <1>7 DEF S, more
\* The digits of a number that fits in 31 bits, one after the other, are the number.
LEMMA HexPowers ==
  /\ 16 ^ 0 = 1 /\ 16 ^ 1 = 16 /\ 16 ^ 2 = 256 /\ 16 ^ 3 = 4096 /\ 16 ^ 4 = 65536
  /\ 16 ^ 5 = 1048576 /\ 16 ^ 6 = 16777216 /\ 16 ^ 7 = 268435456
  /\ 16 ^ 8 = 4294967296 /\ 2 ^ 31 = 2147483648 /\ 2 ^ 27 = 134217728
  /\ 2 ^ 28 = 268435456
BY SMT

Hex(n, k) == n \div 16 ^ k

\* The number y consists of the digits of x and one more, and fits in 31 bits.
NextDigit(x, y) ==
  /\ x \in Nat /\ x < 2 ^ 27
  /\ y % 16 \in 0 .. 15
  /\ y = 16 * x + (y % 16)

LEMMA Division16 ==
  ASSUME NEW x \in Nat
  PROVE  x = 16 * (x \div 16) + (x % 16) /\ x % 16 \in 0 .. 15 /\ x \div 16 \in Nat
BY SMT

LEMMA HexStep ==
  ASSUME NEW n, Addressable(n), NEW k \in 0 .. 7
  PROVE  NextDigit(Hex(n, k + 1), Hex(n, k))
<1> DEFINE Covers(q, x) == x \in Nat /\ q * x <= n /\ n < q * x + q
           Near(x, y) == y < 134217728 /\ 16 * y <= x /\ x <= 16 * y + 15
<1>1. n \in Nat /\ n < 2147483648
  BY HexPowers, SMT DEF Addressable
<1>2. \A q \in {16, 256, 4096, 65536, 1048576, 16777216, 268435456, 4294967296} :
        Covers(q, n \div q)
  BY <1>1, SMT
<1>3. Covers(1, n \div 1)
  BY <1>1, SMT
<1>4. \A x, y : Covers(1, x) /\ Covers(16, y) => Near(x, y)
  BY <1>1, SMT
<1>5. \A x, y : Covers(16, x) /\ Covers(256, y) => Near(x, y)
  BY <1>1, SMT
<1>6. \A x, y : Covers(256, x) /\ Covers(4096, y) => Near(x, y)
  BY <1>1, SMT
<1>7. \A x, y : Covers(4096, x) /\ Covers(65536, y) => Near(x, y)
  BY <1>1, SMT
<1>8. \A x, y : Covers(65536, x) /\ Covers(1048576, y) => Near(x, y)
  BY <1>1, SMT
<1>9. \A x, y : Covers(1048576, x) /\ Covers(16777216, y) => Near(x, y)
  BY <1>1, SMT
<1>10. \A x, y : Covers(16777216, x) /\ Covers(268435456, y) => Near(x, y)
  BY <1>1, SMT
<1>11. \A x, y : Covers(268435456, x) /\ Covers(4294967296, y) => Near(x, y)
  BY <1>1, SMT
<1> HIDE DEF Near
<1>12. /\ Near(n \div 16 ^ k, n \div 16 ^ (k + 1))
       /\ n \div 16 ^ k \in Nat /\ n \div 16 ^ (k + 1) \in Nat
  <2>0. \A q, x : Covers(q, x) => x \in Nat
    OBVIOUS
  <2> HIDE DEF Covers
  <2>1. CASE k = 0
    <3>1. 16 ^ k = 1 /\ 16 ^ (k + 1) = 16
      BY <2>1, HexPowers, SMT
    <3>2. Covers(1, n \div 1) /\ Covers(16, n \div 16)
      BY <1>2, <1>3, SMT
    <3> QED
      BY <2>0, <1>4, <3>1, <3>2, SMT
  <2>2. CASE k = 1
    <3>1. 16 ^ k = 16 /\ 16 ^ (k + 1) = 256
      BY <2>2, HexPowers, SMT
    <3>2. Covers(16, n \div 16) /\ Covers(256, n \div 256)
      BY <1>2, <1>3, SMT
    <3> QED
      BY <2>0, <1>5, <3>1, <3>2, SMT
  <2>3. CASE k = 2
    <3>1. 16 ^ k = 256 /\ 16 ^ (k + 1) = 4096
      BY <2>3, HexPowers, SMT
    <3>2. Covers(256, n \div 256) /\ Covers(4096, n \div 4096)
      BY <1>2, <1>3, SMT
    <3> QED
      BY <2>0, <1>6, <3>1, <3>2, SMT
  <2>4. CASE k = 3
    <3>1. 16 ^ k = 4096 /\ 16 ^ (k + 1) = 65536
      BY <2>4, HexPowers, SMT
    <3>2. Covers(4096, n \div 4096) /\ Covers(65536, n \div 65536)
      BY <1>2, <1>3, SMT
    <3> QED
      BY <2>0, <1>7, <3>1, <3>2, SMT
  <2>5. CASE k = 4
    <3>1. 16 ^ k = 65536 /\ 16 ^ (k + 1) = 1048576
      BY <2>5, HexPowers, SMT
    <3>2. Covers(65536, n \div 65536) /\ Covers(1048576, n \div 1048576)
      BY <1>2, <1>3, SMT
    <3> QED
      BY <2>0, <1>8, <3>1, <3>2, SMT
  <2>6. CASE k = 5
    <3>1. 16 ^ k = 1048576 /\ 16 ^ (k + 1) = 16777216
      BY <2>6, HexPowers, SMT
    <3>2. Covers(1048576, n \div 1048576) /\ Covers(16777216, n \div 16777216)
      BY <1>2, <1>3, SMT
    <3> QED
      BY <2>0, <1>9, <3>1, <3>2, SMT
  <2>7. CASE k = 6
    <3>1. 16 ^ k = 16777216 /\ 16 ^ (k + 1) = 268435456
      BY <2>7, HexPowers, SMT
    <3>2. Covers(16777216, n \div 16777216) /\ Covers(268435456, n \div 268435456)
      BY <1>2, <1>3, SMT
    <3> QED
      BY <2>0, <1>10, <3>1, <3>2, SMT
  <2>8. CASE k = 7
    <3>1. 16 ^ k = 268435456 /\ 16 ^ (k + 1) = 4294967296
      BY <2>8, HexPowers, SMT
    <3>2. Covers(268435456, n \div 268435456) /\ Covers(4294967296, n \div 4294967296)
      BY <1>2, <1>3, SMT
    <3> QED
      BY <2>0, <1>11, <3>1, <3>2, SMT
  <2> QED
    BY <2>1, <2>2, <2>3, <2>4, <2>5, <2>6, <2>7, <2>8
<1>13. ASSUME NEW x \in Nat, NEW y \in Nat, Near(x, y)
       PROVE  x % 16 \in 0 .. 15 /\ x = 16 * y + (x % 16)
  <2>1. x = 16 * (x \div 16) + (x % 16) /\ x % 16 \in 0 .. 15 /\ x \div 16 \in Nat
    BY Division16
  <2>2. y = x \div 16
    BY <1>13, <2>1, SMT DEF Near
  <2> QED
    BY <2>1, <2>2
<1>14. Near(Hex(n, k), Hex(n, k + 1)) /\ Hex(n, k) \in Nat /\ Hex(n, k + 1) \in Nat
  BY <1>12 DEF Hex
<1>15. \A x, y : Near(x, y) => y < 2 ^ 27
  BY HexPowers, SMT DEF Near
<1> HIDE DEF Near
<1>16. \A x, y \in Nat : Near(x, y) => NextDigit(y, x)
  BY <1>13, <1>15, SMT DEF NextDigit
<1> QED
  BY <1>14, <1>16, Zenon

\* How many digits there are.
LEMMA HexDigitsAre ==
  ASSUME NEW n, Addressable(n)
  PROVE  \E m \in 1 .. 8 : /\ n < 16 ^ m
                           /\ HexDigits(n) = [i \in 1 .. m |-> Hex(n, m - i) % 16]
<1> DEFINE Short(k) == n < 16 ^ k
           Is(Q) == Q = [k \in 1 .. 8 |-> IF k = 8 \/ Short(k) THEN k ELSE Q[k + 1]]
           Size[k \in 1 .. 8] == IF k = 8 \/ Short(k) THEN k ELSE Size[k + 1]
<1>1. HexDigits(n) = [i \in 1 .. Size[1] |-> (n \div 16 ^ (Size[1] - i)) % 16]
  BY DEF HexDigits
<1>2. Size = CHOOSE Q : Is(Q)
  OBVIOUS
<1>3. Short(8)
  BY HexPowers, SMT DEF Addressable
<1> HIDE DEF Short, Size
<1>4. \E Q : Is(Q)
  <2> DEFINE s7 == IF Short(7) THEN 7 ELSE 8
             s6 == IF Short(6) THEN 6 ELSE s7
             s5 == IF Short(5) THEN 5 ELSE s6
             s4 == IF Short(4) THEN 4 ELSE s5
             s3 == IF Short(3) THEN 3 ELSE s4
             s2 == IF Short(2) THEN 2 ELSE s3
             s1 == IF Short(1) THEN 1 ELSE s2
             Q == <<s1, s2, s3, s4, s5, s6, s7, 8>>
  <2>1. Is(Q)
    OBVIOUS
  <2> QED
    BY <2>1
<1>5. Is(Size)
  BY <1>2, <1>4
<1>6. \A k \in 1 .. 8 : Size[k] = IF k = 8 \/ Short(k) THEN k ELSE Size[k + 1]
  BY <1>5
<1>7. Size[1] \in 1 .. 8 /\ (Short(Size[1]) \/ Size[1] = 8)
  <2>8. Size[8] = 8
    BY <1>6
  <2>7. Size[7] \in 1 .. 8 /\ (Short(Size[7]) \/ Size[7] = 8)
    BY <1>6, <2>8
  <2>6. Size[6] \in 1 .. 8 /\ (Short(Size[6]) \/ Size[6] = 8)
    BY <1>6, <2>7
  <2>5. Size[5] \in 1 .. 8 /\ (Short(Size[5]) \/ Size[5] = 8)
    BY <1>6, <2>6
  <2>4. Size[4] \in 1 .. 8 /\ (Short(Size[4]) \/ Size[4] = 8)
    BY <1>6, <2>5
  <2>3. Size[3] \in 1 .. 8 /\ (Short(Size[3]) \/ Size[3] = 8)
    BY <1>6, <2>4
  <2>2. Size[2] \in 1 .. 8 /\ (Short(Size[2]) \/ Size[2] = 8)
    BY <1>6, <2>3
  <2> QED
    BY <1>6, <2>2
<1>8. Short(Size[1])
  BY <1>3, <1>7
<1> QED
  BY <1>1, <1>7, <1>8 DEF Short, Hex

\* Reading digits, one after the other.
LEMMA HexValueOf ==
  ASSUME NEW digits, NEW m \in Nat, Len(digits) = m
  PROVE  \E R : /\ R[0] = 0
                /\ \A i \in 1 .. m : R[i] = ShiftIn(R[i - 1], digits[i])
                /\ HexValue(digits) = R[m]
<1> DEFINE Step(s, i) == ShiftIn(s, digits[i])
           Is(Q, n) == Q = [i \in 0 .. n |-> IF i = 0 THEN 0 ELSE Step(Q[i - 1], i)]
           Run[i \in 0 .. m] == IF i = 0 THEN 0 ELSE Step(Run[i - 1], i)
<1>1. HexValue(digits) = Run[m]
  BY DEF HexValue
<1>2. Run = CHOOSE Q : Is(Q, m)
  OBVIOUS
<1> HIDE DEF Run, Step
<1>3. \E Q : Is(Q, m)
  <2> DEFINE S == {n \in Nat : \E Q : Is(Q, n)}
  <2>1. 0 \in S
    <3>1. Is([i \in 0 .. 0 |-> 0], 0)
      OBVIOUS
    <3> QED
      BY <3>1
  <2>2. ASSUME NEW n \in Nat, n \in S PROVE n + 1 \in S
    <3>1. PICK Q : Is(Q, n)
      BY <2>2
    <3> DEFINE R == [i \in 0 .. n + 1 |-> IF i = n + 1 THEN Step(Q[n], n + 1) ELSE Q[i]]
    <3>2. ASSUME NEW i \in 0 .. n + 1
          PROVE  R[i] = IF i = 0 THEN 0 ELSE Step(R[i - 1], i)
      <4>1. CASE i = n + 1
        BY <4>1
      <4>2. CASE i # n + 1
        <5>1. i \in 0 .. n /\ (i # 0 => i - 1 \in 0 .. n)
          BY <4>2
        <5>2. R[i] = Q[i] /\ (i # 0 => R[i - 1] = Q[i - 1])
          BY <5>1
        <5> QED
          BY <3>1, <5>1, <5>2
      <4> QED
        BY <4>1, <4>2
    <3>3. Is(R, n + 1)
      BY <3>2
    <3> HIDE DEF R
    <3> QED
      BY <3>3
  <2> HIDE DEF S
  <2>3. m \in S
    BY <2>1, <2>2, Induction
  <2> QED
    BY <2>3 DEF S
<1>4. Is(Run, m)
  BY <1>2, <1>3
<1>5. Run[0] = 0 /\ \A i \in 1 .. m : Run[i] = Step(Run[i - 1], i)
  <2>1. \A i \in 1 .. m : i \in 0 .. m /\ i # 0
    OBVIOUS
  <2> QED
    BY <1>4, <2>1
<1> QED
  BY <1>1, <1>5 DEF Step

LEMMA HexValueOfDigits ==
  ASSUME NEW n, Addressable(n)
  PROVE  HexDigits(n) \in Seq(Nat) /\ HexValue(HexDigits(n)) = n
<1>1. PICK m \in 1 .. 8 : /\ n < 16 ^ m
                          /\ HexDigits(n) = [i \in 1 .. m |-> Hex(n, m - i) % 16]
  BY HexDigitsAre
<1> DEFINE digits == HexDigits(n)
<1>2. \A i \in 1 .. m : digits[i] = Hex(n, m - i) % 16 /\ digits[i] \in 0 .. 15
  <2>1. \A k \in 0 .. 7 : Hex(n, k) % 16 \in 0 .. 15
    <3>1. \A x, y : NextDigit(x, y) => y % 16 \in 0 .. 15
      BY Zenon DEF NextDigit
    <3> QED
      BY <3>1, HexStep
  <2>2. \A i \in 1 .. m : m - i \in 0 .. 7
    OBVIOUS
  <2> QED
    BY <1>1, <2>1, <2>2
<1>3. digits \in Seq(Nat) /\ Len(digits) = m
  <2>1. digits = [i \in 1 .. m |-> digits[i]]
    <3> DEFINE e == [i \in 1 .. m |-> Hex(n, m - i) % 16]
    <3>1. e = [i \in 1 .. m |-> e[i]]
      OBVIOUS
    <3> HIDE DEF e
    <3> QED
      BY <1>1, <3>1 DEF e
  <2> HIDE DEF digits
  <2> QED
    BY <1>2, <2>1
<1> HIDE DEF digits
<1>4. PICK R : /\ R[0] = 0
               /\ \A i \in 1 .. m : R[i] = ShiftIn(R[i - 1], digits[i])
               /\ HexValue(digits) = R[m]
  BY <1>3, HexValueOf
<1>5. \A x, y : NextDigit(x, y) => ShiftIn(x, y % 16) = y
  <2> SUFFICES ASSUME NEW x, NEW y, NextDigit(x, y) PROVE ShiftIn(x, y % 16) = y
    OBVIOUS
  <2>1. \A z \in Nat, d \in 0 .. 15 : z < 2 ^ 27 => ShiftIn(z, d) = z * 16 + d
    BY HexPowers, SMT DEF ShiftIn
  <2>2. x \in Nat /\ x < 2 ^ 27 /\ y % 16 \in 0 .. 15 /\ y = 16 * x + (y % 16)
    BY Zenon DEF NextDigit
  <2> DEFINE d == y % 16
  <2>3. ShiftIn(x, d) = x * 16 + d
    BY <2>1, <2>2, Zenon
  <2>4. d \in 0 .. 15 /\ y = 16 * x + d
    BY <2>2, Zenon
  <2> HIDE DEF d
  <2>5. y = x * 16 + d
    BY <2>2, <2>4, SMT
  <2>6. ShiftIn(x, d) = y
    BY <2>3, <2>5
  <2> QED
    BY <2>6 DEF d
<1> DEFINE S == {i \in Nat : i <= m => R[i] = Hex(n, m - i)}
<1>6. 0 \in S
  <2>1. Hex(n, m) = 0
    <3>1. 16 ^ m \in Nat
      <4>1. m \in {1, 2, 3, 4, 5, 6, 7, 8}
        OBVIOUS
      <4>2. /\ 16 ^ 1 \in Nat /\ 16 ^ 2 \in Nat /\ 16 ^ 3 \in Nat /\ 16 ^ 4 \in Nat
            /\ 16 ^ 5 \in Nat /\ 16 ^ 6 \in Nat /\ 16 ^ 7 \in Nat /\ 16 ^ 8 \in Nat
        BY HexPowers, SMT
      <4> QED
        BY <4>1, <4>2
    <3>2. n < 16 ^ m /\ 16 ^ m \in Nat
      BY <1>1, <3>1
    <3>3. \A p \in Nat : n < p => n \div p = 0
      BY SMT DEF Addressable
    <3> QED
      BY <3>2, <3>3 DEF Hex
  <2> QED
    BY <1>4, <2>1
<1>7. ASSUME NEW i \in Nat, i \in S PROVE i + 1 \in S
  <2> SUFFICES ASSUME i + 1 <= m PROVE R[i + 1] = Hex(n, m - (i + 1))
    OBVIOUS
  <2>1. /\ R[i] = Hex(n, m - i) /\ i + 1 \in 1 .. m /\ (i + 1) - 1 = i
        /\ m - (i + 1) \in 0 .. 7 /\ (m - (i + 1)) + 1 = m - i
    BY <1>7
  <2>2. R[i + 1] = ShiftIn(Hex(n, m - i), Hex(n, m - (i + 1)) % 16)
    BY <1>2, <1>4, <2>1
  <2>3. NextDigit(Hex(n, m - i), Hex(n, m - (i + 1)))
    BY <2>1, HexStep
  <2> QED
    BY <1>5, <2>2, <2>3
<1> HIDE DEF S
<1>8. m \in S
  BY <1>6, <1>7, Induction
<1>9. R[m] = n
  BY <1>8, HexPowers, SMT DEF S, Hex, Addressable
<1> QED
  BY <1>3, <1>4, <1>9 DEF digits

(***************************************************************************)
(* Bytes.                                                                  *)
(***************************************************************************)
\* The digits of a line are those of its groups, of which it has one or two.
LEMMA FlattenOne ==
  ASSUME NEW a
  PROVE  Seqs!FlattenSeq(<<a>>) = a
<1> DEFINE seqs == <<a>>
           Is(Q) == Q = [i \in 1 .. 1 |-> IF i = 1 THEN seqs[i] ELSE Q[i - 1] \o seqs[i]]
           Flatten[i \in 1 .. 1] == IF i = 1 THEN seqs[i] ELSE Flatten[i - 1] \o seqs[i]
<1>1. Len(seqs) = 1 /\ seqs[1] = a
  OBVIOUS
<1>2. Seqs!FlattenSeq(seqs) = Flatten[1]
  BY <1>1 DEF Seqs!FlattenSeq
<1>3. Flatten = CHOOSE Q : Is(Q)
  OBVIOUS
<1> HIDE DEF seqs, Flatten
<1>4. Is([i \in 1 .. 1 |-> a])
  BY <1>1
<1>5. Is(Flatten)
  BY <1>3, <1>4
<1>6. Flatten[1] = a
  BY <1>1, <1>5
<1> QED
  BY <1>2, <1>6 DEF seqs

LEMMA FlattenTwo ==
  ASSUME NEW a, NEW b
  PROVE  Seqs!FlattenSeq(<<a, b>>) = a \o b
<1> DEFINE seqs == <<a, b>>
           Is(Q) == Q = [i \in 1 .. 2 |-> IF i = 1 THEN seqs[i] ELSE Q[i - 1] \o seqs[i]]
           Flatten[i \in 1 .. 2] == IF i = 1 THEN seqs[i] ELSE Flatten[i - 1] \o seqs[i]
<1>1. Len(seqs) = 2 /\ seqs[1] = a /\ seqs[2] = b
  OBVIOUS
<1>2. Seqs!FlattenSeq(seqs) = Flatten[2]
  BY <1>1 DEF Seqs!FlattenSeq
<1>3. Flatten = CHOOSE Q : Is(Q)
  OBVIOUS
<1> HIDE DEF seqs, Flatten
<1>4. Is([i \in 1 .. 2 |-> IF i = 1 THEN a ELSE a \o b])
  BY <1>1
<1>5. Is(Flatten)
  BY <1>3, <1>4
<1>6. \A i \in 1 .. 2 : Flatten[i] = IF i = 1 THEN seqs[i] ELSE Flatten[i - 1] \o seqs[i]
  BY <1>5
<1>7. 1 \in 1 .. 2 /\ 2 \in 1 .. 2 /\ 2 # 1 /\ 2 - 1 = 1
  OBVIOUS
<1>8. Flatten[1] = a /\ Flatten[2] = Flatten[1] \o b
  BY <1>1, <1>6, <1>7, Zenon
<1> QED
  BY <1>2, <1>8 DEF seqs

Byte == 0 .. 255

LEMMA ByteIsNat == \A x \in Byte : x \in Nat
BY DEF Byte

LEMMA JoinIs ==
  ASSUME NEW x \in Seq(Nat), NEW y \in Seq(Nat)
  PROVE  /\ x \o y \in Seq(Nat) /\ Len(x \o y) = Len(x) + Len(y)
         /\ \A i \in 1 .. Len(x) + Len(y) :
              (x \o y)[i] = IF i <= Len(x) THEN x[i] ELSE y[i - Len(x)]
OBVIOUS

Joined(s, x, y, m, n) ==
  /\ s \in Seq(Nat) /\ Len(s) = m + n
  /\ \A i \in 1 .. m : s[i] = x[i]
  /\ \A j \in 1 .. n : s[m + j] = y[j]

LEMMA JoinAt ==
  ASSUME NEW x \in Seq(Nat), NEW y \in Seq(Nat), NEW m \in Nat, NEW n \in Nat,
         Len(x) = m, Len(y) = n
  PROVE  Joined(x \o y, x, y, m, n)
<1>1. x \o y \in Seq(Nat) /\ Len(x \o y) = m + n
  BY JoinIs
<1>2. \A i \in 1 .. Len(x) + Len(y) :
        (x \o y)[i] = IF i <= Len(x) THEN x[i] ELSE y[i - Len(x)]
  BY JoinIs
<1> DEFINE s == x \o y
<1> HIDE DEF s
<1>3. \A i \in 1 .. m + n : s[i] = IF i <= m THEN x[i] ELSE y[i - m]
  BY <1>2 DEF s
<1>4. \A i \in 1 .. m : s[i] = x[i]
  BY <1>3
<1>5. \A j \in 1 .. n : s[m + j] = y[j]
  BY <1>3
<1> QED
  BY <1>1, <1>4, <1>5 DEF Joined, s

LEMMA JoinTwos ==
  ASSUME NEW x \in Seq(Nat), NEW y \in Seq(Nat), Len(x) = 2, Len(y) = 2
  PROVE  /\ x \o y \in Seq(Nat) /\ Len(x \o y) = 4
         /\ (x \o y)[1] = x[1] /\ (x \o y)[2] = x[2]
         /\ (x \o y)[3] = y[1] /\ (x \o y)[4] = y[2]
<1>1. Joined(x \o y, x, y, 2, 2)
  BY JoinAt
<1> DEFINE s == x \o y
<1> HIDE DEF s
<1>2. Joined(s, x, y, 2, 2)
  BY <1>1 DEF s
<1>3. s \in Seq(Nat) /\ Len(s) = 4
  BY <1>2 DEF Joined
<1>4. /\ s[1] = x[1] /\ s[2] = x[2]
      /\ s[3] = y[1] /\ s[4] = y[2]
  BY <1>2 DEF Joined
<1> QED
  BY <1>3, <1>4, Zenon DEF s

LEMMA JoinFours ==
  ASSUME NEW x \in Seq(Nat), NEW y \in Seq(Nat), Len(x) = 4, Len(y) = 4
  PROVE  /\ x \o y \in Seq(Nat) /\ Len(x \o y) = 8
         /\ (x \o y)[1] = x[1] /\ (x \o y)[2] = x[2]
         /\ (x \o y)[3] = x[3] /\ (x \o y)[4] = x[4]
         /\ (x \o y)[5] = y[1] /\ (x \o y)[6] = y[2]
         /\ (x \o y)[7] = y[3] /\ (x \o y)[8] = y[4]
<1>1. Joined(x \o y, x, y, 4, 4)
  BY JoinAt
<1> DEFINE s == x \o y
<1> HIDE DEF s
<1>2. Joined(s, x, y, 4, 4)
  BY <1>1 DEF s
<1>3. s \in Seq(Nat) /\ Len(s) = 8
  BY <1>2 DEF Joined
<1>4. /\ s[1] = x[1] /\ s[2] = x[2]
      /\ s[3] = x[3] /\ s[4] = x[4]
      /\ s[5] = y[1] /\ s[6] = y[2]
      /\ s[7] = y[3] /\ s[8] = y[4]
  BY <1>2 DEF Joined
<1> QED
  BY <1>3, <1>4, Zenon DEF s

LEMMA JoinFourTwo ==
  ASSUME NEW x \in Seq(Nat), NEW y \in Seq(Nat), Len(x) = 4, Len(y) = 2
  PROVE  /\ x \o y \in Seq(Nat) /\ Len(x \o y) = 6
         /\ (x \o y)[1] = x[1] /\ (x \o y)[2] = x[2]
         /\ (x \o y)[3] = x[3] /\ (x \o y)[4] = x[4]
         /\ (x \o y)[5] = y[1] /\ (x \o y)[6] = y[2]
<1>1. Joined(x \o y, x, y, 4, 2)
  BY JoinAt
<1> DEFINE s == x \o y
<1> HIDE DEF s
<1>2. Joined(s, x, y, 4, 2)
  BY <1>1 DEF s
<1>3. s \in Seq(Nat) /\ Len(s) = 6
  BY <1>2 DEF Joined
<1>4. /\ s[1] = x[1] /\ s[2] = x[2]
      /\ s[3] = x[3] /\ s[4] = x[4]
      /\ s[5] = y[1] /\ s[6] = y[2]
  BY <1>2 DEF Joined
<1> QED
  BY <1>3, <1>4, Zenon DEF s

LEMMA JoinSixTwo ==
  ASSUME NEW x \in Seq(Nat), NEW y \in Seq(Nat), Len(x) = 6, Len(y) = 2
  PROVE  /\ x \o y \in Seq(Nat) /\ Len(x \o y) = 8
         /\ (x \o y)[1] = x[1] /\ (x \o y)[2] = x[2]
         /\ (x \o y)[3] = x[3] /\ (x \o y)[4] = x[4]
         /\ (x \o y)[5] = x[5] /\ (x \o y)[6] = x[6]
         /\ (x \o y)[7] = y[1] /\ (x \o y)[8] = y[2]
<1>1. Joined(x \o y, x, y, 6, 2)
  BY JoinAt
<1> DEFINE s == x \o y
<1> HIDE DEF s
<1>2. Joined(s, x, y, 6, 2)
  BY <1>1 DEF s
<1>3. s \in Seq(Nat) /\ Len(s) = 8
  BY <1>2 DEF Joined
<1>4. /\ s[1] = x[1] /\ s[2] = x[2]
      /\ s[3] = x[3] /\ s[4] = x[4]
      /\ s[5] = x[5] /\ s[6] = x[6]
      /\ s[7] = y[1] /\ s[8] = y[2]
  BY <1>2 DEF Joined
<1> QED
  BY <1>3, <1>4, Zenon DEF s

\* Two digits for each byte.
InPairs(digits, bytes) ==
  /\ digits \in Seq(Nat) /\ Len(digits) = 2 * Len(bytes)
  /\ \A i \in 1 .. Len(bytes) : /\ digits[2 * i - 1] = bytes[i] \div 16
                                /\ digits[2 * i] = bytes[i] % 16

LEMMA BytesInPairs ==
  ASSUME NEW bytes \in Seq(Byte), NEW digits, InPairs(digits, bytes)
  PROVE  BytesIn(digits) = bytes
<1> DEFINE n == Len(bytes)
<1>1. n \in Nat /\ Len(digits) \div 2 = n
  <2>1. n \in Nat /\ Len(digits) = 2 * n
    BY DEF InPairs
  <2> HIDE DEF n
  <2> QED
    BY <2>1, SMT
<1>2. ASSUME NEW i \in 1 .. n PROVE digits[2 * i - 1] * 16 + digits[2 * i] = bytes[i]
  <2> DEFINE b == bytes[i]
  <2>1. b \in Nat
    <3>1. b \in Byte
      OBVIOUS
    <3> QED
      BY <3>1, ByteIsNat
  <2>2. digits[2 * i - 1] = b \div 16 /\ digits[2 * i] = b % 16
    BY DEF InPairs
  <2> HIDE DEF b
  <2>3. (b \div 16) * 16 + (b % 16) = b
    BY <2>1, SMT
  <2> QED
    BY <2>2, <2>3 DEF b
<1>3. bytes = [i \in 1 .. n |-> bytes[i]]
  OBVIOUS
<1>4. BytesIn(digits) = [i \in 1 .. n |-> digits[2 * i - 1] * 16 + digits[2 * i]]
  BY <1>1 DEF BytesIn
<1> HIDE DEF n
<1> QED
  BY <1>2, <1>3, <1>4

\* A line for each byte, and a line for all, with two bytes in a group.
ByteLine(b) == HexLine(<<TwoDigits(b)>>)

WordLine(bytes) ==
  HexLine([h \in 1 .. Len(bytes) \div 2 |->
             TwoDigits(bytes[2 * h - 1]) \o TwoDigits(bytes[2 * h])])

LEMMA DataLinesAre ==
  \A bytes : DataLines(bytes) = IF show_words /\ Len(bytes) > 1 THEN <<WordLine(bytes)>>
                                ELSE [i \in DOMAIN bytes |-> ByteLine(bytes[i])]
BY Zenon DEF DataLines, WordLine, ByteLine

\* The line says these bytes.
Says(l, bytes) ==
  /\ l \in OutLines /\ l.at = FALSE
  /\ BytesIn(Digits(l)) = bytes

LEMMA DigitsOfByte ==
  ASSUME NEW b \in Byte
  PROVE  /\ TwoDigits(b) \in Seq(Nat) /\ Len(TwoDigits(b)) = 2
         /\ TwoDigits(b)[1] = b \div 16 /\ TwoDigits(b)[2] = b % 16
<1>1. b \div 16 \in Nat /\ b % 16 \in Nat
  BY SMT DEF Byte
<1> QED
  BY <1>1 DEF TwoDigits

LEMMA ByteSaid ==
  ASSUME NEW b \in Byte
  PROVE  Says(ByteLine(b), <<b>>)
<1> DEFINE d == TwoDigits(b)
           bytes == <<b>>
<1>1. d \in Seq(Nat) /\ Len(d) = 2 /\ d[1] = b \div 16 /\ d[2] = b % 16
  BY DigitsOfByte
<1> HIDE DEF d
<1>2. HexLine(<<d>>) \in OutLines /\ HexLine(<<d>>).at = FALSE
  BY <1>1 DEF HexLine, OutLines
<1>3. Digits(HexLine(<<d>>)) = d
  BY FlattenOne DEF Digits, HexLine
<1>4. bytes \in Seq(Byte) /\ Len(bytes) = 1 /\ bytes[1] = b
  OBVIOUS
<1> HIDE DEF bytes
<1>5. InPairs(d, bytes)
  BY <1>1, <1>4 DEF InPairs
<1>6. BytesIn(d) = bytes
  BY <1>4, <1>5, BytesInPairs
<1> QED
  BY <1>2, <1>3, <1>6 DEF Says, ByteLine, d, bytes

\* With -b two bytes are a group.
LEMMA WordSaid ==
  ASSUME NEW bytes \in Seq(Byte), Len(bytes) \in {2, 4}
  PROVE  Says(WordLine(bytes), bytes)
<1> DEFINE Pair(i, j) == TwoDigits(bytes[i]) \o TwoDigits(bytes[j])
           groups == [h \in 1 .. Len(bytes) \div 2 |-> Pair(2 * h - 1, 2 * h)]
           l == HexLine(groups)
           IsPair(p, i, j) ==
             /\ p \in Seq(Nat) /\ Len(p) = 4
             /\ p[1] = bytes[i] \div 16 /\ p[2] = bytes[i] % 16
             /\ p[3] = bytes[j] \div 16 /\ p[4] = bytes[j] % 16
<1>1. ASSUME NEW i \in 1 .. Len(bytes), NEW j \in 1 .. Len(bytes)
      PROVE  IsPair(Pair(i, j), i, j)
  <2> DEFINE x == TwoDigits(bytes[i])
             y == TwoDigits(bytes[j])
  <2>1. bytes[i] \in Byte /\ bytes[j] \in Byte
    OBVIOUS
  <2>2. /\ x \in Seq(Nat) /\ Len(x) = 2 /\ x[1] = bytes[i] \div 16 /\ x[2] = bytes[i] % 16
        /\ y \in Seq(Nat) /\ Len(y) = 2 /\ y[1] = bytes[j] \div 16 /\ y[2] = bytes[j] % 16
    BY <2>1, DigitsOfByte
  <2> HIDE DEF x, y
  <2>3. /\ x \o y \in Seq(Nat) /\ Len(x \o y) = 4
        /\ (x \o y)[1] = x[1] /\ (x \o y)[2] = x[2]
        /\ (x \o y)[3] = y[1] /\ (x \o y)[4] = y[2]
    BY <2>2, JoinTwos
  <2> QED
    BY <2>2, <2>3 DEF x, y
<1> HIDE DEF Pair
<1>2. l.at = FALSE /\ (groups \in Seq(Seq(Nat)) => l \in OutLines)
  BY DEF HexLine, OutLines
<1>3. Digits(l) = Seqs!FlattenSeq(groups)
  BY DEF Digits, HexLine
<1>4. CASE Len(bytes) = 2
  <2> DEFINE p == Pair(1, 2)
  <2>1. IsPair(p, 1, 2)
    BY <1>1, <1>4
  <2>2. groups = <<p>>
    <3>1. Len(bytes) \div 2 = 1
      BY <1>4, SMT
    <3> QED
      BY <3>1
  <2> HIDE DEF p, groups
  <2>3. groups \in Seq(Seq(Nat))
    BY <2>1, <2>2
  <2>4. Digits(l) = p
    BY <1>3, <2>2, FlattenOne
  <2>5. InPairs(p, bytes)
    BY <1>4, <2>1 DEF InPairs
  <2> HIDE DEF l
  <2>6. BytesIn(p) = bytes
    BY <2>5, BytesInPairs
  <2> QED
    BY <1>2, <2>3, <2>4, <2>6 DEF Says, WordLine, l, groups, Pair
<1>5. CASE Len(bytes) = 4
  <2> DEFINE p == Pair(1, 2)
             q == Pair(3, 4)
  <2>1. IsPair(p, 1, 2) /\ IsPair(q, 3, 4)
    BY <1>1, <1>5
  <2>2. groups = <<p, q>>
    <3>1. Len(bytes) \div 2 = 2
      BY <1>5, SMT
    <3> QED
      BY <3>1
  <2> HIDE DEF p, q, groups
  <2>3. groups \in Seq(Seq(Nat))
    BY <2>1, <2>2
  <2>4. Digits(l) = p \o q
    BY <1>3, <2>2, FlattenTwo
  <2> DEFINE d == p \o q
  <2>5. InPairs(d, bytes)
    <3>1. p \in Seq(Nat) /\ Len(p) = 4 /\ q \in Seq(Nat) /\ Len(q) = 4
      BY <2>1
    <3>2. /\ d[1] = p[1] /\ d[2] = p[2] /\ d[3] = p[3] /\ d[4] = p[4]
          /\ d[5] = q[1] /\ d[6] = q[2] /\ d[7] = q[3] /\ d[8] = q[4]
          /\ d \in Seq(Nat) /\ Len(d) = 8
      BY <3>1, JoinFours
    <3> HIDE DEF d
    <3>3. \A i \in 1 .. Len(bytes) : i = 1 \/ i = 2 \/ i = 3 \/ i = 4
      BY <1>5
    <3>4. \A i \in 1 .. Len(bytes) : d[2 * i - 1] = bytes[i] \div 16 /\ d[2 * i] = bytes[i] % 16
      <4>1. /\ d[1] = bytes[1] \div 16 /\ d[2] = bytes[1] % 16
            /\ d[3] = bytes[2] \div 16 /\ d[4] = bytes[2] % 16
            /\ d[5] = bytes[3] \div 16 /\ d[6] = bytes[3] % 16
            /\ d[7] = bytes[4] \div 16 /\ d[8] = bytes[4] % 16
        BY <2>1, <3>2
      <4>2. /\ 2 * 1 - 1 = 1 /\ 2 * 1 = 2 /\ 2 * 2 - 1 = 3 /\ 2 * 2 = 4
            /\ 2 * 3 - 1 = 5 /\ 2 * 3 = 6 /\ 2 * 4 - 1 = 7 /\ 2 * 4 = 8
        OBVIOUS
      <4> TAKE i \in 1 .. Len(bytes)
      <4>3. CASE i = 1
        BY <4>1, <4>2, <4>3
      <4>4. CASE i = 2
        BY <4>1, <4>2, <4>4
      <4>5. CASE i = 3
        BY <4>1, <4>2, <4>5
      <4>6. CASE i = 4
        BY <4>1, <4>2, <4>6
      <4> QED
        BY <3>3, <4>3, <4>4, <4>5, <4>6
    <3> QED
      BY <1>5, <3>2, <3>4 DEF InPairs
  <2> HIDE DEF l
  <2>6. BytesIn(p \o q) = bytes
    BY <2>5, BytesInPairs
  <2> QED
    BY <1>2, <2>3, <2>4, <2>6 DEF Says, WordLine, l, groups, Pair
<1> QED
  BY <1>4, <1>5

\* What a line says is loaded at the address.
LEMMA LoadSaid ==
  ASSUME NEW l, NEW bytes, Says(l, bytes), NEW s
  PROVE  Load(s, l) = [addr |-> s.addr + Len(bytes), image |-> Put(s.image, s.addr, bytes)]
BY DEF Says, Load

LEMMA LoadAt ==
  ASSUME NEW a, Addressable(a), NEW s, s = [addr |-> s.addr, image |-> s.image]
  PROVE  /\ AtLine(HexDigits(a)) \in OutLines
         /\ Load(s, AtLine(HexDigits(a))) = [addr |-> a, image |-> s.image]
<1> DEFINE d == HexDigits(a)
<1>1. d \in Seq(Nat) /\ HexValue(d) = a
  BY HexValueOfDigits
<1> HIDE DEF d
<1>2. AtLine(d) \in OutLines /\ AtLine(d).at = TRUE /\ AtLine(d).groups = <<d>>
  BY <1>1 DEF AtLine, OutLines
<1>3. Digits(AtLine(d)) = d
  BY <1>2, FlattenOne DEF Digits
<1>4. Load(s, AtLine(d)) = [s EXCEPT !.addr = a]
  BY <1>1, <1>2, <1>3 DEF Load
<1>5. [s EXCEPT !.addr = a] = [addr |-> a, image |-> s.image]
  OBVIOUS
<1> QED
  BY <1>2, <1>4, <1>5 DEF d

(***************************************************************************)
(* Memory.                                                                 *)
(***************************************************************************)
LEMMA PutTwice ==
  ASSUME NEW f, NEW a \in Int, NEW x \in Seq(Byte), NEW b \in Byte
  PROVE  Put(Put(f, a, x), a + Len(x), <<b>>) = Put(f, a, Append(x, b))
<1> DEFINE n == Len(x)
           g == Put(f, a, x)
           y == <<b>>
           z == Append(x, b)
           E == a .. a + n - 1
           F == (a + n) .. a + n + 1 - 1
           G == a .. a + (n + 1) - 1
<1>1. n \in Nat /\ Len(y) = 1 /\ y[1] = b /\ Len(z) = n + 1
      /\ \A i \in 1 .. n + 1 : z[i] = IF i = n + 1 THEN b ELSE x[i]
  OBVIOUS
<1>2. g = [c \in E \cup DOMAIN f |-> IF c \in E THEN x[c - a + 1] ELSE f[c]]
  BY DEF Put
<1> HIDE DEF n, y, z
<1>3. Put(g, a + n, y)
        = [c \in F \cup DOMAIN g |-> IF c \in F THEN y[c - (a + n) + 1] ELSE g[c]]
  BY <1>1, Zenon DEF Put
<1>4. Put(f, a, z) = [c \in G \cup DOMAIN f |-> IF c \in G THEN z[c - a + 1] ELSE f[c]]
  BY <1>1, Zenon DEF Put
<1> HIDE DEF g
<1>5. F \cup DOMAIN g = G \cup DOMAIN f
  <2>1. DOMAIN g = E \cup DOMAIN f
    BY <1>2, Zenon
  <2>2. F \cup E = G
    BY <1>1, SMT
  <2> HIDE DEF E, F, G
  <2> QED
    BY <2>1, <2>2
<1>6. ASSUME NEW c \in G \cup DOMAIN f
      PROVE  (IF c \in F THEN y[c - (a + n) + 1] ELSE g[c])
               = IF c \in G THEN z[c - a + 1] ELSE f[c]
  <2>1. CASE c \in F
    <3>1. c = a + n /\ c \in G
      BY <1>1, <2>1
    <3>2. c - (a + n) + 1 = 1 /\ c - a + 1 = n + 1 /\ n + 1 \in 1 .. n + 1
      BY <1>1, <3>1
    <3> QED
      BY <1>1, <2>1, <3>1, <3>2
  <2>2. CASE c \in E
    <3>1. c \notin F /\ c \in G /\ c - a + 1 \in 1 .. n + 1 /\ c - a + 1 # n + 1
      BY <1>1, <2>2
    <3>2. g[c] = x[c - a + 1]
      BY <1>2, <2>2, Zenon
    <3> QED
      BY <1>1, <3>1, <3>2
  <2>3. CASE c \notin E /\ c \notin F
    <3>1. c \notin G
      BY <1>1, <2>3
    <3>2. g[c] = f[c]
      BY <1>2, <2>3, <3>1, Zenon
    <3> QED
      BY <2>3, <3>1, <3>2
  <2> QED
    BY <2>1, <2>2, <2>3
<1>7. Put(g, a + n, y) = Put(f, a, z)
  <2> HIDE DEF E, F, G
  <2> QED
    BY <1>3, <1>4, <1>5, <1>6, Zenon
<1> QED
  BY <1>7 DEF g, n, y, z

\* A sequence behind another one is appended element by element.
LEMMA AppendedOne ==
  ASSUME NEW S, NEW s \in Seq(S), NEW x \in S
  PROVE  s \o <<x>> = Append(s, x)
OBVIOUS

LEMMA AppendedTwo ==
  ASSUME NEW S, NEW s \in Seq(S), NEW x \in S, NEW y \in S
  PROVE  s \o <<x, y>> = Append(Append(s, x), y)
OBVIOUS

LEMMA AppendedFour ==
  ASSUME NEW S, NEW s \in Seq(S), NEW x \in S, NEW y \in S, NEW z \in S, NEW w \in S
  PROVE  s \o <<x, y, z, w>> = Append(Append(Append(Append(s, x), y), z), w)
OBVIOUS

\* The line of a first byte, and of one more, is loaded behind the others.
LEMMA ByteLoaded ==
  ASSUME NEW t \in Seq(OutLines), NEW b \in Byte
  PROVE  /\ ByteLine(b) \in OutLines
         /\ Append(t, ByteLine(b)) \in Seq(OutLines)
         /\ Loading(Append(t, ByteLine(b)))
              = [addr  |-> Loading(t).addr + 1,
                 image |-> Put(Loading(t).image, Loading(t).addr, <<b>>)]
<1> DEFINE l == ByteLine(b)
<1>1. Says(l, <<b>>)
  BY ByteSaid
<1> HIDE DEF l
<1>2. l \in OutLines
  BY <1>1 DEF Says
<1>3. Append(t, l) \in Seq(OutLines) /\ Loading(Append(t, l)) = Load(Loading(t), l)
  BY <1>2, LoadingAppend
<1>4. Len(<<b>>) = 1
  OBVIOUS
<1>5. Load(Loading(t), l) = [addr  |-> Loading(t).addr + 1,
                             image |-> Put(Loading(t).image, Loading(t).addr, <<b>>)]
  BY <1>1, <1>4, LoadSaid
<1> QED
  BY <1>2, <1>3, <1>5 DEF l

LEMMA OneMoreByte ==
  ASSUME NEW a \in Int, NEW f, NEW x \in Seq(Byte), NEW b \in Byte, NEW t \in Seq(OutLines),
         Loading(t) = [addr |-> a + Len(x), image |-> Put(f, a, x)]
  PROVE  /\ Append(t, ByteLine(b)) \in Seq(OutLines)
         /\ Append(x, b) \in Seq(Byte)
         /\ Loading(Append(t, ByteLine(b)))
              = [addr |-> a + Len(Append(x, b)), image |-> Put(f, a, Append(x, b))]
<1> DEFINE s == Loading(t)
           u == Loading(Append(t, ByteLine(b)))
<1>1. s.addr = a + Len(x) /\ s.image = Put(f, a, x)
  OBVIOUS
<1>2. /\ Append(t, ByteLine(b)) \in Seq(OutLines)
      /\ u = [addr |-> s.addr + 1, image |-> Put(s.image, s.addr, <<b>>)]
  BY ByteLoaded
<1>3. Append(x, b) \in Seq(Byte) /\ (a + Len(x)) + 1 = a + Len(Append(x, b))
  OBVIOUS
<1>4. Put(Put(f, a, x), a + Len(x), <<b>>) = Put(f, a, Append(x, b))
  BY PutTwice
<1> HIDE DEF s, u
<1>5. u = [addr |-> a + Len(Append(x, b)), image |-> Put(f, a, Append(x, b))]
  BY <1>1, <1>2, <1>3, <1>4, Zenon
<1> QED
  BY <1>2, <1>3, <1>5 DEF u

\* One, two and four of them.
LoadedAs(lines, x, t) ==
  /\ t \in Seq(OutLines) /\ x \in Seq(Byte)
  /\ Loading(t) = [addr  |-> Loading(lines).addr + Len(x),
                   image |-> Put(Loading(lines).image, Loading(lines).addr, x)]

LEMMA FirstLoaded ==
  ASSUME NEW lines \in Seq(OutLines), NEW b \in Byte
  PROVE  LoadedAs(lines, <<b>>, Append(lines, ByteLine(b)))
<1>1. <<b>> \in Seq(Byte) /\ Len(<<b>>) = 1
  OBVIOUS
<1>2. /\ Append(lines, ByteLine(b)) \in Seq(OutLines)
      /\ Loading(Append(lines, ByteLine(b)))
           = [addr  |-> Loading(lines).addr + 1,
              image |-> Put(Loading(lines).image, Loading(lines).addr, <<b>>)]
  BY ByteLoaded
<1> QED
  BY <1>1, <1>2 DEF LoadedAs

LEMMA NextLoaded ==
  ASSUME NEW lines, Loading(lines).addr \in Int, NEW x, NEW t, LoadedAs(lines, x, t),
         NEW b \in Byte
  PROVE  LoadedAs(lines, Append(x, b), Append(t, ByteLine(b)))
<1> DEFINE a == Loading(lines).addr
           f == Loading(lines).image
<1>1. t \in Seq(OutLines) /\ x \in Seq(Byte)
      /\ Loading(t) = [addr |-> a + Len(x), image |-> Put(f, a, x)]
  BY Zenon DEF LoadedAs
<1>2. a \in Int
  OBVIOUS
<1> HIDE DEF a, f
<1>3. /\ Append(t, ByteLine(b)) \in Seq(OutLines)
      /\ Append(x, b) \in Seq(Byte)
      /\ Loading(Append(t, ByteLine(b)))
           = [addr |-> a + Len(Append(x, b)), image |-> Put(f, a, Append(x, b))]
  BY <1>1, <1>2, OneMoreByte
<1> QED
  BY <1>3, Zenon DEF LoadedAs, a, f

LEMMA BytesLoaded ==
  ASSUME NEW lines \in Seq(OutLines), Loading(lines).addr \in Int,
         NEW bytes \in Seq(Byte), Len(bytes) \in {1, 2, 4}
  PROVE  LoadedAs(lines, bytes, lines \o [i \in DOMAIN bytes |-> ByteLine(bytes[i])])
<1> DEFINE l(i) == ByteLine(bytes[i])
           rows == [i \in DOMAIN bytes |-> l(i)]
           Goal == LoadedAs(lines, bytes, lines \o rows)
<1> SUFFICES Goal
  OBVIOUS
<1>1. ASSUME NEW i \in 1 .. Len(bytes) PROVE bytes[i] \in Byte /\ l(i) \in OutLines
  <2>1. bytes[i] \in Byte
    OBVIOUS
  <2> QED
    BY <2>1, ByteSaid, Zenon DEF Says
<1>2. CASE Len(bytes) = 1
  <2>1. bytes = <<bytes[1]>> /\ rows = <<l(1)>>
    BY <1>2
  <2>2. bytes[1] \in Byte /\ l(1) \in OutLines
    BY <1>1, <1>2
  <2>3. LoadedAs(lines, <<bytes[1]>>, Append(lines, l(1)))
    BY <2>2, FirstLoaded
  <2> HIDE DEF l, rows
  <2>4. lines \o <<l(1)>> = Append(lines, l(1))
    BY <2>2, AppendedOne
  <2> QED
    BY <2>1, <2>3, <2>4, Zenon
<1>3. CASE Len(bytes) = 2
  <2>1. bytes = Append(<<bytes[1]>>, bytes[2]) /\ rows = <<l(1), l(2)>>
    BY <1>3
  <2>2. bytes[1] \in Byte /\ l(1) \in OutLines /\ bytes[2] \in Byte /\ l(2) \in OutLines
    BY <1>1, <1>3
  <2>3. LoadedAs(lines, <<bytes[1]>>, Append(lines, l(1)))
    BY <2>2, FirstLoaded
  <2>4. LoadedAs(lines, Append(<<bytes[1]>>, bytes[2]), Append(Append(lines, l(1)), l(2)))
    BY <2>2, <2>3, NextLoaded
  <2> HIDE DEF l, rows
  <2>5. lines \o <<l(1), l(2)>> = Append(Append(lines, l(1)), l(2))
    BY <2>2, AppendedTwo
  <2> QED
    BY <2>1, <2>4, <2>5, Zenon
<1>4. CASE Len(bytes) = 4
  <2>1. /\ bytes = Append(Append(Append(<<bytes[1]>>, bytes[2]), bytes[3]), bytes[4])
        /\ rows = <<l(1), l(2), l(3), l(4)>>
    BY <1>4
  <2>2. /\ bytes[1] \in Byte /\ l(1) \in OutLines /\ bytes[2] \in Byte /\ l(2) \in OutLines
        /\ bytes[3] \in Byte /\ l(3) \in OutLines /\ bytes[4] \in Byte /\ l(4) \in OutLines
    BY <1>1, <1>4
  <2>3. LoadedAs(lines, <<bytes[1]>>, Append(lines, l(1)))
    BY <2>2, FirstLoaded
  <2>4. LoadedAs(lines, Append(<<bytes[1]>>, bytes[2]), Append(Append(lines, l(1)), l(2)))
    BY <2>2, <2>3, NextLoaded
  <2>5. LoadedAs(lines, Append(Append(<<bytes[1]>>, bytes[2]), bytes[3]),
                Append(Append(Append(lines, l(1)), l(2)), l(3)))
    BY <2>2, <2>4, NextLoaded
  <2>6. LoadedAs(lines, Append(Append(Append(<<bytes[1]>>, bytes[2]), bytes[3]), bytes[4]),
                Append(Append(Append(Append(lines, l(1)), l(2)), l(3)), l(4)))
    BY <2>2, <2>5, NextLoaded
  <2> HIDE DEF l, rows
  <2>7. lines \o <<l(1), l(2), l(3), l(4)>>
          = Append(Append(Append(Append(lines, l(1)), l(2)), l(3)), l(4))
    BY <2>2, AppendedFour
  <2> QED
    BY <2>1, <2>6, <2>7, Zenon
<1> QED
  BY <1>2, <1>3, <1>4

LEMMA MoreThanOne == \A k \in {1, 2, 4} : k > 1 => k \in {2, 4}
OBVIOUS

\* The lines of some bytes are loaded as these bytes.
LEMMA DataLoaded ==
  ASSUME NEW lines \in Seq(OutLines), Loading(lines).addr \in Int,
         NEW bytes \in Seq(Byte), Len(bytes) \in {1, 2, 4}
  PROVE  LET a == Loading(lines).addr
         IN /\ lines \o DataLines(bytes) \in Seq(OutLines)
            /\ Loading(lines \o DataLines(bytes))
                 = [addr  |-> a + Len(bytes),
                    image |-> Put(Loading(lines).image, a, bytes)]
<1> SUFFICES LoadedAs(lines, bytes, lines \o DataLines(bytes))
  BY Zenon DEF LoadedAs
<1>1. CASE show_words /\ Len(bytes) > 1
  <2> DEFINE l == WordLine(bytes)
  <2>1. DataLines(bytes) = <<l>>
    BY <1>1, DataLinesAre, Zenon
  <2>2. Len(bytes) \in {2, 4}
    BY <1>1, MoreThanOne, Zenon
  <2>3. Says(l, bytes)
    BY <2>2, WordSaid
  <2> HIDE DEF l
  <2>4. l \in OutLines
    BY <2>3 DEF Says
  <2>5. lines \o <<l>> = Append(lines, l)
    BY <2>4, AppendedOne
  <2>6. Loading(Append(lines, l)) = Load(Loading(lines), l)
        /\ Append(lines, l) \in Seq(OutLines)
    BY <2>4, LoadingAppend
  <2>7. Load(Loading(lines), l)
          = [addr  |-> Loading(lines).addr + Len(bytes),
             image |-> Put(Loading(lines).image, Loading(lines).addr, bytes)]
    BY <2>3, LoadSaid, Zenon
  <2> QED
    BY <2>1, <2>5, <2>6, <2>7, Zenon DEF LoadedAs
<1>2. CASE ~(show_words /\ Len(bytes) > 1)
  <2>1. DataLines(bytes) = [i \in DOMAIN bytes |-> ByteLine(bytes[i])]
    BY <1>2, DataLinesAre, Zenon
  <2> QED
    BY <2>1, BytesLoaded
<1> QED
  BY <1>1, <1>2

(***************************************************************************)
(* Pieces of memory on top of each other.                                  *)
(***************************************************************************)
Extent(p) == p.address .. p.address + Len(p.bytes) - 1

IsOver(f, P) ==
  /\ f = [a \in DOMAIN f |-> f[a]]
  /\ DOMAIN f = UNION {Extent(p) : p \in P}
  /\ \A a \in DOMAIN f : \E p \in P :
       /\ a \in Extent(p) /\ f[a] = p.bytes[a - p.address + 1]
       /\ \A q \in P : a \in Extent(q) => q.line <= p.line

LEMMA NothingOver == IsOver(<<>>, {})
<1>1. DOMAIN <<>> = {} /\ <<>> = [a \in {} |-> 0]
  OBVIOUS
<1> QED
  BY <1>1 DEF IsOver

\* What is written last is on top.
LEMMA PutOver ==
  ASSUME NEW f, NEW P, IsOver(f, P), NEW w, w.line \in Int,
         \A q \in P : q.line <= w.line
  PROVE  IsOver(Put(f, w.address, w.bytes), P \cup {w})
<1> DEFINE E == Extent(w)
           g == Put(f, w.address, w.bytes)
           Q == P \cup {w}
           Tops(h, R, a, p) == /\ a \in Extent(p) /\ h[a] = p.bytes[a - p.address + 1]
                               /\ \A q \in R : a \in Extent(q) => q.line <= p.line
<1>1. g = [a \in E \cup DOMAIN f |-> IF a \in E THEN w.bytes[a - w.address + 1] ELSE f[a]]
  BY Zenon DEF Put, Extent
<1>2. DOMAIN f = UNION {Extent(p) : p \in P}
      /\ \A a \in DOMAIN f : \E p \in P : Tops(f, P, a, p)
  BY Zenon DEF IsOver
<1>3. w.line <= w.line
  OBVIOUS
<1> HIDE DEF g
<1>4. /\ DOMAIN g = E \cup DOMAIN f
      /\ \A a \in E : g[a] = w.bytes[a - w.address + 1]
      /\ \A a \in DOMAIN f : a \notin E => g[a] = f[a]
  BY <1>1, Zenon
<1>5. g = [a \in DOMAIN g |-> g[a]]
  BY <1>1, Zenon
<1>6. DOMAIN g = UNION {Extent(p) : p \in Q}
  BY <1>2, <1>4, Zenon
<1>7. ASSUME NEW a \in DOMAIN g PROVE \E p \in Q : Tops(g, Q, a, p)
  <2>1. CASE a \in E
    <3>1. \A q \in Q : q.line <= w.line
      BY <1>3
    <3>2. Tops(g, Q, a, w)
      BY <1>4, <2>1, <3>1, Zenon
    <3> QED
      BY <3>2, Zenon
  <2>2. CASE a \notin E
    <3>1. a \in DOMAIN f
      BY <1>4, <2>2
    <3>2. PICK p \in P : Tops(f, P, a, p)
      BY <1>2, <3>1, Zenon
    <3>3. Tops(g, Q, a, p)
      <4>1. g[a] = f[a]
        BY <1>4, <2>2, <3>1, Zenon
      <4>2. \A q \in Q : a \in Extent(q) => q \in P
        BY <2>2, Zenon
      <4> QED
        BY <3>2, <4>1, <4>2, Zenon
    <3> QED
      BY <3>3, Zenon
  <2> QED
    BY <2>1, <2>2
<1>8. IsOver(g, Q)
  BY <1>5, <1>6, <1>7, Zenon DEF IsOver
<1> QED
  BY <1>8 DEF g

\* There is one such memory, when no two pieces of a line are over one another.
LEMMA OverlayIs ==
  ASSUME NEW f, NEW P, IsOver(f, P), \A p \in P : p.line \in Int,
         \A p, q \in P : p.line = q.line /\ Extent(p) \cap Extent(q) # {} => p = q
  PROVE  f = Overlay(P)
<1> DEFINE D == UNION {Extent(p) : p \in P}
           Top(a, p) == a \in Extent(p) /\ \A q \in P : a \in Extent(q) => q.line <= p.line
           Last(a) == CHOOSE p \in P : Top(a, p)
           At(a, p) == p.bytes[a - p.address + 1]
<1>1. Overlay(P) = [a \in D |-> At(a, Last(a))]
  BY Zenon DEF Overlay, Extent
<1>2. /\ f = [a \in D |-> f[a]]
      /\ \A a \in D : \E p \in P : Top(a, p) /\ f[a] = At(a, p)
  BY Zenon DEF IsOver
<1>3. ASSUME NEW a \in D PROVE f[a] = At(a, Last(a))
  <2>1. PICK p \in P : Top(a, p) /\ f[a] = At(a, p)
    BY <1>2
  <2> DEFINE q == Last(a)
  <2>2. q \in P /\ Top(a, q)
    BY <2>1, Zenon
  <2> HIDE DEF q
  <2>3. q.line <= p.line /\ p.line <= q.line
    BY <2>1, <2>2
  <2>4. p = q
    BY <2>1, <2>2, <2>3
  <2> QED
    BY <2>1, <2>4 DEF q
<1> HIDE DEF D, At, Last
<1> QED
  BY <1>1, <1>2, <1>3, Zenon

(***************************************************************************)
(* The pieces of each line.                                                *)
(***************************************************************************)
\* The text of an instruction with the value of its expression.
Told(i) == [source[i].text EXCEPT !.imm = ValueIn(i, source[i].expr, Layout[i]).num]

\* How many pieces a line has, and how many bytes each.
Parts(i) ==
  CASE source[i].kind = "instr" -> Len(Expand(Told(i)))
    [] source[i].kind = ".db"   -> Len(source[i].exprs)
    [] OTHER -> 0

PartSize(i) == IF source[i].kind = "instr" THEN 4 ELSE source[i].size

PartAt(i, k) == Layout[i] + PartSize(i) * (k - 1)

PartNumber(i, k) ==
  IF source[i].kind = "instr" THEN Encode(Expand(Told(i))[k], PartAt(i, k))
  ELSE ValueIn(i, source[i].exprs[k], PartAt(i, k)).num

Part(i, k) == [line |-> i, address |-> PartAt(i, k),
               bytes |-> Bytes(PartNumber(i, k), PartSize(i))]

PartsOf(i, n) == {Part(i, k) : k \in 1 .. n}

\* Those of the lines before line i, and the first n of line i.
Pieces(i, n) ==
  PartsOf(i, n) \cup UNION {PartsOf(j, Parts(j)) : j \in {l \in Lines : l < i}}

\* The parts of a line have a number, and numbers.
Telling(i) ==
  /\ Parts(i) \in Nat
  /\ Parts(i) # 0 => PartSize(i) \in {1, 2, 4}
  /\ \A k \in 1 .. Parts(i) : PartNumber(i, k) \in Int

LEMMA NoPieces == Finite => Pieces(1, 0) = {}
<1>1. Finite => {l \in Lines : l < 1} = {}
  BY DEF Finite
<1>2. PartsOf(1, 0) = {}
  BY DEF PartsOf
<1> QED
  BY <1>1, <1>2 DEF Pieces

LEMMA OneMorePiece ==
  ASSUME NEW i, NEW k \in Nat
  PROVE  Pieces(i, k + 1) = Pieces(i, k) \cup {Part(i, k + 1)}
<1>1. 1 .. k + 1 = (1 .. k) \cup {k + 1}
  OBVIOUS
<1>2. PartsOf(i, k + 1) = PartsOf(i, k) \cup {Part(i, k + 1)}
  BY <1>1, Zenon DEF PartsOf
<1> QED
  BY <1>2, Zenon DEF Pieces

LEMMA NextLinesPieces ==
  ASSUME Finite, NEW i \in Lines
  PROVE  Pieces(i + 1, 0) = Pieces(i, Parts(i))
<1>1. {l \in Lines : l < i + 1} = {l \in Lines : l < i} \cup {i}
  BY DEF Finite
<1>2. PartsOf(i + 1, 0) = {}
  BY DEF PartsOf
<1> DEFINE A == {l \in Lines : l < i + 1}
           B == {l \in Lines : l < i}
<1>3. A = B \cup {i}
  BY <1>1
<1> HIDE DEF A, B
<1>4. UNION {PartsOf(j, Parts(j)) : j \in A}
        = PartsOf(i, Parts(i)) \cup UNION {PartsOf(j, Parts(j)) : j \in B}
  BY <1>3, Zenon
<1> QED
  BY <1>2, <1>4 DEF Pieces, A, B

\* None is of a line further down.
LEMMA PiecesAbove ==
  ASSUME Finite, NEW i \in Places, NEW n, NEW p \in Pieces(i, n)
  PROVE  p.line \in Int /\ p.line <= i
<1>1. i \in Int /\ i <= i /\ \A j \in Lines : j \in Int
  BY DEF Finite, Places
<1>2. \A j, m : \A q \in PartsOf(j, m) : q.line = j
  BY DEF PartsOf, Part
<1>3. p \in PartsOf(i, n) \/ \E j \in Lines : j < i /\ p \in PartsOf(j, Parts(j))
  BY Zenon DEF Pieces
<1>4. p.line = i \/ (p.line \in Lines /\ p.line < i)
  BY <1>2, <1>3
<1> QED
  BY <1>1, <1>4

\* Two pieces of one line are not over one another.
LEMMA PartsApart ==
  ASSUME Finite, NEW i \in Places, \A j \in Lines : Telling(j) /\ Layout[j] \in Int,
         NEW p \in Pieces(i, 0), NEW q \in Pieces(i, 0), p.line = q.line,
         Extent(p) \cap Extent(q) # {}
  PROVE  p = q
<1>1. PartsOf(i, 0) = {}
  BY DEF PartsOf
<1>2. PICK j \in Lines : \E k \in 1 .. Parts(j) : p = Part(j, k)
  BY <1>1, Zenon DEF Pieces, PartsOf
<1>3. PICK l \in Lines : \E m \in 1 .. Parts(l) : q = Part(l, m)
  BY <1>1, Zenon DEF Pieces, PartsOf
<1>4. j = l
  BY <1>2, <1>3 DEF Part
<1>12. PICK k \in 1 .. Parts(j) : p = Part(j, k)
  BY <1>2
<1>13. PICK m \in 1 .. Parts(j) : q = Part(j, m)
  BY <1>3, <1>4
<1> DEFINE z == PartSize(j)
           a == Layout[j]
<1>5. Telling(j) /\ a \in Int
  OBVIOUS
<1>6. Parts(j) \in Nat /\ (Parts(j) # 0 => z \in {1, 2, 4})
  BY <1>5, Zenon DEF Telling
<1>7. k \in Nat /\ m \in Nat /\ k >= 1 /\ m >= 1 /\ z \in {1, 2, 4}
  BY <1>6, <1>12, <1>13
<1>8. /\ p.address = a + z * (k - 1) /\ Len(p.bytes) = z
      /\ q.address = a + z * (m - 1) /\ Len(q.bytes) = z
  BY <1>7, <1>12, <1>13 DEF Part, PartAt, Bytes
<1>9. PICK c : c \in Extent(p) /\ c \in Extent(q)
  OBVIOUS
<1> HIDE DEF z, a
<1>10. /\ c \in Int
       /\ a + z * (k - 1) <= c /\ c <= a + z * (k - 1) + z - 1
       /\ a + z * (m - 1) <= c /\ c <= a + z * (m - 1) + z - 1
  BY <1>5, <1>7, <1>8, <1>9 DEF Extent
<1>11. k = m
  <2>1. CASE z = 1
    BY <1>5, <1>7, <1>10, <2>1
  <2>2. CASE z = 2
    BY <1>5, <1>7, <1>10, <2>2
  <2>3. CASE z = 4
    BY <1>5, <1>7, <1>10, <2>3
  <2> QED
    BY <1>7, <2>1, <2>2, <2>3
<1> QED
  BY <1>11, <1>12, <1>13
(***************************************************************************)
(* What is generated lands on top of what the output says.                 *)
(***************************************************************************)
LEMMA BytesAre ==
  ASSUME NEW x \in Int, NEW size \in {1, 2, 4}
  PROVE  Bytes(x, size) \in Seq(Byte) /\ Len(Bytes(x, size)) = size
<1>1. \A lo \in {0, 8, 16, 24} : 2 ^ lo \in Nat /\ 2 ^ lo # 0
  <2>1. 2 ^ 0 \in Nat /\ 2 ^ 0 # 0 /\ 2 ^ 8 \in Nat /\ 2 ^ 8 # 0
    BY SMT
  <2>2. 2 ^ 16 \in Nat /\ 2 ^ 16 # 0 /\ 2 ^ 24 \in Nat /\ 2 ^ 24 # 0
    BY SMT
  <2> QED
    BY <2>1, <2>2, Zenon
<1>2. \A lo \in {0, 8, 16, 24} : Bits(x, lo + 7, lo) \in Byte
  <2> SUFFICES ASSUME NEW lo \in {0, 8, 16, 24} PROVE Bits(x, lo + 7, lo) \in Byte
    OBVIOUS
  <2> DEFINE p == 2 ^ lo
             q == x \div p
  <2>1. p \in Nat /\ p # 0
    BY <1>1
  <2>2. (lo + 7) - lo + 1 = 8 /\ 2 ^ 8 = 256
    BY SMT
  <2> HIDE DEF p
  <2>3. q \in Int
    BY <2>1, SMT
  <2> HIDE DEF q
  <2>4. q % 256 \in 0 .. 255
    BY <2>3, SMT
  <2> QED
    BY <2>2, <2>4, Zenon DEF Bits, Byte, p, q
<1>3. ASSUME NEW i \in 1 .. size
      PROVE  8 * (size - i) \in {0, 8, 16, 24}
  BY <1>3
<1>4. \A i \in 1 .. size : Bits(x, 8 * (size - i) + 7, 8 * (size - i)) \in Byte
  BY <1>2, <1>3, Zenon
<1>5. size \in Nat
  OBVIOUS
<1> QED
  BY <1>4, <1>5 DEF Bytes

\* The output, its place and the memory it makes, at a moment of the second pass.
Tells(s, P) ==
  /\ s.out \in Seq(OutLines)
  /\ s.pc.prev \in Int
  /\ Loading(s.out).addr = s.pc.prev
  /\ IsOver(Loading(s.out).image, P)

\* The next part is where the program counter is, which "@" can say if it must.
Ready(s, i, k) ==
  /\ Tells(s, Pieces(i, k))
  /\ s.pc.curr = Layout[i] + PartSize(i) * k
  /\ HasChanged(s.pc) => Addressable(s.pc.curr)

LEMMA LoadingPair ==
  ASSUME NEW lines \in Seq(OutLines)
  PROVE  Loading(lines) = [addr |-> Loading(lines).addr, image |-> Loading(lines).image]
<1> DEFINE IsPair(s) == s = [addr |-> s.addr, image |-> s.image]
           n == Len(lines)
<1>1. PICK R : /\ R[0] = [addr |-> 0, image |-> <<>>]
               /\ \A i \in 1 .. n : R[i] = Load(R[i - 1], lines[i])
               /\ Loading(lines) = R[n]
  BY LoadingOf
<1>2. IsPair([addr |-> 0, image |-> <<>>])
  OBVIOUS
<1>3. \A s, l : IsPair(s) => IsPair(Load(s, l))
  BY DEF Load
<1>4. n \in Nat
  OBVIOUS
<1> HIDE DEF IsPair, n
<1> DEFINE S == {m \in Nat : m <= n => IsPair(R[m])}
<1>5. 0 \in S
  BY <1>1, <1>2
<1>6. ASSUME NEW m \in Nat, m \in S PROVE m + 1 \in S
  <2> SUFFICES ASSUME m + 1 <= n PROVE IsPair(R[m + 1])
    OBVIOUS
  <2>1. m + 1 \in 1 .. n /\ (m + 1) - 1 = m /\ IsPair(R[m])
    BY <1>4, <1>6
  <2> QED
    BY <1>1, <1>3, <2>1
<1> HIDE DEF S
<1>7. n \in S
  BY <1>4, <1>5, <1>6, Induction
<1>8. IsPair(R[n])
  BY <1>4, <1>7 DEF S
<1> QED
  BY <1>1, <1>8 DEF IsPair

\* gen_8, gen_16 and gen_32.
LEMMA GenLoads ==
  ASSUME pass = 1, NEW s, s.out \in Seq(OutLines), s.pc.prev \in Int,
         Loading(s.out).addr = s.pc.prev, HasChanged(s.pc) => Addressable(s.pc.curr),
         NEW bytes \in Seq(Byte), Len(bytes) \in {1, 2, 4}
  PROVE  LET g == Gen(s, bytes)
         IN /\ g.out \in Seq(OutLines)
            /\ Loading(g.out) = [addr  |-> s.pc.curr + Len(bytes),
                                 image |-> Put(Loading(s.out).image, s.pc.curr, bytes)]
            /\ g.pc.prev = s.pc.curr + Len(bytes) /\ g.pc.curr = s.pc.curr + Len(bytes)
            /\ s.pc.curr \in Int
<1> DEFINE curr == s.pc.curr
           f    == Loading(s.out).image
           told == IF HasChanged(s.pc) THEN Append(s.out, AtLine(HexDigits(curr)))
                   ELSE s.out
           g    == Gen(s, bytes)
<1>1. g.out = told \o DataLines(bytes) /\ g.pc.prev = curr + Len(bytes)
      /\ g.pc.curr = curr + Len(bytes)
  BY DEF Gen
<1>2. /\ told \in Seq(OutLines) /\ curr \in Int
      /\ Loading(told).addr = curr /\ Loading(told).image = f
  <2>1. CASE HasChanged(s.pc)
    <3> DEFINE l == AtLine(HexDigits(curr))
               t == Loading(s.out)
    <3>1. Addressable(curr)
      BY <2>1
    <3>2. t = [addr |-> t.addr, image |-> t.image]
      BY LoadingPair
    <3> HIDE DEF t, curr
    <3>3. l \in OutLines /\ Load(t, l) = [addr |-> curr, image |-> t.image]
      BY <3>1, <3>2, LoadAt
    <3>4. curr \in Int
      BY <3>1 DEF Addressable
    <3> HIDE DEF l
    <3>5. Append(s.out, l) \in Seq(OutLines) /\ Loading(Append(s.out, l)) = Load(t, l)
      BY <3>3, LoadingAppend DEF t
    <3>6. told = Append(s.out, l)
      BY <2>1 DEF l, curr
    <3> HIDE DEF told
    <3>7. Loading(told) = [addr |-> curr, image |-> t.image]
      BY <3>3, <3>5, <3>6
    <3> QED
      BY <3>4, <3>5, <3>6, <3>7 DEF t
  <2>2. CASE ~HasChanged(s.pc)
    <3>1. told = s.out /\ curr = s.pc.prev
      BY <2>2 DEF HasChanged
    <3> QED
      BY <3>1
  <2> QED
    BY <2>1, <2>2
<1> HIDE DEF told, curr, f
<1>3. /\ told \o DataLines(bytes) \in Seq(OutLines)
      /\ Loading(told \o DataLines(bytes))
           = [addr  |-> Loading(told).addr + Len(bytes),
              image |-> Put(Loading(told).image, Loading(told).addr, bytes)]
  BY <1>2, DataLoaded, Zenon
<1> HIDE DEF g
<1>4. Loading(g.out) = [addr |-> curr + Len(bytes), image |-> Put(f, curr, bytes)]
  BY <1>1, <1>2, <1>3, Zenon
<1> QED
  BY <1>1, <1>2, <1>3, <1>4, Zenon DEF g, curr, f

\* One more part of the line.
LEMMA PartGenerated ==
  ASSUME pass = 1, Finite, NEW i \in Lines, Telling(i), Layout[i] \in Int, NEW k \in Nat,
         k < Parts(i), NEW s, Ready(s, i, k)
  PROVE  /\ PartAt(i, k + 1) = s.pc.curr
         /\ Ready(Gen(s, Bytes(PartNumber(i, k + 1), PartSize(i))), i, k + 1)
<1> DEFINE z == PartSize(i)
           a == Layout[i]
           x == PartNumber(i, k + 1)
           bytes == Bytes(x, z)
           g == Gen(s, bytes)
           w == Part(i, k + 1)
           P == Pieces(i, k)
           f == Loading(s.out).image
<1>1. Parts(i) \in Nat /\ k + 1 \in 1 .. Parts(i) /\ Parts(i) # 0
  <2>1. Parts(i) \in Nat
    BY Zenon DEF Telling
  <2> QED
    BY <2>1
<1>2. z \in {1, 2, 4} /\ x \in Int
  BY <1>1, Zenon DEF Telling
<1>3. PartAt(i, k + 1) = s.pc.curr
  <2>1. (k + 1) - 1 = k
    OBVIOUS
  <2> QED
    BY <2>1, Zenon DEF PartAt, Ready
<1> HIDE DEF z, x
<1>4. bytes \in Seq(Byte) /\ Len(bytes) = z
  BY <1>2, BytesAre
<1>5. w.line = i /\ w.address = s.pc.curr /\ w.bytes = bytes
  BY <1>3 DEF Part, x, z
<1>6. /\ s.out \in Seq(OutLines) /\ s.pc.prev \in Int
      /\ Loading(s.out).addr = s.pc.prev /\ IsOver(f, P)
      /\ HasChanged(s.pc) => Addressable(s.pc.curr)
      /\ s.pc.curr = a + z * k
  BY Zenon DEF Ready, Tells, z
<1> HIDE DEF bytes, f, P, w
<1>7. Len(bytes) \in {1, 2, 4}
  BY <1>2, <1>4
<1>8. /\ g.out \in Seq(OutLines)
      /\ Loading(g.out) = [addr  |-> s.pc.curr + Len(bytes),
                           image |-> Put(f, s.pc.curr, bytes)]
      /\ g.pc.prev = s.pc.curr + Len(bytes) /\ g.pc.curr = s.pc.curr + Len(bytes)
      /\ s.pc.curr \in Int
  BY <1>4, <1>6, <1>7, GenLoads, Zenon DEF f
<1>9. IsOver(Put(f, s.pc.curr, bytes), Pieces(i, k + 1))
  <2>1. \A q \in P : q.line <= w.line
    <3>1. i \in Places
      BY DEF Finite, Places
    <3> QED
      BY <1>5, <3>1, PiecesAbove DEF P
  <2>2. w.line \in Int
    BY <1>5 DEF Finite
  <2>3. IsOver(Put(f, w.address, w.bytes), P \cup {w})
    BY <1>6, <2>1, <2>2, PutOver
  <2> QED
    BY <1>5, <2>3, OneMorePiece DEF P, w
<1> HIDE DEF g
<1>10. Tells(g, Pieces(i, k + 1))
  <2>1. s.pc.curr + Len(bytes) \in Int
    BY <1>2, <1>4, <1>8
  <2>2. /\ Loading(g.out).addr = s.pc.curr + Len(bytes)
        /\ Loading(g.out).image = Put(f, s.pc.curr, bytes)
    BY <1>8
  <2> QED
    BY <1>8, <1>9, <2>1, <2>2 DEF Tells
<1>11. g.pc.curr = a + z * (k + 1)
  <2>1. z * (k + 1) = z * k + z /\ z * k \in Int /\ z \in Int
    BY <1>2
  <2> HIDE DEF a
  <2>2. a \in Int
    BY DEF a
  <2> QED
    BY <1>4, <1>6, <1>8, <2>1, <2>2
<1>12. ~HasChanged(g.pc)
  BY <1>8 DEF HasChanged
<1>13. Ready(g, i, k + 1)
  BY <1>10, <1>11, <1>12, Zenon DEF Ready, a, z
<1> QED
  BY <1>3, <1>13 DEF g, bytes, x, z

\* The words of an instruction, one after the other,
LEMMA WordsRun ==
  ASSUME NEW words, Len(words) \in Nat
  PROVE  \E R : /\ R[0] = [pc |-> pc, out |-> out]
                /\ \A i \in 1 .. Len(words) : R[i] = Gen(R[i - 1], Bytes(words[i], 4))
                /\ GenWords(words) = R[Len(words)]
<1> DEFINE n == Len(words)
           Start == [pc |-> pc, out |-> out]
           Step(s, i) == Gen(s, Bytes(words[i], 4))
           Is(Q, m) == Q = [i \in 0 .. m |-> IF i = 0 THEN Start ELSE Step(Q[i - 1], i)]
           Run[i \in 0 .. n] == IF i = 0 THEN Start ELSE Step(Run[i - 1], i)
<1>1. GenWords(words) = Run[n]
  BY DEF GenWords
<1>2. Run = CHOOSE Q : Is(Q, n)
  OBVIOUS
<1>3. n \in Nat
  OBVIOUS
<1> HIDE DEF n, Start, Step, Run
<1>4. \E Q : Is(Q, n)
  <2> DEFINE S == {m \in Nat : \E Q : Is(Q, m)}
  <2>1. 0 \in S
    <3>1. Is([i \in 0 .. 0 |-> Start], 0)
      OBVIOUS
    <3> QED
      BY <3>1
  <2>2. ASSUME NEW m \in Nat, m \in S PROVE m + 1 \in S
    <3>1. PICK Q : Is(Q, m)
      BY <2>2
    <3> DEFINE R == [i \in 0 .. m + 1 |-> IF i = m + 1 THEN Step(Q[m], m + 1) ELSE Q[i]]
    <3>2. ASSUME NEW i \in 0 .. m + 1
          PROVE  R[i] = IF i = 0 THEN Start ELSE Step(R[i - 1], i)
      <4>1. CASE i = m + 1
        BY <4>1
      <4>2. CASE i # m + 1
        <5>1. i \in 0 .. m /\ (i # 0 => i - 1 \in 0 .. m)
          BY <4>2
        <5>2. R[i] = Q[i] /\ (i # 0 => R[i - 1] = Q[i - 1])
          BY <5>1
        <5> QED
          BY <3>1, <5>1, <5>2
      <4> QED
        BY <4>1, <4>2
    <3>3. Is(R, m + 1)
      BY <3>2
    <3> HIDE DEF R
    <3> QED
      BY <3>3
  <2> HIDE DEF S
  <2>3. n \in S
    BY <1>3, <2>1, <2>2, Induction
  <2> QED
    BY <2>3 DEF S
<1>5. Is(Run, n)
  BY <1>2, <1>4
<1>6. Run[0] = Start /\ \A i \in 1 .. n : Run[i] = Step(Run[i - 1], i)
  <2>1. \A i \in 1 .. n : i \in 0 .. n /\ i # 0
    BY <1>3
  <2> QED
    BY <1>3, <1>5, <2>1
<1> QED
  BY <1>1, <1>6 DEF n, Start, Step

\* and the constants of a line of data.
ConstantStep(s, expr, size) ==
  LET value == Value(expr, s.pc.curr)
      gen   == Gen(s, Bytes(value.num, size))
  IN IF s.status # "running" THEN s
     ELSE IF Failed(value) THEN [s EXCEPT !.status = value.status]
     ELSE [pc |-> gen.pc, out |-> gen.out, status |-> "running"]

LEMMA ConstantsRun ==
  ASSUME NEW exprs, Len(exprs) \in Nat, NEW size
  PROVE  \E R : /\ R[0] = [pc |-> pc, out |-> out, status |-> "running"]
                /\ \A i \in 1 .. Len(exprs) : R[i] = ConstantStep(R[i - 1], exprs[i], size)
                /\ GenConstants(exprs, size) = R[Len(exprs)]
<1> DEFINE n == Len(exprs)
           Start == [pc |-> pc, out |-> out, status |-> "running"]
           Step(s, i) == ConstantStep(s, exprs[i], size)
           Is(Q, m) == Q = [i \in 0 .. m |-> IF i = 0 THEN Start ELSE Step(Q[i - 1], i)]
           Run[i \in 0 .. n] == IF i = 0 THEN Start ELSE Step(Run[i - 1], i)
<1>1. GenConstants(exprs, size) = Run[n]
  BY DEF GenConstants, ConstantStep
<1>2. Run = CHOOSE Q : Is(Q, n)
  OBVIOUS
<1>3. n \in Nat
  OBVIOUS
<1> HIDE DEF n, Start, Step, Run
<1>4. \E Q : Is(Q, n)
  <2> DEFINE S == {m \in Nat : \E Q : Is(Q, m)}
  <2>1. 0 \in S
    <3>1. Is([i \in 0 .. 0 |-> Start], 0)
      OBVIOUS
    <3> QED
      BY <3>1
  <2>2. ASSUME NEW m \in Nat, m \in S PROVE m + 1 \in S
    <3>1. PICK Q : Is(Q, m)
      BY <2>2
    <3> DEFINE R == [i \in 0 .. m + 1 |-> IF i = m + 1 THEN Step(Q[m], m + 1) ELSE Q[i]]
    <3>2. ASSUME NEW i \in 0 .. m + 1
          PROVE  R[i] = IF i = 0 THEN Start ELSE Step(R[i - 1], i)
      <4>1. CASE i = m + 1
        BY <4>1
      <4>2. CASE i # m + 1
        <5>1. i \in 0 .. m /\ (i # 0 => i - 1 \in 0 .. m)
          BY <4>2
        <5>2. R[i] = Q[i] /\ (i # 0 => R[i - 1] = Q[i - 1])
          BY <5>1
        <5> QED
          BY <3>1, <5>1, <5>2
      <4> QED
        BY <4>1, <4>2
    <3>3. Is(R, m + 1)
      BY <3>2
    <3> HIDE DEF R
    <3> QED
      BY <3>3
  <2> HIDE DEF S
  <2>3. n \in S
    BY <1>3, <2>1, <2>2, Induction
  <2> QED
    BY <2>3 DEF S
<1>5. Is(Run, n)
  BY <1>2, <1>4
<1>6. Run[0] = Start /\ \A i \in 1 .. n : Run[i] = Step(Run[i - 1], i)
  <2>1. \A i \in 1 .. n : i \in 0 .. n /\ i # 0
    BY <1>3
  <2> QED
    BY <1>3, <1>5, <2>1
<1> QED
  BY <1>1, <1>6 DEF n, Start, Step

\* In the first pass nothing is written.
LEMMA WordsQuiet ==
  ASSUME pass = 0, NEW words, Len(words) \in Nat
  PROVE  GenWords(words).out = out
<1> DEFINE n == Len(words)
<1>1. PICK R : /\ R[0] = [pc |-> pc, out |-> out]
               /\ \A i \in 1 .. n : R[i] = Gen(R[i - 1], Bytes(words[i], 4))
               /\ GenWords(words) = R[n]
  BY WordsRun
<1>2. \A s, bytes : Gen(s, bytes).out = s.out
  BY DEF Gen
<1> HIDE DEF n
<1> DEFINE S == {m \in Nat : m <= n => R[m].out = out}
<1>3. 0 \in S
  BY <1>1
<1>4. ASSUME NEW m \in Nat, m \in S PROVE m + 1 \in S
  <2> SUFFICES ASSUME m + 1 <= n PROVE R[m + 1].out = out
    OBVIOUS
  <2>1. m + 1 \in 1 .. n /\ (m + 1) - 1 = m /\ R[m].out = out
    BY <1>4 DEF n
  <2> QED
    BY <1>1, <1>2, <2>1
<1> HIDE DEF S
<1>5. n \in S
  BY <1>3, <1>4, Induction DEF n
<1> QED
  BY <1>1, <1>5 DEF S, n

LEMMA ConstantsQuiet ==
  ASSUME pass = 0, NEW exprs, Len(exprs) \in Nat, NEW size
  PROVE  GenConstants(exprs, size).out = out
<1> DEFINE n == Len(exprs)
           HasParts(s) == s = [pc |-> s.pc, out |-> s.out, status |-> s.status]
           Quiet(s) == HasParts(s) /\ s.out = out
<1>1. PICK R : /\ R[0] = [pc |-> pc, out |-> out, status |-> "running"]
               /\ \A i \in 1 .. n : R[i] = ConstantStep(R[i - 1], exprs[i], size)
               /\ GenConstants(exprs, size) = R[n]
  BY ConstantsRun
<1>2. ASSUME NEW s, Quiet(s), NEW expr PROVE Quiet(ConstantStep(s, expr, size))
  <2>1. \A bytes : Gen(s, bytes).out = s.out
    BY DEF Gen
  <2>2. \A x : Quiet([s EXCEPT !.status = x])
    BY <1>2
  <2> QED
    BY <1>2, <2>1, <2>2 DEF ConstantStep
<1>3. Quiet(R[0])
  BY <1>1
<1> HIDE DEF n, Quiet
<1> DEFINE S == {m \in Nat : m <= n => Quiet(R[m])}
<1>4. 0 \in S
  BY <1>3
<1>5. ASSUME NEW m \in Nat, m \in S PROVE m + 1 \in S
  <2> SUFFICES ASSUME m + 1 <= n PROVE Quiet(R[m + 1])
    OBVIOUS
  <2>1. m + 1 \in 1 .. n /\ (m + 1) - 1 = m /\ Quiet(R[m])
    BY <1>5 DEF n
  <2> QED
    BY <1>1, <1>2, <2>1
<1> HIDE DEF S
<1>6. n \in S
  BY <1>4, <1>5, Induction DEF n
<1> QED
  BY <1>1, <1>6 DEF S, n, Quiet

\* In the second pass the parts of the line at the visitor are written.
LEMMA WordsTell ==
  ASSUME pass = 1, Finite, at \in Lines, Telling(at), Layout[at] \in Int,
         PartSize(at) = 4, NEW words, Len(words) = Parts(at),
         \A k \in 1 .. Parts(at) : words[k] = PartNumber(at, k),
         Ready([pc |-> pc, out |-> out], at, 0)
  PROVE  Ready(GenWords(words), at, Parts(at))
<1> DEFINE n == Parts(at)
<1>0. n \in Nat
  BY Zenon DEF Telling
<1>1. PICK R : /\ R[0] = [pc |-> pc, out |-> out]
               /\ \A i \in 1 .. n : R[i] = Gen(R[i - 1], Bytes(words[i], 4))
               /\ GenWords(words) = R[n]
  BY <1>0, WordsRun
<1>2. Ready(R[0], at, 0)
  BY <1>1
<1> HIDE DEF n
<1> DEFINE S == {m \in Nat : m <= n => Ready(R[m], at, m)}
<1>3. 0 \in S
  BY <1>2
<1>4. ASSUME NEW m \in Nat, m \in S PROVE m + 1 \in S
  <2> SUFFICES ASSUME m + 1 <= n PROVE Ready(R[m + 1], at, m + 1)
    OBVIOUS
  <2>1. m + 1 \in 1 .. n /\ (m + 1) - 1 = m /\ m < n /\ Ready(R[m], at, m)
    BY <1>0, <1>4
  <2>2. Ready(Gen(R[m], Bytes(PartNumber(at, m + 1), PartSize(at))), at, m + 1)
    BY <2>1, PartGenerated, Zenon DEF n
  <2>3. R[m + 1] = Gen(R[m], Bytes(words[m + 1], 4))
    BY <1>1, <2>1
  <2>4. words[m + 1] = PartNumber(at, m + 1)
    BY <2>1 DEF n
  <2> QED
    BY <2>2, <2>3, <2>4, Zenon
<1> HIDE DEF S
<1>5. n \in S
  BY <1>0, <1>3, <1>4, Induction
<1> QED
  BY <1>0, <1>1, <1>5 DEF S, n

LEMMA ConstantsTell ==
  ASSUME Replayed, Upwards(tree), pass = 1, TablesAre(tree, Labels, Layout),
         at \in Lines, Telling(at), Layout[at] \in Int, source[at].kind = ".db",
         Ready([pc |-> pc, out |-> out], at, 0),
         ~Failed(GenConstants(source[at].exprs, source[at].size))
  PROVE  Ready(GenConstants(source[at].exprs, source[at].size), at, Parts(at))
<1> DEFINE exprs == source[at].exprs
           size  == source[at].size
           n == Len(exprs)
           HasParts(s) == s = [pc |-> s.pc, out |-> s.out, status |-> s.status]
           Ok(s, k) == /\ HasParts(s)
                       /\ s.status \in {"running", "error", "crashed"}
                       /\ s.status = "running" => Ready(s, at, k)
<1>0. /\ Parts(at) = n /\ n \in Nat /\ PartSize(at) = size /\ Finite
      /\ \A k : PartNumber(at, k) = ValueIn(at, exprs[k], PartAt(at, k)).num
  BY DEF Telling, Parts, PartSize, PartNumber, Replayed, WellNested
<1>1. PICK R : /\ R[0] = [pc |-> pc, out |-> out, status |-> "running"]
               /\ \A i \in 1 .. n : R[i] = ConstantStep(R[i - 1], exprs[i], size)
               /\ GenConstants(exprs, size) = R[n]
  BY <1>0, ConstantsRun
<1>2. Ok(R[0], 0)
  BY <1>1 DEF Ready, Tells
<1> HIDE DEF exprs, size, n
<1>3. ASSUME NEW s, NEW k \in Nat, k < n, Ok(s, k)
      PROVE  Ok(ConstantStep(s, exprs[k + 1], size), k + 1)
  <2> DEFINE value == Value(exprs[k + 1], s.pc.curr)
             gen   == Gen(s, Bytes(value.num, size))
             on    == [pc |-> gen.pc, out |-> gen.out, status |-> "running"]
  <2>1. CASE s.status # "running"
    <3>1. ConstantStep(s, exprs[k + 1], size) = s
      BY <2>1 DEF ConstantStep
    <3> QED
      BY <1>3, <2>1, <3>1
  <2>2. CASE s.status = "running" /\ Failed(value)
    <3>1. ConstantStep(s, exprs[k + 1], size) = [s EXCEPT !.status = value.status]
      BY <2>2 DEF ConstantStep
    <3>2. value.status \in {"error", "crashed"}
      BY <2>2 DEF Failed
    <3> HIDE DEF value
    <3> QED
      BY <1>3, <3>1, <3>2
  <2>3. CASE s.status = "running" /\ ~Failed(value)
    <3>1. ConstantStep(s, exprs[k + 1], size) = on
      BY <2>3 DEF ConstantStep
    <3>2. Ready(s, at, k)
      BY <1>3, <2>3
    <3>3. /\ PartAt(at, k + 1) = s.pc.curr
          /\ Ready(Gen(s, Bytes(PartNumber(at, k + 1), PartSize(at))), at, k + 1)
      BY <1>0, <1>3, <3>2, PartGenerated
    <3>4. value.num = PartNumber(at, k + 1)
      BY <1>0, <3>3, ValuesAre
    <3>5. Ready(gen, at, k + 1)
      BY <1>0, <3>3, <3>4, Zenon
    <3> HIDE DEF gen
    <3>6. Ready(on, at, k + 1)
      BY <3>5 DEF Ready, Tells
    <3> HIDE DEF Ready
    <3> QED
      BY <3>1, <3>6
  <2> QED
    BY <2>1, <2>2, <2>3
<1> HIDE DEF Ok
<1> DEFINE S == {m \in Nat : m <= n => Ok(R[m], m)}
<1>4. 0 \in S
  BY <1>2
<1>5. ASSUME NEW m \in Nat, m \in S PROVE m + 1 \in S
  <2> SUFFICES ASSUME m + 1 <= n PROVE Ok(R[m + 1], m + 1)
    OBVIOUS
  <2>1. m + 1 \in 1 .. n /\ (m + 1) - 1 = m /\ m < n /\ Ok(R[m], m)
    BY <1>0, <1>5
  <2>2. R[m + 1] = ConstantStep(R[m], exprs[m + 1], size)
    BY <1>1, <2>1
  <2> QED
    BY <1>3, <2>1, <2>2
<1> HIDE DEF S
<1>6. n \in S
  BY <1>0, <1>4, <1>5, Induction
<1>7. Ok(R[n], n)
  BY <1>0, <1>6 DEF S
<1>8. R[n].status = "running"
  BY <1>1, <1>7 DEF Failed, Ok, exprs, size
<1> QED
  BY <1>0, <1>1, <1>7, <1>8 DEF Ok, exprs, size


(***************************************************************************)
(* The pieces stay while the source does.                                  *)
(***************************************************************************)
LEMMA StillMeant ==
  ASSUME source' = source, WellNested, NamelessMoves, NEW i \in Places
  PROVE  \A expr, here : ValueIn(i, expr, here)' = ValueIn(i, expr, here)
<1>1. /\ \A j \in Places : Layout[j]' = Layout[j]
      /\ \A j, name : Candidates(j, name)' = Candidates(j, name)
      /\ \A j : ScopeOf(j)' = ScopeOf(j)
  BY StillLaid, Still
<1>2. \A name : Meaning(i, name)' = Meaning(i, name)
  BY <1>1 DEF Meaning
<1>3. \A name : AddressOfMeaning(i, name)' = AddressOfMeaning(i, name)
  <2> SUFFICES ASSUME NEW name
               PROVE  AddressOfMeaning(i, name)' = AddressOfMeaning(i, name)
    OBVIOUS
  <2>1. CASE Candidates(i, name) = {}
    BY <1>1, <2>1 DEF AddressOfMeaning
  <2>2. CASE Candidates(i, name) # {}
    <3>1. Meaning(i, name) \in Places
      <4>1. Meaning(i, name) \in Candidates(i, name)
        BY <2>2, MeaningIs
      <4> QED
        BY <4>1 DEF Candidates, LinesOf, Places, WellNested, Finite
    <3>2. Layout[Meaning(i, name)]' = Layout[Meaning(i, name)]
      BY <1>1, <1>2, <3>1
    <3> QED
      BY <1>1, <2>2, <3>2 DEF AddressOfMeaning
  <2> QED
    BY <2>1, <2>2
<1> QED
  BY <1>3 DEF ValueIn

LEMMA StillPieces ==
  ASSUME source' = source, WellNested, NamelessMoves
  PROVE  /\ \A i \in Lines : Parts(i)' = Parts(i) /\ (Telling(i)' <=> Telling(i))
         /\ \A i \in Places : Pieces(i, 0)' = Pieces(i, 0)
<1>1. Lines' = Lines /\ \A i \in Places : Layout[i]' = Layout[i]
  BY StillLaid, Still
<1>2. \A i \in Lines : i \in Places
  BY DEF WellNested, Finite, Places
<1>3. \A i \in Lines : Layout[i]' = Layout[i]
        /\ \A expr, here : ValueIn(i, expr, here)' = ValueIn(i, expr, here)
  BY <1>1, <1>2, StillMeant
<1>4. \A i \in Lines : Told(i)' = Told(i)
  BY <1>3 DEF Told
<1>5. \A i \in Lines : Parts(i)' = Parts(i) /\ PartSize(i)' = PartSize(i)
  BY <1>4 DEF Parts, PartSize
<1>6. \A i \in Lines : \A k : PartAt(i, k)' = PartAt(i, k)
  BY <1>3, <1>5 DEF PartAt
<1>7. \A i \in Lines : \A k : PartNumber(i, k)' = PartNumber(i, k)
  BY <1>3, <1>4, <1>6 DEF PartNumber
<1>8. \A i \in Lines : \A k : Part(i, k)' = Part(i, k)
  BY <1>5, <1>6, <1>7 DEF Part
<1>9. \A i \in Lines : \A n : PartsOf(i, n)' = PartsOf(i, n)
  BY <1>8 DEF PartsOf
<1>10. \A i \in Lines : Telling(i)' <=> Telling(i)
  BY <1>5, <1>7 DEF Telling
<1>11. ASSUME NEW i \in Places PROVE Pieces(i, 0)' = Pieces(i, 0)
  <2>1. PartsOf(i, 0) = {} /\ PartsOf(i, 0)' = {}
    BY DEF PartsOf
  <2>2. \A j \in Lines : PartsOf(j, Parts(j))' = PartsOf(j, Parts(j))
    BY <1>5, <1>9
  <2> QED
    BY <1>1, <2>1, <2>2 DEF Pieces
<1> QED
  BY <1>5, <1>10, <1>11

(***************************************************************************)
(* The lines of the second pass, one after the other.                      *)
(***************************************************************************)
LEMMA OtherKindsTell ==
  ASSUME Finite, at \in Lines, source[at].kind \notin {"instr", ".db"}, NEW s, NEW t,
         Tells(s, Pieces(at, 0)), t.out = s.out, t.pc.prev = s.pc.prev
  PROVE  Tells(t, Pieces(at + 1, 0))
<1>1. Parts(at) = 0
  BY DEF Parts
<1>2. Pieces(at + 1, 0) = Pieces(at, 0)
  BY <1>1, NextLinesPieces
<1> QED
  BY <1>2 DEF Tells

State == [pc |-> pc, out |-> out]

LEMMA LineTells ==
  ASSUME Replayed, Upwards(tree), IsPc(pc), pass = 1, KeptBy(Layout), InMemory,
         at \in Lines, IsLine(source[at]), Telling(at), Tells(State, Pieces(at, 0)), ~Ends,
         EnterScope \/ LeaveScope \/ VisitLabel \/ VisitInstruction \/ VisitDotOrg
           \/ VisitDotSpace \/ VisitDotDb
  PROVE  Tells([pc |-> pc', out |-> out'], Pieces(at + 1, 0))
<1> DEFINE next == [pc |-> pc', out |-> out']
<1>1. /\ Finite /\ TablesAre(tree, Labels, Layout)
      /\ pc.curr = Layout[at] /\ Addressable(Layout[at]) /\ Layout[at] \in Int
  BY DEF Replayed, WellNested, KeptBy, InMemory, Addressable
<1>2. source[at].kind \in {"instr", ".db"} => Ready(State, at, 0)
  <2> SUFFICES ASSUME source[at].kind \in {"instr", ".db"} PROVE Ready(State, at, 0)
    OBVIOUS
  <2>1. PartSize(at) \in Int
    <3>1. source[at].kind = ".db" => source[at].size \in {1, 2, 4}
      BY Zenon DEF IsLine
    <3> QED
      BY <3>1 DEF PartSize
  <2>2. Layout[at] + PartSize(at) * 0 = Layout[at]
    BY <1>1, <2>1
  <2>3. State.pc.curr = Layout[at]
    BY <1>1 DEF State
  <2> QED
    BY <1>1, <2>2, <2>3, Zenon DEF Ready
<1>3. CASE EnterScope \/ LeaveScope \/ VisitLabel
  <2>1. source[at].kind \notin {".org", ".space", ".db", "instr"}
    BY <1>3, OtherKinds, Zenon DEF EnterScope, LeaveScope, VisitLabel
  <2>2. pc' = pc /\ out' = out
    BY <1>3 DEF EnterScope, LeaveScope, VisitLabel, Exit, Ends
  <2> QED
    BY <1>1, <2>1, <2>2, OtherKindsTell DEF State
<1>4. CASE VisitDotOrg \/ VisitDotSpace
  <2>1. source[at].kind \in {".org", ".space"} /\ \E start : MovePc(start)
    BY <1>4 DEF VisitDotOrg, VisitDotSpace, OnLine, Line
  <2>2. out' = out /\ \E x : pc' = [pc EXCEPT !.curr = x]
    BY <2>1 DEF MovePc, Exit, Ends, Failed
  <2>3. pc'.prev = pc.prev
    BY <2>2 DEF IsPc
  <2>4. source[at].kind \notin {"instr", ".db"}
    BY <2>1
  <2> QED
    BY <1>1, <2>2, <2>3, <2>4, OtherKindsTell DEF State
<1>5. CASE VisitInstruction
  <2> DEFINE text  == source[at].text
             value == Value(source[at].expr, pc.curr)
             given == [text EXCEPT !.imm = value.num]
             words == Words(given, pc.curr)
             end   == GenWords(words)
             basic == Expand(Told(at))
             n     == Parts(at)
  <2>1. source[at].kind = "instr"
    BY <1>5 DEF VisitInstruction, OnLine, Line
  <2>2. ~Eek(text) /\ pc' = end.pc /\ out' = end.out
    <3> HIDE DEF words
    <3> QED
      BY <1>5 DEF VisitInstruction, Line, Exit, Failed, Ends, words
  <2>3. given = Told(at)
    BY <1>1, ValuesAre DEF Told
  <2>4. given.name = text.name /\ given.args = text.args
    <3>1. text = Text(text.name, text.args, text.ra, text.rb, text.rc, text.imm)
      BY <2>1, Zenon DEF IsLine
    <3> QED
      BY <3>1 DEF Text
  <2> HIDE DEF given
  <2>5. ~Eek(given)
    BY <2>2, <2>4 DEF Eek
  <2>6. Sized(basic, n) /\ n \in Nat
    <3>1. Sized(basic, SizeOf(given)) /\ SizeOf(given) \in Nat
      BY <2>3, <2>5, ExpandSize
    <3>2. n = Len(basic)
      BY <2>1 DEF Parts
    <3> QED
      BY <3>1, <3>2 DEF Sized
  <2>7. /\ Len(words) = n
        /\ \A k \in 1 .. n : words[k] = PartNumber(at, k)
    <3>1. words = [k \in 1 .. n |-> Encode(basic[k], pc.curr + 4 * (k - 1))]
      BY <2>3, <2>6 DEF Words, Sized
    <3>2. \A k : PartNumber(at, k) = Encode(basic[k], pc.curr + 4 * (k - 1))
      BY <1>1, <2>1 DEF PartNumber, PartAt, PartSize
    <3> HIDE DEF words, n, basic
    <3> QED
      BY <2>6, <3>1, <3>2
  <2>8. PartSize(at) = 4
    BY <2>1 DEF PartSize
  <2> HIDE DEF words
  <2>9. Ready(GenWords(words), at, n)
    BY <1>1, <1>2, <2>1, <2>7, <2>8, WordsTell DEF State
  <2>10. Tells(end, Pieces(at + 1, 0))
    BY <1>1, <2>9, NextLinesPieces DEF Ready
  <2> HIDE DEF end
  <2> QED
    BY <2>2, <2>10 DEF Tells
<1>6. CASE VisitDotDb
  <2> DEFINE end == GenConstants(source[at].exprs, source[at].size)
  <2>1. source[at].kind = ".db" /\ pc' = end.pc /\ out' = end.out
        /\ IF Failed(end) THEN status' = end.status ELSE Continue
    BY <1>6 DEF VisitDotDb, OnLine, Line
  <2>2. ~Failed(end)
    BY <2>1 DEF Ends, Failed
  <2>3. Ready(end, at, Parts(at))
    BY <1>1, <1>2, <2>1, <2>2, ConstantsTell DEF State
  <2>4. Tells(end, Pieces(at + 1, 0))
    BY <1>1, <2>3, NextLinesPieces DEF Ready
  <2> HIDE DEF end
  <2> QED
    BY <2>1, <2>4 DEF Tells
<1> QED
  BY <1>3, <1>4, <1>5, <1>6
===============================================================================
