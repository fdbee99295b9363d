--------------------------- MODULE DividerBenchProofs ---------------------------
(***************************************************************************)
(* The divider never gives a wrong answer: it implements the safety part   *)
(* of CommandUnit, for every word size, operands, number of iterations per *)
(* cycle and order of its always blocks.                                   *)
(***************************************************************************)
EXTENDS DividerBench, NonRestoringDividerProofs

(***************************************************************************)
(* Magnitudes with their signs put back are what a division that truncates *)
(* towards zero gives.                                                     *)
(***************************************************************************)
\* A negative number is the negation of its magnitude.
LEMMA SignedIs ==
  ASSUME NEW w \in Word
  PROVE  /\ Signed(w) \in Int
         /\ Signed(w) < 0 <=> IsNegative(w)
         /\ Signed(w) = 0 <=> w = 0
         /\ IsNegative(w) => Negate(w) = -Signed(w)
<1>1. WordMod \in Nat /\ WordMod > 0 /\ w \in Int /\ 0 <= w /\ w < WordMod
  BY WordSizes DEF Word
<1>2. IsNegative(w) => Negate(w) = WordMod - w
  <2> SUFFICES ASSUME IsNegative(w) PROVE Negate(w) = WordMod - w
    OBVIOUS
  <2> DEFINE m == WordMod - w
  <2>1. m \in Word
    BY <1>1 DEF Word, IsNegative
  <2>2. -w = m + (-1) * WordMod
    BY <1>1
  <2> HIDE DEF m
  <2>3. \A k \in Int : Trunc(m + k * WordMod) = m
    BY <2>1, TruncIs
  <2> QED
    BY <2>2, <2>3 DEF Negate, m
<1> QED
  BY <1>1, <1>2 DEF Signed, IsNegative

\* Division of magnitudes.
LEMMA Magnitudes ==
  ASSUME NEW a \in Word, NEW b \in Word, b # 0
  PROVE  /\ a \div b \in Word /\ a % b \in Word
         /\ a - b * (a \div b) = a % b
<1>1. a \in Int /\ 0 <= a /\ a < WordMod /\ b \in Nat /\ b > 0 /\ b < WordMod
      /\ WordMod \in Nat
  BY WordSizes DEF Word
<1> DEFINE q == a \div b
           r == a % b
<1>2. q \in Int /\ r \in Int /\ 0 <= r /\ r < b /\ a = b * q + r
  BY <1>1
<1> HIDE DEF q, r
<1>3. q >= 0
  <2>1. CASE q < 0
    <3>1. b * q <= b * (-1)
      BY <1>1, <1>2, <2>1
    <3> QED
      BY <1>1, <1>2, <3>1
  <2> QED
    BY <1>2, <2>1
<1>4. q <= b * q /\ b * q \in Int
  BY <1>1, <1>2, <1>3
<1>5. q \in Word /\ r \in Word /\ a - b * q = r
  BY <1>1, <1>2, <1>3, <1>4 DEF Word
<1> QED
  BY <1>5 DEF q, r

\* The quotient and the remainder of a command are its answers.
LEMMA AnswersAre ==
  ASSUME NEW c, c.num \in Word, c.denom \in Word, c.unsgn_or_sgn \in BOOLEAN,
         NEW answer \in Output,
         c.denom # 0 => answer.quot = QuotientOf(c) /\ answer.rem = RemainderOf(c)
  PROVE  answer \in Answers(c)
<1> DEFINE a == IF c.unsgn_or_sgn THEN Signed(c.num) ELSE c.num
           b == IF c.unsgn_or_sgn THEN Signed(c.denom) ELSE c.denom
           A == Size(c, c.num)
           B == Size(c, c.denom)
           q == A \div B
           r == A % B
<1>1. a \in Int /\ b \in Int /\ c.num \in Int /\ c.denom \in Int
      /\ 0 <= c.num /\ 0 <= c.denom
  BY SignedIs, WordSizes DEF Word
<1>2. b = 0 <=> c.denom = 0
  BY SignedIs
<1>3. /\ a < 0 <=> c.unsgn_or_sgn /\ IsNegative(c.num)
      /\ b < 0 <=> c.unsgn_or_sgn /\ IsNegative(c.denom)
  BY <1>1, SignedIs
<1>4. A = (IF a < 0 THEN -a ELSE a) /\ B = (IF b < 0 THEN -b ELSE b)
  BY <1>1, <1>3, SignedIs DEF Size, Signed, IsNegative
<1>5. CASE c.denom = 0
  BY <1>2, <1>5 DEF Answers
<1>6. CASE c.denom # 0
  <2>1. A \in Word /\ B \in Word /\ B # 0
    BY <1>6, SizeIsWord
  <2>2. /\ QuotientOf(c) = IF (a < 0) # (b < 0) THEN Negate(q) ELSE q
        /\ RemainderOf(c) = IF a < 0 THEN Negate(r) ELSE r
    <3>1. (a < 0) = (c.unsgn_or_sgn /\ IsNegative(c.num))
          /\ (b < 0) = (c.unsgn_or_sgn /\ IsNegative(c.denom))
      BY <1>3 DEF IsNegative
    <3> HIDE DEF a, b
    <3>2. ((a < 0) # (b < 0)) =
            (c.unsgn_or_sgn /\ IsNegative(c.num) # IsNegative(c.denom))
      BY <3>1 DEF IsNegative
    <3> QED
      BY <3>1, <3>2 DEF QuotientOf, RemainderOf
  <2> DEFINE t == IF (a < 0) # (b < 0) THEN -q ELSE q
  <2>3. Truncated(a, b) = t
    <3> HIDE DEF a, b, A, B
    <3> QED
      BY <1>4 DEF Truncated
  <2> HIDE DEF A, B
  <2>4. q \in Word /\ r \in Word /\ A - B * q = r
    BY <2>1, Magnitudes
  <2>5. a - b * t = IF a < 0 THEN -r ELSE r
    <3>1. A \in Int /\ B \in Int /\ q \in Int /\ r \in Int
      BY <2>1, <2>4, WordSizes DEF Word
    <3> HIDE DEF a, b, q, r
    <3>2. B * q = (IF a < 0 THEN -(b * t) ELSE b * t) /\ b * t \in Int
      BY <1>1, <1>4, <3>1
    <3> HIDE DEF t
    <3> QED
      BY <1>1, <1>4, <2>4, <3>1, <3>2
  <2>6. \A w \in Word : Trunc(w) = w
    BY WordSizes DEF Word, Trunc
  <2>7. answer.quot = Trunc(t)
    BY <1>6, <2>2, <2>4, <2>6 DEF Negate
  <2>8. answer.rem = Trunc(a - b * t)
    BY <1>6, <2>2, <2>4, <2>5, <2>6 DEF Negate
  <2>9. Answers(c) = {[quot |-> Trunc(Truncated(a, b)),
                       rem  |-> Trunc(a - b * Truncated(a, b))]}
    BY <1>2, <1>6 DEF Answers
  <2>10. answer = [quot |-> answer.quot, rem |-> answer.rem]
    BY DEF Output
  <2> HIDE DEF a, b, t
  <2> QED
    BY <2>3, <2>7, <2>8, <2>9, <2>10
<1> QED
  BY <1>5, <1>6

(***************************************************************************)
(* The bench.                                                              *)
(***************************************************************************)
\* A busy divider is in some phase of the last accepted command.
Phase ==
  \/ Waiting(div)
  \/ Accepted(div, command)
  \/ Sized(div, command)
  \/ \E k \in 1 .. Cycles : Iterating(div, command, k)
  \/ ~div.blocking_first /\ Iterated(div, command)
  \/ SignsPutBack(div, command)

BInv ==
  /\ div \in DivState
  /\ command \in Command
  /\ Phase

Input == [enable : BOOLEAN, unsgn_or_sgn : BOOLEAN, num : Word, denom : Word]

LEMMA CommandTypes ==
  ASSUME NEW c \in Command
  PROVE  c.num \in Word /\ c.denom \in Word /\ c.unsgn_or_sgn \in BOOLEAN
  BY OperandsAssumption DEF Command

LEMMA BInitial == BInit => BInv /\ Unit!Init
<1> SUFFICES ASSUME BInit PROVE BInv /\ Unit!Init
  OBVIOUS
<1>1. command \in Command
  BY OperandsAssumption DEF BInit, Command
<1>2. div \in DivState
  BY DivInitTypes DEF BInit
<1>3. /\ div.can_accept_cmd = TRUE /\ div.data_ready = FALSE
      /\ div.start_state = 1
  BY DEF BInit, DivInit
<1>4. BInv
  BY <1>1, <1>2, <1>3 DEF BInv, Phase, Waiting
<1>5. [quot |-> div.quot, rem |-> div.rem] \in Output
  BY <1>2 DEF DivState, Output
<1> QED
  BY <1>1, <1>3, <1>4, <1>5 DEF Unit!Init

\* A command taken by the idle divider.
LEMMA AcceptStep ==
  ASSUME BInv, NEW c \in Command, div.can_accept_cmd, DivStep(Give(c)),
         command' = c
  PROVE  BInv' /\ Unit!Accept
<1>1. Give(c) \in Input /\ Give(c).enable
  BY CommandTypes DEF Give, Input
<1>2. div' \in DivState
  BY <1>1, DivTypes DEF BInv, Input
<1>3. Waiting(div)
  BY DEF BInv, Phase, Waiting, Accepted, Working, Sized, Iterating, Iterated,
     SignsPutBack
<1>4. /\ Accepted(div', Give(c)) /\ div'.data_ready = FALSE
      /\ div'.quot = div.quot /\ div'.rem = div.rem
  BY <1>1, <1>3, WaitingStep DEF BInv
<1>5. Accepted(div', c)
  BY <1>4 DEF Accepted, Signs, Give
<1>6. BInv'
  BY <1>2, <1>5 DEF BInv, Phase
<1>7. div.can_accept_cmd = TRUE /\ div'.can_accept_cmd = FALSE
  BY <1>2, <1>5 DEF BInv, DivState, Accepted
<1> QED
  BY <1>4, <1>6, <1>7 DEF Unit!Accept

\* A clock edge on which no command is taken.
LEMMA EdgeStep ==
  ASSUME BInv, NEW in \in Input, DivStep(in), UNCHANGED command,
         ~(in.enable /\ div.can_accept_cmd)
  PROVE  BInv' /\ (Unit!Answer \/ UNCHANGED Unit!vars)
<1>1. div \in DivState /\ div' \in DivState
  BY DivTypes DEF BInv, Input
<1>2. command.num \in Word /\ command.denom \in Word
      /\ command.unsgn_or_sgn \in BOOLEAN
  BY CommandTypes DEF BInv
<1>3. /\ div.can_accept_cmd \in BOOLEAN /\ div'.can_accept_cmd \in BOOLEAN
      /\ div.data_ready \in BOOLEAN /\ div'.data_ready \in BOOLEAN
      /\ div.blocking_first \in BOOLEAN
  BY <1>1 DEF DivState
<1>4. Phase' => BInv'
  BY <1>1 DEF BInv
<1>5. ASSUME ~div.can_accept_cmd, ~div'.can_accept_cmd
      PROVE  UNCHANGED Unit!vars
  <2>1. /\ div'.data_ready = div.data_ready
        /\ div'.quot = div.quot /\ div'.rem = div.rem
    BY <1>1, <1>5, OutputsStay
  <2> QED
    BY <1>3, <1>5, <2>1 DEF Unit!vars
<1>6. CASE Waiting(div)
  <2>1. ~in.enable
    BY <1>6 DEF Waiting
  <2>2. /\ Waiting(div') /\ div'.data_ready = div.data_ready
        /\ div'.quot = div.quot /\ div'.rem = div.rem
    BY <1>1, <1>6, <2>1, WaitingStep
  <2> QED
    BY <1>3, <1>4, <1>6, <2>2 DEF Phase, Waiting, Unit!vars
<1>7. CASE Accepted(div, command)
  <2>1. Sized(div', command)
    BY <1>1, <1>7, AcceptedStep
  <2>2. ~div.can_accept_cmd /\ ~div'.can_accept_cmd
    BY <1>7, <2>1 DEF Accepted, Sized, Working
  <2> QED
    BY <1>4, <1>5, <2>1, <2>2 DEF Phase
<1>8. CASE Sized(div, command)
  <2>1. Iterating(div', command, Cycles) /\ Cycles \in 1 .. Cycles
    BY <1>1, <1>2, <1>8, SizedStep, CyclesFacts
  <2>2. ~div.can_accept_cmd /\ ~div'.can_accept_cmd
    BY <1>8, <2>1 DEF Sized, Iterating, Working
  <2> QED
    BY <1>4, <1>5, <2>1, <2>2 DEF Phase
<1>9. CASE \E k \in 1 .. Cycles : Iterating(div, command, k)
  <2>1. PICK k \in 1 .. Cycles : Iterating(div, command, k)
    BY <1>9
  <2>2. /\ div'.blocking_first = div.blocking_first
        /\ k > 1 => Iterating(div', command, k - 1)
        /\ k = 1 => IF div.blocking_first THEN SignsPutBack(div', command)
                                          ELSE Iterated(div', command)
    BY <1>1, <1>2, <2>1, IteratingStep
  <2>3. k = 1 \/ (k - 1 \in 1 .. Cycles /\ k > 1)
    BY CyclesFacts
  <2>4. Phase' /\ ~div'.can_accept_cmd
    BY <2>2, <2>3 DEF Phase, Iterating, Iterated, SignsPutBack, Working
  <2>5. ~div.can_accept_cmd
    BY <2>1 DEF Iterating, Working
  <2> QED
    BY <1>4, <1>5, <2>4, <2>5
<1>10. CASE ~div.blocking_first /\ Iterated(div, command)
  <2>1. SignsPutBack(div', command)
    BY <1>1, <1>2, <1>10, IteratedStep
  <2>2. ~div.can_accept_cmd /\ ~div'.can_accept_cmd
    BY <1>10, <2>1 DEF Iterated, SignsPutBack, Working
  <2> QED
    BY <1>4, <1>5, <2>1, <2>2 DEF Phase
<1>11. CASE SignsPutBack(div, command)
  <2>1. Ready(div', command)
    BY <1>1, <1>11, SignsPutBackStep
  <2>2. /\ div.can_accept_cmd = FALSE
        /\ div'.can_accept_cmd = TRUE /\ div'.data_ready = TRUE
    BY <1>3, <1>11, <2>1 DEF SignsPutBack, Working, Ready, Waiting
  <2> DEFINE answer == [quot |-> div'.quot, rem |-> div'.rem]
  <2>3. answer \in Output
    BY <1>1 DEF DivState, Output
  <2>4. command.denom # 0 => /\ answer.quot = QuotientOf(command)
                             /\ answer.rem = RemainderOf(command)
    BY <2>1 DEF Ready
  <2> HIDE DEF answer
  <2>5. answer \in Answers(command)
    BY <1>2, <2>3, <2>4, AnswersAre
  <2> QED
    BY <1>4, <2>1, <2>2, <2>5 DEF Phase, Ready, Unit!Answer, answer
<1> QED
  BY <1>6, <1>7, <1>8, <1>9, <1>10, <1>11 DEF BInv, Phase

\* The divider implements the unit: it takes a command only while it is idle,
\* whatever it is given while it is busy, and every result it shows as ready is
\* the quotient and the remainder of the last command it took, signed or not,
\* unless that divided by zero.
THEOREM DividerImplementsUnit == BSpec => Unit!SafeSpec
<1>1. BInit => BInv /\ Unit!Init
  BY BInitial
<1>2. BInv /\ BNext => BInv' /\ [Unit!Next]_(Unit!vars)
  <2> SUFFICES ASSUME BInv, BNext PROVE BInv' /\ [Unit!Next]_(Unit!vars)
    OBVIOUS
  <2>1. CASE GiveCommand
    BY <2>1, AcceptStep DEF GiveCommand, Unit!Next
  <2>2. CASE GiveCommandWhileBusy
    <3>1. Give(Distraction) \in Input
      BY DistractionAssumption DEF Give, Input
    <3> QED
      BY <2>2, <3>1, EdgeStep DEF GiveCommandWhileBusy, Unit!Next
  <2>3. CASE GiveNothing
    <3>1. NoCommand \in Input /\ ~NoCommand.enable
      BY WordSizes DEF NoCommand, Input, Word
    <3> QED
      BY <2>3, <3>1, EdgeStep DEF GiveNothing, Unit!Next
  <2> QED
    BY <2>1, <2>2, <2>3 DEF BNext
<1>3. BInv /\ UNCHANGED bvars => BInv' /\ UNCHANGED Unit!vars
  BY DEF bvars, BInv, Phase, Waiting, Accepted, Sized, Iterating, Iterated,
     SignsPutBack, Working, Signs, Remaining, Unit!vars
<1> QED
  BY <1>1, <1>2, <1>3, PTL DEF BSpec, Unit!SafeSpec
================================================================================
