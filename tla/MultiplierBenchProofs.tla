------------------------- MODULE MultiplierBenchProofs -------------------------
(***************************************************************************)
(* The multiplier never gives a wrong answer: it implements the safety     *)
(* part of CommandUnit, for every word size, operands and power-up value.  *)
(***************************************************************************)
EXTENDS MultiplierBench, Frost32WordProofs

\* A busy multiplier works on the last accepted command, in two steps.
Loaded == mul.x = command.x /\ mul.y = command.y

Multiplied ==
  /\ mul.x0_y0 = (command.x % Half) * (command.y % Half)
  /\ mul.x0_y1 = (command.x % Half) * (command.y \div Half)
  /\ mul.x1_y0 = (command.x \div Half) * (command.y % Half)

BInv ==
  /\ mul \in MulState
  /\ command \in Command
  /\ ~mul.can_accept_cmd /\ mul.state = 1 => Loaded
  /\ ~mul.can_accept_cmd /\ mul.state = 0 => Multiplied

\* The multiplier's registers keep their sizes.
LEMMA MulTypes ==
  ASSUME mul \in MulState, NEW in \in [enable : BOOLEAN, x : Word, y : Word],
         MulStep(in)
  PROVE  mul' \in MulState
<1>1. CASE MulAccept(in)
  BY <1>1 DEF MulAccept, MulState
<1>2. CASE MulPartialProducts
  BY <1>2, HalfProducts DEF MulPartialProducts, MulState
<1>3. CASE MulSum
  <2>1. (mul.x1_y0 + mul.x0_y1) * Half + mul.x0_y0 \in Int
    BY WordSizes DEF MulState, Word
  <2> QED
    BY <1>3, <2>1, TruncIsWord DEF MulSum, MulState
<1>4. CASE MulIdle(in)
  BY <1>4 DEF MulIdle
<1> QED
  BY <1>1, <1>2, <1>3, <1>4 DEF MulStep

LEMMA BInitial == BInit => BInv /\ Unit!Init
<1> SUFFICES ASSUME BInit PROVE BInv /\ Unit!Init
  OBVIOUS
<1>1. command \in Command
  BY OperandsAssumption DEF BInit, Command
<1>2. PICK w \in PowerUp :
         mul = [can_accept_cmd |-> TRUE, data_ready |-> FALSE, state |-> 0,
                x |-> w, y |-> w, x0_y0 |-> w, x1_y0 |-> w, x0_y1 |-> w,
                prod |-> w]
  BY DEF BInit, MulInit
<1>3. w \in Word
  BY PowerUpAssumption
<1>4. mul \in MulState
  BY <1>2, <1>3 DEF MulState
<1>5. BInv
  BY <1>1, <1>2, <1>4 DEF BInv
<1>6. Unit!Init
  BY <1>1, <1>2, <1>3 DEF Unit!Init, Output
<1> QED
  BY <1>5, <1>6

\* A command taken by the idle multiplier.
LEMMA AcceptStep ==
  ASSUME BInv, NEW c \in Command, MulAccept(Give(c)), command' = c
  PROVE  BInv' /\ Unit!Accept
<1>1. Give(c) \in [enable : BOOLEAN, x : Word, y : Word]
      /\ Give(c).x = c.x /\ Give(c).y = c.y
  BY OperandsAssumption DEF Give, Command
<1>2. mul' \in MulState
  BY <1>1, MulTypes DEF BInv, MulStep
<1>3. /\ mul.can_accept_cmd /\ ~mul'.can_accept_cmd /\ mul'.state = 1
      /\ ~mul'.data_ready /\ mul'.prod = mul.prod
      /\ mul'.x = c.x /\ mul'.y = c.y
  BY <1>1 DEF MulAccept, BInv, MulState
<1>4. BInv'
  BY <1>2, <1>3 DEF BInv, Loaded
<1> QED
  BY <1>2, <1>3, <1>4 DEF Unit!Accept, BInv, MulState

\* The partial products of the command.
LEMMA PartialProductsStep ==
  ASSUME BInv, MulPartialProducts, mul' \in MulState, UNCHANGED command
  PROVE  BInv' /\ UNCHANGED Unit!vars
<1>1. /\ Loaded
      /\ mul'.can_accept_cmd = mul.can_accept_cmd
      /\ mul'.data_ready = mul.data_ready
      /\ mul'.prod = mul.prod /\ mul'.state = 0
      /\ mul'.x0_y0 = (mul.x % Half) * (mul.y % Half)
      /\ mul'.x0_y1 = (mul.x % Half) * (mul.y \div Half)
      /\ mul'.x1_y0 = (mul.x \div Half) * (mul.y % Half)
  BY DEF MulPartialProducts, BInv, MulState
<1>2. Multiplied'
  BY <1>1 DEF Multiplied, Loaded
<1>3. BInv'
  BY <1>1, <1>2 DEF BInv
<1> QED
  BY <1>1, <1>3 DEF Unit!vars

\* The sum of the products is the answer.
LEMMA SumStep ==
  ASSUME BInv, MulSum, mul' \in MulState, UNCHANGED command
  PROVE  BInv' /\ Unit!Answer
<1>1. /\ Multiplied
      /\ ~mul.can_accept_cmd /\ mul'.can_accept_cmd /\ mul'.data_ready
      /\ mul'.prod = Trunc((mul.x1_y0 + mul.x0_y1) * Half + mul.x0_y0)
  BY DEF MulSum, BInv, MulState
<1>2. command.x \in Word /\ command.y \in Word
  BY OperandsAssumption DEF BInv, Command
<1>3. mul'.prod = Trunc(command.x * command.y)
  BY <1>1, <1>2, LowWordOfProduct DEF Multiplied
<1>4. BInv'
  BY <1>1 DEF BInv
<1>5. mul'.can_accept_cmd = TRUE /\ mul'.data_ready = TRUE
  BY <1>1 DEF MulState
<1> QED
  BY <1>1, <1>3, <1>4, <1>5 DEF Unit!Answer, Answers

\* Every edge of the clock is a step of the abstract unit, or none.
LEMMA EdgeStep ==
  ASSUME BInv, BNext
  PROVE  BInv' /\ (Unit!Next \/ UNCHANGED Unit!vars)
<1>1. ASSUME NEW in \in [enable : BOOLEAN, x : Word, y : Word], MulStep(in),
             UNCHANGED command, ~(in.enable /\ mul.can_accept_cmd)
      PROVE  BInv' /\ (Unit!Next \/ UNCHANGED Unit!vars)
  <2>1. mul' \in MulState
    BY <1>1, MulTypes DEF BInv
  <2>2. CASE MulPartialProducts
    BY <1>1, <2>1, <2>2, PartialProductsStep
  <2>3. CASE MulSum
    BY <1>1, <2>1, <2>3, SumStep DEF Unit!Next
  <2>4. CASE MulIdle(in)
    BY <1>1, <2>4 DEF MulIdle, BInv, Loaded, Multiplied, Unit!vars
  <2> QED
    BY <1>1, <2>2, <2>3, <2>4 DEF MulStep, MulAccept
<1>2. CASE GiveCommand
  <2>1. PICK c \in Command :
           mul.can_accept_cmd /\ MulStep(Give(c)) /\ command' = c
    BY <1>2 DEF GiveCommand
  <2>2. MulAccept(Give(c))
    BY <2>1 DEF MulStep, MulPartialProducts, MulSum, MulIdle, Give
  <2> QED
    BY <2>1, <2>2, AcceptStep DEF Unit!Next
<1>3. CASE GiveCommandWhileBusy
  <2>1. Give(Distraction) \in [enable : BOOLEAN, x : Word, y : Word]
    BY DistractionAssumption DEF Give
  <2> QED
    BY <1>1, <1>3, <2>1 DEF GiveCommandWhileBusy
<1>4. CASE GiveNothing
  <2> DEFINE nothing == [enable |-> FALSE, x |-> 0, y |-> 0]
  <2>1. nothing \in [enable : BOOLEAN, x : Word, y : Word] /\ ~nothing.enable
    BY OperandsAssumption
  <2>2. MulStep(nothing) /\ UNCHANGED command
    BY <1>4 DEF GiveNothing
  <2> HIDE DEF nothing
  <2> QED
    BY <1>1, <2>1, <2>2
<1> QED
  BY <1>2, <1>3, <1>4 DEF BNext

\* The multiplier implements the unit: it takes a command only while it is
\* idle, whatever it is given while it is busy, and every result it shows as
\* ready is the low word of the product of the last command it took.
THEOREM MultiplierImplementsUnit == BSpec => Unit!SafeSpec
<1>1. BInit => BInv /\ Unit!Init
  BY BInitial
<1>2. BInv /\ [BNext]_bvars => BInv' /\ [Unit!Next]_(Unit!vars)
  <2>1. ASSUME UNCHANGED bvars, BInv
        PROVE  BInv' /\ UNCHANGED Unit!vars
    BY <2>1 DEF bvars, BInv, Loaded, Multiplied, Unit!vars
  <2> QED
    BY <2>1, EdgeStep
<1> QED
  BY <1>1, <1>2, PTL DEF BSpec, Unit!SafeSpec
================================================================================
