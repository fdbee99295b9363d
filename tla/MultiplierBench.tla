---------------------------- MODULE MultiplierBench ----------------------------
(***************************************************************************)
(* The multiplier by itself, with a user that may give any command at any  *)
(* clock edge, also while the multiplier is busy.                          *)
(***************************************************************************)
EXTENDS Multiplier32

CONSTANTS
  Operands,     \* operands of the commands
  Distraction   \* a command the user may give while the multiplier is busy

ASSUME OperandsAssumption == Operands \subseteq Word /\ 0 \in Operands
ASSUME DistractionAssumption == Distraction \in [x : Word, y : Word]

VARIABLE command   \* the last accepted command

bvars == <<mul, command>>

Command == [x : Operands, y : Operands]

Give(c) == [enable |-> TRUE, x |-> c.x, y |-> c.y]

BInit == MulInit /\ command = [x |-> 0, y |-> 0]

GiveCommand ==
  \E c \in Command :
    mul.can_accept_cmd /\ MulStep(Give(c)) /\ command' = c

GiveCommandWhileBusy ==
  ~mul.can_accept_cmd /\ MulStep(Give(Distraction)) /\ UNCHANGED command

GiveNothing ==
  MulStep([enable |-> FALSE, x |-> 0, y |-> 0]) /\ UNCHANGED command

BNext == GiveCommand \/ GiveCommandWhileBusy \/ GiveNothing

\* The clock never stops.
BSpec == BInit /\ [][BNext]_bvars /\ WF_bvars(BNext)

Output == Word
Answers(c) == {Trunc(c.x * c.y)}

Unit == INSTANCE CommandUnit WITH
          idle <- mul.can_accept_cmd, ready <- mul.data_ready, out <- mul.prod

\* The multiplier answers every command with the low word of its product,
\* although it drops the product of the two high halves, whatever its
\* registers held at power-up (195 - 273).
MultiplierAnswers == Unit!Spec
==============================================================================
