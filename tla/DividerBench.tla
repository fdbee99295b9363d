----------------------------- MODULE DividerBench -----------------------------
(***************************************************************************)
(* The divider by itself, with a user that may give any command at any     *)
(* clock edge, also while the divider is busy.                             *)
(***************************************************************************)
EXTENDS NonRestoringDivider

CONSTANTS
  Operands,     \* numerators and denominators of the commands
  Distraction   \* a command the user may give while the divider is busy

ASSUME OperandsAssumption == Operands \subseteq Word /\ 0 \in Operands
ASSUME DistractionAssumption ==
  Distraction \in [unsgn_or_sgn : BOOLEAN, num : Word, denom : Word]

VARIABLE command   \* the last accepted command

bvars == <<div, command>>

Command == [unsgn_or_sgn : BOOLEAN, num : Operands, denom : Operands]

NoCommand == [enable |-> FALSE, unsgn_or_sgn |-> FALSE, num |-> 0, denom |-> 0]
Give(c)   == [enable |-> TRUE, unsgn_or_sgn |-> c.unsgn_or_sgn,
              num |-> c.num, denom |-> c.denom]

BInit ==
  DivInit /\ command = [unsgn_or_sgn |-> FALSE, num |-> 0, denom |-> 0]

GiveCommand ==
  \E c \in Command :
    div.can_accept_cmd /\ DivStep(Give(c)) /\ command' = c

GiveCommandWhileBusy ==
  ~div.can_accept_cmd /\ DivStep(Give(Distraction)) /\ UNCHANGED command

GiveNothing == DivStep(NoCommand) /\ UNCHANGED command

BNext == GiveCommand \/ GiveCommandWhileBusy \/ GiveNothing

\* The clock never stops.
BSpec == BInit /\ [][BNext]_bvars /\ WF_bvars(BNext)

\* The results that are right: division truncates towards zero and the
\* remainder has the sign of the numerator.  Anything may come of a division
\* by zero: the processor does not use it.
Output == [quot : Word, rem : Word]

Truncated(a, b) ==
  LET Abs(x) == IF x < 0 THEN -x ELSE x
      q == Abs(a) \div Abs(b)
  IN  IF (a < 0) # (b < 0) THEN -q ELSE q

Answers(c) ==
  LET a == IF c.unsgn_or_sgn THEN Signed(c.num) ELSE c.num
      b == IF c.unsgn_or_sgn THEN Signed(c.denom) ELSE c.denom
  IN  IF b = 0 THEN Output
      ELSE {[quot |-> Trunc(Truncated(a, b)),
             rem  |-> Trunc(a - b * Truncated(a, b))]}

Unit == INSTANCE CommandUnit WITH
          idle <- div.can_accept_cmd, ready <- div.data_ready,
          out  <- [quot |-> div.quot, rem |-> div.rem]

\* The divider answers every command with the quotient and the remainder of
\* that command, signed and unsigned, with 1, 2 or 4 iterations per cycle,
\* whichever order its two always blocks run in, and is not disturbed by commands
\* given too early (701 - 1021).
DividerAnswers == Unit!Spec
==============================================================================
