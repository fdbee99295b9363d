----------------------------- MODULE CommandUnit -----------------------------
(***************************************************************************)
(* What an arithmetic unit promises its user, whatever it takes inside: a  *)
(* command accepted while the unit is idle is answered with a result that  *)
(* belongs to that command, the result stays until the next answer, and    *)
(* commands given while the unit is busy are ignored.                      *)
(***************************************************************************)
CONSTANTS
  Command,      \* commands
  Output,       \* values of the result
  Answers(_)    \* the results that are right for a command

VARIABLES
  idle,     \* can_accept_cmd
  ready,    \* data_ready
  command,  \* the last accepted command
  out       \* the result

vars == <<idle, ready, command, out>>

Init ==
  /\ idle = TRUE /\ ready = FALSE
  /\ command \in Command
  /\ out \in Output

Accept ==
  /\ idle
  /\ idle' = FALSE /\ ready' = FALSE
  /\ command' \in Command
  /\ UNCHANGED out

Answer ==
  /\ ~idle
  /\ idle' = TRUE /\ ready' = TRUE
  /\ out' \in Answers(command)
  /\ UNCHANGED command

Next == Accept \/ Answer

\* No answer is wrong, and none comes without a command.
SafeSpec == Init /\ [][Next]_vars

\* Every accepted command is answered.
Spec == SafeSpec /\ WF_vars(Answer)
==============================================================================
