---------------------------- MODULE Multiplier32 -----------------------------
(***************************************************************************)
(* The three-cycle multiplier (arithlog_modules.src.sv, Multiplier32).  A  *)
(* command is taken only while can_accept_cmd holds; the next cycle forms  *)
(* three half-word products, the one after adds them up.                   *)
(***************************************************************************)
EXTENDS Frost32Word

CONSTANT PowerUp   \* words an uninitialised register may hold at power-up

ASSUME PowerUpAssumption == PowerUp \subseteq Word /\ PowerUp # {}

VARIABLE mul

MulState ==
  [can_accept_cmd : BOOLEAN, data_ready : BOOLEAN, state : {0, 1},
   x : Word, y : Word, x0_y0 : Word, x1_y0 : Word, x0_y1 : Word, prod : Word]

\* The initial block sets the handshake and the state; the data registers
\* hold whatever they power up with.
MulInit ==
  \E w \in PowerUp :
     mul = [can_accept_cmd |-> TRUE, data_ready |-> FALSE, state |-> 0,
            x |-> w, y |-> w, x0_y0 |-> w, x1_y0 |-> w, x0_y1 |-> w,
            prod |-> w]

\* Mutant: a command is taken while another one is in progress.
MulAcceptWhileBusy(in) ==
  /\ in.enable
  /\ mul' = [mul EXCEPT !.x = in.x, !.y = in.y,
                        !.can_accept_cmd = FALSE, !.data_ready = FALSE,
                        !.state = 1]

MulAccept(in) ==
  /\ in.enable /\ mul.can_accept_cmd
  /\ mul' = [mul EXCEPT !.x = in.x, !.y = in.y,
                        !.can_accept_cmd = FALSE, !.data_ready = FALSE,
                        !.state = 1]

MulPartialProducts ==
  /\ ~mul.can_accept_cmd /\ mul.state = 1
  /\ mul' = [mul EXCEPT !.state = 0,
                        !.x0_y0 = (mul.x % Half) * (mul.y % Half),
                        !.x0_y1 = (mul.x % Half) * (mul.y \div Half),
                        !.x1_y0 = (mul.x \div Half) * (mul.y % Half)]

MulSum ==
  /\ ~mul.can_accept_cmd /\ mul.state = 0
  /\ mul' = [mul EXCEPT !.state = 1,  \* a one-bit register: 0 - 1
                        !.prod = Trunc((mul.x1_y0 + mul.x0_y1) * Half
                                       + mul.x0_y0),
                        !.can_accept_cmd = TRUE, !.data_ready = TRUE]

MulIdle(in) ==
  /\ mul.can_accept_cmd /\ ~in.enable
  /\ UNCHANGED mul

MulStep(in) == MulAccept(in) \/ MulPartialProducts \/ MulSum \/ MulIdle(in)
==============================================================================
