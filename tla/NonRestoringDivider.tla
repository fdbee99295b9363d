------------------------- MODULE NonRestoringDivider -------------------------
(***************************************************************************)
(* The sequential divider (arithlog_modules.src.sv, NonRestoringDivider).  *)
(*                                                                         *)
(* It is two always blocks on the same clock edge.  The first one assigns  *)
(* __counter, __P, __D and __quot_buf with blocking assignments, and the   *)
(* second one reads them, so whether the second block sees the values of   *)
(* before or after the edge depends on the order in which the build runs   *)
(* the two blocks: a simulator may run the first one first (the second     *)
(* sees the new values), synthesis makes all of them registers (it sees    *)
(* the old ones).  `blocking_first' records the order of the build; both   *)
(* are initial states.                                                     *)
(***************************************************************************)
EXTENDS Frost32Word

CONSTANT IterationsPerCycle   \* 2 under OPT_FAST_DIV, the build's option

VARIABLE div

\* __counter and __state_counter are 8 bits wide; their sign bit says "done"
\* and "load".  __P and __D have TEMP_WIDTH = 2 * Width + 1 bits.
CounterMod == 256
TempMod    == 2 * WordMod * WordMod

\* The eight-bit counters hold the number of the next digit and the number of
\* cycles that are left, without reaching their sign bits.
ASSUME IterationsAssumption ==
  /\ IterationsPerCycle \in {1, 2, 4}
  /\ Width % IterationsPerCycle = 0
  /\ Width <= CounterMod \div 2
  /\ Width \div IterationsPerCycle < CounterMod \div 2

Negative8(c) == c >= CounterMod \div 2
NegativeP(p) == p >= WordMod * WordMod
Negate(w)    == Trunc(-w)

DivState ==
  [blocking_first : BOOLEAN,
   can_accept_cmd : BOOLEAN, data_ready : BOOLEAN,
   counter : 0 .. CounterMod - 1, state_counter : 0 .. CounterMod - 1,
   start_state : {0, 1}, end_state : {0, 1}, sgn : BOOLEAN,
   num_was_negative : BOOLEAN, denom_was_negative : BOOLEAN,
   num_buf : Word, denom_buf : Word,
   P : 0 .. TempMod - 1, D : 0 .. TempMod - 1,
   quot_buf : Word, quot_buf_2 : Word, rem_buf_2 : Word,
   quot : Word, rem : Word]

DivInit ==
  \E order \in BOOLEAN :
     div = [blocking_first |-> order,
            can_accept_cmd |-> TRUE, data_ready |-> FALSE,
            counter |-> 0, state_counter |-> 0,
            start_state |-> 1, end_state |-> 1, sgn |-> FALSE,
            num_was_negative |-> FALSE, denom_was_negative |-> FALSE,
            num_buf |-> 0, denom_buf |-> 0, P |-> 0, D |-> 0,
            quot_buf |-> 0, quot_buf_2 |-> 0, rem_buf_2 |-> 0,
            quot |-> 0, rem |-> 0]

(***************************************************************************)
(* The first always block: the datapath.                                   *)
(***************************************************************************)
\* __quot_buf[i] = 1; an index outside of the register has no effect.
SetBit(q, i) ==
  IF i < Width /\ (q \div 2 ^ i) % 2 = 0 THEN Trunc(q + 2 ^ i) ELSE q

\* iterate(i), on the part d = [P, quot_buf] of the state.
Iterate(d, i) ==
  IF ~NegativeP(d.P)
  THEN [P |-> (2 * d.P - div.D) % TempMod, quot_buf |-> SetBit(d.quot_buf, i)]
  ELSE [P |-> (2 * d.P + div.D) % TempMod, quot_buf |-> d.quot_buf]

\* The iterations of one clock cycle, from index __counter downwards.
Iterations ==
  LET index(n) == (div.counter - n) % CounterMod
      once     == Iterate(div, index(0))
      twice    == Iterate(once, index(1))
  IN  CASE IterationsPerCycle = 1 -> [P |-> once.P, quot_buf |-> once.quot_buf]
        [] IterationsPerCycle = 2 -> twice
        [] IterationsPerCycle = 4 -> Iterate(Iterate(twice, index(2)), index(3))

\* __counter, __P, __D and __quot_buf after this edge.
Datapath ==
  IF Negative8(div.state_counter)
  THEN [counter |-> Width - 1, P |-> div.num_buf,
        D |-> div.denom_buf * WordMod, quot_buf |-> 0]
  ELSE IF ~div.can_accept_cmd
  THEN LET iterated == Iterations
       IN  [counter |-> (div.counter - IterationsPerCycle) % CounterMod,
            P |-> iterated.P, D |-> div.D, quot_buf |-> iterated.quot_buf]
  ELSE [counter |-> div.counter, P |-> div.P, D |-> div.D,
        quot_buf |-> div.quot_buf]

(***************************************************************************)
(* The second always block: the control.  Each action gives the registers  *)
(* it assigns; `seen' is the datapath as this block sees it.               *)
(***************************************************************************)
Seen == IF div.blocking_first
        THEN Datapath
        ELSE [counter |-> div.counter, P |-> div.P, D |-> div.D,
              quot_buf |-> div.quot_buf]

WithDatapath(d) ==
  LET path == Datapath
  IN  [d EXCEPT !.counter = path.counter, !.P = path.P,
                !.D = path.D, !.quot_buf = path.quot_buf]

DivAccept(in) ==
  /\ in.enable /\ div.can_accept_cmd
  /\ div' = WithDatapath(
       [div EXCEPT !.can_accept_cmd = FALSE, !.data_ready = FALSE,
                   !.state_counter = CounterMod - 1,
                   !.num_buf = in.num, !.denom_buf = in.denom,
                   !.sgn = in.unsgn_or_sgn,
                   !.num_was_negative = 2 * in.num >= WordMod,
                   !.denom_was_negative = 2 * in.denom >= WordMod,
                   !.start_state = 0, !.end_state = 0])

\* The operands of a signed division become magnitudes.
DivStart(in) ==
  /\ ~(in.enable /\ div.can_accept_cmd) /\ div.start_state = 0
  /\ div' = WithDatapath(
       [div EXCEPT !.start_state = 1,
                   !.num_buf = IF div.sgn /\ div.num_was_negative
                               THEN Negate(@) ELSE @,
                   !.denom_buf = IF div.sgn /\ div.denom_was_negative
                                 THEN Negate(@) ELSE @])

Busy(in) == ~(in.enable /\ div.can_accept_cmd) /\ div.start_state = 1
            /\ ~div.can_accept_cmd

DivIterate(in) ==
  /\ Busy(in) /\ ~Negative8(Seen.counter)
  /\ div' = WithDatapath(
       [div EXCEPT !.state_counter = (@ + 1) % CounterMod, !.end_state = 0])

\* Mutant: a negative remainder is not corrected.
NotCorrected ==
  LET q == Trunc(2 * Seen.quot_buf + 1)
      r == Trunc(Seen.P \div WordMod)
  IN  [quot |-> IF div.sgn /\ div.num_was_negative # div.denom_was_negative
                THEN Negate(q) ELSE q,
       rem  |-> IF div.sgn /\ div.num_was_negative THEN Negate(r) ELSE r]

\* __quot_buf - ~__quot_buf turns the digits -1 and 1 into binary; a
\* negative remainder is corrected; the signs are put back.
Corrected ==
  LET digits   == Trunc(2 * Seen.quot_buf + 1)
      negative == NegativeP(Seen.P)
      q  == IF negative THEN Trunc(digits - 1) ELSE digits
      r  == Trunc((IF negative THEN (Seen.P + Seen.D) % TempMod ELSE Seen.P)
                  \div WordMod)
  IN  [quot |-> IF div.sgn /\ div.num_was_negative # div.denom_was_negative
                THEN Negate(q) ELSE q,
       rem  |-> IF div.sgn /\ div.num_was_negative THEN Negate(r) ELSE r]

DivCorrect(in) ==
  /\ Busy(in) /\ Negative8(Seen.counter) /\ div.end_state = 0
  /\ div' = WithDatapath(
       [div EXCEPT !.end_state = 1, !.quot_buf_2 = Corrected.quot,
                   !.rem_buf_2 = Corrected.rem])

DivFinish(in) ==
  /\ Busy(in) /\ Negative8(Seen.counter) /\ div.end_state = 1
  /\ div' = WithDatapath(
       [div EXCEPT !.can_accept_cmd = TRUE, !.data_ready = TRUE,
                   !.state_counter = CounterMod - 1,
                   !.quot = div.quot_buf_2, !.rem = div.rem_buf_2])

DivIdle(in) ==
  /\ div.can_accept_cmd /\ ~in.enable /\ div.start_state = 1
  /\ div' = WithDatapath(div)

DivStep(in) ==
  DivAccept(in) \/ DivStart(in) \/ DivIterate(in) \/ DivCorrect(in)
    \/ DivFinish(in) \/ DivIdle(in)
==============================================================================
