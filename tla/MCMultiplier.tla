----------------------------- MODULE MCMultiplier -----------------------------
(***************************************************************************)
(* The multiplier's model checking constants.                              *)
(***************************************************************************)
EXTENDS MultiplierBench

MCOperands    == Word
MCDistraction == [x |-> 3, y |-> 5]
================================================================================
