------------------------------- MODULE MCDivider -------------------------------
(***************************************************************************)
(* The divider's model checking constants.  One run checks its three       *)
(* builds: with one iteration per clock cycle, and with the two or four of *)
(* OPT_FAST_DIV and OPT_VERY_FAST_DIV.                                     *)
(***************************************************************************)
EXTENDS DividerBench

MCOperands    == {0, 1, 3, 6, 7, 8, 11, 15}
MCDistraction == [unsgn_or_sgn |-> TRUE, num |-> 9, denom |-> 2]

Builds == {1, 2, 4}

VARIABLE build   \* the iterations per cycle of the build

Bench(n) == INSTANCE DividerBench WITH IterationsPerCycle <- n

MCInit == \E n \in Builds : build = n /\ Bench(n)!BInit

MCNext == \E n \in Builds : build = n /\ Bench(n)!BNext /\ UNCHANGED build

\* Each build's BSpec.
MCSpec ==
  MCInit /\ [][MCNext]_<<bvars, build>> /\ WF_<<bvars, build>>(MCNext)
================================================================================
