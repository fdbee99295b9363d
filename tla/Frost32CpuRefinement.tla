------------------------- MODULE Frost32CpuRefinement -------------------------
(***************************************************************************)
(* The pipeline implements the instruction set.                            *)
(*                                                                         *)
(* Between two clock edges with stall counter zero, the instruction in the *)
(* decode stage has not started and every earlier one is either finished   *)
(* or has only its result on the way to the register file.  The            *)
(* architectural state can then be read off the pipeline: `View'.  During  *)
(* a stall an instruction is half done, so the history variable `arch'     *)
(* keeps the view of the last edge that was not in a stall; it influences  *)
(* nothing.                                                                *)
(***************************************************************************)
EXTENDS Frost32CpuProperties

VARIABLE arch   \* the architectural state as of the last edge not in a stall

rvars == <<vars, arch>>

\* The newest value of register r, counting the one the execute stage hands
\* on at the next edge.
ViewOfRegister(r) ==
  IF r # 0 /\ ExecuteResult.index = r THEN ExecuteResult.data ELSE Newest(r)

View == [regs |-> [r \in Reg |-> ViewOfRegister(r)], pc |-> pc_val,
         ireta |-> ireta, idsta |-> idsta, ie |-> ie, mem |-> mem]

RInit ==
  /\ Init
  /\ arch = [regs |-> [r \in Reg |-> 0], pc |-> 0,
             ireta |-> 0, idsta |-> 0, ie |-> FALSE, mem |-> mem]

RNext ==
  /\ Next
  /\ arch' = IF InStall' THEN arch ELSE View'

RSpec == RInit /\ [][RNext]_rvars

\* The clock never stops.
FairRSpec == RSpec /\ WF_rvars(RNext)

InstrSet == INSTANCE Frost32Isa WITH
  regs <- arch.regs, pc <- arch.pc, ireta <- arch.ireta,
  idsta <- arch.idsta, ie <- arch.ie, mem <- arch.mem

(***************************************************************************)
(* Properties.                                                             *)
(***************************************************************************)
\* Whatever the interleaving of fetch, stalls, forwarding, write-back and
\* interrupts, the registers, pc, special registers and memory change as if
\* the instructions were executed one at a time (1477 - 2655).
ImplementsIsa == InstrSet!Spec
==============================================================================
