---------------------------- MODULE Frost32CpuDocs ----------------------------
(***************************************************************************)
(* What the repository says of the processor and the code does not do.     *)
(* Each property is the statement of a comment or of a document; the run   *)
(* that checks it finds a counterexample.                                  *)
(***************************************************************************)
EXTENDS Frost32CpuRefinement

\* "Multiply rB by zero-extended immediate" (frost32_cpu_module.src.sv 2038):
\* muli multiplies, and the program goes on with the next instruction.  The
\* decode stage gives muli a stall counter but no stall state, so what happens
\* when the stall ends is what the previous stall's state says (2039 - 2043).
MultiplyGoesOnWithTheNextInstruction ==
  stall_counter = 1 /\ IsMultiply => pc = FollowingPcExecute

\* "lr (upon any call instruction, return address stored here)" and "All
\* relative branches, jumps, and calls are conditional": a call that is not
\* made leaves lr alone.  A signed call looks at the latched comparisons of an
\* earlier instruction in its first stall cycles (2403 - 2422).
CallNotMadeKeepsLr ==
  [][stall_counter = 1 /\ mde.instr.group = 4 /\ pc = FollowingPcExecute =>
       arch'.regs[LR] = arch.regs[LR]]_rvars

\* "Unconditional call to address in register": the address is the one the
\* register holds when the call starts.  In the stall the call has already
\* handed on the new lr, and its own operand is forwarded from there.
CallGoesToTheRegister ==
  /\ stall_counter = 1
  /\ mde.instr.group = 4 /\ mde.instr.condition_type = CtEq
  /\ mde.instr.ra = mde.instr.rb
  => pc = arch.regs[mde.instr.rc]
==============================================================================
