------------------------- MODULE Frost32CpuProperties -------------------------
(***************************************************************************)
(* What the processor's stages rely on from one another.  The pipeline has *)
(* no handshakes: the fetch, decode, execute and write-back stages and the *)
(* arithmetic units stay in step only because the stall counters have the  *)
(* right values.  The properties below say what "in step" means; they hold *)
(* of every program, those that use muli included.                         *)
(***************************************************************************)
EXTENDS Frost32Cpu

\* The clock never stops.
FairSpec == Spec /\ WF_vars(Next)

(***************************************************************************)
(* Fetch.                                                                  *)
(***************************************************************************)
\* The decoder is never shown a stale word.  Outside a stall the word on the
\* bus is what memory holds NOW at the address recorded for it, even if a
\* store has just overwritten it, and the request for the next one is out;
\* in the last cycle of a stall the first of the two requests that refill the
\* pipeline is out (1081 - 1105, 1484 - 1489, 1508 - 1912).
FetchCoherence ==
  /\ ~InStall =>
       /\ in_data = mem[CellOf(pc_val)]
       /\ pc = Trunc(pc_val + 4)
  /\ stall_counter \in {0, 1} => ~WriteEnable(bus) /\ bus.addr = pc

(***************************************************************************)
(* Operands.                                                               *)
(***************************************************************************)
\* The newest value of register r that the execute stage has handed on: in
\* the forwarding register, on the write port, or in the register file.
Newest(r) ==
  CASE r = 0 -> 0
    [] r # 0 /\ fwd0.index = r -> fwd0.data
    [] r # 0 /\ fwd0.index # r /\ write_port.en /\ write_port.sel = r ->
         write_port.data
    [] OTHER -> regfile[r]

\* In every cycle, stalled or not, the three operands of the instruction in
\* the execute stage are the newest values of its registers.  The values come
\* over three paths of different length: two forwarding registers, the bypass
\* in the register file, and a read that was started a cycle earlier with the
\* register numbers of the decode stage (538 - 600, 662 - 696, 1125 - 1152,
\* 2242 - 2245, 2555 - 2567; register_file_module.src.sv 37 - 50, 220 - 248).
OperandsAreNewest ==
  /\ RaData = Newest(mde.instr.ra)
  /\ RbData = Newest(mde.instr.rb)
  /\ RcData = Newest(mde.instr.rc)

(***************************************************************************)
(* Memory.                                                                 *)
(***************************************************************************)
\* Memory changes only through a store, once, at the address and with the
\* value its operands still have when the write happens, a cycle after the
\* request went out.  A muli that inherits StMemAccess from an earlier load
\* or store makes a request of its own, but never a write (1107 - 1120,
\* 1508 - 1585, 2039 - 2043).
MemWrittenOnlyByStores ==
  [][mem' # mem =>
       /\ mde.instr.group = 5 /\ mde.instr.ldst_type \in Stores
       /\ stall_counter = 2
       /\ mem' = [mem EXCEPT ![CellOf(LdstAddress)] = RaData]]_vars

(***************************************************************************)
(* The arithmetic units.                                                   *)
(***************************************************************************)
\* The processor never looks at data_ready or can_accept_cmd.  It counts: a
\* command is never given to a multiplier that is busy, and in the last
\* cycle of the stall, when the result is taken for good, the product of the
\* command's operands is there (45 - 47, 1343 - 1374, 2254 - 2270, 2306 -
\* 2320; arithlog_modules.src.sv 227 - 270).
MultiplierInTime ==
  /\ mul_in.enable => mul.can_accept_cmd
  /\ stall_counter = 1 /\ IsMultiply =>
       mul.data_ready /\ mul.prod = Trunc(mul_in.x * mul_in.y)

Quotient ==
  LET Magnitude(w) == IF div_in.unsgn_or_sgn /\ Signed(w) < 0 THEN Trunc(-w) ELSE w
      q == Magnitude(div_in.num) \div Magnitude(div_in.denom)
  IN  IF div_in.unsgn_or_sgn /\ (Signed(div_in.num) < 0) # (Signed(div_in.denom) < 0)
      THEN Trunc(-q) ELSE q

\* The same of the divider, whichever order the build runs its two always
\* blocks in: seven cycles on top of the iterations are enough (60 - 63,
\* 1376 - 1437; arithlog_modules.src.sv 701 - 1021).
DividerInTime ==
  /\ div_in.enable => div.can_accept_cmd
  /\ stall_counter = 1 /\ IsDivide =>
       div.data_ready /\ (div_in.denom # 0 => div.quot = Quotient)

(***************************************************************************)
(* Progress.                                                               *)
(***************************************************************************)
\* No instruction, and no sequence of interrupts, stalls the machine for
\* ever: every stall ends, and the word fetched for an address that was asked
\* for is decoded or gives way to an interrupt (1919 - 2001).
StallsEnd == []<>(~InStall)
==============================================================================
