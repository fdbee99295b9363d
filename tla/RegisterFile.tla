---------------------------- MODULE RegisterFile -----------------------------
(***************************************************************************)
(* The register file (register_file_module.src.sv): one write port and     *)
(* three synchronous read ports.  A read started in one cycle delivers its *)
(* data in the next, and a read of the register being written in the same  *)
(* cycle is bypassed.                                                      *)
(***************************************************************************)
EXTENDS InstrDecoder

VARIABLES
  regfile,    \* __regfile
  read_data   \* out.read_data_ra, .read_data_rb, .read_data_rc

RegFileVars == <<regfile, read_data>>

WritePort == [en : BOOLEAN, sel : Reg, data : Word]

RegFileTypeOK ==
  /\ regfile \in [Reg -> Word]
  /\ read_data \in [ra : Word, rb : Word, rc : Word]

RegFileInit ==
  /\ regfile = [r \in Reg |-> 0]
  /\ read_data = [ra |-> 0, rb |-> 0, rc |-> 0]

\* Mutant: no bypass of a write of the same cycle.
ReadWithoutBypass(write, sel) == regfile[sel]

\* What a synchronous read port delivers for register `sel' while `write' is
\* on the write port.
ReadSynchronous(write, sel) ==
  IF write.en /\ write.sel = sel /\ write.sel # 0
  THEN write.data
  ELSE regfile[sel]

\* One clock edge with the write port and the three read selects as given.
RegFileStep(write, sel_ra, sel_rb, sel_rc) ==
  /\ read_data' = [ra |-> ReadSynchronous(write, sel_ra),
                   rb |-> ReadSynchronous(write, sel_rb),
                   rc |-> ReadSynchronous(write, sel_rc)]
  /\ regfile' = IF write.en /\ write.sel # 0
                THEN [regfile EXCEPT ![write.sel] = write.data]
                ELSE regfile
==============================================================================
