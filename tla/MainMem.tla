------------------------------- MODULE MainMem -------------------------------
(***************************************************************************)
(* The main memory (main_mem_module.src.sv): a single-port synchronous RAM *)
(* of MemWords words behind the processor's bus.  The two low address bits *)
(* are dropped and addresses beyond the RAM wrap, so every address names a *)
(* word.  The access size on the bus is not looked at.  A read delivers    *)
(* the word as it was before a write of the same edge.                     *)
(***************************************************************************)
EXTENDS Frost32Word

CONSTANT MemWords   \* number of words of the RAM; 2^11 in the source

ASSUME MemWordsAssumption == MemWords \in Nat /\ MemWords >= 1

VARIABLES
  mem,      \* SinglePortRam's __mem
  in_data   \* SinglePortRam's registered out_data: the processor's in.data

MemVars == <<mem, in_data>>

Cell == 0 .. MemWords - 1

AccessType == {"DiatRead", "DiatWrite"}
AccessSize == {"Dias32", "Dias16", "Dias8"}

Bus == [req  : BOOLEAN, type : AccessType, size : AccessSize,
        addr : Word, data : Word]

MemTypeOK ==
  /\ mem \in [Cell -> Word]
  /\ in_data \in Word

\* __in_single_port_ram_addr = in.addr >> 2
CellOf(addr) == (addr \div 4) % MemWords

WriteEnable(bus) == bus.req /\ bus.type = "DiatWrite"

MemStep(bus) ==
  /\ mem' = IF WriteEnable(bus)
            THEN [mem EXCEPT ![CellOf(bus.addr)] = bus.data]
            ELSE mem
  /\ in_data' = mem[CellOf(bus.addr)]
==============================================================================
