----------------------------- MODULE MCRefinement -----------------------------
(***************************************************************************)
(* The refinement of the instruction set, and what the documents say of    *)
(* the processor, on the programs of MCFrost32.                            *)
(***************************************************************************)
EXTENDS MCFrost32, Frost32CpuDocs
================================================================================
