------------------------------- MODULE Program -------------------------------
(***************************************************************************)
(* The memory file both simulators load: a program from address 0 on, zero *)
(* words after it, and the data.  The program is kept apart from the data  *)
(* and already decoded: no program of the runs writes or reads its own     *)
(* code, which the superscalar simulator fetches ahead of its stores.      *)
(***************************************************************************)
EXTENDS MainMemory, DecodedInst

CONSTANTS Programs,              \* each a function from 0 .. n - 1 to instructions,
                                 \* records [op, rd, rs1, rs2, imm]; rd is 0 for
                                 \* branches and stores, which have none
          Image                  \* the data

ASSUME ImageAssumption == Image \in [Addresses -> 0 .. BYTE - 1]

\* The instruction at an address, wrapped as main_memory_load_word does.
inst_at(program, addr) ==
    LET slot == (addr % MEMORY_SIZE) \div 4
    IN  IF slot \in DOMAIN program THEN program[slot] ELSE NoInst
=============================================================================
