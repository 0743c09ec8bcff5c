------------------------------ MODULE BasicCore -------------------------------
(***************************************************************************)
(* The basic simulator as src_basic builds it: main's loop runs five units *)
(* one after the other, which hand each other registers and control        *)
(* signals.  Instructions are encoded words here, and decoded.             *)
(***************************************************************************)
EXTENDS BasicDecode, Alu, MainMemory, RegFile

CONSTANTS Texts,                 \* memory files: functions from 0 .. n - 1 to encoded words
          Image,                 \* the data
          Heap                   \* what malloc may leave in a register of the cpu

ASSUME BasicCoreAssumption ==
    /\ Image \in [Addresses -> 0 .. BYTE - 1]
    /\ Heap # {} /\ Heap \subseteq Words

VARIABLES text,                  \* the memory file
          mm, regs,
          reg_pc, reg_npc, reg_inst, reg_alu_out, reg_mdr,
          latch,                 \* reg_rd_addr, reg_rs1_val, reg_rs2_val and reg_imm
          ctrl, ctrl_pc_src,     \* the control signals, that of fetch apart
          phase                  \* the unit that steps next, or how main ended

coreVars == <<text, mm, regs, reg_pc, reg_npc, reg_inst, reg_alu_out, reg_mdr, latch, ctrl,
              ctrl_pc_src, phase>>

\* The enums of control.h.
Signals ==
    [src_a : {"RS1", "PC", "ZERO"}, src_b : {"RS2", "IMM"},
     alu_op : RegOp \cup {"ADD_CLEAR_BIT_0"},
     cmp : {"NONE", "UNCONDITIONAL", "EQ", "NE", "LT", "LTU", "GE", "GEU"},
     mem : {"NONE"} \cup LoadOp \cup StoreOp,
     wb : {"NONE", "ALU_OUT", "MDR", "NPC"}]

Latches == [rd_addr : Regs, rs1_val : Words, rs2_val : Words, imm : SUBSET (0 .. 31)]

\* The immediate of 32 bits, in a word.
low(imm) == word(imm \cap 0 .. BITS - 1)

Init ==
    /\ text \in Texts
    /\ mm = Image
    /\ regs = [r \in Regs |-> reg_file_init[r].val]
    /\ reg_pc = 0 /\ reg_npc = 0
    /\ \E heap \in Heap :
        /\ reg_inst = bits(heap) /\ reg_alu_out = heap /\ reg_mdr = heap
        /\ latch = [rd_addr |-> heap % NUM_REGS, rs1_val |-> heap, rs2_val |-> heap,
                    imm |-> bits(heap)]
    /\ ctrl = Exit
    /\ ctrl_pc_src = "NPC"
    /\ phase = "fetch"

-----------------------------------------------------------------------------

\* The word at an address: 0x0 beyond the program.
word_at(addr) == IF addr \div 4 \in DOMAIN text THEN text[addr \div 4] ELSE {}

\* fetch_step.  A word beyond the array is undefined: the model ends there.
next_pc == IF ctrl_pc_src = "NPC" THEN reg_npc ELSE reg_alu_out

Fetch ==
    /\ phase = "fetch"
    /\ next_pc + 3 \in Addresses
    /\ reg_pc' = next_pc
    /\ reg_inst' = word_at(next_pc)
    /\ reg_npc' = plus(next_pc, 4)
    /\ phase' = "decode"
    /\ UNCHANGED <<text, mm, regs, reg_alu_out, reg_mdr, latch, ctrl, ctrl_pc_src>>

\* decode_step
Decode ==
    LET set == decode_step(reg_inst, regs, latch)
    IN  /\ phase = "decode"
        /\ latch' = set.latch
        /\ ctrl' = set.ctrl
        /\ phase' = IF set.ctrl = Exit THEN "failed" ELSE "execute"
        /\ UNCHANGED <<text, mm, regs, reg_pc, reg_npc, reg_inst, reg_alu_out, reg_mdr,
                       ctrl_pc_src>>

get_src_a_val ==
    CASE ctrl.src_a = "RS1"  -> latch.rs1_val
      [] ctrl.src_a = "PC"   -> reg_pc
      [] ctrl.src_a = "ZERO" -> 0

get_src_b_val == IF ctrl.src_b = "RS2" THEN latch.rs2_val ELSE low(latch.imm)

\* Seeded fault: the sum keeps its carry.
set_alu_out_carry(src_a, src_b) ==
    IF ctrl.alu_op = "ADD_CLEAR_BIT_0" THEN 2 * ((src_a + src_b) \div 2)
    ELSE alu_out(ctrl.alu_op, src_a, src_b, NA)

set_alu_out(src_a, src_b) ==
    IF ctrl.alu_op = "ADD_CLEAR_BIT_0" THEN 2 * (plus(src_a, src_b) \div 2)
    ELSE alu_out(ctrl.alu_op, src_a, src_b, NA)

set_cmp_out ==
    LET branch_of == [EQ |-> "BEQ", NE |-> "BNE", LT |-> "BLT", LTU |-> "BLTU",
                      GE |-> "BGE", GEU |-> "BGEU"]
        taken == CASE ctrl.cmp = "NONE"          -> FALSE
                   [] ctrl.cmp = "UNCONDITIONAL" -> TRUE
                   [] OTHER -> branch_taken(branch_of[ctrl.cmp], latch.rs1_val, latch.rs2_val)
    IN  IF taken THEN "ALU_OUT" ELSE "NPC"

\* execute_step
Execute ==
    /\ phase = "execute"
    /\ reg_alu_out' = set_alu_out(get_src_a_val, get_src_b_val)
    /\ ctrl_pc_src' = set_cmp_out
    /\ phase' = "memory"
    /\ UNCHANGED <<text, mm, regs, reg_pc, reg_npc, reg_inst, reg_mdr, latch, ctrl>>

\* memory_step.  An access beyond the array is undefined: the model ends there.
width(mem) == CASE mem \in {"LW", "SW"} -> 4 [] mem \in {"LH", "LHU", "SH"} -> 2 [] OTHER -> 1

Memory ==
    /\ phase = "memory"
    /\ ctrl.mem = "NONE" \/ reg_alu_out + width(ctrl.mem) - 1 \in Addresses
    /\ reg_mdr' = IF ctrl.mem \in LoadOp THEN load(mm, ctrl.mem, reg_alu_out) ELSE reg_mdr
    /\ mm' = CASE ctrl.mem = "SW" -> main_memory_store_word(mm, reg_alu_out, latch.rs2_val)
               [] ctrl.mem = "SH" -> main_memory_store_half(mm, reg_alu_out, latch.rs2_val)
               [] ctrl.mem = "SB" -> main_memory_store_byte(mm, reg_alu_out, latch.rs2_val)
               [] OTHER           -> mm
    /\ phase' = "writeback"
    /\ UNCHANGED <<text, regs, reg_pc, reg_npc, reg_inst, reg_alu_out, latch, ctrl, ctrl_pc_src>>

\* writeback_step
written_regs ==
    LET val == CASE ctrl.wb = "ALU_OUT" -> reg_alu_out
                 [] ctrl.wb = "MDR"     -> reg_mdr
                 [] ctrl.wb = "NPC"     -> reg_npc
    IN  IF ctrl.wb = "NONE" \/ latch.rd_addr = 0 THEN regs
        ELSE [regs EXCEPT ![latch.rd_addr] = val]

\* The condition of main's loop.
ends == ctrl_pc_src = "ALU_OUT" /\ reg_alu_out = 0

Writeback ==
    /\ phase = "writeback"
    /\ regs' = written_regs
    /\ phase' = IF ends THEN "halted" ELSE "fetch"
    /\ UNCHANGED <<text, mm, reg_pc, reg_npc, reg_inst, reg_alu_out, reg_mdr, latch, ctrl,
                   ctrl_pc_src>>

Next == Fetch \/ Decode \/ Execute \/ Memory \/ Writeback

Spec == Init /\ [][Next]_coreVars
=============================================================================
