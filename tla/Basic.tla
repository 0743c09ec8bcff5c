-------------------------------- MODULE Basic --------------------------------
(***************************************************************************)
(* The basic simulator (src_basic): one instruction after the other, each  *)
(* fetched, decoded, executed, sent to memory and written back before the  *)
(* next.  It is also what the superscalar simulator promises to compute.   *)
(***************************************************************************)
EXTENDS Alu, Program, RegFile

VARIABLES program,               \* the one that runs
          pc,                    \* where the next instruction is fetched
          regs, mm,
          halted                 \* the loop of main has ended

basicVars == <<program, pc, regs, mm, halted>>

Init ==
    /\ program \in Programs
    /\ pc = 0
    /\ regs = [r \in Regs |-> reg_file_init[r].val]
    /\ mm = Image
    /\ halted = FALSE

-----------------------------------------------------------------------------

\* Operands and operation as decode sets them for execute.
src_a(inst) ==
    IF inst.op = "LUI" THEN 0
    ELSE IF inst.op \in BranchOp \cup {"AUIPC", "JAL"} THEN pc
    ELSE regs[inst.rs1]

src_b(inst) == IF inst.op \in RegOp THEN regs[inst.rs2] ELSE inst.imm

reg_alu_out(inst) ==
    CASE inst.op \in RegOp \cup ImmOp -> alu_out(inst.op, src_a(inst), src_b(inst), NA)
      [] inst.op = "JALR" -> 2 * (plus(src_a(inst), src_b(inst)) \div 2)
      [] OTHER -> plus(src_a(inst), src_b(inst))

\* set_cmp_out: the program counter is taken from the ALU.
pc_src_is_alu_out(inst) ==
    \/ inst.op \in {"JAL", "JALR"}
    \/ inst.op \in BranchOp /\ branch_taken(inst.op, regs[inst.rs1], regs[inst.rs2])

\* What memory_step stores.
store(memory, op, addr, val) ==
    CASE op = "SW" -> main_memory_store_word(memory, addr, val)
      [] op = "SH" -> main_memory_store_half(memory, addr, val)
      [] op = "SB" -> main_memory_store_byte(memory, addr, val)

\* What writeback_step writes to rd.
written(inst) ==
    CASE inst.op \in LoadOp        -> load(mm, inst.op, reg_alu_out(inst))
      [] inst.op \in {"JAL", "JALR"} -> plus(pc, 4)
      [] OTHER                     -> reg_alu_out(inst)

\* One turn of main's loop.  A word that is no instruction ends the program with an error.
Step ==
    LET inst == inst_at(program, pc)
    IN  /\ ~halted
        /\ inst \notin {NoInst, Illegal}
        /\ regs' = IF inst.rd = 0 THEN regs ELSE [regs EXCEPT ![inst.rd] = written(inst)]
        /\ mm' = IF inst.op \in StoreOp
                 THEN store(mm, inst.op, reg_alu_out(inst), regs[inst.rs2]) ELSE mm
        /\ pc' = IF pc_src_is_alu_out(inst) THEN reg_alu_out(inst) ELSE plus(pc, 4)
        /\ halted' = (pc_src_is_alu_out(inst) /\ reg_alu_out(inst) = 0)
        /\ UNCHANGED program

Spec == Init /\ [][Step]_basicVars
=============================================================================
