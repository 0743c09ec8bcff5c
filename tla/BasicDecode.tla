----------------------------- MODULE BasicDecode ------------------------------
(***************************************************************************)
(* The decode unit of the basic simulator (src_basic/decode.c): from an    *)
(* encoded instruction to operands in latches and to control signals.  A   *)
(* handler writes the latches its instruction uses and leaves the others   *)
(* as the last one left them.                                              *)
(***************************************************************************)
EXTENDS InstFormat

set_ctrl(src_a, src_b, alu_op, cmp, mem, wb) ==
    [src_a |-> src_a, src_b |-> src_b, alu_op |-> alu_op, cmp |-> cmp, mem |-> mem, wb |-> wb]

\* "Unknown opcode", "Unknown funct3", "Unknown funct7": the simulator exits.
Exit == set_ctrl("", "", "", "", "", "")

\* latch is [rd_addr, rs1_val, rs2_val, imm]: the latches reg_rd_addr .. reg_imm.
to_rd(latch, inst) == [latch EXCEPT !.rd_addr = get_rd_addr(inst)]
from_rs1(latch, regs, inst) == [latch EXCEPT !.rs1_val = regs[get_rs1_addr(inst)]]
from_rs2(latch, regs, inst) == [latch EXCEPT !.rs2_val = regs[get_rs2_addr(inst)]]

\* A handler's effect, unless one of its signals is unknown.
handled(latch, ctrl) ==
    [latch |-> latch, ctrl |-> IF "" \in {ctrl.alu_op, ctrl.cmp, ctrl.mem} THEN Exit ELSE ctrl]

\* Seeded fault: the second code of a right shift is not told from others.
handle_op_imm_unchecked(inst, regs, latch) ==
    LET funct3 == funct3_of(FUNCT3_OP_IMM, inst)
        alu_op == IF funct3 = "SRLI_SRAI" THEN IF get_funct7(inst) = 0 THEN "SRL" ELSE "SRA"
                  ELSE [ADDI |-> "ADD", SLTI |-> "SLT", SLTIU |-> "SLTU", XORI |-> "XOR",
                        ORI |-> "OR", ANDI |-> "AND", SLLI |-> "SLL"][funct3]
        imm == get_imm_i(inst)
    IN  handled([from_rs1(to_rd(latch, inst), regs, inst) EXCEPT
                     !.imm = IF alu_op \in {"SLL", "SRL", "SRA"} THEN imm \cap 0 .. 4 ELSE imm],
                set_ctrl("RS1", "IMM", alu_op, "NONE", "NONE", "ALU_OUT"))

handle_op_imm(inst, regs, latch) ==
    LET funct3 == funct3_of(FUNCT3_OP_IMM, inst)
        alu_op == IF funct3 = "SRLI_SRAI" THEN funct7_of("SRL", "SRA", inst)
                  ELSE [ADDI |-> "ADD", SLTI |-> "SLT", SLTIU |-> "SLTU", XORI |-> "XOR",
                        ORI |-> "OR", ANDI |-> "AND", SLLI |-> "SLL"][funct3]
        imm == get_imm_i(inst)
    IN  handled([from_rs1(to_rd(latch, inst), regs, inst) EXCEPT
                     !.imm = IF alu_op \in {"SLL", "SRL", "SRA"} THEN imm \cap 0 .. 4 ELSE imm],
                set_ctrl("RS1", "IMM", alu_op, "NONE", "NONE", "ALU_OUT"))

handle_lui(inst, regs, latch) ==
    handled([to_rd(latch, inst) EXCEPT !.imm = get_imm_u(inst)],
            set_ctrl("ZERO", "IMM", "ADD", "NONE", "NONE", "ALU_OUT"))

handle_auipc(inst, regs, latch) ==
    handled([to_rd(latch, inst) EXCEPT !.imm = get_imm_u(inst)],
            set_ctrl("PC", "IMM", "ADD", "NONE", "NONE", "ALU_OUT"))

handle_op(inst, regs, latch) ==
    LET funct3 == funct3_of(FUNCT3_OP, inst)
        alu_op == CASE funct3 = "ADD_SUB" -> funct7_of("ADD", "SUB", inst)
                    [] funct3 = "SRL_SRA" -> funct7_of("SRL", "SRA", inst)
                    [] OTHER              -> funct3
    IN  handled(from_rs2(from_rs1(to_rd(latch, inst), regs, inst), regs, inst),
                set_ctrl("RS1", "RS2", alu_op, "NONE", "NONE", "ALU_OUT"))

handle_jal(inst, regs, latch) ==
    handled([to_rd(latch, inst) EXCEPT !.imm = get_imm_j(inst)],
            set_ctrl("PC", "IMM", "ADD", "UNCONDITIONAL", "NONE", "NPC"))

handle_jalr(inst, regs, latch) ==
    handled([from_rs1(to_rd(latch, inst), regs, inst) EXCEPT !.imm = get_imm_i(inst)],
            set_ctrl("RS1", "IMM", "ADD_CLEAR_BIT_0", "UNCONDITIONAL", "NONE", "NPC"))

\* Seeded fault: the target is relative to the first operand.
handle_branch_from_rs1(inst, regs, latch) ==
    LET cmp == [BEQ |-> "EQ", BNE |-> "NE", BLT |-> "LT", BGE |-> "GE", BLTU |-> "LTU",
                BGEU |-> "GEU"]
        funct3 == funct3_of(FUNCT3_BRANCH, inst)
    IN  handled([from_rs2(from_rs1(latch, regs, inst), regs, inst) EXCEPT !.imm = get_imm_b(inst)],
                set_ctrl("RS1", "IMM", "ADD", IF funct3 = "" THEN "" ELSE cmp[funct3],
                         "NONE", "NONE"))

handle_branch(inst, regs, latch) ==
    LET cmp == [BEQ |-> "EQ", BNE |-> "NE", BLT |-> "LT", BGE |-> "GE", BLTU |-> "LTU",
                BGEU |-> "GEU"]
        funct3 == funct3_of(FUNCT3_BRANCH, inst)
    IN  handled([from_rs2(from_rs1(latch, regs, inst), regs, inst) EXCEPT !.imm = get_imm_b(inst)],
                set_ctrl("PC", "IMM", "ADD", IF funct3 = "" THEN "" ELSE cmp[funct3],
                         "NONE", "NONE"))

\* CTRL_MEM_LOAD_* and CTRL_MEM_STORE_* are named by the instructions they are for.
handle_load(inst, regs, latch) ==
    handled([from_rs1(to_rd(latch, inst), regs, inst) EXCEPT !.imm = get_imm_i(inst)],
            set_ctrl("RS1", "IMM", "ADD", "NONE", funct3_of(FUNCT3_LOAD, inst), "MDR"))

handle_store(inst, regs, latch) ==
    handled([from_rs2(from_rs1(latch, regs, inst), regs, inst) EXCEPT !.imm = get_imm_s(inst)],
            set_ctrl("RS1", "IMM", "ADD", "NONE", funct3_of(FUNCT3_STORE, inst), "NONE"))

\* The switch of decode_step.
decode_step(inst, regs, latch) ==
    LET opcode == get_opcode(inst)
    IN  CASE opcode = OPCODE.OP_IMM -> handle_op_imm(inst, regs, latch)
          [] opcode = OPCODE.LUI    -> handle_lui(inst, regs, latch)
          [] opcode = OPCODE.AUIPC  -> handle_auipc(inst, regs, latch)
          [] opcode = OPCODE.OP     -> handle_op(inst, regs, latch)
          [] opcode = OPCODE.JAL    -> handle_jal(inst, regs, latch)
          [] opcode = OPCODE.JALR   -> handle_jalr(inst, regs, latch)
          [] opcode = OPCODE.BRANCH -> handle_branch(inst, regs, latch)
          [] opcode = OPCODE.LOAD   -> handle_load(inst, regs, latch)
          [] opcode = OPCODE.STORE  -> handle_store(inst, regs, latch)
          [] OTHER                  -> handled(latch, Exit)
=============================================================================
