-------------------------------- MODULE Decode --------------------------------
(***************************************************************************)
(* The switch of the superscalar simulator's decode_step and its handlers: *)
(* from an encoded instruction to the fields of a decoded_inst.  The       *)
(* immediate stays the set of its ones.  An encoding no handler knows ends *)
(* the simulator: "Unknown opcode", "Unknown funct3", "Unknown funct7".    *)
(***************************************************************************)
EXTENDS InstFormat, DecodedInst

Unknown == [op |-> "", rd |-> 0, rs1 |-> 0, rs2 |-> 0, imm |-> {}]

create_decoded_inst(op, rd_addr, rs1_addr, rs2_addr, imm) ==
    IF op = "" THEN Unknown
    ELSE [op |-> op, rd |-> rd_addr, rs1 |-> rs1_addr, rs2 |-> rs2_addr, imm |-> imm]

handle_op_imm(inst) ==
    LET funct3 == funct3_of(FUNCT3_OP_IMM, inst)
        op == IF funct3 = "SRLI_SRAI" THEN funct7_of("SRLI", "SRAI", inst) ELSE funct3
        imm == get_imm_i(inst)
    IN  create_decoded_inst(op, get_rd_addr(inst), get_rs1_addr(inst), NA,
                            IF op \in {"SLLI", "SRLI", "SRAI"} THEN imm \cap 0 .. 4 ELSE imm)

handle_lui(inst) == create_decoded_inst("LUI", get_rd_addr(inst), NA, NA, get_imm_u(inst))

handle_auipc(inst) == create_decoded_inst("AUIPC", get_rd_addr(inst), NA, NA, get_imm_u(inst))

handle_op(inst) ==
    LET funct3 == funct3_of(FUNCT3_OP, inst)
        op == CASE funct3 = "ADD_SUB" -> funct7_of("ADD", "SUB", inst)
                [] funct3 = "SRL_SRA" -> funct7_of("SRL", "SRA", inst)
                [] OTHER              -> funct3
    IN  create_decoded_inst(op, get_rd_addr(inst), get_rs1_addr(inst), get_rs2_addr(inst), {})

handle_jal(inst) == create_decoded_inst("JAL", get_rd_addr(inst), NA, NA, get_imm_j(inst))

handle_jalr(inst) ==
    create_decoded_inst("JALR", get_rd_addr(inst), get_rs1_addr(inst), NA, get_imm_i(inst))

handle_branch(inst) ==
    create_decoded_inst(funct3_of(FUNCT3_BRANCH, inst), NA,
                        get_rs1_addr(inst), get_rs2_addr(inst), get_imm_b(inst))

handle_load(inst) ==
    create_decoded_inst(funct3_of(FUNCT3_LOAD, inst), get_rd_addr(inst), get_rs1_addr(inst), NA,
                        get_imm_i(inst))

handle_store(inst) ==
    create_decoded_inst(funct3_of(FUNCT3_STORE, inst), NA,
                        get_rs1_addr(inst), get_rs2_addr(inst), get_imm_s(inst))

decode(inst) ==
    LET opcode == get_opcode(inst)
    IN  CASE opcode = OPCODE.OP_IMM -> handle_op_imm(inst)
          [] opcode = OPCODE.LUI    -> handle_lui(inst)
          [] opcode = OPCODE.AUIPC  -> handle_auipc(inst)
          [] opcode = OPCODE.OP     -> handle_op(inst)
          [] opcode = OPCODE.JAL    -> handle_jal(inst)
          [] opcode = OPCODE.JALR   -> handle_jalr(inst)
          [] opcode = OPCODE.BRANCH -> handle_branch(inst)
          [] opcode = OPCODE.LOAD   -> handle_load(inst)
          [] opcode = OPCODE.STORE  -> handle_store(inst)
          [] OTHER                  -> Unknown
=============================================================================
