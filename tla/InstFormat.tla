------------------------------ MODULE InstFormat ------------------------------
(***************************************************************************)
(* The bit fields of an encoded instruction, as get_opcode .. get_imm_j of *)
(* both decode.c take them out, and the codes of rv32i.h.  A uint32_t is   *)
(* the set of the positions of its ones, so masks are intersections.       *)
(***************************************************************************)
EXTENDS Integers, FiniteSetsExt

shr(w, n) == {k \in 0 .. 31 : k + n \in w}
shl(w, n) == {k \in 0 .. 31 : k - n \in w}

number(w) == MapThenSumSet(LAMBDA k : 2 ^ k, w)

\* imm |= 0xFF.., when its sign bit is set.
sign_extend(imm, sign) == IF sign \in imm THEN imm \cup sign .. 31 ELSE imm

get_opcode(inst) == number(inst \cap 0 .. 6)
get_funct3(inst) == number(shr(inst, 12) \cap 0 .. 2)
get_funct7(inst) == number(shr(inst, 25) \cap 0 .. 6)
get_rd_addr(inst) == number(shr(inst, 7) \cap 0 .. 4)
get_rs1_addr(inst) == number(shr(inst, 15) \cap 0 .. 4)
get_rs2_addr(inst) == number(shr(inst, 20) \cap 0 .. 4)

get_imm_i(inst) == sign_extend(shr(inst, 20) \cap 0 .. 11, 11)

get_imm_s(inst) ==
    sign_extend((shr(inst, 7) \cap 0 .. 4) \cup (shr(inst, 20) \cap 5 .. 11), 11)

\* Seeded fault: bit 11 is taken for part of the low field.
get_imm_b_misplaced(inst) ==
    sign_extend((shr(inst, 7) \cap 0 .. 4) \cup (shr(inst, 20) \cap 5 .. 10)
                \cup (shr(inst, 19) \cap {12}), 12)

get_imm_b(inst) ==
    sign_extend((shr(inst, 7) \cap 1 .. 4) \cup (shr(inst, 20) \cap 5 .. 10)
                \cup (shl(inst, 4) \cap {11}) \cup (shr(inst, 19) \cap {12}), 12)

get_imm_u(inst) == inst \cap 12 .. 31

get_imm_j(inst) ==
    sign_extend((shr(inst, 20) \cap 1 .. 10) \cup (shr(inst, 9) \cap {11})
                \cup (inst \cap 12 .. 19) \cup (shr(inst, 11) \cap {20}), 20)

-----------------------------------------------------------------------------

OPCODE == [OP_IMM |-> \H13, LUI |-> \H37, AUIPC |-> \H17, OP |-> \H33, JAL |-> \H6F,
           JALR |-> \H67, BRANCH |-> \H63, LOAD |-> \H3, STORE |-> \H23]

\* What the codes 0 .. 7 of funct3 stand for; "" for none.
FUNCT3_OP_IMM == <<"ADDI", "SLLI", "SLTI", "SLTIU", "XORI", "SRLI_SRAI", "ORI", "ANDI">>
FUNCT3_OP == <<"ADD_SUB", "SLL", "SLT", "SLTU", "XOR", "SRL_SRA", "OR", "AND">>
FUNCT3_BRANCH == <<"BEQ", "BNE", "", "", "BLT", "BGE", "BLTU", "BGEU">>
FUNCT3_LOAD == <<"LB", "LH", "LW", "", "LBU", "LHU", "", "">>
FUNCT3_STORE == <<"SB", "SH", "SW", "", "", "", "", "">>

funct3_of(table, inst) == table[get_funct3(inst) + 1]

\* FUNCT7_ADD and FUNCT7_SRL are 0, FUNCT7_SUB and FUNCT7_SRA 0x20.
funct7_of(plain, other, inst) ==
    CASE get_funct7(inst) = 0    -> plain
      [] get_funct7(inst) = \H20 -> other
      [] OTHER                   -> ""
=============================================================================
