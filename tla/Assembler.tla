------------------------------ MODULE Assembler -------------------------------
(***************************************************************************)
(* How RV32I encodes an instruction, from the formats drawn in decode.c    *)
(* and the codes of rv32i.h: the way back from what the decoders compute.  *)
(***************************************************************************)
EXTENDS Decode

\* The ones of a field of up to seven bits, placed at bit k.
at(n, k) == {i \in k .. k + 6 : (n \div 2 ^ (i - k)) % 2 = 1}

\* The bits first .. last of an immediate, moved so that the first is at bit k.
move(imm, first, last, k) == {i - first + k : i \in imm \cap first .. last}

\* The place of an op in a table is its funct3.
code(table, op) == (CHOOSE i \in 1 .. 8 : table[i] = op) - 1

\* Those of the second funct7, and the ops that share a funct3.
Funct7 == {"SUB", "SRA", "SRAI"}
shared(op) ==
    CASE op \in {"SRLI", "SRAI"} -> "SRLI_SRAI"
      [] op \in {"SRL", "SRA"}   -> "SRL_SRA"
      [] op \in {"ADD", "SUB"}   -> "ADD_SUB"
      [] OTHER                   -> op

fields(opcode, funct3, i) ==
    at(opcode, 0) \cup at(i.rd, 7) \cup at(funct3, 12) \cup at(i.rs1, 15) \cup at(i.rs2, 20)

funct7(op) == IF op \in Funct7 THEN at(\H20, 25) ELSE {}

assemble(i) ==
    CASE i.op \in RegOp ->
            fields(OPCODE.OP, code(FUNCT3_OP, shared(i.op)), i) \cup funct7(i.op)
      [] i.op \in ImmOp ->
            fields(OPCODE.OP_IMM, code(FUNCT3_OP_IMM, shared(i.op)), i)
            \cup move(i.imm, 0, 11, 20) \cup funct7(i.op)
      [] i.op \in LoadOp ->
            fields(OPCODE.LOAD, code(FUNCT3_LOAD, i.op), i) \cup move(i.imm, 0, 11, 20)
      [] i.op = "JALR" -> fields(OPCODE.JALR, 0, i) \cup move(i.imm, 0, 11, 20)
      [] i.op \in StoreOp ->
            fields(OPCODE.STORE, code(FUNCT3_STORE, i.op), i)
            \cup move(i.imm, 0, 4, 7) \cup move(i.imm, 5, 11, 25)
      [] i.op \in BranchOp ->
            fields(OPCODE.BRANCH, code(FUNCT3_BRANCH, i.op), i)
            \cup move(i.imm, 11, 11, 7) \cup move(i.imm, 1, 4, 8)
            \cup move(i.imm, 5, 10, 25) \cup move(i.imm, 12, 12, 31)
      [] i.op = "LUI"   -> fields(OPCODE.LUI, 0, i) \cup i.imm
      [] i.op = "AUIPC" -> fields(OPCODE.AUIPC, 0, i) \cup i.imm
      [] i.op = "JAL" ->
            fields(OPCODE.JAL, 0, i) \cup move(i.imm, 1, 10, 21) \cup move(i.imm, 11, 11, 20)
            \cup move(i.imm, 12, 19, 12) \cup move(i.imm, 20, 20, 31)
=============================================================================
