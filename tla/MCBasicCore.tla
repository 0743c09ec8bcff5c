------------------------------ MODULE MCBasicCore ------------------------------
(* The basic simulator on encoded programs: see MCBasicCore.cfg. *)
EXTENDS BasicCoreProperties

\* The ones of a signed immediate.
ones(v) == {k \in 0 .. 30 : (v \div 2 ^ k) % 2 = 1} \cup IF v < 0 THEN {31} ELSE {}

I(op, rd, rs1, rs2, imm) == [op |-> op, rd |-> rd, rs1 |-> rs1, rs2 |-> rs2, imm |-> imm]

Addi(rd, v) == I("ADDI", rd, 0, 0, ones(v))
Return == I("JALR", 0, 0, 0, {})

\* x10 and x21 get operands, one instruction works on them, and the next may be skipped.
Text(a, b, inst) ==
    LET insts == <<Addi(10, a), Addi(21, b), inst, Addi(19, 1), Return>>
    IN  [slot \in 0 .. 4 |-> Rv32i!assemble(insts[slot + 1])]

Operands == {0, 1, -1, 21, -2048, 2047}

Arithmetic ==
    {Text(a, b, I(op, 19, 10, 21, {})) : a, b \in Operands, op \in RegOp}
    \cup {Text(a, 0, I(op, 19, 10, 0, ones(v))) :
              a, v \in Operands, op \in ImmOp \ {"SLLI", "SRLI", "SRAI"}}
    \cup {Text(a, 0, I(op, 19, 10, 0, ones(v))) :
              a \in Operands, v \in {0, 1, 15, 21, 31}, op \in {"SLLI", "SRLI", "SRAI"}}

\* Memory has a pattern; the address is a sum, and the bytes read have both signs.
Accesses ==
    {Text(a, 0, I(op, rd, 10, 0, ones(v))) :
         a \in {44, 46, 47}, v \in {0, 4, -4}, op \in LoadOp, rd \in {0, 19}}
    \cup {Text(a, b, I(op, 0, 10, 21, ones(v))) :
              a \in {44, 46, 47}, b \in {21, -2048}, v \in {0, 4, -4}, op \in StoreOp}

Transfers ==
    {Text(a, b, I(op, 0, 10, 21, ones(v))) :
         a, b \in {0, 1, -1, 21}, v \in {8, -4}, op \in BranchOp}
    \cup {Text(0, 0, I("JAL", rd, 0, 0, ones(v))) : rd \in {0, 19}, v \in {4, 8, -8}}
    \cup {Text(a, 0, I("JALR", rd, 10, 0, ones(v))) :
              rd \in {0, 19}, a \in {0, 8, 17}, v \in {0, 8, -8}}

\* Each bit of each kind of immediate; most of the addresses are beyond memory.
Bits(first, last) ==
    {{k} : k \in first .. last - 1} \cup {last .. 31, first .. 31}

Immediates ==
    {Text(0, 1, I("BEQ", 0, 10, 21, imm)) : imm \in Bits(1, 12)}
    \cup {Text(0, 0, I("SB", 0, 10, 21, imm)) : imm \in Bits(0, 11)}
    \cup {Text(0, 0, I("LB", 19, 10, 0, imm)) : imm \in Bits(0, 11)}
    \cup {Text(0, 0, I("JAL", 19, 0, 0, imm)) : imm \in Bits(1, 20)}
    \cup {Text(0, 0, I(op, 19, 0, 0, {k})) : op \in {"LUI", "AUIPC"}, k \in 12 .. 31}

\* Words with each opcode and funct3, and some funct7, known or not.  Words with a
\* funct7 or a funct3 that RV32I reserves and both decoders ignore are left out.
Opcodes == {0, \H3, \H13, \H17, \H23, \H2F, \H33, \H37, \H63, \H67, \H6F, \H73, \H7F}

Ignored(opcode, funct3, funct7) ==
    \/ opcode = OPCODE.JALR /\ funct3 # 0
    \/ opcode = OPCODE.OP /\ funct3 \notin {0, 5} /\ funct7 # 0
    \/ opcode = OPCODE.OP_IMM /\ funct3 = 1 /\ funct7 # 0

RawWords ==
    {Rv32i!at(c[1], 0) \cup Rv32i!at(c[2], 12) \cup Rv32i!at(c[3], 25) :
        c \in {d \in Opcodes \X (0 .. 7) \X {0, 1, \H20, \H7F} : ~Ignored(d[1], d[2], d[3])}}

MCTexts ==
    Arithmetic \cup Accesses \cup Transfers \cup Immediates
    \cup {[slot \in {0} |-> w] : w \in RawWords}

MCImage == [a \in Addresses |-> (7 * a) % BYTE]
=============================================================================
