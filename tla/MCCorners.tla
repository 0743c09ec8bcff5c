------------------------------- MODULE MCCorners -------------------------------
(* Programs at the edges of what the superscalar simulator supports, one     *)
(* set for each of MCAddressZero.cfg, MCOverlap.cfg, MCBranchToZero.cfg and  *)
(* MCData.cfg.                                                               *)
EXTENDS PipelineProperties

I(op, rd, rs1, rs2, imm) == [op |-> op, rd |-> rd, rs1 |-> rs1, rs2 |-> rs2, imm |-> imm % WORD]

Return == I("JALR", 0, 0, 0, 0)

Program(insts) == [i \in 0 .. Len(insts) |-> IF i < Len(insts) THEN insts[i + 1] ELSE Return]

\* A load from address 0, and a store to it whose data comes after its address.
AddressZero ==
    {Program(<<I("LW", 1, 0, 0, 0)>>),
     Program(<<I("ADDI", 1, 0, 0, 5), I("ADD", 1, 1, 1, 0), I("SW", 0, 0, 1, 0)>>)}

\* The second byte of the word at 28 is written, then the word is read.
Overlap ==
    {Program(<<I("ADDI", 1, 0, 0, 1), I("SB", 0, 2, 1, -3), I("LW", 3, 2, 0, -4)>>)}

\* A branch to the start, taken once.
BranchToZero == {Program(<<I("ADDI", 1, 1, 0, 64), I("BEQ", 0, 0, 0, -4)>>)}

\* A word of data after the last instruction.
Data == {[i \in 0 .. 2 |-> <<I("ADDI", 1, 0, 0, 64), Return, Illegal>>[i + 1]]}

MCImage == [a \in Addresses |-> 0]
=============================================================================
