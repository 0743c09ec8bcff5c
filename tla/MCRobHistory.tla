------------------------------ MODULE MCRobHistory -----------------------------
(* The superscalar simulator and the core its reorder buffer expects: see MCRobHistory.cfg. *)
EXTENDS RobHistory

I(op, rd, rs1, rs2, imm) == [op |-> op, rd |-> rd, rs1 |-> rs1, rs2 |-> rs2, imm |-> imm % WORD]

Return == I("JALR", 0, 0, 0, 0)

\* x2 is 40, the end of memory, and x3 is 36; the branch skips an instruction.
MCInstructions ==
    {I("SW", 0, 3, 1, 0), I("LW", 1, 3, 0, 0), I("ADDI", 1, 3, 0, 0),
     I("BEQ", 0, 1, 3, 8)}

\* All programs of three of these between two first and two last instructions, so that
\* the last of them is issued when the slow first one is committed.
MCPrograms ==
    {[i \in 0 .. 6 |-> CASE i = 0 -> I("LW", 1, 2, 0, -4)
                         [] i = 1 -> I("ADDI", 3, 2, 0, -4)
                         [] i > 4 -> Return
                         [] OTHER -> body[i]] :
        body \in [2 .. 4 -> MCInstructions]}

MCImage == [a \in Addresses |-> 0]
=============================================================================
