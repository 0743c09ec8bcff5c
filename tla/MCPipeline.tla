------------------------------ MODULE MCPipeline ------------------------------
(* The superscalar simulator on arithmetic and control flow: see MCPipeline.cfg. *)
EXTENDS CoreInvariant

I(op, rd, rs1, rs2, imm) == [op |-> op, rd |-> rd, rs1 |-> rs1, rs2 |-> rs2, imm |-> imm % WORD]

Return == I("JALR", 0, 0, 0, 0)

\* x1 and x3 hold multiples of 64, so that a loop that counts with them ends.
MCInstructions ==
    {I("ADDI", 1, 1, 0, 64), I("ADD", 3, 1, 1, 0), I("SUB", 1, 3, 1, 0),
     I("BNE", 0, 1, 3, -4), I("BEQ", 0, 3, 0, 8), I("JAL", 3, 0, 0, 8),
     I("JALR", 1, 0, 0, 12)}

\* All programs of three of these between a first and two last instructions.
MCPrograms ==
    {[i \in 0 .. 5 |-> IF i = 0 THEN I("ADDI", 1, 0, 0, 64)
                       ELSE IF i > 3 THEN Return ELSE body[i]] :
        body \in {b \in [1 .. 3 -> MCInstructions] : b[1].op # "BNE"}}

\* Programs that fetch may leave for the data behind them.
MCWithData ==
    {[i \in 0 .. 4 |-> IF i = 4 THEN Illegal ELSE IF i = 3 THEN Return ELSE p[i]] :
        p \in {q \in MCPrograms : q[3].op = "ADD"}}

MCAllPrograms == MCPrograms \cup MCWithData

MCImage == [a \in Addresses |-> 0]
=============================================================================
