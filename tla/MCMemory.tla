------------------------------- MODULE MCMemory -------------------------------
(* The superscalar simulator on loads, stores and branches: see MCMemory.cfg. *)
EXTENDS CoreInvariant

I(op, rd, rs1, rs2, imm) == [op |-> op, rd |-> rd, rs1 |-> rs1, rs2 |-> rs2, imm |-> imm % WORD]

Return == I("JALR", 0, 0, 0, 0)

\* x2 is 40, the end of memory; x1, x3 and the words at 32 and 36 always hold 32 or 36.
MCInstructions ==
    {I("SW", 0, 3, 1, 0), I("SW", 0, 1, 3, 0), I("SW", 0, 2, 3, -4),
     I("LW", 1, 3, 0, 0), I("LW", 3, 2, 0, -4), I("LB", 4, 3, 0, 0),
     I("ADDI", 1, 3, 0, 0), I("BEQ", 0, 1, 3, 8)}

\* All programs of three of these between two first and two last instructions.
MCPrograms ==
    {[i \in 0 .. 6 |-> CASE i = 0 -> I("ADDI", 3, 2, 0, -4)
                         [] i = 1 -> I("ADDI", 1, 2, 0, -8)
                         [] i > 4 -> Return
                         [] OTHER -> body[i]] :
        body \in [2 .. 4 -> MCInstructions]}

\* The word at 32 is 36 and the word at 36 is 32: bytes of two bits, the lowest first.
MCImage ==
    [a \in Addresses |-> CASE a = 32 -> 0 [] a = 33 -> 1 [] a = 34 -> 2
                           [] a = 36 -> 0 [] a = 37 -> 0 [] a = 38 -> 2 [] OTHER -> 0]
=============================================================================
