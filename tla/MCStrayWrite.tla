------------------------------ MODULE MCStrayWrite ------------------------------
(* Counting loops committed three at a time: see MCStrayWrite.cfg. *)
EXTENDS PipelineProperties

I(op, rd, rs1, rs2, imm) == [op |-> op, rd |-> rd, rs1 |-> rs1, rs2 |-> rs2, imm |-> imm % WORD]

Nop == I("ADDI", 0, 0, 0, 0)

\* 4: x1 += 512  8 .. 16: nops or x3 := x1 + x3   20: if x1 # 0 goto 4  24: return
MCPrograms ==
    {[i \in 0 .. 6 |-> CASE i = 0 -> Nop
                         [] i = 1 -> I("ADDI", 1, 1, 0, 512)
                         [] i = 5 -> I("BNE", 0, 1, 0, -16)
                         [] i = 6 -> I("JALR", 0, 0, 0, 0)
                         [] OTHER -> body[i]] :
        body \in [2 .. 4 -> {I("ADD", 3, 1, 3, 0), Nop}]}

MCImage == [a \in Addresses |-> 0]
=============================================================================
