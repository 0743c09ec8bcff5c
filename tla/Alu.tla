--------------------------------- MODULE Alu ---------------------------------
(***************************************************************************)
(* What the arithmetic of alu.c and branch.c computes for each op.         *)
(***************************************************************************)
EXTENDS Word, DecodedInst, FiniteSetsExt

\* A word as the set of its bits, on which the bitwise operations are those of sets.
bits(a) == {k \in 0 .. BITS - 1 : (a \div 2 ^ k) % 2 = 1}
word(S) == MapThenSumSet(LAMBDA k : 2 ^ k, S)

bool(condition) == IF condition THEN 1 ELSE 0


\* A count of 32 and more is undefined in C; x86 shifts by the count modulo the width.
shift(count) == 2 ^ (count % BITS)

\* The switch of alu_step.
alu_out(op, vj, vk, inst_pc) ==
    CASE op \in {"ADD", "ADDI"}   -> plus(vj, vk)
      [] op = "LUI"               -> vj
      [] op = "AUIPC"             -> plus(vj, inst_pc)
      [] op = "SUB"               -> minus(vj, vk)
      [] op \in {"SLL", "SLLI"}   -> (vj * shift(vk)) % WORD
      [] op \in {"SLT", "SLTI"}   -> bool(signed(vj) < signed(vk))
      [] op \in {"SLTU", "SLTIU"} -> bool(vj < vk)
      [] op \in {"XOR", "XORI"}   -> word((bits(vj) \cup bits(vk)) \ (bits(vj) \cap bits(vk)))
      [] op \in {"SRL", "SRLI"}   -> vj \div shift(vk)
      [] op \in {"SRA", "SRAI"}   -> (signed(vj) \div shift(vk)) % WORD
      [] op \in {"OR", "ORI"}     -> word(bits(vj) \cup bits(vk))
      [] op \in {"AND", "ANDI"}   -> word(bits(vj) \cap bits(vk))

\* The conditions of the six branches.
branch_taken(op, vj, vk) ==
    CASE op = "BEQ"  -> vj = vk
      [] op = "BNE"  -> vj # vk
      [] op = "BLT"  -> signed(vj) < signed(vk)
      [] op = "BLTU" -> vj < vk
      [] op = "BGE"  -> signed(vj) >= signed(vk)
      [] op = "BGEU" -> vj >= vk

\* The switch of branch_step.
npc_actual_of(op, vj, vk, a, inst_pc) ==
    CASE op = "JAL"  -> plus(a, inst_pc)
      [] op = "JALR" -> 2 * (plus(vj, a) \div 2)
      [] OTHER -> IF branch_taken(op, vj, vk) THEN plus(a, inst_pc) ELSE plus(inst_pc, 4)
=============================================================================
