----------------------------- MODULE DecodedInst -----------------------------
(***************************************************************************)
(* The vocabulary every unit of the superscalar core shares: the operation *)
(* types and operations of decoded_inst.h.                                  *)
(***************************************************************************)

StoreType == {"STORE_WORD", "STORE_HALF", "STORE_BYTE"}
OpType == {"AL", "BRANCH", "JUMP", "LOAD"} \cup StoreType

IsStore(op_type) == op_type \in StoreType

ImmOp == {"ADDI", "SLTI", "SLTIU", "ANDI", "ORI", "XORI", "SLLI", "SRLI", "SRAI"}
RegOp == {"ADD", "SLT", "SLTU", "AND", "OR", "XOR", "SLL", "SRL", "SUB", "SRA"}
BranchOp == {"BEQ", "BNE", "BLT", "BLTU", "BGE", "BGEU"}
LoadOp == {"LW", "LH", "LHU", "LB", "LBU"}
StoreOp == {"SW", "SH", "SB"}

\* The op_type decode gives each op: handle_op_imm .. handle_store of decode.c.  Nothing else is
\* passed on.
op_type_of(op) ==
    CASE op \in ImmOp \cup RegOp \cup {"LUI", "AUIPC"} -> "AL"
      [] op \in BranchOp                               -> "BRANCH"
      [] op \in {"JAL", "JALR"}                        -> "JUMP"
      [] op \in LoadOp                                 -> "LOAD"
      [] op = "SW" -> "STORE_WORD"
      [] op = "SH" -> "STORE_HALF"
      [] op = "SB" -> "STORE_BYTE"
      [] OTHER     -> "none"

\* "Not applicable": the zero that every unit writes in the fields it leaves unused.
NA == 0

\* The word 0x0.
NoInst == [op |-> "0x0", rd |-> 0, rs1 |-> 0, rs2 |-> 0, imm |-> 0]

\* A word that no handler of decode.c knows: data, or what follows the code.
Illegal == [op |-> "illegal", rd |-> 0, rs1 |-> 0, rs2 |-> 0, imm |-> 0]
=============================================================================
