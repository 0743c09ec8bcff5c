------------------------- MODULE BasicCoreProperties --------------------------
(***************************************************************************)
(* What the basic simulator must not get wrong between an encoded word and *)
(* the registers and memory it leaves.                                     *)
(***************************************************************************)
EXTENDS BasicCore

\* The decode unit of the superscalar simulator, and the encoding of RV32I.
Rv32i == INSTANCE Assembler

\* Registers hold words, latches what decode gets out of a word, signals one of
\* their enum's values, and none is unset when a unit acts on it (control.h, cpu.h).
BasicTypeOK ==
    /\ regs \in [Regs -> Words]
    /\ mm \in [Addresses -> 0 .. BYTE - 1]
    /\ {reg_pc, reg_npc, reg_alu_out, reg_mdr} \subseteq Words
    /\ latch \in Latches
    /\ ctrl_pc_src \in {"NPC", "ALU_OUT"}
    /\ phase \in {"fetch", "decode", "execute", "memory", "writeback", "failed", "halted"}
    /\ phase \in {"execute", "memory", "writeback"} => ctrl \in Signals

(***************************************************************************)
(* No field of an instruction is lost, misplaced or mixed with another:    *)
(* encoding what a decoder gets out of a word gives the word back, with    *)
(* every immediate's scattered bits and sign (get_imm_i .. get_imm_j).     *)
(***************************************************************************)
AssemblesBack ==
    LET inst == Rv32i!decode(reg_inst)
    IN  inst # Rv32i!Unknown => Rv32i!assemble(inst) = reg_inst

(***************************************************************************)
(* The two simulators, each with a decode.c of its own, take the same      *)
(* words for instructions: the basic one ends with an error at exactly     *)
(* those that the superscalar one does not know.                           *)
(***************************************************************************)
RejectTheSameWords ==
    /\ phase = "failed" => Rv32i!decode(reg_inst) = Rv32i!Unknown
    /\ phase \in {"execute", "memory", "writeback"} => Rv32i!decode(reg_inst) # Rv32i!Unknown


-----------------------------------------------------------------------------

\* The instruction a word stands for, by the superscalar simulator's decoder.
meaning(inst) ==
    LET decoded == Rv32i!decode(inst)
    IN  CASE inst = {}               -> NoInst
          [] decoded = Rv32i!Unknown -> Illegal
          [] OTHER                   -> [decoded EXCEPT !.imm = low(@)]

decoded_text(words) == [slot \in DOMAIN words |-> meaning(words[slot])]

DecodedTexts == {decoded_text(words) : words \in Texts}

(***************************************************************************)
(* Five units that hand each other latches and signals, one of them        *)
(* stale until its unit has stepped, compute what the instructions say,    *)
(* as the superscalar simulator's decoder understands them: an instruction *)
(* takes effect as its memory step ends.                                   *)
(***************************************************************************)
Isa ==
    INSTANCE Basic WITH
        Programs <- DecodedTexts,
        program <- decoded_text(text),
        pc <- IF phase \in {"decode", "execute", "memory", "failed"} THEN reg_pc ELSE next_pc,
        regs <- IF phase = "writeback" THEN written_regs ELSE regs,
        halted <- phase \in {"writeback", "fetch", "halted"} /\ ends

ImplementsIsa == Isa!Spec
=============================================================================
