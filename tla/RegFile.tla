------------------------------- MODULE RegFile -------------------------------
(***************************************************************************)
(* The register file and its alias table (reg_file.c).  Register 0 is      *)
(* never written; registers 2 and 8 start as the stack and frame pointer.  *)
(***************************************************************************)
EXTENDS Integers

CONSTANTS NUM_REGS, STACK_TOP

ASSUME NumRegsAssumption == NUM_REGS \in Nat \ {0}

Regs == 0 .. NUM_REGS - 1

reg_file_init ==
    [r \in Regs |->
        [val |-> IF r \in {2, 8} THEN STACK_TOP ELSE 0, busy |-> FALSE, rob_id |-> 0]]

\* Seeded fault: a commit frees the register although a younger writer is in flight.
reg_file_reg_commit_any(regs, reg_addr, val, rob_id) ==
    IF reg_addr = 0 THEN regs
    ELSE [regs EXCEPT ![reg_addr] = [@ EXCEPT !.val = val, !.busy = FALSE]]

reg_file_reg_commit(regs, reg_addr, val, rob_id) ==
    IF reg_addr = 0 THEN regs
    ELSE [regs EXCEPT ![reg_addr].val = val,
                      ![reg_addr].busy = @ /\ regs[reg_addr].rob_id # rob_id]

reg_file_set_rob_id(regs, reg_addr, rob_id) ==
    IF reg_addr = 0 THEN regs
    ELSE [regs EXCEPT ![reg_addr] = [@ EXCEPT !.busy = TRUE, !.rob_id = rob_id]]

reg_file_clear(regs) == [r \in Regs |-> [regs[r] EXCEPT !.busy = FALSE]]
=============================================================================
