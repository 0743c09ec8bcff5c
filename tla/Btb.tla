--------------------------------- MODULE Btb ---------------------------------
(***************************************************************************)
(* The branch target buffer (btb.c): for each of BTB_SIZE indices the tag, *)
(* the saturating counter and the target of one branch.                    *)
(***************************************************************************)
EXTENDS Word

CONSTANTS BTB_SIZE, BTB_BITS

ASSUME BtbAssumption == BTB_SIZE \in Nat \ {0} /\ BTB_BITS \in Nat \ {0}

BtbEntry == [addr : Words, bits : 0 .. 2 ^ BTB_BITS - 1, npc_pred : Words]

Weak == 2 ^ (BTB_BITS - 1)
Strong == 2 ^ BTB_BITS - 1

btb_index(pc) == (pc \div 4) % BTB_SIZE

\* npc_pred is left as malloc returns it: zero, on the fresh heap of the program's start.
btb_init == [i \in 0 .. BTB_SIZE - 1 |-> [addr |-> WORD - 1, bits |-> Weak, npc_pred |-> 0]]

btb_lookup(btb, pc) ==
    LET entry == btb[btb_index(pc)]
    IN  IF entry.addr = pc /\ entry.bits >= Weak THEN entry.npc_pred ELSE plus(pc, 4)

\* Seeded fault: the counter does not saturate.
btb_taken_unsaturated(btb, pc, npc_pred) ==
    [btb EXCEPT ![btb_index(pc)] =
        [addr |-> pc, bits |-> IF @.addr # pc THEN Weak ELSE @.bits + 1, npc_pred |-> npc_pred]]

btb_taken(btb, pc, npc_pred) ==
    [btb EXCEPT ![btb_index(pc)] =
        [addr |-> pc,
         bits |-> IF @.addr # pc THEN Weak ELSE IF @.bits = Strong THEN Strong ELSE @.bits + 1,
         npc_pred |-> npc_pred]]

\* The target stays, even when it is another branch's.
btb_not_taken(btb, pc) ==
    [btb EXCEPT ![btb_index(pc)] =
        [@ EXCEPT !.addr = pc,
                  !.bits = IF btb[btb_index(pc)].addr # pc THEN Weak
                           ELSE IF @ = 0 THEN 0 ELSE @ - 1]]
=============================================================================
