------------------------------ MODULE RobCycle -------------------------------
(***************************************************************************)
(* The reorder buffer in the cycle of cpu.c, under every issue unit, every *)
(* set of functional units and every commit unit that keep to how step()   *)
(* drives it: a batch is issued, the units answer, results are captured,   *)
(* the front is committed, and the next copy becomes the current one.      *)
(***************************************************************************)
EXTENDS Rob

CONSTANTS Words,                 \* addresses, values and program counters
          Types, Dests, Pcs,     \* the op_types, destination registers and program
                                 \* counters of the instructions that are issued
          Targets,               \* where jumps and branches are predicted to lead, and lead
          ISSUE_WIDTH,
          COMMIT_WIDTH

ASSUME WordsAssumption ==
    /\ Words \subseteq Nat /\ NA \in Words
    /\ Types \subseteq OpType /\ Dests \subseteq Words
    /\ Pcs \subseteq Words /\ Targets \subseteq Words
ASSUME WidthAssumption == ISSUE_WIDTH \in Nat \ {0} /\ COMMIT_WIDTH \in Nat \ {0}

VARIABLES rob,
          cdb,
          phase,                 \* which part of step() is running
          issued,                \* instructions of this cycle's batch issued so far
          commit_num,            \* the index of commit_step's loop
          committed,             \* commits of this cycle so far (num_committed)
          pending,               \* ids of the instructions no functional unit answered yet
          retired                \* the entry this cycle's last rob_dequeue returned, if any

vars == <<rob, cdb, phase, issued, commit_num, committed, pending, retired>>

InCurrent(i) == InWindow(rob.front_current, rob.rear_current, i)
InNext(i) == InWindow(rob.front_next, rob.rear_next, i)

\* The operands a store may be issued with: a value, or the id of the youngest writer
\* of its register when that one has not finished (set_q_v).
Producers ==
    {id \in RobIds :
        /\ InNext(id - 1)
        /\ HasResult(rob.queue_next[id - 1].op_type)
        /\ InCurrent(id - 1) => ~rob_is_entry_ready(rob, id)}

Init ==
    /\ rob = rob_init
    /\ cdb = cdb_init
    /\ phase = "issue"
    /\ issued = 0
    /\ commit_num = 0
    /\ committed = 0
    /\ pending = {}
    /\ retired = << >>

-----------------------------------------------------------------------------

CanIssue ==
    /\ phase = "issue"
    /\ issued < ISSUE_WIDTH
    /\ issued < rob_num_free_slots(rob)

Enqueue(op_type, dest, value, q, npc_pred, inst_pc) ==
    /\ CanIssue
    /\ rob' = rob_enqueue(rob, op_type, dest, value, q, npc_pred, inst_pc)
    /\ pending' = pending \cup {rob_enqueue_id(rob)}
    /\ issued' = issued + 1
    /\ UNCHANGED <<cdb, phase, commit_num, committed, retired>>

\* handle_al_operation and the loads of handle_mem_operation
IssueResult ==
    \E op_type \in {"AL", "LOAD"} \cap Types, rd_addr \in Dests :
        Enqueue(op_type, rd_addr, NA, NA, NA, NA)

\* handle_branch_operation
IssueBranch ==
    \E op_type \in {"JUMP", "BRANCH"} \cap Types, npc_pred \in Targets, inst_pc \in Pcs :
        \E dest \in IF op_type = "BRANCH" THEN {NA} ELSE Dests :
            Enqueue(op_type, dest, NA, NA, npc_pred, inst_pc)

\* the stores of handle_mem_operation
IssueStore ==
    \E op_type \in StoreType \cap Types, value \in Words, q \in {NA} \cup Producers :
        /\ q # NA => value = NA
        /\ Enqueue(op_type, NA, value, q, NA, NA)

EndIssue ==
    /\ phase = "issue"
    /\ phase' = "execute"
    /\ UNCHANGED <<rob, cdb, issued, commit_num, committed, pending, retired>>

-----------------------------------------------------------------------------

(* A unit answers for an instruction that was issued in an earlier cycle. *)

Answer(id, op_types) ==
    /\ phase = "execute"
    /\ id \in pending
    /\ InCurrent(id - 1)
    /\ rob.queue_next[id - 1].op_type \in op_types
    /\ pending' = pending \ {id}
    /\ UNCHANGED <<phase, issued, commit_num, committed, retired>>

\* alu_step and memory_step in their last cycle
BroadcastResult ==
    \E id \in RobIds :
        /\ Answer(id, {"AL", "LOAD"})
        /\ Len(cdb) < CDB_SIZE
        /\ \E val \in Words : cdb' = cdb_write(cdb, id, val)
        /\ UNCHANGED rob

\* branch_step in its last cycle
BroadcastJump ==
    \E id \in RobIds :
        /\ Answer(id, {"JUMP"})
        /\ Len(cdb) < CDB_SIZE
        /\ \E val \in Words : cdb' = cdb_write(cdb, id, val)
        /\ \E npc_actual \in Targets : rob' = rob_add_npc_actual(rob, id, npc_actual)

ResolveBranch ==
    \E id \in RobIds :
        /\ Answer(id, {"BRANCH"})
        /\ \E npc_actual \in Targets : rob' = rob_add_npc_actual(rob, id, npc_actual)
        /\ UNCHANGED cdb

\* address_step for a store
SendAddress ==
    \E id \in RobIds :
        /\ Answer(id, StoreType)
        /\ \E addr \in Words : rob' = rob_add_address(rob, id, addr)
        /\ UNCHANGED cdb

Capture ==
    /\ phase = "execute"
    /\ rob' = rob_step(rob, cdb)
    /\ phase' = "commit"
    /\ UNCHANGED <<cdb, issued, commit_num, committed, pending, retired>>

-----------------------------------------------------------------------------

\* The iteration of commit_step's loop that ends it.
AfterIteration == IF commit_num + 1 = COMMIT_WIDTH THEN "update" ELSE "commit"

\* single_commit: a mispredicted entry clears the buffer and ends the loop.
Commit ==
    /\ phase = "commit"
    /\ rob_ready(rob, commit_num)
    /\ LET entry == rob_dequeue_entry(rob, commit_num)
           after == rob_dequeue(rob, commit_num)
       IN  /\ retired' = <<entry>>
           /\ IF Mispredicted(entry)
              THEN rob' = rob_clear(after) /\ pending' = {} /\ phase' = "update"
              ELSE rob' = after /\ UNCHANGED pending /\ phase' = AfterIteration
    /\ commit_num' = commit_num + 1
    /\ committed' = committed + 1
    /\ UNCHANGED <<cdb, issued>>

\* The loop goes on after an iteration that found nothing ready.
CommitNothing ==
    /\ phase = "commit"
    /\ ~rob_ready(rob, commit_num)
    /\ phase' = AfterIteration
    /\ commit_num' = commit_num + 1
    /\ UNCHANGED <<rob, cdb, issued, committed, pending, retired>>

UpdateCurrent ==
    /\ phase = "update"
    /\ rob' = rob_update_current(rob)
    /\ cdb' = cdb_clear(cdb)
    /\ phase' = "issue"
    /\ issued' = 0
    /\ commit_num' = 0
    /\ committed' = 0
    /\ retired' = << >>
    /\ UNCHANGED pending

Next ==
    \/ IssueResult \/ IssueBranch \/ IssueStore \/ EndIssue
    \/ BroadcastResult \/ BroadcastJump \/ ResolveBranch \/ SendAddress \/ Capture
    \/ Commit \/ CommitNothing \/ UpdateCurrent

Spec == Init /\ [][Next]_vars

-----------------------------------------------------------------------------

\* The structs keep the shapes rob.h gives them.
TypeOK ==
    /\ rob \in RobState(Words)
    /\ cdb \in Seq([rob_id : RobIds, val : Words])
    /\ phase \in {"issue", "execute", "commit", "update"}
    /\ issued \in 0 .. ISSUE_WIDTH
    /\ commit_num \in 0 .. COMMIT_WIDTH
    /\ committed \in 0 .. COMMIT_WIDTH
    /\ pending \subseteq RobIds
    /\ retired \in Seq(RobEntry(Words)) /\ Len(retired) <= 1

(***************************************************************************)
(* The two pairs of cursors never drift apart: until a flush, the window   *)
(* being built is the window being read plus what this cycle issued and    *)
(* less what it committed (rob_enqueue and rob_dequeue move front_next and *)
(* rear_next, rob_num_free_slots and rob_ready look at the current ones).  *)
(***************************************************************************)
CursorsInStep ==
    \/ InStep(rob.front_current, rob.rear_current, rob.front_next, rob.rear_next,
              issued, committed)
    \/ phase = "update" /\ rob.front_next = -1 /\ rob.rear_next = -1

(***************************************************************************)
(* Every instruction in flight is marked busy, in particular one whose     *)
(* slot the stray write of a wrapped rob_dequeue was meant for: rob_step   *)
(* gives results to busy entries only, so any other would never finish.    *)
(***************************************************************************)
InFlightIsBusy ==
    \A i \in Slots : InNext(i) => rob.queue_next[i].busy

(***************************************************************************)
(* A finished instruction reads the same in both copies, so it does not    *)
(* matter that a wrapped rob_dequeue returns it from queue_next, nor that  *)
(* set_q_v takes its value from queue_current while results are arriving.  *)
(***************************************************************************)
FinishedReadsTheSame ==
    \A i \in Slots :
        InCurrent(i) /\ InNext(i) /\ rob.queue_current[i].ready
            => rob.queue_next[i] = rob.queue_current[i]

\* The distance of a slot from the front of the window being built: its age.
AgeInNext(i) ==
    IF rob.front_next <= i THEN i - rob.front_next
    ELSE (i - rob.front_next) + REORDER_BUFFER_SIZE

(***************************************************************************)
(* A store that waits for its data waits for an older instruction that is  *)
(* still in flight and has yet to broadcast: it is neither waiting for a   *)
(* result that has gone by, nor for a slot that belongs to someone else.   *)
(***************************************************************************)
WaitingStoreHasProducer ==
    \A i \in Slots :
        LET store == rob.queue_next[i]
            producer == rob.queue_next[store.q - 1]
        IN  InNext(i) /\ IsStore(store.op_type) /\ store.q # 0
                => /\ InNext(store.q - 1)
                   /\ AgeInNext(store.q - 1) < AgeInNext(i)
                   /\ HasResult(producer.op_type)
                   /\ ~producer.ready
                   /\ store.q \in pending \/ cdb_is_val_ready(cdb, store.q)

(***************************************************************************)
(* What makes the above inductive: commits come from the front without a   *)
(* gap; the bus is empty while a batch is issued; and an instruction no    *)
(* unit has answered for has neither a result on the bus nor, if it is a   *)
(* store, an address, and is not finished.                                 *)
(***************************************************************************)
CommitsWithoutGap ==
    /\ phase \in {"issue", "execute"} => commit_num = 0 /\ committed = 0
    /\ phase = "commit" => commit_num < COMMIT_WIDTH
    /\ committed <= commit_num
    /\ committed < commit_num => ~rob_ready(rob, committed)

BusEmptyAtIssue == phase = "issue" => cdb = << >>

SlotsKeepIds == \A i \in Slots : rob.queue_next[i].rob_id = i + 1

PendingIsUnfinished ==
    \A id \in pending :
        /\ ~rob.queue_next[id - 1].ready
        /\ ~cdb_is_val_ready(cdb, id)
        /\ IsStore(rob.queue_next[id - 1].op_type) => rob.queue_next[id - 1].dest = 0

RobInv ==
    /\ TypeOK
    /\ CursorsInStep
    /\ CommitsWithoutGap
    /\ BusEmptyAtIssue
    /\ SlotsKeepIds
    /\ PendingIsUnfinished
    /\ InFlightIsBusy
    /\ FinishedReadsTheSame

(***************************************************************************)
(* Issuing never touches an instruction of the window being read, which    *)
(* commits and rob_earlier_stores of the same cycle still look at: the     *)
(* free slots are counted before the batch, not for each instruction.      *)
(***************************************************************************)
IssueSparesCurrent ==
    [][phase = "issue" /\ issued' > issued =>
         \A i \in Slots : InCurrent(i) => rob'.queue_next[i] = rob.queue_next[i]]_vars

(***************************************************************************)
(* The circular buffer implements the bounded queue of RobFifo.            *)
(***************************************************************************)
InFlight ==
    [k \in 1 .. QueueSize(rob.front_next, rob.rear_next) |->
        rob.queue_next[((rob.front_next + k) - 1) % REORDER_BUFFER_SIZE]]

Fifo == INSTANCE RobFifo WITH
            Capacity <- REORDER_BUFFER_SIZE, Entry <- RobEntry(Words),
            Mispredicted <- Mispredicted, queue <- InFlight, retired <- retired

ImplementsFifo == Fifo!Spec
=============================================================================
