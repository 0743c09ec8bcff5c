--------------------------------- MODULE Rob ---------------------------------
(***************************************************************************)
(* The reorder buffer (rob.c): a circular array kept twice.  A cycle reads *)
(* the "current" copy and writes the "next" one; rob_update_current closes *)
(* the cycle.  struct rob is a record and each function of rob.c is an     *)
(* operator that takes it and returns the new one.                         *)
(*                                                                         *)
(* rob_dequeue indexes both arrays at front_current + commit_num without   *)
(* reducing it modulo the size.  The read beyond queue_current falls on    *)
(* queue_next, which follows it in the struct.  The write beyond           *)
(* queue_next[SIZE-1] leaves the arrays: at index SIZE it zeroes the       *)
(* second byte of rear_current, already zero for a size up to 256, and     *)
(* beyond that it leaves the struct.                                       *)
(***************************************************************************)
EXTENDS Integers, DecodedInst, Cdb

CONSTANT REORDER_BUFFER_SIZE

\* Sizes from 1 to 128 are built; 256 is where the stray write would reach rear_current.
ASSUME RobSizeAssumption == REORDER_BUFFER_SIZE \in 1 .. 256

Slots == 0 .. REORDER_BUFFER_SIZE - 1
RobIds == 1 .. REORDER_BUFFER_SIZE

\* struct rob_entry over a set of words.
RobEntry(Words) ==
    [rob_id : RobIds, op_type : OpType, ready : BOOLEAN, busy : BOOLEAN,
     dest : Words, value : Words, q : {0} \cup RobIds,
     npc_pred : Words, npc_actual : Words, inst_pc : Words]

\* struct rob over a set of words.
RobState(Words) ==
    [queue_current : [Slots -> RobEntry(Words)], queue_next : [Slots -> RobEntry(Words)],
     front_current : {-1} \cup Slots, front_next : {-1} \cup Slots,
     rear_current : {-1} \cup Slots, rear_next : {-1} \cup Slots]

rob_init ==
    LET queue == [i \in Slots |->
            [rob_id |-> i + 1, op_type |-> "AL", ready |-> FALSE, busy |-> FALSE,
             dest |-> 0, value |-> 0, q |-> 0,
             npc_pred |-> 0, npc_actual |-> 0, inst_pc |-> 0]]
    IN  [queue_current |-> queue, queue_next |-> queue,
         front_current |-> -1, front_next |-> -1, rear_current |-> -1, rear_next |-> -1]

-----------------------------------------------------------------------------

\* Slot i lies in the window from front to rear.
InWindow(front, rear, i) ==
    /\ front # -1
    /\ IF front <= rear THEN front <= i /\ i <= rear ELSE i <= rear \/ front <= i

\* The instructions whose result travels on the common data bus.
HasResult(op_type) == op_type \in {"AL", "LOAD", "JUMP"}

Mispredicted(entry) ==
    entry.op_type \in {"JUMP", "BRANCH"} /\ entry.npc_actual # entry.npc_pred

(* Size of the window from front to rear, both inclusive. *)
QueueSize(front, rear) ==
    IF front = -1 THEN 0
    ELSE IF front <= rear THEN rear - front + 1
    ELSE (REORDER_BUFFER_SIZE - front) + rear + 1

AfterLap(x) == IF x < REORDER_BUFFER_SIZE THEN x ELSE x - REORDER_BUFFER_SIZE

\* The window built in a cycle that has added entries to the window read, and removed some.
InStep(fc, rc, fn, rn, added, removed) ==
    LET held == QueueSize(fc, rc)
        built == QueueSize(fn, rn)
    IN  /\ fc = -1 <=> rc = -1
        /\ fn = -1 <=> rn = -1
        /\ removed <= held
        /\ held + added <= REORDER_BUFFER_SIZE
        /\ built = (held + added) - removed
        /\ built > 0 => fn = IF held = 0 THEN 0 ELSE AfterLap(fc + removed)

\* Seeded fault: a full buffer is told from an empty one by no spare slot.
rob_num_free_slots_off_by_one(rob) ==
    LET spaces_free == rob.front_current - rob.rear_current
    IN  IF rob.front_current = -1 /\ rob.rear_current = -1 THEN REORDER_BUFFER_SIZE
        ELSE IF spaces_free < 0 THEN spaces_free + REORDER_BUFFER_SIZE
        ELSE spaces_free

rob_num_free_slots(rob) ==
    LET spaces_free == rob.front_current - rob.rear_current - 1
    IN  IF rob.front_current = -1 /\ rob.rear_current = -1 THEN REORDER_BUFFER_SIZE
        ELSE IF spaces_free < 0 THEN spaces_free + REORDER_BUFFER_SIZE
        ELSE spaces_free

\* Seeded fault: an entry is looked at without those in front of it.
rob_ready_alone(rob, commit_num) ==
    /\ commit_num < QueueSize(rob.front_current, rob.rear_current)
    /\ rob.queue_current[(rob.front_current + commit_num) % REORDER_BUFFER_SIZE].ready

rob_ready(rob, commit_num) ==
    /\ commit_num < QueueSize(rob.front_current, rob.rear_current)
    /\ \A i \in 0 .. commit_num :
           rob.queue_current[(rob.front_current + i) % REORDER_BUFFER_SIZE].ready

rob_is_entry_ready(rob, id) == rob.queue_current[id - 1].ready
rob_get_entry_value(rob, id) == rob.queue_current[id - 1].value

\* A store to exactly addr among the entries from front_current up to rob_id.
rob_earlier_stores(rob, rob_id, addr) ==
    LET age == ((rob_id - 1 - rob.front_current) + REORDER_BUFFER_SIZE) % REORDER_BUFFER_SIZE
    IN  \E i \in 0 .. age :
            LET entry == rob.queue_current[(rob.front_current + i) % REORDER_BUFFER_SIZE]
            IN  IsStore(entry.op_type) /\ entry.dest = addr /\ entry.busy

-----------------------------------------------------------------------------

\* The id rob_enqueue returns: 0 is reserved for "the value is ready".
rob_enqueue_id(rob) == ((rob.rear_next + 1) % REORDER_BUFFER_SIZE) + 1

\* Seeded fault: the rear does not wrap.
rob_enqueue_no_wrap(rob, op_type, dest, value, q, npc_pred, inst_pc) ==
    [rob EXCEPT
        !.front_next = IF @ = -1 THEN 0 ELSE @,
        !.rear_next = @ + 1,
        !.queue_next[rob.rear_next + 1] =
            [@ EXCEPT !.op_type = op_type, !.dest = dest, !.ready = FALSE, !.busy = TRUE,
                      !.value = value, !.q = q, !.npc_pred = npc_pred, !.inst_pc = inst_pc]]

\* Seeded fault: the slot keeps the ready bit of the instruction that had it before.
rob_enqueue_stale_ready(rob, op_type, dest, value, q, npc_pred, inst_pc) ==
    LET rear == (rob.rear_next + 1) % REORDER_BUFFER_SIZE
    IN  [rob EXCEPT
            !.front_next = IF @ = -1 THEN 0 ELSE @,
            !.rear_next = rear,
            !.queue_next[rear] =
                [@ EXCEPT !.op_type = op_type, !.dest = dest, !.busy = TRUE,
                          !.value = value, !.q = q, !.npc_pred = npc_pred, !.inst_pc = inst_pc]]

rob_enqueue(rob, op_type, dest, value, q, npc_pred, inst_pc) ==
    LET rear == (rob.rear_next + 1) % REORDER_BUFFER_SIZE
    IN  [rob EXCEPT
            !.front_next = IF @ = -1 THEN 0 ELSE @,
            !.rear_next = rear,
            !.queue_next[rear] =
                [@ EXCEPT !.op_type = op_type, !.dest = dest, !.ready = FALSE, !.busy = TRUE,
                          !.value = value, !.q = q, !.npc_pred = npc_pred, !.inst_pc = inst_pc]]

\* The entry rob_dequeue returns, read past the end of queue_current when the window wraps.
rob_dequeue_entry(rob, commit_num) ==
    LET index == rob.front_current + commit_num
    IN  IF index < REORDER_BUFFER_SIZE
        THEN rob.queue_current[index]
        ELSE rob.queue_next[index - REORDER_BUFFER_SIZE]

\* Seeded fault: the window is not reset when its last entry leaves.
rob_dequeue_no_reset(rob, commit_num) ==
    LET index == rob.front_current + commit_num
    IN  [rob EXCEPT
            !.queue_next = IF index < REORDER_BUFFER_SIZE
                           THEN [@ EXCEPT ![index].busy = FALSE] ELSE @,
            !.front_next = (@ + 1) % REORDER_BUFFER_SIZE]

\* Seeded fault: commit_num is added to the front that has already moved.
rob_dequeue_moved_front(rob, commit_num) ==
    LET index == (rob.front_next + commit_num) % REORDER_BUFFER_SIZE
        last  == rob.front_next = rob.rear_next
    IN  [rob EXCEPT
            !.queue_next[index].busy = FALSE,
            !.front_next = IF last THEN -1 ELSE (@ + 1) % REORDER_BUFFER_SIZE,
            !.rear_next  = IF last THEN -1 ELSE @]

rob_dequeue(rob, commit_num) ==
    LET index == rob.front_current + commit_num
        last  == rob.front_next = rob.rear_next
    IN  [rob EXCEPT
            !.queue_next = IF index < REORDER_BUFFER_SIZE
                           THEN [@ EXCEPT ![index].busy = FALSE] ELSE @,
            !.front_next = IF last THEN -1 ELSE (@ + 1) % REORDER_BUFFER_SIZE,
            !.rear_next  = IF last THEN -1 ELSE @]

-----------------------------------------------------------------------------

\* Seeded fault: a store's data is looked for only when its address is there.
CaptureEntry_address_first(entry, cdb) ==
    LET own == IF cdb_is_val_ready(cdb, entry.rob_id)
               THEN [entry EXCEPT !.value = cdb_get_val(cdb, entry.rob_id), !.ready = TRUE]
               ELSE entry
        data == /\ IsStore(entry.op_type) /\ entry.dest # 0
                /\ entry.q # 0 /\ cdb_is_val_ready(cdb, entry.q)
    IN  IF ~entry.busy \/ entry.ready THEN entry
        ELSE IF data
        THEN [own EXCEPT !.value = cdb_get_val(cdb, entry.q), !.q = 0, !.ready = TRUE]
        ELSE own

\* What one iteration of rob_step does to entry i + 1.
CaptureEntry(entry, cdb) ==
    LET mine == cdb_is_val_ready(cdb, entry.rob_id)
        own  == IF mine
                THEN [entry EXCEPT !.value = cdb_get_val(cdb, entry.rob_id), !.ready = TRUE]
                ELSE entry
        data == IsStore(entry.op_type) /\ entry.q # 0 /\ cdb_is_val_ready(cdb, entry.q)
    IN  IF ~entry.busy \/ entry.ready THEN entry
        ELSE IF data
        THEN [own EXCEPT !.value = cdb_get_val(cdb, entry.q), !.q = 0,
                         !.ready = @ \/ entry.dest # 0]
        ELSE own

rob_step(rob, cdb) ==
    [rob EXCEPT !.queue_next = [i \in Slots |-> CaptureEntry(rob.queue_next[i], cdb)]]

\* Seeded fault: the data is taken to come always after the address.
rob_add_address_never_ready(rob, rob_id, addr) ==
    [rob EXCEPT !.queue_next[rob_id - 1].dest = addr]

rob_add_address(rob, rob_id, addr) ==
    LET entry == rob.queue_next[rob_id - 1]
    IN  [rob EXCEPT !.queue_next[rob_id - 1] =
            [entry EXCEPT !.dest = addr, !.ready = entry.ready \/ entry.q = 0]]

\* A JUMP is made ready by its return address on the bus, not here.
rob_add_npc_actual(rob, rob_id, npc_actual) ==
    LET entry == rob.queue_next[rob_id - 1]
    IN  [rob EXCEPT !.queue_next[rob_id - 1] =
            [entry EXCEPT !.npc_actual = npc_actual,
                          !.ready = entry.ready \/ entry.op_type = "BRANCH"]]

rob_clear(rob) ==
    [rob EXCEPT
        !.front_next = -1,
        !.rear_next = -1,
        !.queue_current = [i \in Slots |-> [rob.queue_current[i] EXCEPT !.busy = FALSE]],
        !.queue_next = [i \in Slots |-> [rob.queue_next[i] EXCEPT !.busy = FALSE]]]

rob_update_current(rob) ==
    [rob EXCEPT !.queue_current = rob.queue_next,
                !.front_current = rob.front_next,
                !.rear_current = rob.rear_next]
=============================================================================
