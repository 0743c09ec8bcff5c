------------------------------ MODULE InstQueue ------------------------------
(***************************************************************************)
(* The instruction queue (inst_queue.c) between decode and issue: a        *)
(* circular array kept twice.  inst_queue_dequeue, like rob_dequeue, reads *)
(* past the end of queue_current into queue_next when the window wraps.    *)
(***************************************************************************)
EXTENDS Integers

CONSTANTS INST_QUEUE_SIZE, ISSUE_WIDTH

ASSUME InstQueueAssumption ==
    /\ INST_QUEUE_SIZE \in Nat \ {0} /\ ISSUE_WIDTH \in Nat \ {0}
    /\ ISSUE_WIDTH <= INST_QUEUE_SIZE

\* struct inst_queue over a set of instructions.
InstQueueState(Insts) ==
    LET Cursor == -1 .. INST_QUEUE_SIZE - 1
        Queue == [0 .. INST_QUEUE_SIZE - 1 -> Insts]
    IN  [queue_current : Queue, queue_next : Queue, front_current : Cursor, front_next : Cursor,
         rear_current : Cursor, rear_next : Cursor]

inst_queue_init(nothing) ==
    LET queue == [i \in 0 .. INST_QUEUE_SIZE - 1 |-> nothing]
    IN  [queue_current |-> queue, queue_next |-> queue,
         front_current |-> -1, front_next |-> -1, rear_current |-> -1, rear_next |-> -1]

\* Seeded fault: the rear does not wrap.
inst_queue_enqueue_no_wrap(iq, inst) ==
    [iq EXCEPT !.front_next = IF @ = -1 THEN 0 ELSE @,
               !.rear_next = @ + 1,
               !.queue_next[iq.rear_next + 1] = inst]

inst_queue_enqueue(iq, inst) ==
    LET rear == (iq.rear_next + 1) % INST_QUEUE_SIZE
    IN  [iq EXCEPT !.front_next = IF @ = -1 THEN 0 ELSE @,
                   !.rear_next = rear,
                   !.queue_next[rear] = inst]

inst_queue_front(iq, batch_num) ==
    LET index == iq.front_current + batch_num
    IN  IF index < INST_QUEUE_SIZE THEN iq.queue_current[index]
        ELSE iq.queue_next[index - INST_QUEUE_SIZE]

inst_queue_dequeue(iq) ==
    LET last == iq.front_next = iq.rear_next
    IN  [iq EXCEPT !.front_next = IF last THEN -1 ELSE (@ + 1) % INST_QUEUE_SIZE,
                   !.rear_next = IF last THEN -1 ELSE @]

inst_queue_free_slots(iq) ==
    LET spaces_free == iq.front_current - iq.rear_current - 1
    IN  \/ iq.front_current = -1 /\ iq.rear_current = -1
        \/ (IF spaces_free < 0 THEN spaces_free + INST_QUEUE_SIZE ELSE spaces_free) >= ISSUE_WIDTH

\* How many instructions lie between two cursors.
QueueLength(front, rear) ==
    IF front = -1 THEN 0
    ELSE IF front <= rear THEN rear - front + 1
    ELSE (INST_QUEUE_SIZE - front) + rear + 1

inst_queue_cur_entries(iq) == QueueLength(iq.front_current, iq.rear_current)

inst_queue_clear(iq) == [iq EXCEPT !.front_next = -1, !.rear_next = -1]

inst_queue_update_current(iq) ==
    [iq EXCEPT !.queue_current = iq.queue_next,
               !.front_current = iq.front_next, !.rear_current = iq.rear_next]
=============================================================================
