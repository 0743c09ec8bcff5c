---------------------------- MODULE MemoryBuffers ----------------------------
(***************************************************************************)
(* The memory buffers (memory_buffers.c), kept twice.  A load or store     *)
(* enters a queue, in program order, that it leaves when its address is    *)
(* computed: a store leaves the buffers altogether, a load stays, out of   *)
(* the queue (queue_pos 0) and with address 0 until the address unit has   *)
(* answered, and is then read from memory.                                 *)
(***************************************************************************)
EXTENDS ResStations, Rob

MemoryBuffer(Words, Positions) ==
    [busy : BOOLEAN, op : LoadOp \cup StoreOp, qj : {0} \cup RobIds, qk : {0} \cup RobIds,
     vj : Words, vk : Words, a : Words, rob_id : {0} \cup RobIds, queue_pos : Positions]

memory_buffers_init(num_buffers) ==
    LET buffers == [i \in 1 .. num_buffers |->
            [busy |-> FALSE, op |-> "LW", qj |-> 0, qk |-> 0, vj |-> 0, vk |-> 0,
             a |-> 0, rob_id |-> 0, queue_pos |-> 0]]
    IN  [current |-> buffers, next |-> buffers,
         num_in_queue_current |-> 0, num_in_queue_next |-> 0,
         count_address |-> 0, count_memory |-> 0, count_enqueue |-> 0]

FreeBuffers(mb) == {i \in DOMAIN mb.current : ~mb.current[i].busy}

memory_buffers_num_free(mb) == Cardinality(FreeBuffers(mb))

memory_buffers_step(mb, cdb) ==
    [mb EXCEPT !.next = [i \in DOMAIN mb.next |-> Captured(mb.next[i], cdb)]]

memory_buffers_enqueue(mb, op, qj, qk, vj, vk, a, rob_id) ==
    IF mb.count_enqueue >= memory_buffers_num_free(mb) THEN mb
    ELSE [mb EXCEPT
            !.next[Nth(FreeBuffers(mb), mb.count_enqueue)] =
                [busy |-> TRUE, op |-> op, qj |-> qj, qk |-> qk, vj |-> vj, vk |-> vk,
                 a |-> a, rob_id |-> rob_id,
                 queue_pos |-> mb.num_in_queue_current + 1 + mb.count_enqueue],
            !.num_in_queue_next = @ + 1,
            !.count_enqueue = @ + 1]

-----------------------------------------------------------------------------

(* To the memory units. *)

\* Loads with an address and, as far as the reorder buffer tells, no store before them.
LoadsToMemory(mb, rob) ==
    {i \in DOMAIN mb.current :
        LET buffer == mb.current[i]
        IN  /\ buffer.op \in LoadOp /\ buffer.busy /\ buffer.queue_pos = 0 /\ buffer.a # 0
            /\ ~rob_earlier_stores(rob, buffer.rob_id, buffer.a)}

\* The buffer memory_buffers_dequeue_memory returns; {} for NULL.
memory_candidate(mb, rob) ==
    LET loads == LoadsToMemory(mb, rob)
    IN  IF mb.count_memory < Cardinality(loads) THEN {Nth(loads, mb.count_memory)} ELSE {}

\* Seeded fault: every unit that asks in one cycle is given the same load.
memory_buffers_dequeue_memory_uncounted(mb, i) == [mb EXCEPT !.next[i].busy = FALSE]

memory_buffers_dequeue_memory(mb, i) ==
    [mb EXCEPT !.next[i].busy = FALSE, !.count_memory = @ + 1]

-----------------------------------------------------------------------------

(* To the address units. *)

Queued(mb) == {i \in DOMAIN mb.current : mb.current[i].busy /\ mb.current[i].queue_pos # 0}

\* Seeded fault: a load is sent although an older store has not been.
ToAddressUnit_any_load(mb) == {i \in Queued(mb) : mb.current[i].qj = 0}

\* Buffers with their base register; a load waits for every store queued before it to have its own.
ToAddressUnit(mb) ==
    {i \in Queued(mb) :
        /\ mb.current[i].qj = 0
        /\ mb.current[i].op \in LoadOp =>
             \A k \in Queued(mb) :
                 mb.current[k].op \in StoreOp /\ mb.current[k].queue_pos < mb.current[i].queue_pos
                     => mb.current[k].qj = 0}

\* The buffer memory_buffers_dequeue_address returns, by its place in the queue; {} for NULL.
address_candidate(mb) ==
    {i \in ToAddressUnit(mb) :
        Cardinality({k \in ToAddressUnit(mb) :
                        mb.current[k].queue_pos < mb.current[i].queue_pos}) = mb.count_address}

\* Seeded fault: those behind keep their places.
shift_queue_nobody(mb, removed_pos) == [mb EXCEPT !.num_in_queue_next = @ - 1]

shift_queue(mb, removed_pos) ==
    [mb EXCEPT
        !.num_in_queue_next = @ - 1,
        !.next = [k \in DOMAIN mb.next |->
            IF mb.next[k].busy /\ mb.next[k].queue_pos > removed_pos
            THEN [mb.next[k] EXCEPT !.queue_pos = @ - 1]
            ELSE mb.next[k]]]

\* A store leaves for good; a load's address is marked as not computed yet.
memory_buffers_dequeue_address(mb, i) ==
    [shift_queue(mb, mb.next[i].queue_pos) EXCEPT
        !.next[i] = IF mb.current[i].op \in StoreOp
                    THEN [@ EXCEPT !.busy = FALSE]
                    ELSE [@ EXCEPT !.a = 0, !.queue_pos = 0],
        !.count_address = @ + 1]

memory_buffers_add_address(mb, i, address) ==
    [mb EXCEPT !.next[i].a = address, !.next[i].queue_pos = 0]

-----------------------------------------------------------------------------

memory_buffers_clear(mb) ==
    [mb EXCEPT !.next = [i \in DOMAIN mb.next |-> [mb.next[i] EXCEPT !.busy = FALSE]],
               !.num_in_queue_next = 0]

memory_buffers_update_current(mb) ==
    [mb EXCEPT !.current = mb.next, !.num_in_queue_current = mb.num_in_queue_next,
               !.count_address = 0, !.count_memory = 0, !.count_enqueue = 0]
=============================================================================
