------------------------------- MODULE RobLemmas -------------------------------
(***************************************************************************)
(* What the operators of the reorder buffer and of the bus do to the       *)
(* fields of their structs, whatever values V the entries hold, and the    *)
(* arithmetic of the two windows.                                          *)
(***************************************************************************)
EXTENDS Rob, NatLemmas, SequenceTheorems, TLAPS

S == REORDER_BUFFER_SIZE

\* The buffer has at least one slot; slots count from 0, ids from 1.
LEMMA SizeIsPositive == S \in Nat /\ S > 0 /\ Slots = 0 .. S - 1 /\ RobIds = 1 .. S
  BY RobSizeAssumption DEF S, Slots, RobIds

\* Cursors wrap by one subtraction, since they are at most one lap ahead.
LEMMA Wrap ==
    ASSUME NEW x \in 0 .. 2 * S - 1
    PROVE  x % S = IF x < S THEN x ELSE x - S
<1>1. S \in Nat \ {0}
  BY SizeIsPositive
<1> QED
  BY <1>1, WrapsOnce

-----------------------------------------------------------------------------

(* What the operators of Rob do to the fields of the struct. *)

\* rob_init builds a buffer of the right shape.
LEMMA InitType ==
    ASSUME NEW V, 0 \in V
    PROVE  rob_init \in RobState(V)
<1> DEFINE entry(i) == [rob_id |-> i + 1, op_type |-> "AL", ready |-> FALSE, busy |-> FALSE,
                        dest |-> 0, value |-> 0, q |-> 0,
                        npc_pred |-> 0, npc_actual |-> 0, inst_pc |-> 0]
<1>1. ASSUME NEW i \in Slots PROVE entry(i) \in RobEntry(V)
  BY SizeIsPositive DEF RobEntry, OpType
<1>2. rob_init = [queue_current |-> [i \in Slots |-> entry(i)],
                  queue_next |-> [i \in Slots |-> entry(i)],
                  front_current |-> -1, front_next |-> -1,
                  rear_current |-> -1, rear_next |-> -1]
  BY DEF rob_init
<1> QED
  BY <1>1, <1>2, Zenon DEF RobState

\* new is r with an entry written in slot rear, the one behind the rear of the next copy.
EntryAdded(V, r, new, rear, op_type, dest, q) ==
    /\ new \in RobState(V)
    /\ rear \in Slots
    /\ rear = IF r.rear_next + 1 = S THEN 0 ELSE r.rear_next + 1
    /\ new.queue_current = r.queue_current
    /\ new.front_current = r.front_current
    /\ new.rear_current = r.rear_current
    /\ new.front_next = IF r.front_next = -1 THEN 0 ELSE r.front_next
    /\ new.rear_next = rear
    /\ \A i \in Slots : i # rear => new.queue_next[i] = r.queue_next[i]
    /\ new.queue_next[rear].busy
    /\ ~new.queue_next[rear].ready
    /\ new.queue_next[rear].dest = dest
    /\ new.queue_next[rear].q = q
    /\ new.queue_next[rear].op_type = op_type
    /\ new.queue_next[rear].rob_id = r.queue_next[rear].rob_id

\* rob_enqueue writes the slot behind the rear of the next copy, and nothing else.
LEMMA EnqueueFields ==
    ASSUME NEW V, NEW r \in RobState(V), NEW op_type \in OpType,
           NEW dest \in V, NEW value \in V, NEW q \in {0} \cup RobIds,
           NEW npc_pred \in V, NEW inst_pc \in V
    PROVE  EntryAdded(V, r, rob_enqueue(r, op_type, dest, value, q, npc_pred, inst_pc),
                      (r.rear_next + 1) % S, op_type, dest, q)
<1> DEFINE rear == (r.rear_next + 1) % S
           entry == [r.queue_next[rear] EXCEPT
                        !.op_type = op_type, !.dest = dest, !.ready = FALSE, !.busy = TRUE,
                        !.value = value, !.q = q, !.npc_pred = npc_pred, !.inst_pc = inst_pc]
           new == rob_enqueue(r, op_type, dest, value, q, npc_pred, inst_pc)
<1>1. /\ rear \in Slots
      /\ rear = IF r.rear_next + 1 = S THEN 0 ELSE r.rear_next + 1
  <2>1. r.rear_next + 1 \in 0 .. S
    BY SizeIsPositive DEF RobState
  <2> QED
    BY <2>1, Wrap, SizeIsPositive
<1>2. r.queue_next[rear] \in RobEntry(V)
  BY <1>1 DEF RobState
<1>3. /\ entry \in RobEntry(V)
      /\ entry.busy /\ ~entry.ready
      /\ entry.dest = dest /\ entry.q = q /\ entry.op_type = op_type
      /\ entry.rob_id = r.queue_next[rear].rob_id
  BY <1>2 DEF RobEntry
<1>4. new = [r EXCEPT !.front_next = IF @ = -1 THEN 0 ELSE @, !.rear_next = rear,
                      !.queue_next[rear] = entry]
  BY DEF rob_enqueue, S
<1> HIDE DEF entry, new, rear
<1>5. /\ new.queue_current = r.queue_current
      /\ new.front_current = r.front_current
      /\ new.rear_current = r.rear_current
      /\ new.front_next = IF r.front_next = -1 THEN 0 ELSE r.front_next
      /\ new.rear_next = rear
      /\ new.queue_next = [r.queue_next EXCEPT ![rear] = entry]
  BY <1>4 DEF RobState
<1>6. new \in RobState(V)
  <2>1. [r.queue_next EXCEPT ![rear] = entry] \in [Slots -> RobEntry(V)]
    BY <1>3 DEF RobState
  <2>2. 0 \in Slots /\ -1 \in {-1} \cup Slots
    BY SizeIsPositive
  <2> QED
    BY <1>1, <1>4, <2>1, <2>2 DEF RobState
<1>7. EntryAdded(V, r, new, rear, op_type, dest, q)
  BY <1>1, <1>3, <1>5, <1>6 DEF RobState, EntryAdded
<1> QED
  BY <1>7 DEF rear, new

\* A bus holds results of entries.
Bus(V) == Seq([rob_id : RobIds, val : V])

\* A bus of words is one of any larger set of words.
LEMMA BusGrow ==
    ASSUME NEW V, NEW W, V \subseteq W, NEW bus \in Bus(V)
    PROVE  bus \in Bus(W)
<1>1. [rob_id : RobIds, val : V] \subseteq [rob_id : RobIds, val : W]
  OBVIOUS
<1> QED
  BY <1>1, SeqMonotonic DEF Bus

\* cdb_get_val of an id that is on the bus returns a word.
LEMMA GetValType ==
    ASSUME NEW V, NEW bus \in Bus(V), NEW id, cdb_is_val_ready(bus, id)
    PROVE  cdb_get_val(bus, id) \in V
<1> DEFINE matches == {i \in DOMAIN bus : bus[i].rob_id = id}
<1>1. matches \in SUBSET Nat /\ matches # {} /\ matches \subseteq DOMAIN bus
  BY DEF cdb_is_val_ready, Bus
<1>2. PICK i \in matches : \A j \in matches : i <= j
  BY <1>1, LeastExists
<1> DEFINE first == CHOOSE k \in matches : \A j \in matches : k <= j
<1>3. first \in matches
  BY <1>2
<1>4. cdb_get_val(bus, id) = bus[first].val
  BY DEF cdb_get_val
<1>5. first \in DOMAIN bus
  BY <1>1, <1>3
<1> HIDE DEF first
<1>6. DOMAIN bus = 1 .. Len(bus) /\ \A m \in 1 .. Len(bus) : bus[m] \in [rob_id : RobIds, val : V]
  BY LenProperties, ElementOfSeq, Zenon DEF Bus
<1>7. bus[first] \in [rob_id : RobIds, val : V]
  BY <1>5, <1>6, Zenon
<1> QED
  BY <1>4, <1>7

\* cdb_write adds one id to those on the bus, if there is room for it.
LEMMA WriteType ==
    ASSUME NEW V, NEW bus \in Bus(V), NEW id \in RobIds, NEW val \in V
    PROVE  /\ cdb_write(bus, id, val) \in Bus(V)
           /\ \A k : cdb_is_val_ready(cdb_write(bus, id, val), k)
                      => cdb_is_val_ready(bus, k) \/ k = id
           /\ \A k : cdb_is_val_ready(bus, k)
                      => cdb_is_val_ready(cdb_write(bus, id, val), k)
           /\ Len(bus) < CDB_SIZE => cdb_is_val_ready(cdb_write(bus, id, val), id)
<1> DEFINE new == [rob_id |-> id, val |-> val]
<1>1. new \in [rob_id : RobIds, val : V]
  OBVIOUS
<1>2. Append(bus, new) \in Bus(V)
  BY <1>1 DEF Bus
<1>3. ASSUME NEW k, cdb_is_val_ready(Append(bus, new), k)
      PROVE  cdb_is_val_ready(bus, k) \/ k = id
  BY <1>3 DEF cdb_is_val_ready, Bus
<1>4. ASSUME NEW k, cdb_is_val_ready(bus, k)
      PROVE  cdb_is_val_ready(Append(bus, new), k)
  BY <1>4 DEF cdb_is_val_ready, Bus
<1>5. cdb_is_val_ready(Append(bus, new), id)
  <2>1. Len(bus) + 1 \in DOMAIN Append(bus, new) /\ Append(bus, new)[Len(bus) + 1] = new
    BY DEF Bus
  <2> QED
    BY <2>1 DEF cdb_is_val_ready
<1> QED
  BY <1>2, <1>3, <1>4, <1>5 DEF cdb_write

\* A buffer of words is one of any larger set of words.
LEMMA RobGrow ==
    ASSUME NEW V, NEW W, V \subseteq W, NEW r \in RobState(V)
    PROVE  r \in RobState(W)
<1>1. RobEntry(V) \subseteq RobEntry(W)
  BY DEF RobEntry
<1> QED
  BY <1>1 DEF RobState

\* A reorder buffer and a bus, whatever their values.
IsRob(r) == \E V : r \in RobState(V)
IsBus(bus) == \E V : bus \in Bus(V)

-----------------------------------------------------------------------------

\* The window of a typed buffer never has more entries than the buffer.
LEMMA QueueSizeBounds ==
    ASSUME NEW f \in {-1} \cup Slots, NEW r \in {-1} \cup Slots
    PROVE  f # -1 => QueueSize(f, r) \in 0 .. S
  BY SizeIsPositive DEF QueueSize, S

\* rob_ready looks at finished entries of the current window, however it wraps.
LEMMA ReadyWindow ==
    ASSUME NEW V, NEW r \in RobState(V), NEW n \in Nat, rob_ready(r, n)
    PROVE  LET index == r.front_current + n
           IN  /\ r.front_current \in Slots
               /\ n < QueueSize(r.front_current, r.rear_current)
               /\ index \in 0 .. 2 * S - 1
               /\ \A k \in 0 .. n :
                      LET i == IF r.front_current + k < S THEN r.front_current + k
                                                          ELSE (r.front_current + k) - S
                      IN  i \in Slots /\ r.queue_current[i].ready
<1>1. n < QueueSize(r.front_current, r.rear_current)
  BY DEF rob_ready
<1>2. r.front_current \in {-1} \cup Slots /\ r.rear_current \in {-1} \cup Slots
  BY DEF RobState
<1>3. r.front_current # -1
  BY <1>1 DEF QueueSize
<1>4. r.front_current \in Slots /\ n < S
  <2>1. QueueSize(r.front_current, r.rear_current) \in 0 .. S
    BY <1>2, <1>3, QueueSizeBounds, Zenon
  <2> QED
    BY <1>1, <1>2, <1>3, <2>1, SizeIsPositive
<1>5. ASSUME NEW k \in 0 .. n
      PROVE  LET i == IF r.front_current + k < S THEN r.front_current + k
                                                 ELSE (r.front_current + k) - S
             IN  i \in Slots /\ r.queue_current[i].ready
  <2>1. r.front_current + k \in 0 .. 2 * S - 1
    BY <1>4, SizeIsPositive
  <2>2. r.queue_current[(r.front_current + k) % S].ready
    BY DEF rob_ready, S
  <2> DEFINE i == IF r.front_current + k < S THEN r.front_current + k
                                             ELSE (r.front_current + k) - S
  <2>3. (r.front_current + k) % S = i
    BY <2>1, Wrap
  <2>4. i \in Slots
    BY <1>4, <2>1, SizeIsPositive
  <2> HIDE DEF i
  <2>5. r.queue_current[i].ready
    BY <2>2, <2>3
  <2> QED
    BY <2>4, <2>5 DEF i
<1> QED
  BY <1>1, <1>4, <1>5, SizeIsPositive

\* rob_dequeue moves the front of the next copy and touches nothing but busy bits.
LEMMA DequeueFields ==
    ASSUME NEW V, NEW r \in RobState(V), NEW n \in Nat, r.front_current + n \in 0 .. 2 * S - 1,
           r.front_next \in Slots
    PROVE  LET index == r.front_current + n
               new == rob_dequeue(r, n)
           IN  /\ new \in RobState(V)
               /\ new.queue_current = r.queue_current
               /\ new.front_current = r.front_current
               /\ new.rear_current = r.rear_current
               /\ \A i \in Slots : i # index => new.queue_next[i] = r.queue_next[i]
               /\ \A i \in Slots : /\ new.queue_next[i].ready = r.queue_next[i].ready
                                   /\ new.queue_next[i].rob_id = r.queue_next[i].rob_id
                                   /\ new.queue_next[i].op_type = r.queue_next[i].op_type
                                   /\ new.queue_next[i].dest = r.queue_next[i].dest
                                   /\ new.queue_next[i].q = r.queue_next[i].q
               /\ new.front_next = IF r.front_next = r.rear_next THEN -1
                                   ELSE IF r.front_next + 1 = S THEN 0 ELSE r.front_next + 1
               /\ new.rear_next = IF r.front_next = r.rear_next THEN -1 ELSE r.rear_next
<1> DEFINE index == r.front_current + n
           new == rob_dequeue(r, n)
           next == IF index < S
                   THEN [r.queue_next EXCEPT ![index] = [r.queue_next[index] EXCEPT !.busy = FALSE]]
                   ELSE r.queue_next
           front == IF r.front_next = r.rear_next THEN -1 ELSE (r.front_next + 1) % S
           rear == IF r.front_next = r.rear_next THEN -1 ELSE r.rear_next
<1>1. new = [r EXCEPT !.queue_next = next, !.front_next = front, !.rear_next = rear]
  BY DEF rob_dequeue, S
<1>2. /\ next \in [Slots -> RobEntry(V)]
      /\ \A i \in Slots : i # index => next[i] = r.queue_next[i]
      /\ \A i \in Slots : /\ next[i].ready = r.queue_next[i].ready
                          /\ next[i].rob_id = r.queue_next[i].rob_id
                          /\ next[i].op_type = r.queue_next[i].op_type
                          /\ next[i].dest = r.queue_next[i].dest
                          /\ next[i].q = r.queue_next[i].q
  <2>1. CASE index >= S
    BY <2>1, SizeIsPositive DEF RobState
  <2>2. CASE index < S
    <3>1. index \in Slots
      BY <2>2, SizeIsPositive
    <3> DEFINE entry == [r.queue_next[index] EXCEPT !.busy = FALSE]
    <3>2. r.queue_next \in [Slots -> RobEntry(V)] /\ r.queue_next[index] \in RobEntry(V)
      BY <3>1 DEF RobState
    <3>3. /\ entry \in RobEntry(V)
          /\ entry.ready = r.queue_next[index].ready
          /\ entry.rob_id = r.queue_next[index].rob_id
          /\ entry.op_type = r.queue_next[index].op_type
          /\ entry.dest = r.queue_next[index].dest
          /\ entry.q = r.queue_next[index].q
      BY <3>2 DEF RobEntry
    <3>4. next = [r.queue_next EXCEPT ![index] = entry]
      BY <2>2
    <3> HIDE DEF entry, index, next
    <3> QED
      BY <3>1, <3>2, <3>3, <3>4
  <2> QED
    BY <2>1, <2>2, SizeIsPositive
<1>3. /\ front = IF r.front_next = r.rear_next THEN -1
                 ELSE IF r.front_next + 1 = S THEN 0 ELSE r.front_next + 1
      /\ front \in {-1} \cup Slots
      /\ rear \in {-1} \cup Slots
  <2>1. r.front_next + 1 \in 0 .. 2 * S - 1
    BY SizeIsPositive
  <2>2. (r.front_next + 1) % S = IF r.front_next + 1 < S THEN r.front_next + 1
                                                         ELSE (r.front_next + 1) - S
    BY <2>1, Wrap
  <2>3. r.rear_next \in {-1} \cup Slots
    BY DEF RobState
  <2> QED
    BY <2>2, <2>3, SizeIsPositive
<1> HIDE DEF next, front
<1>4. /\ new \in RobState(V)
      /\ new.queue_current = r.queue_current
      /\ new.front_current = r.front_current
      /\ new.rear_current = r.rear_current
      /\ new.queue_next = next
      /\ new.front_next = front
      /\ new.rear_next = rear
  BY <1>1, <1>2, <1>3 DEF RobState
<1> QED
  BY <1>2, <1>3, <1>4

\* What capturing from the bus does to one entry: a finished one stays as it is, and the others
\* are finished by their result, their address or their data.
LEMMA CaptureFields ==
    ASSUME NEW V, NEW entry \in RobEntry(V), NEW bus \in Bus(V)
    PROVE  LET new == CaptureEntry(entry, bus)
           IN  /\ new \in RobEntry(V)
               /\ new.rob_id = entry.rob_id
               /\ new.busy = entry.busy
               /\ new.op_type = entry.op_type
               /\ new.dest = entry.dest
               /\ new.inst_pc = entry.inst_pc /\ new.npc_pred = entry.npc_pred
               /\ entry.ready => new = entry
               /\ new.ready => \/ entry.ready
                               \/ cdb_is_val_ready(bus, entry.rob_id)
                               \/ IsStore(entry.op_type) /\ entry.dest # 0
               /\ entry.busy /\ cdb_is_val_ready(bus, entry.rob_id) => new.ready
               /\ new.q # 0 => /\ new.q = entry.q
                               /\ new.ready => \/ entry.ready
                                               \/ cdb_is_val_ready(bus, entry.rob_id)
               /\ entry.busy /\ ~entry.ready /\ IsStore(entry.op_type) /\ entry.q # 0
                     /\ cdb_is_val_ready(bus, entry.q) => new.q = 0
<1> DEFINE mine == cdb_is_val_ready(bus, entry.rob_id)
           own == IF mine
                  THEN [entry EXCEPT !.value = cdb_get_val(bus, entry.rob_id), !.ready = TRUE]
                  ELSE entry
           data == IsStore(entry.op_type) /\ entry.q # 0 /\ cdb_is_val_ready(bus, entry.q)
           both == [own EXCEPT !.value = cdb_get_val(bus, entry.q), !.q = 0,
                               !.ready = own.ready \/ entry.dest # 0]
<1>1. CaptureEntry(entry, bus) = IF ~entry.busy \/ entry.ready THEN entry
                                 ELSE IF data THEN both ELSE own
  BY DEF CaptureEntry
<1>2. /\ own \in RobEntry(V)
      /\ own.rob_id = entry.rob_id /\ own.busy = entry.busy
      /\ own.op_type = entry.op_type /\ own.dest = entry.dest
      /\ own.inst_pc = entry.inst_pc /\ own.npc_pred = entry.npc_pred
      /\ own.q = entry.q
      /\ own.ready = (entry.ready \/ mine)
  <2>1. mine => cdb_get_val(bus, entry.rob_id) \in V
    BY GetValType
  <2> HIDE DEF mine
  <2> QED
    BY <2>1 DEF RobEntry
<1>3. data => /\ both \in RobEntry(V)
              /\ both.rob_id = entry.rob_id /\ both.busy = entry.busy
              /\ both.op_type = entry.op_type /\ both.dest = entry.dest
              /\ both.inst_pc = entry.inst_pc /\ both.npc_pred = entry.npc_pred
              /\ both.q = 0
              /\ both.ready = (own.ready \/ entry.dest # 0)
  <2>1. data => cdb_get_val(bus, entry.q) \in V
    BY GetValType
  <2> HIDE DEF own, data
  <2> QED
    BY <1>2, <2>1 DEF RobEntry
<1> HIDE DEF own, both
<1> QED
  BY <1>1, <1>2, <1>3

\* rob_step captures in every slot and moves no cursor.
LEMMA StepFields ==
    ASSUME NEW V, NEW r \in RobState(V), NEW bus \in Bus(V)
    PROVE  LET new == rob_step(r, bus)
           IN  /\ new \in RobState(V)
               /\ new.queue_current = r.queue_current
               /\ new.front_current = r.front_current
               /\ new.rear_current = r.rear_current
               /\ new.front_next = r.front_next
               /\ new.rear_next = r.rear_next
               /\ \A i \in Slots : new.queue_next[i] = CaptureEntry(r.queue_next[i], bus)
<1> DEFINE next == [i \in Slots |-> CaptureEntry(r.queue_next[i], bus)]
<1>1. next \in [Slots -> RobEntry(V)]
  <2>1. ASSUME NEW i \in Slots PROVE CaptureEntry(r.queue_next[i], bus) \in RobEntry(V)
    <3>1. r.queue_next[i] \in RobEntry(V)
      BY DEF RobState
    <3> QED
      BY <3>1, CaptureFields
  <2> QED
    BY <2>1
<1>2. rob_step(r, bus) = [r EXCEPT !.queue_next = next]
  BY DEF rob_step
<1>3. \A i \in Slots : next[i] = CaptureEntry(r.queue_next[i], bus)
  OBVIOUS
<1> HIDE DEF next
<1> QED
  BY <1>1, <1>2, <1>3 DEF RobState

\* What a functional unit may do to the buffer: change entry id, and only parts of it.
OnlyAnswers(r, id, new) ==
    /\ new.queue_current = r.queue_current
    /\ new.front_current = r.front_current
    /\ new.rear_current = r.rear_current
    /\ new.front_next = r.front_next
    /\ new.rear_next = r.rear_next
    /\ \A i \in Slots : /\ i # id - 1 => new.queue_next[i] = r.queue_next[i]
                        /\ new.queue_next[i].rob_id = r.queue_next[i].rob_id
                        /\ new.queue_next[i].busy = r.queue_next[i].busy
                        /\ new.queue_next[i].op_type = r.queue_next[i].op_type
                        /\ new.queue_next[i].q = r.queue_next[i].q
                        /\ new.queue_next[i].inst_pc = r.queue_next[i].inst_pc
                        /\ new.queue_next[i].npc_pred = r.queue_next[i].npc_pred

\* Writing one slot of the next copy leaves the rest of the buffer alone.
LEMMA ReplaceEntry ==
    ASSUME NEW V, NEW r \in RobState(V), NEW slot \in Slots, NEW entry \in RobEntry(V)
    PROVE  LET new == [r EXCEPT !.queue_next[slot] = entry]
           IN  /\ new \in RobState(V)
               /\ new.queue_current = r.queue_current
               /\ new.front_current = r.front_current
               /\ new.rear_current = r.rear_current
               /\ new.front_next = r.front_next
               /\ new.rear_next = r.rear_next
               /\ new.queue_next[slot] = entry
               /\ \A i \in Slots : i # slot => new.queue_next[i] = r.queue_next[i]
  BY DEF RobState

\* rob_add_address answers one store, and finishes it only when its data are there.
LEMMA AddAddressFields ==
    ASSUME NEW V, NEW r \in RobState(V), NEW id \in RobIds, NEW addr \in V
    PROVE  /\ rob_add_address(r, id, addr) \in RobState(V)
           /\ OnlyAnswers(r, id, rob_add_address(r, id, addr))
           /\ rob_add_address(r, id, addr).queue_next[id - 1].ready
                  => r.queue_next[id - 1].ready \/ r.queue_next[id - 1].q = 0
<1> DEFINE slot == id - 1
           entry == [r.queue_next[slot] EXCEPT
                        !.dest = addr,
                        !.ready = r.queue_next[slot].ready \/ r.queue_next[slot].q = 0]
<1>1. slot \in Slots
  BY SizeIsPositive
<1>2. r.queue_next[slot] \in RobEntry(V)
  BY <1>1 DEF RobState
<1>3. /\ entry \in RobEntry(V)
      /\ entry.rob_id = r.queue_next[slot].rob_id
      /\ entry.busy = r.queue_next[slot].busy
      /\ entry.op_type = r.queue_next[slot].op_type
      /\ entry.q = r.queue_next[slot].q
      /\ entry.inst_pc = r.queue_next[slot].inst_pc
      /\ entry.npc_pred = r.queue_next[slot].npc_pred
      /\ entry.ready = (r.queue_next[slot].ready \/ r.queue_next[slot].q = 0)
  BY <1>2 DEF RobEntry
<1>4. rob_add_address(r, id, addr) = [r EXCEPT !.queue_next[slot] = entry]
  BY DEF rob_add_address
<1> DEFINE new == rob_add_address(r, id, addr)
<1> HIDE DEF entry, slot, new
<1>5. /\ new \in RobState(V)
      /\ new.queue_current = r.queue_current
      /\ new.front_current = r.front_current
      /\ new.rear_current = r.rear_current
      /\ new.front_next = r.front_next
      /\ new.rear_next = r.rear_next
      /\ new.queue_next[slot] = entry
      /\ \A i \in Slots : i # slot => new.queue_next[i] = r.queue_next[i]
  BY <1>1, <1>3, <1>4, ReplaceEntry DEF new
<1>6. OnlyAnswers(r, id, new)
  BY <1>3, <1>5 DEF OnlyAnswers, slot
<1> QED
  BY <1>3, <1>5, <1>6 DEF slot, new

\* rob_add_npc_actual answers one jump or branch, and finishes only a branch.
LEMMA AddNpcActualFields ==
    ASSUME NEW V, NEW r \in RobState(V), NEW id \in RobIds, NEW npc_actual \in V
    PROVE  /\ rob_add_npc_actual(r, id, npc_actual) \in RobState(V)
           /\ OnlyAnswers(r, id, rob_add_npc_actual(r, id, npc_actual))
           /\ rob_add_npc_actual(r, id, npc_actual).queue_next[id - 1].dest
                  = r.queue_next[id - 1].dest
           /\ rob_add_npc_actual(r, id, npc_actual).queue_next[id - 1].ready
                  => r.queue_next[id - 1].ready \/ r.queue_next[id - 1].op_type = "BRANCH"
<1> DEFINE slot == id - 1
           entry == [r.queue_next[slot] EXCEPT
                        !.npc_actual = npc_actual,
                        !.ready = r.queue_next[slot].ready
                                  \/ r.queue_next[slot].op_type = "BRANCH"]
<1>1. slot \in Slots
  BY SizeIsPositive
<1>2. r.queue_next[slot] \in RobEntry(V)
  BY <1>1 DEF RobState
<1>3. /\ entry \in RobEntry(V)
      /\ entry.rob_id = r.queue_next[slot].rob_id
      /\ entry.busy = r.queue_next[slot].busy
      /\ entry.op_type = r.queue_next[slot].op_type
      /\ entry.q = r.queue_next[slot].q
      /\ entry.inst_pc = r.queue_next[slot].inst_pc
      /\ entry.npc_pred = r.queue_next[slot].npc_pred
      /\ entry.dest = r.queue_next[slot].dest
      /\ entry.ready = (r.queue_next[slot].ready \/ r.queue_next[slot].op_type = "BRANCH")
  BY <1>2 DEF RobEntry
<1>4. rob_add_npc_actual(r, id, npc_actual) = [r EXCEPT !.queue_next[slot] = entry]
  BY DEF rob_add_npc_actual
<1> DEFINE new == rob_add_npc_actual(r, id, npc_actual)
<1> HIDE DEF entry, slot, new
<1>5. /\ new \in RobState(V)
      /\ new.queue_current = r.queue_current
      /\ new.front_current = r.front_current
      /\ new.rear_current = r.rear_current
      /\ new.front_next = r.front_next
      /\ new.rear_next = r.rear_next
      /\ new.queue_next[slot] = entry
      /\ \A i \in Slots : i # slot => new.queue_next[i] = r.queue_next[i]
  BY <1>1, <1>3, <1>4, ReplaceEntry DEF new
<1>6. OnlyAnswers(r, id, new)
  BY <1>3, <1>5 DEF OnlyAnswers, slot
<1> QED
  BY <1>3, <1>5, <1>6 DEF slot, new

\* rob_clear empties the next window and changes neither an id nor the current ready bits.
LEMMA ClearFields ==
    ASSUME NEW V, NEW r \in RobState(V)
    PROVE  LET new == rob_clear(r)
           IN  /\ new \in RobState(V)
               /\ new.front_current = r.front_current
               /\ new.rear_current = r.rear_current
               /\ new.front_next = -1
               /\ new.rear_next = -1
               /\ \A i \in Slots : /\ new.queue_next[i].rob_id = r.queue_next[i].rob_id
                                   /\ new.queue_current[i].ready = r.queue_current[i].ready
<1> DEFINE current == [i \in Slots |-> [r.queue_current[i] EXCEPT !.busy = FALSE]]
           next == [i \in Slots |-> [r.queue_next[i] EXCEPT !.busy = FALSE]]
<1>1. ASSUME NEW e \in RobEntry(V)
      PROVE  LET new == [e EXCEPT !.busy = FALSE]
             IN  new \in RobEntry(V) /\ new.rob_id = e.rob_id /\ new.ready = e.ready
  BY DEF RobEntry
<1>2. \A i \in Slots : r.queue_current[i] \in RobEntry(V) /\ r.queue_next[i] \in RobEntry(V)
  BY DEF RobState
<1>3. current \in [Slots -> RobEntry(V)] /\ next \in [Slots -> RobEntry(V)]
  BY <1>1, <1>2
<1>4. \A i \in Slots : /\ next[i].rob_id = r.queue_next[i].rob_id
                       /\ current[i].ready = r.queue_current[i].ready
  BY <1>1, <1>2
<1>5. rob_clear(r) = [r EXCEPT !.front_next = -1, !.rear_next = -1,
                               !.queue_current = current, !.queue_next = next]
  BY DEF rob_clear
<1> HIDE DEF current, next
<1> QED
  BY <1>3, <1>4, <1>5 DEF RobState

\* rob_update_current makes the current copy equal to the next.
LEMMA UpdateFields ==
    ASSUME NEW V, NEW r \in RobState(V)
    PROVE  LET new == rob_update_current(r)
           IN  /\ new \in RobState(V)
               /\ new.queue_current = r.queue_next /\ new.queue_next = r.queue_next
               /\ new.front_current = r.front_next /\ new.front_next = r.front_next
               /\ new.rear_current = r.rear_next /\ new.rear_next = r.rear_next
  BY DEF rob_update_current, RobState

-----------------------------------------------------------------------------

(* The arithmetic of the two windows. *)

Cursor == {-1} \cup Slots

\* rob_num_free_slots counts the slots outside the current window.
LEMMA FreeSlots ==
    ASSUME NEW V, NEW r \in RobState(V), r.front_current = -1 <=> r.rear_current = -1
    PROVE  /\ QueueSize(r.front_current, r.rear_current) \in 0 .. S
           /\ rob_num_free_slots(r) = S - QueueSize(r.front_current, r.rear_current)
<1>1. r.front_current \in Cursor /\ r.rear_current \in Cursor
  BY DEF RobState, Cursor
<1>2. ASSUME NEW f \in Cursor, NEW g \in Cursor, f = -1 <=> g = -1
      PROVE  /\ QueueSize(f, g) \in 0 .. S
             /\ S - QueueSize(f, g) = IF f = -1 /\ g = -1 THEN S
                                      ELSE IF f - g - 1 < 0 THEN (f - g - 1) + S
                                      ELSE f - g - 1
  BY <1>2, SizeIsPositive DEF QueueSize, S, Cursor
<1>3. rob_num_free_slots(r) =
         IF r.front_current = -1 /\ r.rear_current = -1 THEN S
         ELSE IF r.front_current - r.rear_current - 1 < 0
              THEN (r.front_current - r.rear_current - 1) + S
              ELSE r.front_current - r.rear_current - 1
  BY DEF rob_num_free_slots, S
<1> QED
  BY <1>1, <1>2, <1>3, Zenon

\* While the batch fits, an enqueue grows the next window by a slot that is not of the current
\* one.
LEMMA EnqueueWindow ==
    ASSUME NEW fc \in Cursor, NEW rc \in Cursor, NEW fn \in Cursor, NEW rn \in Cursor,
           NEW added \in Nat,
           InStep(fc, rc, fn, rn, added, 0),
           added < S - QueueSize(fc, rc)
    PROVE  LET front == IF fn = -1 THEN 0 ELSE fn
               rear == IF rn + 1 = S THEN 0 ELSE rn + 1
           IN  /\ InStep(fc, rc, front, rear, added + 1, 0)
               /\ ~InWindow(fc, rc, rear)
               /\ \A i \in Slots : InWindow(front, rear, i) => InWindow(fn, rn, i) \/ i = rear
  BY SizeIsPositive DEF InStep, QueueSize, InWindow, AfterLap, Cursor, S

\* A dequeue shrinks the next window by its front, which is the commit's slot of the current
\* one.
LEMMA DequeueWindow ==
    ASSUME NEW fc \in Cursor, NEW rc \in Cursor, NEW fn \in Cursor, NEW rn \in Cursor,
           NEW added \in Nat, NEW removed \in Nat,
           InStep(fc, rc, fn, rn, added, removed),
           removed < QueueSize(fc, rc)
    PROVE  LET front == IF fn = rn THEN -1 ELSE IF fn + 1 = S THEN 0 ELSE fn + 1
               rear == IF fn = rn THEN -1 ELSE rn
           IN  /\ InStep(fc, rc, front, rear, added, removed + 1)
               /\ fn \in Slots
               /\ fn = AfterLap(fc + removed)
               /\ \A i \in Slots : InWindow(front, rear, i) => InWindow(fn, rn, i) /\ i # fn
  BY SizeIsPositive DEF InStep, QueueSize, InWindow, AfterLap, Cursor, S

\* The entry about to leave is in both windows.
LEMMA FrontInWindows ==
    ASSUME NEW fc \in Cursor, NEW rc \in Cursor, NEW fn \in Cursor, NEW rn \in Cursor,
           NEW added \in Nat, NEW removed \in Nat,
           InStep(fc, rc, fn, rn, added, removed),
           removed < QueueSize(fc, rc)
    PROVE  rn \in Slots /\ InWindow(fn, rn, fn) /\ InWindow(fc, rc, fn)
  BY SizeIsPositive DEF InStep, QueueSize, InWindow, AfterLap, Cursor, S

\* At the end of a cycle the two windows are one.
LEMMA UpdateWindow ==
    ASSUME NEW fn \in Cursor, NEW rn \in Cursor, fn = -1 <=> rn = -1
    PROVE  InStep(fn, rn, fn, rn, 0, 0)
  BY SizeIsPositive DEF InStep, QueueSize, AfterLap, Cursor, S

-----------------------------------------------------------------------------

(* Ages: an entry that enters is the youngest, and a commit makes all one younger. *)

AgeFrom(front, i) == IF front <= i THEN i - front ELSE (i - front) + S

\* An enqueue changes no age, and the entry it adds is the youngest.
LEMMA EnqueueAges ==
    ASSUME NEW fc \in Cursor, NEW rc \in Cursor, NEW fn \in Cursor, NEW rn \in Cursor,
           NEW added \in Nat,
           InStep(fc, rc, fn, rn, added, 0),
           added < S - QueueSize(fc, rc)
    PROVE  LET front == IF fn = -1 THEN 0 ELSE fn
               rear == IF rn + 1 = S THEN 0 ELSE rn + 1
           IN  /\ ~InWindow(fn, rn, rear)
               /\ InWindow(front, rear, rear)
               /\ \A i \in Slots : InWindow(fn, rn, i) =>
                      /\ InWindow(front, rear, i)
                      /\ AgeFrom(front, i) = AgeFrom(fn, i)
                      /\ AgeFrom(front, i) < AgeFrom(front, rear)
  BY SizeIsPositive DEF InStep, QueueSize, InWindow, AfterLap, Cursor, S, AgeFrom

\* A dequeue makes everyone left younger by one.
LEMMA DequeueAges ==
    ASSUME NEW fn \in Slots, NEW rn \in Slots
    PROVE  LET front == IF fn = rn THEN -1 ELSE IF fn + 1 = S THEN 0 ELSE fn + 1
               rear == IF fn = rn THEN -1 ELSE rn
           IN  \A i \in Slots : InWindow(fn, rn, i) /\ i # fn =>
                      /\ InWindow(front, rear, i)
                      /\ AgeFrom(front, i) = AgeFrom(fn, i) - 1
  BY SizeIsPositive DEF InWindow, Cursor, S, AgeFrom
=============================================================================
