------------------------------ MODULE HeldLemmas ------------------------------
(***************************************************************************)
(* What the operators of the pools, the units, the bus, the reorder buffer   *)
(* and the instruction queue do to the parts of the invariant of the         *)
(* superscalar core (CoreInvariant): lemmas about single calls, for          *)
(* PipelineProofs to put together into steps of the core.                    *)
(***************************************************************************)
EXTENDS CoreInvariant

(* The reorder buffer. *)

\* The parts of the reorder buffer.
LEMMA RobShape ==
    ASSUME NEW r, IsRob(r)
    PROVE  /\ {r.front_current, r.rear_current, r.front_next, r.rear_next} \subseteq Cursor
           /\ \A i \in Slots : /\ r.queue_next[i].op_type \in OpType
                               /\ r.queue_next[i].ready \in BOOLEAN
                               /\ r.queue_next[i].busy \in BOOLEAN
                               /\ r.queue_next[i].q \in {0} \cup RobIds
                               /\ r.queue_current[i].ready \in BOOLEAN
                               /\ r.queue_current[i].rob_id \in RobIds
<1>1. PICK V : r \in RobState(V)
  BY DEF IsRob
<1>2. /\ {r.front_current, r.rear_current, r.front_next, r.rear_next} \subseteq Cursor
      /\ \A i \in Slots : r.queue_next[i] \in RobEntry(V) /\ r.queue_current[i] \in RobEntry(V)
  BY <1>1 DEF RobState, Cursor
<1> QED
  BY <1>2 DEF RobEntry

\* An id is its slot plus one.
LEMMA IdsAreSlots ==
    /\ \A id \in RobIds : id - 1 \in Slots /\ (id - 1) + 1 = id
    /\ \A i \in Slots : i + 1 \in RobIds /\ (i + 1) - 1 = i
  BY SizeIsPositive

\* An instruction more is in flight, younger than the others.
Entered(r, new, id, op_type, dest) ==
    /\ new.queue_current = r.queue_current
    /\ new.front_current = r.front_current
    /\ id \notin Flying(r)
    /\ \A k : k \in Flying(new) <=> k \in Flying(r) \/ k = id
    /\ \A k \in Flying(r) : /\ new.queue_next[k - 1] = r.queue_next[k - 1]
                            /\ AgeOf(new, k) = AgeOf(r, k)
                            /\ AgeOf(new, k) < AgeOf(new, id)
    /\ new.queue_next[id - 1].op_type = op_type
    /\ new.queue_next[id - 1].dest = dest
    /\ ~new.queue_next[id - 1].ready

\* What enters is the youngest, in a slot nobody in flight has.
LEMMA EnqueueRob ==
    ASSUME NEW r, IsRob(r), NEW op_type \in OpType, NEW dest, NEW val,
           NEW q \in {0} \cup RobIds, NEW npc_pred, NEW inst_pc, NEW n \in Nat,
           Windows(r, "issue", n), n < rob_num_free_slots(r),
           CopiesAgree(r, TRUE), EntriesInPlace(r)
    PROVE  LET new == rob_enqueue(r, op_type, dest, val, q, npc_pred, inst_pc)
               id == rob_enqueue_id(r)
           IN  /\ IsRob(new) /\ id \in RobIds
               /\ new.rear_current = r.rear_current
               /\ Windows(new, "issue", n + 1)
               /\ CopiesAgree(new, TRUE) /\ EntriesInPlace(new)
               /\ Entered(r, new, id, op_type, dest)
<1> DEFINE new == rob_enqueue(r, op_type, dest, val, q, npc_pred, inst_pc)
           id == rob_enqueue_id(r)
           rear == (r.rear_next + 1) % S
           front == IF r.front_next = -1 THEN 0 ELSE r.front_next
<1>1. PICK U : r \in RobState(U)
  BY DEF IsRob
<1> DEFINE V == U \cup {dest, val, npc_pred, inst_pc}
<1>2. r \in RobState(V) /\ dest \in V /\ val \in V /\ npc_pred \in V /\ inst_pc \in V
  BY <1>1, RobGrow
<1> HIDE DEF V
<1>e. EntryAdded(V, r, new, rear, op_type, dest, q)
  BY <1>2, EnqueueFields
<1>3. /\ new \in RobState(V)
      /\ rear \in Slots
      /\ rear = IF r.rear_next + 1 = S THEN 0 ELSE r.rear_next + 1
      /\ new.queue_current = r.queue_current
      /\ new.front_current = r.front_current /\ new.rear_current = r.rear_current
      /\ new.front_next = front /\ new.rear_next = rear
      /\ \A i \in Slots : i # rear => new.queue_next[i] = r.queue_next[i]
      /\ new.queue_next[rear].busy /\ ~new.queue_next[rear].ready
      /\ new.queue_next[rear].dest = dest /\ new.queue_next[rear].q = q
      /\ new.queue_next[rear].op_type = op_type
      /\ new.queue_next[rear].rob_id = r.queue_next[rear].rob_id
  BY <1>e DEF EntryAdded
<1>4. id = rear + 1 /\ id \in RobIds /\ id - 1 = rear
  <2>2. id = rear + 1
    BY DEF rob_enqueue_id, S
  <2> HIDE DEF id, rear
  <2> QED
    BY <1>3, <2>2, IdsAreSlots
<1> HIDE DEF new, id, rear, front
<1>5. /\ r.front_current \in Cursor /\ r.rear_current \in Cursor
      /\ r.front_next \in Cursor /\ r.rear_next \in Cursor
  BY RobShape
<1>6. /\ n \in 0 .. S
      /\ InStep(r.front_current, r.rear_current, r.front_next, r.rear_next, n, 0)
  BY DEF Windows, S
<1>7. /\ QueueSize(r.front_current, r.rear_current) \in 0 .. S
      /\ n < S - QueueSize(r.front_current, r.rear_current)
  <2>1. r.front_current = -1 <=> r.rear_current = -1
    BY <1>6 DEF InStep
  <2> QED
    BY <1>2, <2>1, FreeSlots
<1>8. /\ InStep(r.front_current, r.rear_current, front, rear, n + 1, 0)
      /\ ~InWindow(r.front_current, r.rear_current, rear)
      /\ \A i \in Slots : InWindow(front, rear, i) =>
                             InWindow(r.front_next, r.rear_next, i) \/ i = rear
  BY <1>3, <1>5, <1>6, <1>7, EnqueueWindow DEF front
<1>9. /\ ~InWindow(r.front_next, r.rear_next, rear)
      /\ InWindow(front, rear, rear)
      /\ \A i \in Slots : InWindow(r.front_next, r.rear_next, i) =>
             /\ InWindow(front, rear, i)
             /\ AgeFrom(front, i) = AgeFrom(r.front_next, i)
             /\ AgeFrom(front, i) < AgeFrom(front, rear)
  BY <1>3, <1>5, <1>6, <1>7, EnqueueAges DEF front
<1>10. Windows(new, "issue", n + 1)
  <2>1. n + 1 \in 0 .. S /\ 0 \in 0 .. S
    BY <1>7, SizeIsPositive
  <2>2. InStep(new.front_current, new.rear_current, new.front_next, new.rear_next, n + 1, 0)
    BY <1>3, <1>8
  <2> QED
    BY <2>1, <2>2 DEF Windows, S
<1>11. CopiesAgree(new, TRUE)
  <2> SUFFICES ASSUME NEW i \in Slots,
                      InWindow(r.front_current, r.rear_current, i),
                      InWindow(front, rear, i)
               PROVE  new.queue_next[i] = r.queue_current[i]
    BY <1>3 DEF CopiesAgree
  <2>1. i # rear /\ InWindow(r.front_next, r.rear_next, i)
    BY <1>8
  <2> QED
    BY <1>3, <2>1 DEF CopiesAgree
<1>12. EntriesInPlace(new)
  <2> SUFFICES ASSUME NEW i \in Slots
               PROVE  /\ new.queue_next[i].rob_id = i + 1
                      /\ InWindow(front, rear, i) => new.queue_next[i].busy
    BY <1>3 DEF EntriesInPlace
  <2>1. CASE i = rear
    BY <1>3, <2>1 DEF EntriesInPlace
  <2>2. CASE i # rear
    BY <1>3, <1>8, <2>2 DEF EntriesInPlace
  <2> QED
    BY <2>1, <2>2
<1>13. id \notin Flying(r)
  BY <1>4, <1>9 DEF Flying
<1>14. ASSUME NEW k PROVE k \in Flying(new) <=> k \in Flying(r) \/ k = id
  <2>1. CASE k \in RobIds
    <3>1. k - 1 \in Slots /\ (k - 1 = rear => k = id)
      BY <1>4, <2>1, IdsAreSlots
    <3> QED
      BY <1>3, <1>4, <1>8, <1>9, <2>1, <3>1 DEF Flying
  <2>2. CASE k \notin RobIds
    BY <1>4, <2>2 DEF Flying
  <2> QED
    BY <2>1, <2>2
<1>15. ASSUME NEW k \in Flying(r)
       PROVE  /\ new.queue_next[k - 1] = r.queue_next[k - 1]
              /\ AgeOf(new, k) = AgeOf(r, k)
              /\ AgeOf(new, k) < AgeOf(new, id)
  <2>1. k - 1 \in Slots /\ InWindow(r.front_next, r.rear_next, k - 1)
    BY IdsAreSlots DEF Flying
  <2>2. k - 1 # rear
    BY <1>9, <2>1
  <2> QED
    BY <1>3, <1>4, <1>9, <2>1, <2>2 DEF AgeOf
<1>16. IsRob(new)
  BY <1>3 DEF IsRob
<1>17. Entered(r, new, id, op_type, dest)
  BY <1>3, <1>4, <1>13, <1>14, <1>15 DEF Entered
<1> QED
  BY <1>3, <1>4, <1>10, <1>11, <1>12, <1>16, <1>17 DEF new, id

-----------------------------------------------------------------------------

\* The oldest instruction, which has finished, is no longer in flight.
Left(r, new, id) ==
    /\ new.queue_current = r.queue_current /\ new.front_current = r.front_current
    /\ id \in Flying(r) /\ r.queue_next[id - 1].ready
    /\ \A k : k \in Flying(new) <=> k \in Flying(r) /\ k # id
    /\ \A k \in Flying(new) : /\ new.queue_next[k - 1] = r.queue_next[k - 1]
                              /\ AgeOf(new, k) = AgeOf(r, k) - 1
                              /\ AgeOf(r, id) < AgeOf(r, k)

\* The entry that leaves is the oldest, has finished, and is the one that was looked at.
LEMMA DequeueRob ==
    ASSUME NEW r, IsRob(r), NEW n \in Nat, rob_ready(r, n),
           Windows(r, "commit", n), CopiesAgree(r, FALSE), EntriesInPlace(r)
    PROVE  LET new == rob_dequeue(r, n)
               id == rob_dequeue_entry(r, n).rob_id
           IN  /\ IsRob(new)
               /\ Windows(new, "commit", n + 1) /\ Windows(new, "update", 0)
               /\ CopiesAgree(new, FALSE) /\ EntriesInPlace(new)
               /\ Left(r, new, id)
               /\ rob_dequeue_entry(r, n) = r.queue_next[id - 1]
<1> DEFINE new == rob_dequeue(r, n)
           entry0 == rob_dequeue_entry(r, n)
           slot == r.front_next
           id == slot + 1
           front == IF r.front_next = r.rear_next THEN -1
                    ELSE IF r.front_next + 1 = S THEN 0 ELSE r.front_next + 1
           rear == IF r.front_next = r.rear_next THEN -1 ELSE r.rear_next
<1>1. PICK V : r \in RobState(V)
  BY DEF IsRob
<1>2. /\ r.front_current \in Cursor /\ r.rear_current \in Cursor
      /\ r.front_next \in Cursor /\ r.rear_next \in Cursor
  BY RobShape
<1>3. /\ r.front_current \in Slots
      /\ n < QueueSize(r.front_current, r.rear_current)
      /\ r.front_current + n \in 0 .. 2 * S - 1
      /\ \A k \in 0 .. n :
            LET i == IF r.front_current + k < S THEN r.front_current + k
                                                ELSE (r.front_current + k) - S
            IN  i \in Slots /\ r.queue_current[i].ready
  BY <1>1, ReadyWindow
<1>3a. QueueSize(r.front_current, r.rear_current) \in 0 .. S
  <2>1. r.front_current \in {-1} \cup Slots /\ r.rear_current \in {-1} \cup Slots
    BY <1>2 DEF Cursor
  <2>2. r.front_current # -1
    BY <1>3, SizeIsPositive
  <2> QED
    BY <2>1, <2>2, QueueSizeBounds
<1>4. PICK added \in 0 .. S, removed \in 0 .. S :
          /\ InStep(r.front_current, r.rear_current, r.front_next, r.rear_next, added, removed)
          /\ removed <= n /\ (removed < n => ~rob_ready(r, removed))
  BY DEF Windows, S
<1>5. removed = n
  <2>1. CASE removed < n
    <3>1. 0 .. removed \subseteq 0 .. n /\ removed < QueueSize(r.front_current, r.rear_current)
      BY <1>3, <1>3a, <2>1, SizeIsPositive
    <3>2. rob_ready(r, removed)
      BY <3>1 DEF rob_ready
    <3> QED
      BY <2>1, <1>4, <3>2
  <2> QED
    BY <1>4, <2>1, SizeIsPositive
<1>6. /\ InStep(r.front_current, r.rear_current, r.front_next, r.rear_next, added, n)
      /\ added \in Nat /\ n < QueueSize(r.front_current, r.rear_current)
  BY <1>3, <1>4, <1>5, SizeIsPositive
<1>7. /\ InStep(r.front_current, r.rear_current, front, rear, added, n + 1)
      /\ slot \in Slots /\ slot = AfterLap(r.front_current + n)
      /\ \A i \in Slots : InWindow(front, rear, i)
                             => InWindow(r.front_next, r.rear_next, i) /\ i # slot
  <2>1. InStep(r.front_current, r.rear_current, front, rear, added, n + 1)
    BY <1>2, <1>6, DequeueWindow
  <2>2. r.front_next \in Slots
    BY <1>2, <1>6, DequeueWindow
  <2>3. r.front_next = AfterLap(r.front_current + n)
    BY <1>2, <1>6, DequeueWindow
  <2>4. \A i \in Slots : InWindow(front, rear, i)
                             => InWindow(r.front_next, r.rear_next, i) /\ i # r.front_next
    BY <1>2, <1>6, DequeueWindow
  <2> QED
    BY <2>1, <2>2, <2>3, <2>4
<1>8. /\ r.rear_next \in Slots
      /\ InWindow(r.front_next, r.rear_next, slot)
      /\ InWindow(r.front_current, r.rear_current, slot)
  BY <1>2, <1>3, <1>6, FrontInWindows
<1>9. \A i \in Slots : InWindow(r.front_next, r.rear_next, i) /\ i # slot =>
         InWindow(front, rear, i) /\ AgeFrom(front, i) = AgeFrom(r.front_next, i) - 1
  BY <1>7, <1>8, DequeueAges
<1> HIDE DEF front, rear
<1>10. /\ new \in RobState(V)
       /\ new.queue_current = r.queue_current
       /\ new.front_current = r.front_current /\ new.rear_current = r.rear_current
       /\ \A i \in Slots : i # r.front_current + n => new.queue_next[i] = r.queue_next[i]
       /\ \A i \in Slots : new.queue_next[i].rob_id = r.queue_next[i].rob_id
       /\ new.front_next = front /\ new.rear_next = rear
  BY <1>1, <1>3, <1>7, DequeueFields DEF front, rear
<1>11. r.queue_current[slot].ready
  <2>1. n \in 0 .. n
    OBVIOUS
  <2>2. slot = IF r.front_current + n < S THEN r.front_current + n
                                          ELSE (r.front_current + n) - S
    BY <1>7 DEF AfterLap, S
  <2> QED
    BY <1>3, <2>1, <2>2
<1>12. r.queue_next[slot] = r.queue_current[slot]
  BY <1>7, <1>8, <1>11 DEF CopiesAgree
<1>13. entry0 = r.queue_next[slot] /\ entry0.rob_id = id /\ id \in RobIds /\ id - 1 = slot
  <2>1. entry0 = r.queue_next[slot]
    BY <1>7, <1>12 DEF rob_dequeue_entry, AfterLap
  <2> QED
    BY <1>7, <2>1, IdsAreSlots DEF EntriesInPlace
<1>14. \A i \in Slots : i # slot /\ InWindow(r.front_next, r.rear_next, i)
                           => new.queue_next[i] = r.queue_next[i]
  <2> SUFFICES ASSUME NEW i \in Slots, i # slot PROVE i # r.front_current + n
    BY <1>10
  <2>1. CASE r.front_current + n < S
    BY <2>1, <1>7 DEF AfterLap, S
  <2>2. CASE ~(r.front_current + n < S)
    BY <2>2, <1>3, SizeIsPositive
  <2> QED
    BY <2>1, <2>2
<1> HIDE DEF new, entry0, slot, id
<1>15. n + 1 \in 0 .. S
  <2>1. n < S
    BY <1>3, <1>3a, SizeIsPositive
  <2> QED
    BY <2>1, SizeIsPositive
<1>16. Windows(new, "commit", n + 1) /\ Windows(new, "update", 0)
  <2>1. InStep(new.front_current, new.rear_current, new.front_next, new.rear_next, added, n + 1)
    BY <1>7, <1>10
  <2>2. ~(n + 1 < n + 1) /\ n + 1 <= n + 1
    OBVIOUS
  <2> QED
    BY <1>4, <1>15, <2>1, <2>2 DEF Windows, S
<1>17. CopiesAgree(new, FALSE)
  <2> SUFFICES ASSUME NEW i \in Slots,
                      InWindow(r.front_current, r.rear_current, i), InWindow(front, rear, i),
                      r.queue_current[i].ready
               PROVE  new.queue_next[i] = r.queue_current[i]
    BY <1>10 DEF CopiesAgree
  <2> QED
    BY <1>7, <1>14 DEF CopiesAgree
<1>18. EntriesInPlace(new)
  BY <1>7, <1>10, <1>14 DEF EntriesInPlace
<1>19. id \in Flying(r) /\ r.queue_next[id - 1].ready
  BY <1>8, <1>11, <1>12, <1>13 DEF Flying, slot
<1>20. ASSUME NEW k PROVE k \in Flying(new) <=> k \in Flying(r) /\ k # id
  <2>1. CASE k \in RobIds
    <3>1. k - 1 \in Slots /\ (k - 1 = slot <=> k = id)
      BY <1>13, <2>1, IdsAreSlots
    <3> QED
      BY <1>7, <1>9, <1>10, <2>1, <3>1 DEF Flying
  <2>2. CASE k \notin RobIds
    BY <2>2 DEF Flying
  <2> QED
    BY <2>1, <2>2
<1>21. ASSUME NEW k \in Flying(new)
       PROVE  /\ new.queue_next[k - 1] = r.queue_next[k - 1]
              /\ AgeOf(new, k) = AgeOf(r, k) - 1
              /\ AgeOf(r, id) < AgeOf(r, k)
  <2>1. k - 1 \in Slots /\ InWindow(r.front_next, r.rear_next, k - 1) /\ k - 1 # slot
    <3>1. k \in RobIds /\ k \in Flying(r) /\ k # id
      BY <1>20 DEF Flying
    <3> QED
      BY <1>13, <3>1, IdsAreSlots DEF Flying
  <2>2. new.queue_next[k - 1] = r.queue_next[k - 1] /\ AgeOf(new, k) = AgeOf(r, k) - 1
    BY <1>9, <1>10, <1>14, <2>1 DEF AgeOf
  <2>3. AgeOf(r, id) < AgeOf(r, k)
    BY <1>7, <1>13, <2>1, SizeIsPositive DEF AgeOf, AgeFrom, slot
  <2> QED
    BY <2>2, <2>3
<1>22. IsRob(new)
  BY <1>10 DEF IsRob
<1>23. Left(r, new, id)
  BY <1>10, <1>19, <1>20, <1>21 DEF Left
<1>24. entry0 = r.queue_next[id - 1] /\ entry0.rob_id = id
  BY <1>13
<1> QED
  BY <1>16, <1>17, <1>18, <1>22, <1>23, <1>24 DEF new, entry0

-----------------------------------------------------------------------------

\* A flush leaves nobody in flight.
LEMMA ClearRob ==
    ASSUME NEW r, IsRob(r), EntriesInPlace(r)
    PROVE  LET new == rob_clear(r)
           IN  /\ IsRob(new) /\ EntriesInPlace(new) /\ CopiesAgree(new, FALSE)
               /\ Windows(new, "update", 0)
               /\ Flying(new) = {}
<1> DEFINE new == rob_clear(r)
<1>1. PICK V : r \in RobState(V)
  BY DEF IsRob
<1>2. /\ new \in RobState(V)
      /\ new.front_next = -1 /\ new.rear_next = -1
      /\ \A i \in Slots : new.queue_next[i].rob_id = r.queue_next[i].rob_id
  BY <1>1, ClearFields
<1> HIDE DEF new
<1>3. \A i : ~InWindow(new.front_next, new.rear_next, i)
  BY <1>2 DEF InWindow
<1>4. IsRob(new)
  BY <1>2 DEF IsRob
<1>5. EntriesInPlace(new)
  BY <1>2, <1>3 DEF EntriesInPlace
<1>6. CopiesAgree(new, FALSE)
  BY <1>3 DEF CopiesAgree
<1>7. Windows(new, "update", 0)
  BY <1>2 DEF Windows
<1>8. Flying(new) = {}
  BY <1>3 DEF Flying
<1> QED
  BY <1>4, <1>5, <1>6, <1>7, <1>8 DEF new

\* The next cycle starts from what this one has built.
LEMMA UpdateRob ==
    ASSUME NEW r, IsRob(r), EntriesInPlace(r), NEW n, Windows(r, "update", n)
    PROVE  LET new == rob_update_current(r)
           IN  /\ IsRob(new) /\ EntriesInPlace(new) /\ CopiesAgree(new, TRUE)
               /\ Windows(new, "fetch", 0) /\ Windows(new, "halted", 0)
               /\ new.queue_next = r.queue_next
               /\ new.front_next = r.front_next /\ new.rear_next = r.rear_next
<1> DEFINE new == rob_update_current(r)
<1>1. PICK V : r \in RobState(V)
  BY DEF IsRob
<1>2. /\ new \in RobState(V)
      /\ new.queue_current = r.queue_next /\ new.queue_next = r.queue_next
      /\ new.front_current = r.front_next /\ new.front_next = r.front_next
      /\ new.rear_current = r.rear_next /\ new.rear_next = r.rear_next
  BY <1>1, UpdateFields
<1> HIDE DEF new
<1>3. IsRob(new)
  BY <1>2 DEF IsRob
<1>4. EntriesInPlace(new)
  BY <1>2 DEF EntriesInPlace
<1>5. CopiesAgree(new, TRUE)
  BY <1>2 DEF CopiesAgree
<1>6. /\ r.front_next \in Cursor /\ r.rear_next \in Cursor
      /\ r.front_next = -1 <=> r.rear_next = -1
  <2>1. r.front_next \in Cursor /\ r.rear_next \in Cursor
    BY RobShape
  <2>2. r.front_next = -1 <=> r.rear_next = -1
    BY DEF Windows, InStep
  <2> QED
    BY <2>1, <2>2
<1>7. InStep(r.front_next, r.rear_next, r.front_next, r.rear_next, 0, 0)
  BY <1>6, UpdateWindow
<1>8. InStep(new.front_current, new.rear_current, new.front_next, new.rear_next, 0, 0)
  BY <1>2, <1>7
<1>9. Windows(new, "fetch", 0) /\ Windows(new, "halted", 0)
  <2>1. 0 \in 0 .. S
    BY SizeIsPositive
  <2> QED
    BY <1>8, <2>1 DEF Windows, S
<1> QED
  BY <1>2, <1>3, <1>4, <1>5, <1>9 DEF new

-----------------------------------------------------------------------------

(***************************************************************************)
(* What the units and the bus may do to the reorder buffer: answer for the *)
(* instructions A.  A store answers twice, for its address and its data.   *)
(***************************************************************************)
Answers(r, new, A) ==
    /\ new.queue_current = r.queue_current
    /\ new.front_current = r.front_current /\ new.rear_current = r.rear_current
    /\ new.front_next = r.front_next /\ new.rear_next = r.rear_next
    /\ \A i \in Slots :
          LET before == r.queue_next[i]
              after == new.queue_next[i]
          IN  /\ after.rob_id = before.rob_id /\ after.op_type = before.op_type
              /\ after.busy = before.busy
              /\ before.ready => after = before
              /\ after.dest = before.dest \/ (IsStore(before.op_type) /\ i + 1 \in A)
              /\ after.ready => \/ before.ready \/ i + 1 \in A
                                \/ IsStore(before.op_type) /\ before.dest # 0

\* Answers to instructions in flight move nobody and leave finished entries alone.
LEMMA AnswersKeep ==
    ASSUME NEW r, NEW new, NEW A, Answers(r, new, A)
    PROVE  /\ EntriesInPlace(r) => EntriesInPlace(new)
           /\ CopiesAgree(r, FALSE) => CopiesAgree(new, FALSE)
           /\ \A now, n : Windows(r, now, n) /\ now # "commit" => Windows(new, now, n)
           /\ Flying(new) = Flying(r)
           /\ \A k : AgeOf(new, k) = AgeOf(r, k)
<1>1. EntriesInPlace(r) => EntriesInPlace(new)
  BY DEF EntriesInPlace, Answers
<1>2. CopiesAgree(r, FALSE) => CopiesAgree(new, FALSE)
  <2> SUFFICES ASSUME CopiesAgree(r, FALSE), NEW i \in Slots,
                      InWindow(r.front_current, r.rear_current, i),
                      InWindow(r.front_next, r.rear_next, i), r.queue_current[i].ready
               PROVE  new.queue_next[i] = r.queue_current[i]
    BY DEF CopiesAgree, Answers
  <2>1. r.queue_next[i] = r.queue_current[i]
    BY DEF CopiesAgree
  <2>2. r.queue_next[i].ready => new.queue_next[i] = r.queue_next[i]
    BY DEF Answers
  <2> QED
    BY <2>1, <2>2
<1>3. \A now, n : Windows(r, now, n) /\ now # "commit" => Windows(new, now, n)
  BY DEF Windows, Answers
<1>4. Flying(new) = Flying(r)
  BY DEF Flying, Answers
<1>5. \A k : AgeOf(new, k) = AgeOf(r, k)
  BY DEF AgeOf, Answers
<1> QED
  BY <1>1, <1>2, <1>3, <1>4, <1>5

\* A store's address.
LEMMA AddressAnswers ==
    ASSUME NEW r, IsRob(r), NEW id \in RobIds, NEW addr,
           ~r.queue_next[id - 1].ready, IsStore(r.queue_next[id - 1].op_type)
    PROVE  LET new == rob_add_address(r, id, addr)
           IN  IsRob(new) /\ Answers(r, new, {id})
<1> DEFINE new == rob_add_address(r, id, addr)
<1>1. PICK U : r \in RobState(U)
  BY DEF IsRob
<1> DEFINE V == U \cup {addr}
<1>2. r \in RobState(V) /\ addr \in V
  BY <1>1, RobGrow
<1> HIDE DEF V
<1>3. new \in RobState(V) /\ OnlyAnswers(r, id, new)
  BY <1>2, AddAddressFields
<1> HIDE DEF new
<1>4. Answers(r, new, {id})
  <2>1. \A i \in Slots : i # id - 1 => new.queue_next[i] = r.queue_next[i]
    BY <1>3 DEF OnlyAnswers
  <2>2. id - 1 \in Slots /\ (id - 1) + 1 = id
    BY IdsAreSlots
  <2>3. ASSUME NEW i \in Slots
        PROVE  /\ new.queue_next[i].rob_id = r.queue_next[i].rob_id
               /\ new.queue_next[i].op_type = r.queue_next[i].op_type
               /\ new.queue_next[i].busy = r.queue_next[i].busy
    BY <1>3 DEF OnlyAnswers
  <2> QED
    BY <1>3, <2>1, <2>2, <2>3 DEF Answers, OnlyAnswers
<1> QED
  BY <1>3, <1>4 DEF IsRob, new

\* Where a branch or a jump goes; the jump is answered for by its result.
LEMMA TransferAnswers ==
    ASSUME NEW r, IsRob(r), NEW id \in RobIds, NEW npc_actual,
           ~r.queue_next[id - 1].ready
    PROVE  LET new == rob_add_npc_actual(r, id, npc_actual)
           IN  /\ IsRob(new) /\ Answers(r, new, {id})
               /\ r.queue_next[id - 1].op_type # "BRANCH" => Answers(r, new, {})
<1> DEFINE new == rob_add_npc_actual(r, id, npc_actual)
<1>1. PICK U : r \in RobState(U)
  BY DEF IsRob
<1> DEFINE V == U \cup {npc_actual}
<1>2. r \in RobState(V) /\ npc_actual \in V
  BY <1>1, RobGrow
<1> HIDE DEF V
<1>3. /\ new \in RobState(V) /\ OnlyAnswers(r, id, new)
      /\ new.queue_next[id - 1].dest = r.queue_next[id - 1].dest
      /\ new.queue_next[id - 1].ready
             => r.queue_next[id - 1].ready \/ r.queue_next[id - 1].op_type = "BRANCH"
  BY <1>2, AddNpcActualFields
<1> HIDE DEF new
<1>4. \A i \in Slots : i # id - 1 => new.queue_next[i] = r.queue_next[i]
  BY <1>3 DEF OnlyAnswers
<1>5. id - 1 \in Slots /\ (id - 1) + 1 = id
  BY IdsAreSlots
<1>6. ASSUME NEW i \in Slots
      PROVE  /\ new.queue_next[i].rob_id = r.queue_next[i].rob_id
             /\ new.queue_next[i].op_type = r.queue_next[i].op_type
             /\ new.queue_next[i].busy = r.queue_next[i].busy
             /\ new.queue_next[i].dest = r.queue_next[i].dest
             /\ r.queue_next[i].ready => new.queue_next[i] = r.queue_next[i]
  BY <1>3, <1>4 DEF OnlyAnswers
<1>7. Answers(r, new, {id})
  BY <1>3, <1>4, <1>5, <1>6 DEF Answers, OnlyAnswers
<1>8. r.queue_next[id - 1].op_type # "BRANCH" => Answers(r, new, {})
  BY <1>3, <1>4, <1>5, <1>6 DEF Answers, OnlyAnswers
<1> QED
  BY <1>3, <1>7, <1>8 DEF IsRob, new

\* rob_step answers those whose results are on the bus.
LEMMA BusAnswers ==
    ASSUME NEW r, IsRob(r), EntriesInPlace(r), NEW bus, IsBus(bus)
    PROVE  LET new == rob_step(r, bus)
           IN  IsRob(new) /\ Answers(r, new, Heard(bus))
<1> DEFINE new == rob_step(r, bus)
<1>1. PICK U : r \in RobState(U)
  BY DEF IsRob
<1>2. PICK B : bus \in Bus(B)
  BY DEF IsBus
<1> DEFINE V == U \cup B
<1>3. r \in RobState(V) /\ bus \in Bus(V)
  BY <1>1, <1>2, RobGrow, BusGrow
<1> HIDE DEF V
<1>4. /\ new \in RobState(V)
      /\ new.queue_current = r.queue_current
      /\ new.front_current = r.front_current /\ new.rear_current = r.rear_current
      /\ new.front_next = r.front_next /\ new.rear_next = r.rear_next
      /\ \A i \in Slots : new.queue_next[i] = CaptureEntry(r.queue_next[i], bus)
  BY <1>3, StepFields
<1> HIDE DEF new
<1>5. ASSUME NEW i \in Slots
      PROVE  LET before == r.queue_next[i]
                 after == new.queue_next[i]
             IN  /\ after.rob_id = before.rob_id /\ after.op_type = before.op_type
                 /\ after.busy = before.busy
                 /\ before.ready => after = before
                 /\ after.dest = before.dest
                 /\ after.ready => \/ before.ready \/ i + 1 \in Heard(bus)
                                   \/ IsStore(before.op_type) /\ before.dest # 0
  <2>1. r.queue_next[i] \in RobEntry(V)
    BY <1>3 DEF RobState
  <2>2. new.queue_next[i] = CaptureEntry(r.queue_next[i], bus)
    BY <1>4
  <2>3. r.queue_next[i].rob_id = i + 1 /\ i + 1 \in RobIds
    BY IdsAreSlots DEF EntriesInPlace
  <2> DEFINE before == r.queue_next[i]
             after == CaptureEntry(before, bus)
  <2>4. /\ after.rob_id = before.rob_id
        /\ after.busy = before.busy
        /\ after.op_type = before.op_type
        /\ after.dest = before.dest
        /\ before.ready => after = before
        /\ after.ready => \/ before.ready
                          \/ cdb_is_val_ready(bus, before.rob_id)
                          \/ IsStore(before.op_type) /\ before.dest # 0
    BY <1>3, <2>1, CaptureFields
  <2>5. after = new.queue_next[i]
    BY <2>2
  <2> HIDE DEF after
  <2> QED
    BY <2>3, <2>4, <2>5 DEF Heard
<1>6. Answers(r, new, Heard(bus))
  BY <1>4, <1>5 DEF Answers
<1> QED
  BY <1>4, <1>6 DEF IsRob, new

-----------------------------------------------------------------------------

(* Who holds what. *)

\* What Settled says of one holder.
LEMMA SettledMember ==
    ASSUME NEW held, NEW r, Settled(held, r), NEW h \in held
    PROVE  /\ h[3] \in Flying(r) /\ h[3] \in RobIds /\ h[3] - 1 \in Slots
           /\ ~r.queue_next[h[3] - 1].ready
           /\ Fits(h, r.queue_next[h[3] - 1])
  BY IdsAreSlots DEF Settled, Flying

\* Whatever else happens to the others, who leaves and who only moves on leaves no duplicate.
LEMMA SettledMoves ==
    ASSUME NEW held, NEW r, Settled(held, r), NEW old \in held, NEW new,
           new[3] = old[3], Fits(new, r.queue_next[new[3] - 1]),
           NEW after, \A h \in after : h = new \/ (h \in held /\ h # old)
    PROVE  Settled(after, r)
  BY DEF Settled

\* Settled survives any holder that leaves.
LEMMA SettledShrinks ==
    ASSUME NEW held, NEW r, Settled(held, r), NEW after, \A h \in after : h \in held
    PROVE  Settled(after, r)
  BY DEF Settled

\* Nobody stays who has been answered for.
LEMMA SettledAnswers ==
    ASSUME NEW held, NEW r, Settled(held, r), NEW new, NEW A, Answers(r, new, A),
           NEW after, \A h \in after : h \in held /\ h[3] \notin A
    PROVE  Settled(after, new)
<1>1. Flying(new) = Flying(r)
  BY AnswersKeep
<1>2. ASSUME NEW h \in after
      PROVE  /\ h[3] \in Flying(new)
             /\ ~new.queue_next[h[3] - 1].ready
             /\ Fits(h, new.queue_next[h[3] - 1])
  <2>1. /\ h \in held /\ h[3] \notin A
        /\ h[3] \in Flying(r) /\ h[3] \in RobIds /\ h[3] - 1 \in Slots
        /\ ~r.queue_next[h[3] - 1].ready
        /\ Fits(h, r.queue_next[h[3] - 1])
    BY SettledMember
  <2> DEFINE i == h[3] - 1
             b == r.queue_next[i]
             a == new.queue_next[i]
  <2>2. i \in Slots /\ i + 1 \notin A /\ ~b.ready /\ Fits(h, b)
    BY <2>1, IdsAreSlots
  <2>3. IsStore(b.op_type) => b.dest = 0
    BY <2>2 DEF Fits
  <2>4. a.op_type = b.op_type /\ a.dest = b.dest /\ ~a.ready
    BY <2>2, <2>3 DEF Answers
  <2> HIDE DEF a, b
  <2>5. Fits(h, a)
    BY <2>2, <2>4 DEF Fits
  <2> QED
    BY <1>1, <2>1, <2>4, <2>5 DEF a
<1>3. \A h, g \in after : h[3] = g[3] => h = g
  BY DEF Settled
<1> QED
  BY <1>2, <1>3 DEF Settled

\* Who enters the reorder buffer has an id nobody is held under.
LEMMA SettledEnters ==
    ASSUME NEW held, NEW r, Settled(held, r), NEW new, NEW h,
           h[3] \notin Flying(r),
           \A k \in Flying(r) : k \in Flying(new) /\ new.queue_next[k - 1] = r.queue_next[k - 1],
           h[3] \in Flying(new), ~new.queue_next[h[3] - 1].ready,
           Fits(h, new.queue_next[h[3] - 1]),
           NEW after, \A g \in after : g \in held \/ g = h
    PROVE  Settled(after, new)
  BY DEF Settled

\* Who leaves the reorder buffer has finished and is held nowhere.
LEMMA SettledLeaves ==
    ASSUME NEW held, NEW r, Settled(held, r), NEW new, NEW id,
           id \in Flying(r), r.queue_next[id - 1].ready,
           \A k : k \in Flying(new) <=> k \in Flying(r) /\ k # id,
           \A k \in Flying(new) : new.queue_next[k - 1] = r.queue_next[k - 1],
           NEW after, \A g \in after : g \in held
    PROVE  Settled(after, new)
  BY DEF Settled

-----------------------------------------------------------------------------

(* The alias table. *)

Writes(r, k, reg) ==
    /\ k \in Flying(r)
    /\ HasResult(r.queue_next[k - 1].op_type)
    /\ r.queue_next[k - 1].dest = reg

\* AliasesNameTheYoungestWriter of any reorder buffer and any register file.
Named(r, file) ==
    \A reg \in Regs \ {0} :
        /\ file[reg].busy => Writes(r, file[reg].rob_id, reg)
        /\ \A k : Writes(r, k, reg) =>
              file[reg].busy /\ AgeOf(r, k) <= AgeOf(r, file[reg].rob_id)

FilesOf(V) == [Regs -> [val : V, busy : BOOLEAN, rob_id : {0} \cup RobIds]]

IsFile(file) == \E V : file \in FilesOf(V)

\* An age is a number.
LEMMA AgeType ==
    ASSUME NEW r, IsRob(r), NEW k \in RobIds
    PROVE  AgeOf(r, k) \in Int
<1>1. r.front_next \in Cursor /\ k - 1 \in Slots
  BY RobShape, IdsAreSlots
<1> QED
  BY <1>1, SizeIsPositive DEF AgeOf, AgeFrom, Cursor

\* The aliases do not care for answers.
LEMMA NamedAnswers ==
    ASSUME NEW r, NEW file, Named(r, file), NEW new, NEW A, Answers(r, new, A)
    PROVE  Named(new, file)
<1>1. Flying(new) = Flying(r) /\ \A k : AgeOf(new, k) = AgeOf(r, k)
  BY AnswersKeep
<1>2. ASSUME NEW k, NEW reg PROVE Writes(new, k, reg) = Writes(r, k, reg)
  <2>1. CASE k \in Flying(r)
    <3>1. k - 1 \in Slots
      BY <2>1, IdsAreSlots DEF Flying
    <3>2. /\ new.queue_next[k - 1].op_type = r.queue_next[k - 1].op_type
          /\ ~IsStore(r.queue_next[k - 1].op_type)
                => new.queue_next[k - 1].dest = r.queue_next[k - 1].dest
      BY <3>1 DEF Answers
    <3>3. HasResult(r.queue_next[k - 1].op_type) => ~IsStore(r.queue_next[k - 1].op_type)
      BY DEF HasResult, IsStore, StoreType
    <3> QED
      BY <1>1, <2>1, <3>2, <3>3 DEF Writes
  <2>2. CASE k \notin Flying(r)
    BY <1>1, <2>2 DEF Writes
  <2> QED
    BY <2>1, <2>2
<1> QED
  BY <1>1, <1>2 DEF Named

\* Renaming: the instruction that enters is younger than all.
LEMMA NamedEnters ==
    ASSUME NEW r, IsRob(r), NEW file, IsFile(file), Named(r, file), NEW new, IsRob(new),
           NEW id \in RobIds, NEW rd \in Regs,
           id \notin Flying(r), \A k : k \in Flying(new) <=> k \in Flying(r) \/ k = id,
           \A k \in Flying(r) : /\ new.queue_next[k - 1] = r.queue_next[k - 1]
                                /\ AgeOf(new, k) = AgeOf(r, k)
                                /\ AgeOf(new, k) < AgeOf(new, id),
           new.queue_next[id - 1].dest = rd,
           ~HasResult(new.queue_next[id - 1].op_type) => rd = 0
    PROVE  LET named == reg_file_set_rob_id(file, rd, id)
           IN  /\ IsFile(named) /\ Named(new, named)
               /\ rd # 0 => named[rd].busy /\ named[rd].rob_id = id
               /\ \A reg \in Regs : reg # rd => named[reg] = file[reg]
<1> DEFINE named == reg_file_set_rob_id(file, rd, id)
<1>1. PICK V : file \in FilesOf(V)
  BY DEF IsFile
<1>2. /\ named \in FilesOf(V)
      /\ rd # 0 => named[rd].busy /\ named[rd].rob_id = id
      /\ \A reg \in Regs : reg # rd \/ rd = 0 => named[reg] = file[reg]
  BY <1>1 DEF reg_file_set_rob_id, FilesOf
<1> HIDE DEF named
<1>3. ASSUME NEW k, NEW reg \in Regs \ {0}
      PROVE  Writes(new, k, reg) <=> Writes(r, k, reg) \/ (k = id /\ reg = rd)
  BY <1>3 DEF Writes
<1>4. AgeOf(new, id) \in Int
  BY AgeType
<1>5. ASSUME NEW reg \in Regs \ {0}
      PROVE  /\ named[reg].busy => Writes(new, named[reg].rob_id, reg)
             /\ \A k : Writes(new, k, reg) =>
                   named[reg].busy /\ AgeOf(new, k) <= AgeOf(new, named[reg].rob_id)
  <2>1. CASE reg = rd
    <3>1. named[reg].busy /\ named[reg].rob_id = id
      BY <1>2, <2>1
    <3>2. Writes(new, id, reg)
      BY <1>3, <2>1
    <3>3. ASSUME NEW k, Writes(new, k, reg) PROVE AgeOf(new, k) <= AgeOf(new, id)
      <4>1. k \in RobIds /\ (k \in Flying(r) \/ k = id)
        BY <3>3 DEF Writes, Flying
      <4>2. AgeOf(new, k) \in Int
        BY <4>1, AgeType
      <4> QED
        BY <1>4, <4>1, <4>2
    <3> QED
      BY <3>1, <3>2, <3>3
  <2>2. CASE reg # rd
    <3>1. named[reg] = file[reg]
      BY <1>2, <2>2
    <3>2. \A k : Writes(new, k, reg) <=> Writes(r, k, reg)
      BY <1>3, <2>2
    <3>3. \A k : Writes(r, k, reg) => AgeOf(new, k) = AgeOf(r, k)
      BY DEF Writes
    <3> QED
      BY <3>1, <3>2, <3>3 DEF Named
  <2> QED
    BY <2>1, <2>2
<1>6. Named(new, named)
  BY <1>5 DEF Named
<1> QED
  BY <1>2, <1>6 DEF IsFile, named

\* Committing: the oldest frees the register only if no younger one writes it.
LEMMA NamedLeaves ==
    ASSUME NEW r, IsRob(r), NEW file, IsFile(file), Named(r, file), NEW new,
           NEW id \in Flying(r), NEW val,
           \A k : k \in Flying(new) <=> k \in Flying(r) /\ k # id,
           \A k \in Flying(new) : /\ new.queue_next[k - 1] = r.queue_next[k - 1]
                                  /\ AgeOf(new, k) = AgeOf(r, k) - 1
                                  /\ AgeOf(r, id) < AgeOf(r, k)
    PROVE  LET dest == r.queue_next[id - 1].dest
               freed == reg_file_reg_commit(file, dest, val, id)
           IN  /\ HasResult(r.queue_next[id - 1].op_type)
                      => IsFile(freed) /\ Named(new, freed)
               /\ ~HasResult(r.queue_next[id - 1].op_type) => Named(new, file)
<1> DEFINE dest == r.queue_next[id - 1].dest
           freed == reg_file_reg_commit(file, dest, val, id)
<1>1. PICK U : file \in FilesOf(U)
  BY DEF IsFile
<1> DEFINE V == U \cup {val}
<1>2. file \in FilesOf(V) /\ val \in V
  BY <1>1 DEF FilesOf
<1> HIDE DEF V
<1>3. ASSUME NEW k, NEW reg \in Regs \ {0}, Writes(new, k, reg)
      PROVE  /\ Writes(r, k, reg) /\ k # id
             /\ AgeOf(new, k) = AgeOf(r, k) - 1 /\ AgeOf(r, id) < AgeOf(r, k)
             /\ AgeOf(r, k) \in Int
  <2>1. k \in RobIds /\ k \in Flying(new)
    BY <1>3 DEF Writes, Flying
  <2> QED
    BY <1>3, <2>1, AgeType DEF Writes
<1>4. ASSUME NEW k, NEW reg \in Regs \ {0}, Writes(r, k, reg), k # id
      PROVE  Writes(new, k, reg)
  BY <1>4 DEF Writes
<1>5. AgeOf(r, id) \in Int
  BY AgeType DEF Flying
<1>6. ASSUME NEW reg \in Regs \ {0}, ~Writes(r, id, reg)
      PROVE  /\ file[reg].busy => Writes(new, file[reg].rob_id, reg)
             /\ \A k : Writes(new, k, reg) =>
                   file[reg].busy /\ AgeOf(new, k) <= AgeOf(new, file[reg].rob_id)
  <2>1. file[reg].busy => Writes(r, file[reg].rob_id, reg) /\ file[reg].rob_id # id
    BY <1>6 DEF Named
  <2>2. file[reg].busy => Writes(new, file[reg].rob_id, reg)
    BY <1>4, <2>1
  <2>3. ASSUME NEW k, Writes(new, k, reg)
        PROVE  file[reg].busy /\ AgeOf(new, k) <= AgeOf(new, file[reg].rob_id)
    <3>1. Writes(r, k, reg)
      BY <1>3, <2>3
    <3>2. file[reg].busy /\ AgeOf(r, k) <= AgeOf(r, file[reg].rob_id)
      BY <3>1 DEF Named
    <3>3. Writes(new, file[reg].rob_id, reg)
      BY <2>2, <3>2
    <3> QED
      BY <1>3, <2>3, <3>2, <3>3
  <2> QED
    BY <2>2, <2>3
<1>7. ~HasResult(r.queue_next[id - 1].op_type) => Named(new, file)
  BY <1>6 DEF Named, Writes
<1>8. ASSUME HasResult(r.queue_next[id - 1].op_type)
      PROVE  IsFile(freed) /\ Named(new, freed)
  <2> HIDE DEF dest
  <2>1. /\ freed \in FilesOf(V)
        /\ \A reg \in Regs : reg # dest \/ dest = 0 => freed[reg] = file[reg]
        /\ dest # 0 /\ dest \in Regs =>
               /\ freed[dest].rob_id = file[dest].rob_id
               /\ freed[dest].busy => file[dest].busy /\ file[dest].rob_id # id
               /\ file[dest].busy /\ file[dest].rob_id # id => freed[dest].busy
    <3>1. CASE dest = 0
      <4>1. freed = file
        BY <3>1 DEF reg_file_reg_commit
      <4> QED
        BY <1>2, <3>1, <4>1
    <3>2. CASE dest # 0
      <4>1. freed = [file EXCEPT ![dest].val = val,
                                 ![dest].busy = @ /\ file[dest].rob_id # id]
        BY <3>2 DEF reg_file_reg_commit
      <4> HIDE DEF freed
      <4>2. CASE dest \in Regs
        <5>1. freed \in FilesOf(V)
          BY <1>2, <4>1, <4>2 DEF FilesOf
        <5>2. \A reg \in Regs : reg # dest => freed[reg] = file[reg]
          BY <1>2, <4>1, <4>2 DEF FilesOf
        <5>3. /\ freed[dest].rob_id = file[dest].rob_id
              /\ freed[dest].busy => file[dest].busy /\ file[dest].rob_id # id
              /\ file[dest].busy /\ file[dest].rob_id # id => freed[dest].busy
          BY <1>2, <4>1, <4>2 DEF FilesOf
        <5> QED
          BY <3>2, <5>1, <5>2, <5>3
      <4>3. CASE dest \notin Regs
        <5>1. freed = file
          BY <1>2, <4>1, <4>3 DEF FilesOf
        <5> QED
          BY <1>2, <4>3, <5>1
      <4> QED
        BY <4>2, <4>3
    <3> QED
      BY <3>1, <3>2
  <2> HIDE DEF freed
  <2>2. ASSUME NEW reg \in Regs \ {0}
        PROVE  /\ freed[reg].busy => Writes(new, freed[reg].rob_id, reg)
               /\ \A k : Writes(new, k, reg) =>
                     freed[reg].busy /\ AgeOf(new, k) <= AgeOf(new, freed[reg].rob_id)
    <3>1. CASE reg # dest
      <4>1. ~Writes(r, id, reg)
        BY <3>1 DEF Writes, dest
      <4>2. freed[reg] = file[reg]
        BY <2>1, <3>1
      <4> QED
        BY <1>6, <4>1, <4>2
    <3>2. CASE reg = dest
      <4>1. /\ freed[reg].rob_id = file[reg].rob_id
            /\ freed[reg].busy => file[reg].busy /\ file[reg].rob_id # id
            /\ file[reg].busy /\ file[reg].rob_id # id => freed[reg].busy
        BY <2>1, <3>2
      <4>2. freed[reg].busy => Writes(new, freed[reg].rob_id, reg)
        BY <1>4, <4>1 DEF Named
      <4>3. ASSUME NEW k, Writes(new, k, reg)
            PROVE  freed[reg].busy /\ AgeOf(new, k) <= AgeOf(new, freed[reg].rob_id)
        <5>1. Writes(r, k, reg) /\ k # id /\ AgeOf(r, id) < AgeOf(r, k) /\ AgeOf(r, k) \in Int
              /\ AgeOf(new, k) = AgeOf(r, k) - 1
          BY <1>3, <4>3
        <5>2. file[reg].busy /\ AgeOf(r, k) <= AgeOf(r, file[reg].rob_id)
          BY <5>1 DEF Named
        <5>3. file[reg].rob_id # id
          BY <1>5, <5>1, <5>2
        <5>4. Writes(new, file[reg].rob_id, reg)
          BY <4>1, <4>2, <5>2, <5>3
        <5>5. /\ AgeOf(new, file[reg].rob_id) = AgeOf(r, file[reg].rob_id) - 1
              /\ AgeOf(r, file[reg].rob_id) \in Int
          BY <1>3, <5>4
        <5> QED
          BY <4>1, <5>1, <5>2, <5>3, <5>5
      <4> QED
        BY <4>2, <4>3
    <3> QED
      BY <3>1, <3>2
  <2> QED
    BY <2>1, <2>2 DEF Named, IsFile
<1> QED
  BY <1>7, <1>8 DEF dest, freed

-----------------------------------------------------------------------------

(* The functional units. *)

Put(units, i, unit) == [units EXCEPT ![i] = unit]

\* Writing one unit leaves the others alone.
LEMMA PutFields ==
    ASSUME NEW n, NEW T, NEW units \in [1 .. n -> T], NEW i \in 1 .. n, NEW unit \in T
    PROVE  LET new == Put(units, i, unit)
           IN  /\ new \in [1 .. n -> T] /\ DOMAIN new = 1 .. n /\ DOMAIN units = 1 .. n
               /\ new[i] = unit
               /\ \A k \in 1 .. n : k # i => new[k] = units[k]
  BY DEF Put

\* A unit at work has counted a cycle.
LEMMA ActiveMember ==
    ASSUME NEW units, NEW i
    PROVE  i \in Active(units) <=> i \in DOMAIN units /\ units[i].relative_cycle > 0
  BY DEF Active

\* What PutUnit and its like say of the places before and after.
Turns(new, old, was, now, mine) ==
    /\ was = 0 /\ now > 0 => Gains(new, old, mine)
    /\ was > 0 /\ now > 0 => new = old
    /\ was = 0 /\ now = 0 => new = old
    /\ was > 0 /\ now = 0 => Loses(new, old, mine)

UnitOf(V) == [relative_cycle : Nat, num_cycles : V, entry_rob_id : V, out : V]

IsUnit(unit) == \E V : unit \in UnitOf(V)
IsUnits(units, n) == \E V : units \in [1 .. n -> UnitOf(V)]

\* Who is in the ALU or memory units.
LEMMA UnitMember ==
    ASSUME NEW name, NEW units, NEW h
    PROVE  h \in InUnits(name, units) <=>
               \E i \in DOMAIN units : /\ units[i].relative_cycle > 0
                                       /\ h = Holder(name, i, units[i].entry_rob_id, NA)
  BY DEF InUnits, Active

\* What counting and freeing do to a unit.
LEMMA UnitFields ==
    ASSUME NEW n, NEW units, IsUnits(units, n), NEW i \in 1 .. n
    PROVE  /\ IsUnit(count(units[i])) /\ IsUnit(free(units[i]))
           /\ units[i].relative_cycle \in Nat
           /\ count(units[i]).relative_cycle = units[i].relative_cycle + 1
           /\ count(units[i]).entry_rob_id = units[i].entry_rob_id
           /\ free(units[i]).relative_cycle = 0
           /\ free(units[i]).entry_rob_id = units[i].entry_rob_id
<1>1. PICK V : units \in [1 .. n -> UnitOf(V)]
  BY DEF IsUnits
<1> DEFINE unit == units[i]
           later == unit.relative_cycle + 1
           zero == 0
<1>2. unit \in UnitOf(V)
  BY <1>1
<1>3. later \in Nat /\ zero \in Nat
  BY <1>2 DEF UnitOf
<1>4. count(unit) = [unit EXCEPT !.relative_cycle = later]
  BY DEF count
<1>5. free(unit) = [unit EXCEPT !.relative_cycle = zero]
  BY DEF free
<1> HIDE DEF unit, later, zero
<1>6. /\ count(unit) \in UnitOf(V) /\ count(unit).relative_cycle = later
      /\ count(unit).entry_rob_id = unit.entry_rob_id
  BY <1>2, <1>3, <1>4 DEF UnitOf
<1>7. /\ free(unit) \in UnitOf(V) /\ free(unit).relative_cycle = zero
      /\ free(unit).entry_rob_id = unit.entry_rob_id
  BY <1>2, <1>3, <1>5 DEF UnitOf
<1> QED
  BY <1>2, <1>6, <1>7 DEF unit, later, zero, IsUnit, UnitOf

UnitPut(units, i, unit, n, name) ==
    /\ IsUnits(Put(units, i, unit), n)
    /\ Turns(InUnits(name, Put(units, i, unit)), InUnits(name, units),
             units[i].relative_cycle, unit.relative_cycle,
             Holder(name, i, unit.entry_rob_id, NA))

\* Replacing a unit by one that works for the same instruction, or by an idle one, brings in
\* nobody else.
LEMMA PutUnit ==
    ASSUME NEW n, NEW units, IsUnits(units, n), NEW i \in 1 .. n, NEW unit, IsUnit(unit), NEW name,
           units[i].relative_cycle > 0 =>
               unit.entry_rob_id = units[i].entry_rob_id
    PROVE  UnitPut(units, i, unit, n, name)
<1> DEFINE new == Put(units, i, unit)
           mine == Holder(name, i, unit.entry_rob_id, NA)
<1>1. PICK U, W : units \in [1 .. n -> UnitOf(U)] /\ unit \in UnitOf(W)
  BY DEF IsUnits, IsUnit
<1> DEFINE T == UnitOf(U \cup W)
<1>2. units \in [1 .. n -> T] /\ unit \in T
  <2>1. UnitOf(U) \subseteq T /\ UnitOf(W) \subseteq T
    BY DEF UnitOf
  <2> HIDE DEF T
  <2> QED
    BY <1>1, <2>1
<1>3. \A k \in 1 .. n : units[k].relative_cycle \in Nat
  BY <1>2 DEF UnitOf
<1> HIDE DEF T
<1>4. /\ new \in [1 .. n -> T] /\ DOMAIN new = 1 .. n /\ DOMAIN units = 1 .. n
      /\ new[i] = unit
      /\ \A k \in 1 .. n : k # i => new[k] = units[k]
  BY <1>2 DEF Put
<1> HIDE DEF new
<1>5. ASSUME NEW h
      PROVE  /\ h \in InUnits(name, new) <=>
                    \/ unit.relative_cycle > 0 /\ h = mine
                    \/ \E k \in 1 .. n : /\ k # i /\ units[k].relative_cycle > 0
                                         /\ h = Holder(name, k, units[k].entry_rob_id, NA)
             /\ h \in InUnits(name, units) <=>
                    \/ units[i].relative_cycle > 0 /\ h = mine
                    \/ \E k \in 1 .. n : /\ k # i /\ units[k].relative_cycle > 0
                                         /\ h = Holder(name, k, units[k].entry_rob_id, NA)
  <2>1. h \in InUnits(name, new) <=>
           \E k \in 1 .. n : /\ new[k].relative_cycle > 0
                             /\ h = Holder(name, k, new[k].entry_rob_id, NA)
    <3>1. h \in InUnits(name, new) <=>
             \E k \in DOMAIN new : /\ new[k].relative_cycle > 0
                                   /\ h = Holder(name, k, new[k].entry_rob_id, NA)
      BY UnitMember
    <3> QED
      BY <1>4, <3>1
  <2>2. h \in InUnits(name, units) <=>
           \E k \in 1 .. n : /\ units[k].relative_cycle > 0
                             /\ h = Holder(name, k, units[k].entry_rob_id, NA)
    <3>1. h \in InUnits(name, units) <=>
             \E k \in DOMAIN units : /\ units[k].relative_cycle > 0
                                   /\ h = Holder(name, k, units[k].entry_rob_id, NA)
      BY UnitMember
    <3> QED
      BY <1>4, <3>1
  <2> QED
    BY <1>3, <1>4, <2>1, <2>2
<1>6. \A k : k # i => mine # Holder(name, k, units[k].entry_rob_id, NA)
  BY HolderParts
<1> HIDE DEF mine
<1>7. Turns(InUnits(name, new), InUnits(name, units),
            units[i].relative_cycle, unit.relative_cycle, mine)
  <2>1. units[i].relative_cycle = 0 => ~(units[i].relative_cycle > 0)
    BY <1>3
  <2>2. unit.relative_cycle = 0 => ~(unit.relative_cycle > 0)
    BY <1>1 DEF UnitOf
  <2> QED
    BY <1>5, <1>6, <2>1, <2>2 DEF Turns, Gains, Loses
<1>8. IsUnits(new, n)
  BY <1>4 DEF T, IsUnits
<1> QED
  BY <1>7, <1>8 DEF new, mine, UnitPut

\* alu_clear and memory_clear leave nobody in the units.
LEMMA ClearUnits ==
    ASSUME NEW n, NEW units, IsUnits(units, n), NEW name
    PROVE  LET new == [i \in DOMAIN units |->
                          [units[i] EXCEPT !.num_cycles = -1, !.relative_cycle = 0]]
           IN  IsUnits(new, n) /\ InUnits(name, new) = {}
<1> DEFINE zero == 0
           minus_one == -1
           cleared(unit) == [unit EXCEPT !.num_cycles = minus_one, !.relative_cycle = zero]
           new == [i \in DOMAIN units |-> cleared(units[i])]
<1>1. PICK V : units \in [1 .. n -> UnitOf(V)]
  BY DEF IsUnits
<1> DEFINE W == V \cup {minus_one}
<1>2. zero \in Nat /\ minus_one \in W
  OBVIOUS
<1>3. \A i \in 1 .. n : units[i] \in UnitOf(W)
  BY <1>1 DEF UnitOf
<1> HIDE DEF minus_one, W
<1>4. ASSUME NEW unit \in UnitOf(W)
      PROVE  cleared(unit) \in UnitOf(W) /\ cleared(unit).relative_cycle = zero
  <2> HIDE DEF zero
  <2> QED
    BY <1>2, <1>4 DEF UnitOf
<1> HIDE DEF cleared
<1>5. DOMAIN units = 1 .. n
  BY <1>1
<1>6. /\ new \in [1 .. n -> UnitOf(W)] /\ DOMAIN new = 1 .. n
      /\ \A i \in 1 .. n : new[i].relative_cycle = zero
  BY <1>3, <1>4, <1>5
<1> HIDE DEF new
<1>7. InUnits(name, new) = {}
  <2>1. ASSUME NEW h PROVE h \notin InUnits(name, new)
    <3>1. h \in InUnits(name, new) <=>
             \E k \in 1 .. n : /\ new[k].relative_cycle > 0
                               /\ h = Holder(name, k, new[k].entry_rob_id, NA)
      <4>1. h \in InUnits(name, new) <=>
               \E k \in DOMAIN new : /\ new[k].relative_cycle > 0
                                      /\ h = Holder(name, k, new[k].entry_rob_id, NA)
        BY UnitMember
      <4> QED
        BY <1>6, <4>1
    <3> QED
      BY <1>6, <3>1 DEF zero
  <2> QED
    BY <2>1
<1>8. IsUnits(new, n)
  BY <1>6 DEF IsUnits
<1> QED
  BY <1>7, <1>8 DEF new, cleared, zero, minus_one

-----------------------------------------------------------------------------

KindOf(unit) == IF unit.entry_is_jump THEN "JUMP" ELSE "BRANCH"

BranchUnitOf(V) ==
    [relative_cycle : Nat, num_cycles : V, entry_rob_id : V, out_cdb : V, out_npc_actual : V,
     entry_is_jump : BOOLEAN]

IsBranchUnit(unit) == \E V : unit \in BranchUnitOf(V)
IsBranchUnits(units, n) == \E V : units \in [1 .. n -> BranchUnitOf(V)]

\* Who is in the branch units.
LEMMA BranchUnitMember ==
    ASSUME NEW units, NEW h
    PROVE  h \in InBranchUnits(units) <=>
               \E i \in DOMAIN units : /\ units[i].relative_cycle > 0
                                       /\ h = Holder("branch", i, units[i].entry_rob_id, KindOf(units[i]))
  BY DEF InBranchUnits, Active, KindOf

\* What counting and freeing do to a branch unit.
LEMMA BranchUnitFields ==
    ASSUME NEW n, NEW units, IsBranchUnits(units, n), NEW i \in 1 .. n
    PROVE  /\ IsBranchUnit(count(units[i])) /\ IsBranchUnit(free(units[i]))
           /\ units[i].relative_cycle \in Nat
           /\ count(units[i]).relative_cycle = units[i].relative_cycle + 1
           /\ count(units[i]).entry_rob_id = units[i].entry_rob_id
           /\ count(units[i]).entry_is_jump = units[i].entry_is_jump
           /\ free(units[i]).relative_cycle = 0
           /\ free(units[i]).entry_rob_id = units[i].entry_rob_id
           /\ free(units[i]).entry_is_jump = units[i].entry_is_jump
<1>1. PICK V : units \in [1 .. n -> BranchUnitOf(V)]
  BY DEF IsBranchUnits
<1> DEFINE unit == units[i]
           later == unit.relative_cycle + 1
           zero == 0
<1>2. unit \in BranchUnitOf(V)
  BY <1>1
<1>3. later \in Nat /\ zero \in Nat
  BY <1>2 DEF BranchUnitOf
<1>4. count(unit) = [unit EXCEPT !.relative_cycle = later]
  BY DEF count
<1>5. free(unit) = [unit EXCEPT !.relative_cycle = zero]
  BY DEF free
<1> HIDE DEF unit, later, zero
<1>6. /\ count(unit) \in BranchUnitOf(V) /\ count(unit).relative_cycle = later
      /\ count(unit).entry_rob_id = unit.entry_rob_id
      /\ count(unit).entry_is_jump = unit.entry_is_jump
  BY <1>2, <1>3, <1>4 DEF BranchUnitOf
<1>7. /\ free(unit) \in BranchUnitOf(V) /\ free(unit).relative_cycle = zero
      /\ free(unit).entry_rob_id = unit.entry_rob_id
      /\ free(unit).entry_is_jump = unit.entry_is_jump
  BY <1>2, <1>3, <1>5 DEF BranchUnitOf
<1> QED
  BY <1>2, <1>6, <1>7 DEF unit, later, zero, IsBranchUnit, BranchUnitOf

BranchUnitPut(units, i, unit, n) ==
    /\ IsBranchUnits(Put(units, i, unit), n)
    /\ Turns(InBranchUnits(Put(units, i, unit)), InBranchUnits(units),
             units[i].relative_cycle, unit.relative_cycle,
             Holder("branch", i, unit.entry_rob_id, KindOf(unit)))

\* Replacing a branch unit by one that works for the same instruction brings in nobody else.
LEMMA PutBranchUnit ==
    ASSUME NEW n, NEW units, IsBranchUnits(units, n), NEW i \in 1 .. n, NEW unit,
           IsBranchUnit(unit),
           units[i].relative_cycle > 0 =>
               /\ unit.entry_rob_id = units[i].entry_rob_id
               /\ KindOf(unit) = KindOf(units[i])
    PROVE  BranchUnitPut(units, i, unit, n)
<1> DEFINE new == Put(units, i, unit)
           mine == Holder("branch", i, unit.entry_rob_id, KindOf(unit))
<1>1. PICK U, W : units \in [1 .. n -> BranchUnitOf(U)] /\ unit \in BranchUnitOf(W)
  BY DEF IsBranchUnits, IsBranchUnit
<1> DEFINE T == BranchUnitOf(U \cup W)
<1>2. units \in [1 .. n -> T] /\ unit \in T
  <2>1. BranchUnitOf(U) \subseteq T /\ BranchUnitOf(W) \subseteq T
    BY DEF BranchUnitOf
  <2> HIDE DEF T
  <2> QED
    BY <1>1, <2>1
<1>3. \A k \in 1 .. n : units[k].relative_cycle \in Nat
  BY <1>2 DEF BranchUnitOf
<1> HIDE DEF T
<1>4. /\ new \in [1 .. n -> T] /\ DOMAIN new = 1 .. n /\ DOMAIN units = 1 .. n
      /\ new[i] = unit
      /\ \A k \in 1 .. n : k # i => new[k] = units[k]
  BY <1>2 DEF Put
<1> HIDE DEF new
<1>5. ASSUME NEW h
      PROVE  /\ h \in InBranchUnits(new) <=>
                    \/ unit.relative_cycle > 0 /\ h = mine
                    \/ \E k \in 1 .. n : /\ k # i /\ units[k].relative_cycle > 0
                                         /\ h = Holder("branch", k, units[k].entry_rob_id, KindOf(units[k]))
             /\ h \in InBranchUnits(units) <=>
                    \/ units[i].relative_cycle > 0 /\ h = mine
                    \/ \E k \in 1 .. n : /\ k # i /\ units[k].relative_cycle > 0
                                         /\ h = Holder("branch", k, units[k].entry_rob_id, KindOf(units[k]))
  <2>1. h \in InBranchUnits(new) <=>
           \E k \in 1 .. n : /\ new[k].relative_cycle > 0
                             /\ h = Holder("branch", k, new[k].entry_rob_id, KindOf(new[k]))
    <3>1. h \in InBranchUnits(new) <=>
             \E k \in DOMAIN new : /\ new[k].relative_cycle > 0
                                   /\ h = Holder("branch", k, new[k].entry_rob_id, KindOf(new[k]))
      BY BranchUnitMember
    <3> QED
      BY <1>4, <3>1
  <2>2. h \in InBranchUnits(units) <=>
           \E k \in 1 .. n : /\ units[k].relative_cycle > 0
                             /\ h = Holder("branch", k, units[k].entry_rob_id, KindOf(units[k]))
    <3>1. h \in InBranchUnits(units) <=>
             \E k \in DOMAIN units : /\ units[k].relative_cycle > 0
                                   /\ h = Holder("branch", k, units[k].entry_rob_id, KindOf(units[k]))
      BY BranchUnitMember
    <3> QED
      BY <1>4, <3>1
  <2> QED
    BY <1>3, <1>4, <2>1, <2>2
<1>6. \A k : k # i => mine # Holder("branch", k, units[k].entry_rob_id, KindOf(units[k]))
  BY HolderParts
<1> HIDE DEF mine
<1>7. Turns(InBranchUnits(new), InBranchUnits(units),
            units[i].relative_cycle, unit.relative_cycle, mine)
  <2>1. units[i].relative_cycle = 0 => ~(units[i].relative_cycle > 0)
    BY <1>3
  <2>2. unit.relative_cycle = 0 => ~(unit.relative_cycle > 0)
    BY <1>1 DEF BranchUnitOf
  <2> QED
    BY <1>5, <1>6, <2>1, <2>2 DEF Turns, Gains, Loses
<1>8. IsBranchUnits(new, n)
  BY <1>4 DEF T, IsBranchUnits
<1> QED
  BY <1>7, <1>8 DEF new, mine, BranchUnitPut

\* branch_clear leaves nobody in the units.
LEMMA ClearBranchUnits ==
    ASSUME NEW n, NEW units, IsBranchUnits(units, n)
    PROVE  LET new == [i \in DOMAIN units |->
                          [units[i] EXCEPT !.num_cycles = -1, !.relative_cycle = 0]]
           IN  IsBranchUnits(new, n) /\ InBranchUnits(new) = {}
<1> DEFINE zero == 0
           minus_one == -1
           cleared(unit) == [unit EXCEPT !.num_cycles = minus_one, !.relative_cycle = zero]
           new == [i \in DOMAIN units |-> cleared(units[i])]
<1>1. PICK V : units \in [1 .. n -> BranchUnitOf(V)]
  BY DEF IsBranchUnits
<1> DEFINE W == V \cup {minus_one}
<1>2. zero \in Nat /\ minus_one \in W
  OBVIOUS
<1>3. \A i \in 1 .. n : units[i] \in BranchUnitOf(W)
  BY <1>1 DEF BranchUnitOf
<1> HIDE DEF minus_one, W
<1>4. ASSUME NEW unit \in BranchUnitOf(W)
      PROVE  cleared(unit) \in BranchUnitOf(W) /\ cleared(unit).relative_cycle = zero
  <2> HIDE DEF zero
  <2> QED
    BY <1>2, <1>4 DEF BranchUnitOf
<1> HIDE DEF cleared
<1>5. DOMAIN units = 1 .. n
  BY <1>1
<1>6. /\ new \in [1 .. n -> BranchUnitOf(W)] /\ DOMAIN new = 1 .. n
      /\ \A i \in 1 .. n : new[i].relative_cycle = zero
  BY <1>3, <1>4, <1>5
<1> HIDE DEF new
<1>7. InBranchUnits(new) = {}
  <2>1. ASSUME NEW h PROVE h \notin InBranchUnits(new)
    <3>1. h \in InBranchUnits(new) <=>
             \E k \in 1 .. n : /\ new[k].relative_cycle > 0
                               /\ h = Holder("branch", k, new[k].entry_rob_id, KindOf(new[k]))
      <4>1. h \in InBranchUnits(new) <=>
               \E k \in DOMAIN new : /\ new[k].relative_cycle > 0
                                      /\ h = Holder("branch", k, new[k].entry_rob_id, KindOf(new[k]))
        BY BranchUnitMember
      <4> QED
        BY <1>6, <4>1
    <3> QED
      BY <1>6, <3>1 DEF zero
  <2> QED
    BY <2>1
<1>8. IsBranchUnits(new, n)
  BY <1>6 DEF IsBranchUnits
<1> QED
  BY <1>7, <1>8 DEF new, cleared, zero, minus_one

-----------------------------------------------------------------------------

\* An address unit answers only for a store.
StoreCycles(unit) == IF unit.is_store THEN unit.relative_cycle ELSE 0

AddressUnitOf(V) ==
    [relative_cycle : Nat, is_store : BOOLEAN, address : V, dest_id : V]

IsAddressUnit(unit) == \E V : unit \in AddressUnitOf(V)
IsAddressUnits(units, n) == \E V : units \in [1 .. n -> AddressUnitOf(V)]

\* Which stores are in the address units.
LEMMA AddressUnitMember ==
    ASSUME NEW n, NEW units, IsAddressUnits(units, n), NEW h
    PROVE  h \in InAddressUnits(units) <=>
               \E i \in DOMAIN units : /\ StoreCycles(units[i]) > 0
                                       /\ h = Holder("address", i, units[i].dest_id, NA)
<1>1. PICK V : units \in [1 .. n -> AddressUnitOf(V)]
  BY DEF IsAddressUnits
<1>2. \A i \in DOMAIN units : StoreCycles(units[i]) > 0
                                 <=> units[i].relative_cycle > 0 /\ units[i].is_store
  BY <1>1 DEF StoreCycles, AddressUnitOf
<1>3. h \in InAddressUnits(units) <=>
         \E i \in DOMAIN units : /\ units[i].relative_cycle > 0 /\ units[i].is_store
                                 /\ h = Holder("address", i, units[i].dest_id, NA)
  BY DEF InAddressUnits, Active
<1> QED
  BY <1>2, <1>3

\* What counting and freeing do to an address unit.
LEMMA AddressUnitFields ==
    ASSUME NEW n, NEW units, IsAddressUnits(units, n), NEW i \in 1 .. n
    PROVE  /\ IsAddressUnit(count(units[i])) /\ IsAddressUnit(free(units[i]))
           /\ units[i].relative_cycle \in Nat
           /\ count(units[i]).relative_cycle = units[i].relative_cycle + 1
           /\ count(units[i]).dest_id = units[i].dest_id
           /\ count(units[i]).is_store = units[i].is_store
           /\ free(units[i]).relative_cycle = 0
           /\ free(units[i]).dest_id = units[i].dest_id
           /\ StoreCycles(free(units[i])) = 0
<1>1. PICK V : units \in [1 .. n -> AddressUnitOf(V)]
  BY DEF IsAddressUnits
<1> DEFINE unit == units[i]
           later == unit.relative_cycle + 1
           zero == 0
<1>2. unit \in AddressUnitOf(V)
  BY <1>1
<1>3. later \in Nat /\ zero \in Nat
  BY <1>2 DEF AddressUnitOf
<1>4. count(unit) = [unit EXCEPT !.relative_cycle = later]
  BY DEF count
<1>5. free(unit) = [unit EXCEPT !.relative_cycle = zero]
  BY DEF free
<1> HIDE DEF unit, later, zero
<1>6. /\ count(unit) \in AddressUnitOf(V) /\ count(unit).relative_cycle = later
      /\ count(unit).dest_id = unit.dest_id
      /\ count(unit).is_store = unit.is_store
  BY <1>2, <1>3, <1>4 DEF AddressUnitOf
<1>7. /\ free(unit) \in AddressUnitOf(V) /\ free(unit).relative_cycle = zero
      /\ free(unit).dest_id = unit.dest_id
  BY <1>2, <1>3, <1>5 DEF AddressUnitOf
<1> QED
  BY <1>2, <1>6, <1>7 DEF unit, later, zero, IsAddressUnit, AddressUnitOf, StoreCycles

AddressUnitPut(units, i, unit, n) ==
    /\ IsAddressUnits(Put(units, i, unit), n)
    /\ Turns(InAddressUnits(Put(units, i, unit)), InAddressUnits(units),
             StoreCycles(units[i]), StoreCycles(unit),
             Holder("address", i, unit.dest_id, NA))

\* Replacing an address unit by one that works for the same store brings in nobody else.
LEMMA PutAddressUnit ==
    ASSUME NEW n, NEW units, IsAddressUnits(units, n), NEW i \in 1 .. n, NEW unit,
           IsAddressUnit(unit),
           StoreCycles(units[i]) > 0 =>
               unit.dest_id = units[i].dest_id
    PROVE  AddressUnitPut(units, i, unit, n)
<1> DEFINE new == Put(units, i, unit)
           mine == Holder("address", i, unit.dest_id, NA)
<1>1. PICK U, W : units \in [1 .. n -> AddressUnitOf(U)] /\ unit \in AddressUnitOf(W)
  BY DEF IsAddressUnits, IsAddressUnit
<1> DEFINE T == AddressUnitOf(U \cup W)
<1>2. units \in [1 .. n -> T] /\ unit \in T
  <2>1. AddressUnitOf(U) \subseteq T /\ AddressUnitOf(W) \subseteq T
    BY DEF AddressUnitOf
  <2> HIDE DEF T
  <2> QED
    BY <1>1, <2>1
<1>3. \A k \in 1 .. n : StoreCycles(units[k]) \in Nat
  BY <1>2 DEF AddressUnitOf, StoreCycles
<1> HIDE DEF T
<1>4. /\ new \in [1 .. n -> T] /\ DOMAIN new = 1 .. n /\ DOMAIN units = 1 .. n
      /\ new[i] = unit
      /\ \A k \in 1 .. n : k # i => new[k] = units[k]
  BY <1>2 DEF Put
<1> HIDE DEF new
<1>5. ASSUME NEW h
      PROVE  /\ h \in InAddressUnits(new) <=>
                    \/ StoreCycles(unit) > 0 /\ h = mine
                    \/ \E k \in 1 .. n : /\ k # i /\ StoreCycles(units[k]) > 0
                                         /\ h = Holder("address", k, units[k].dest_id, NA)
             /\ h \in InAddressUnits(units) <=>
                    \/ StoreCycles(units[i]) > 0 /\ h = mine
                    \/ \E k \in 1 .. n : /\ k # i /\ StoreCycles(units[k]) > 0
                                         /\ h = Holder("address", k, units[k].dest_id, NA)
  <2> IsAddressUnits(new, n)
    BY <1>4 DEF T, IsAddressUnits
  <2>1. h \in InAddressUnits(new) <=>
           \E k \in 1 .. n : /\ StoreCycles(new[k]) > 0
                             /\ h = Holder("address", k, new[k].dest_id, NA)
    <3>1. h \in InAddressUnits(new) <=>
             \E k \in DOMAIN new : /\ StoreCycles(new[k]) > 0
                                   /\ h = Holder("address", k, new[k].dest_id, NA)
      BY AddressUnitMember
    <3> QED
      BY <1>4, <3>1
  <2>2. h \in InAddressUnits(units) <=>
           \E k \in 1 .. n : /\ StoreCycles(units[k]) > 0
                             /\ h = Holder("address", k, units[k].dest_id, NA)
    <3>1. h \in InAddressUnits(units) <=>
             \E k \in DOMAIN units : /\ StoreCycles(units[k]) > 0
                                   /\ h = Holder("address", k, units[k].dest_id, NA)
      BY AddressUnitMember
    <3> QED
      BY <1>4, <3>1
  <2> QED
    BY <1>3, <1>4, <2>1, <2>2
<1>6. \A k : k # i => mine # Holder("address", k, units[k].dest_id, NA)
  BY HolderParts
<1> HIDE DEF mine
<1>7. Turns(InAddressUnits(new), InAddressUnits(units),
            StoreCycles(units[i]), StoreCycles(unit), mine)
  <2>1. StoreCycles(units[i]) = 0 => ~(StoreCycles(units[i]) > 0)
    BY <1>3
  <2>2. StoreCycles(unit) = 0 => ~(StoreCycles(unit) > 0)
    BY <1>1 DEF AddressUnitOf, StoreCycles
  <2> QED
    BY <1>5, <1>6, <2>1, <2>2 DEF Turns, Gains, Loses
<1>8. IsAddressUnits(new, n)
  BY <1>4 DEF T, IsAddressUnits
<1> QED
  BY <1>7, <1>8 DEF new, mine, AddressUnitPut

\* address_clear leaves nobody in the units.
LEMMA ClearAddressUnits ==
    ASSUME NEW n, NEW units, IsAddressUnits(units, n)
    PROVE  LET new == [i \in DOMAIN units |-> free(units[i])]
           IN  IsAddressUnits(new, n) /\ InAddressUnits(new) = {}
<1> DEFINE zero == 0
           new == [i \in DOMAIN units |-> free(units[i])]
<1>1. PICK V : units \in [1 .. n -> AddressUnitOf(V)]
  BY DEF IsAddressUnits
<1>2. ASSUME NEW unit \in AddressUnitOf(V)
      PROVE  free(unit) \in AddressUnitOf(V) /\ StoreCycles(free(unit)) = zero
  <2>1. free(unit) = [unit EXCEPT !.relative_cycle = zero] /\ zero \in Nat
    BY DEF free
  <2> HIDE DEF zero
  <2>2. free(unit) \in AddressUnitOf(V) /\ free(unit).relative_cycle = zero
    BY <1>2, <2>1 DEF AddressUnitOf
  <2> QED
    BY <2>2 DEF StoreCycles, zero
<1>3. DOMAIN units = 1 .. n
  BY <1>1
<1>4. /\ new \in [1 .. n -> AddressUnitOf(V)] /\ DOMAIN new = 1 .. n
      /\ \A i \in 1 .. n : StoreCycles(new[i]) = zero
  BY <1>1, <1>2, <1>3
<1> HIDE DEF new
<1>5. IsAddressUnits(new, n)
  BY <1>4 DEF IsAddressUnits
<1>6. InAddressUnits(new) = {}
  <2>1. ASSUME NEW h PROVE h \notin InAddressUnits(new)
    <3>1. h \in InAddressUnits(new) <=>
             \E k \in DOMAIN new : /\ StoreCycles(new[k]) > 0
                                    /\ h = Holder("address", k, new[k].dest_id, NA)
      BY <1>5, AddressUnitMember
    <3> QED
      BY <1>4, <3>1 DEF zero
  <2> QED
    BY <2>1
<1> QED
  BY <1>5, <1>6 DEF new

-----------------------------------------------------------------------------

(* The bus. *)

\* Whose results are on the bus.
LEMMA BusMember ==
    ASSUME NEW bus, NEW h
    PROVE  h \in InBus(bus) <=> \E i \in DOMAIN bus : h = Holder("cdb", i, bus[i].rob_id, NA)
  BY DEF InBus

\* cdb_write adds at most one result.
LEMMA BusWrites ==
    ASSUME NEW bus, IsBus(bus), NEW id \in RobIds, NEW val
    PROVE  LET new == cdb_write(bus, id, val)
           IN  /\ IsBus(new)
               /\ \E i : \A h \in InBus(new) : h \in InBus(bus) \/ h = Holder("cdb", i, id, NA)
<1> DEFINE new == cdb_write(bus, id, val)
<1>1. PICK U : bus \in Bus(U)
  BY DEF IsBus
<1> DEFINE V == U \cup {val}
<1>2. bus \in Bus(V) /\ val \in V
  BY <1>1, BusGrow
<1> HIDE DEF V
<1>3. new \in Bus(V)
  BY <1>2, WriteType
<1>4. CASE Len(bus) < CDB_SIZE
  <2> DEFINE e == [rob_id |-> id, val |-> val]
  <2>1. new = Append(bus, e) /\ e \in [rob_id : RobIds, val : V]
    BY <1>2, <1>4 DEF cdb_write
  <2>2. e.rob_id = id
    OBVIOUS
  <2> HIDE DEF e
  <2>3. /\ DOMAIN new = 1 .. Len(bus) + 1 /\ DOMAIN bus = 1 .. Len(bus)
        /\ Len(bus) \in Nat
        /\ new[Len(bus) + 1] = e
        /\ \A i \in 1 .. Len(bus) : new[i] = bus[i]
    BY <1>2, <2>1 DEF Bus
  <2> HIDE DEF new
  <2>4. ASSUME NEW h \in InBus(new)
        PROVE  h \in InBus(bus) \/ h = Holder("cdb", Len(bus) + 1, id, NA)
    <3>1. PICK i \in DOMAIN new : h = Holder("cdb", i, new[i].rob_id, NA)
      BY <2>4, BusMember
    <3>2. CASE i = Len(bus) + 1
      BY <2>2, <2>3, <3>1, <3>2
    <3>3. CASE i # Len(bus) + 1
      <4>1. i \in DOMAIN bus /\ new[i] = bus[i]
        BY <2>3, <3>1, <3>3
      <4>2. h = Holder("cdb", i, bus[i].rob_id, NA)
        BY <3>1, <4>1
      <4> QED
        BY <4>1, <4>2, BusMember
    <3> QED
      BY <3>2, <3>3
  <2> QED
    BY <1>3, <2>4 DEF IsBus, new
<1>5. CASE ~(Len(bus) < CDB_SIZE)
  <2>1. new = bus
    BY <1>5 DEF cdb_write
  <2> QED
    BY <2>1
<1> QED
  BY <1>4, <1>5

\* Who is heard is on the bus.
LEMMA HeardOnBus ==
    ASSUME NEW bus, NEW id \in Heard(bus)
    PROVE  \E i : Holder("cdb", i, id, NA) \in InBus(bus)
<1>1. PICK i \in DOMAIN bus : bus[i].rob_id = id
  BY DEF Heard, cdb_is_val_ready
<1>2. Holder("cdb", i, bus[i].rob_id, NA) \in InBus(bus)
  BY <1>1, BusMember
<1> QED
  BY <1>1, <1>2

\* A cleared bus is empty.
LEMMA ClearBus == IsBus(cdb_init) /\ InBus(cdb_init) = {} /\ \A bus : cdb_clear(bus) = cdb_init
<1>1. cdb_init \in Bus({}) /\ DOMAIN cdb_init = {}
  BY DEF cdb_init, Bus
<1> QED
  BY <1>1 DEF IsBus, InBus, cdb_clear, cdb_init

-----------------------------------------------------------------------------

(* The memory buffers read the copy of the reorder buffer no step of the cycle changes. *)

\* The buffers read nothing of the reorder buffer but its current copy.
LEMMA SameReaders ==
    ASSUME NEW buffers, NEW r, NEW new,
           new.queue_current = r.queue_current, new.front_current = r.front_current
    PROVE  BuffersInStep(buffers, r) => BuffersInStep(buffers, new)
<1>1. \A id, addr : rob_earlier_stores(new, id, addr) = rob_earlier_stores(r, id, addr)
  BY DEF rob_earlier_stores
<1>2. LoadsToMemory(buffers, new) = LoadsToMemory(buffers, r)
  BY <1>1 DEF LoadsToMemory
<1>3. \A i : GivenAway(buffers, new, i) = GivenAway(buffers, r, i)
  BY <1>2 DEF GivenAway
<1> QED
  BY <1>3 DEF BuffersInStep

-----------------------------------------------------------------------------

(* The front end. *)

Q == INST_QUEUE_SIZE
W == ISSUE_WIDTH

\* The sizes of config.h.
LEMMA QueueSizes == Q \in Nat \ {0} /\ W \in Nat \ {0}
  BY InstQueueAssumption DEF Q, W

IsQueue(q) == \E V : q \in InstQueueState(V) /\ \A inst \in V : IsInst(inst)

\* An empty latch names no register.
LEMMA NoInstIsInst == IsInst(NoInst) /\ 0 \in Regs
  BY NumRegsAssumption DEF IsInst, NoInst, Regs

\* The slot behind a slot of the instruction queue.
LEMMA NextSlot ==
    ASSUME NEW x \in -1 .. Q - 1
    PROVE  (x + 1) % Q \in 0 .. Q - 1
<1>1. Q \in Nat \ {0} /\ x + 1 \in 0 .. 2 * Q - 1
  BY QueueSizes
<1>2. (x + 1) % Q = IF x + 1 < Q THEN x + 1 ELSE (x + 1) - Q
  BY <1>1, WrapsOnce
<1> QED
  BY <1>1, <1>2

\* inst_queue_enqueue keeps the shape, and the room it found at the start of the cycle.
LEMMA QueueEnqueues ==
    ASSUME NEW q, IsQueue(q), NEW inst, IsInst(inst)
    PROVE  /\ IsQueue(inst_queue_enqueue(q, inst))
           /\ inst_queue_free_slots(q) => inst_queue_free_slots(inst_queue_enqueue(q, inst))
<1>1. PICK U : q \in InstQueueState(U) /\ \A i \in U : IsInst(i)
  BY DEF IsQueue
<1> DEFINE V == U \cup {inst}
           rear == (q.rear_next + 1) % Q
           front == IF q.front_next = -1 THEN 0 ELSE q.front_next
           next == [q.queue_next EXCEPT ![rear] = inst]
<1>2. q \in InstQueueState(V) /\ inst \in V /\ \A i \in V : IsInst(i)
  BY <1>1 DEF InstQueueState
<1> HIDE DEF V
<1>3. /\ q.queue_next \in [0 .. Q - 1 -> V]
      /\ q.front_next \in -1 .. Q - 1 /\ q.rear_next \in -1 .. Q - 1
  BY <1>2 DEF InstQueueState, Q
<1>4. rear \in 0 .. Q - 1
  BY <1>3, NextSlot
<1>5. rear \in -1 .. Q - 1 /\ front \in -1 .. Q - 1
  BY <1>3, <1>4, QueueSizes
<1> HIDE DEF rear, front
<1>6. next \in [0 .. Q - 1 -> V]
  BY <1>2, <1>3, <1>4
<1>7. inst_queue_enqueue(q, inst) =
         [q EXCEPT !.front_next = front, !.rear_next = rear, !.queue_next = next]
  BY <1>2 DEF inst_queue_enqueue, front, rear, next, Q, InstQueueState
<1> HIDE DEF next
<1>8. inst_queue_enqueue(q, inst) \in InstQueueState(V)
  BY <1>2, <1>5, <1>6, <1>7 DEF InstQueueState, Q
<1>9. /\ inst_queue_enqueue(q, inst).front_current = q.front_current
      /\ inst_queue_enqueue(q, inst).rear_current = q.rear_current
  BY <1>2, <1>7 DEF InstQueueState
<1>10. inst_queue_free_slots(q) => inst_queue_free_slots(inst_queue_enqueue(q, inst))
  BY <1>9 DEF inst_queue_free_slots
<1> QED
  BY <1>2, <1>8, <1>10 DEF IsQueue

\* inst_queue_dequeue keeps the shape.
LEMMA QueueDequeues ==
    ASSUME NEW q, IsQueue(q)
    PROVE  IsQueue(inst_queue_dequeue(q))
<1>1. PICK V : q \in InstQueueState(V) /\ \A i \in V : IsInst(i)
  BY DEF IsQueue
<1> DEFINE last == q.front_next = q.rear_next
           front == IF last THEN -1 ELSE (q.front_next + 1) % Q
           rear == IF last THEN -1 ELSE q.rear_next
<1>2. q.front_next \in -1 .. Q - 1 /\ q.rear_next \in -1 .. Q - 1
  BY <1>1 DEF InstQueueState, Q
<1>3. front \in -1 .. Q - 1 /\ rear \in -1 .. Q - 1
  <2>1. (q.front_next + 1) % Q \in 0 .. Q - 1
    BY <1>2, NextSlot
  <2> QED
    BY <1>2, <2>1, QueueSizes
<1>4. inst_queue_dequeue(q) = [q EXCEPT !.front_next = front, !.rear_next = rear]
  BY <1>1 DEF inst_queue_dequeue, front, rear, last, Q, InstQueueState
<1> HIDE DEF front, rear
<1>5. inst_queue_dequeue(q) \in InstQueueState(V)
  BY <1>1, <1>3, <1>4 DEF InstQueueState, Q
<1> QED
  BY <1>1, <1>5 DEF IsQueue

\* inst_queue_clear and inst_queue_update_current keep the shape.
LEMMA QueueClears ==
    ASSUME NEW q, IsQueue(q)
    PROVE  IsQueue(inst_queue_clear(q)) /\ IsQueue(inst_queue_update_current(q))
<1>1. PICK V : q \in InstQueueState(V) /\ \A i \in V : IsInst(i)
  BY DEF IsQueue
<1> DEFINE minus_one == -1
<1>2. minus_one \in -1 .. Q - 1
  BY QueueSizes
<1>3. inst_queue_clear(q) = [q EXCEPT !.front_next = minus_one, !.rear_next = minus_one]
  BY DEF inst_queue_clear
<1> HIDE DEF minus_one
<1>4. inst_queue_clear(q) \in InstQueueState(V)
  BY <1>1, <1>2, <1>3 DEF InstQueueState, Q
<1>5. inst_queue_update_current(q) \in InstQueueState(V)
  BY <1>1 DEF inst_queue_update_current, InstQueueState
<1> QED
  BY <1>1, <1>4, <1>5 DEF IsQueue

\* What issue reads within the current window is an instruction.
LEMMA QueueHead ==
    ASSUME NEW q, IsQueue(q), NEW n \in Nat
    PROVE  /\ inst_queue_cur_entries(q) \in Nat
           /\ n < inst_queue_cur_entries(q) => IsInst(inst_queue_front(q, n))
<1>1. PICK V : q \in InstQueueState(V) /\ \A i \in V : IsInst(i)
  BY DEF IsQueue
<1>2. /\ q.queue_current \in [0 .. Q - 1 -> V] /\ q.queue_next \in [0 .. Q - 1 -> V]
      /\ q.front_current \in -1 .. Q - 1 /\ q.rear_current \in -1 .. Q - 1
  BY <1>1 DEF InstQueueState, Q
<1> DEFINE front == q.front_current
           rear == q.rear_current
<1>3. front \in -1 .. Q - 1 /\ rear \in -1 .. Q - 1
  BY <1>2
<1>4. inst_queue_cur_entries(q) = IF front = -1 THEN 0
                                  ELSE IF front <= rear THEN (rear - front) + 1
                                  ELSE (Q - front) + rear + 1
  BY <1>3, QueueSizes DEF inst_queue_cur_entries, QueueLength, Q
<1>5. inst_queue_front(q, n) = IF front + n < Q THEN q.queue_current[front + n]
                               ELSE q.queue_next[(front + n) - Q]
  BY DEF inst_queue_front, Q
<1> HIDE DEF front, rear
<1>6. inst_queue_cur_entries(q) \in Nat
  BY <1>3, <1>4, QueueSizes
<1>7. ASSUME n < inst_queue_cur_entries(q) PROVE inst_queue_front(q, n) \in V
  <2>1. CASE front + n < Q
    <3>1. front + n \in 0 .. Q - 1
      BY <1>3, <1>4, <1>7, <2>1, QueueSizes
    <3> QED
      BY <1>2, <1>5, <2>1, <3>1
  <2>2. CASE ~(front + n < Q)
    <3>1. (front + n) - Q \in 0 .. Q - 1
      BY <1>3, <1>4, <1>7, <2>2, QueueSizes
    <3> QED
      BY <1>2, <1>5, <2>2, <3>1
  <2> QED
    BY <2>1, <2>2
<1> QED
  BY <1>1, <1>6, <1>7

-----------------------------------------------------------------------------

\* inst_queue_init has the shape.
LEMMA QueueInit == IsQueue(inst_queue_init(NoInst))
<1> DEFINE V == {NoInst}
           minus_one == -1
           queue == [i \in 0 .. Q - 1 |-> NoInst]
<1>1. minus_one \in -1 .. Q - 1
  BY QueueSizes
<1>2. queue \in [0 .. Q - 1 -> V]
  OBVIOUS
<1>3. inst_queue_init(NoInst) =
         [queue_current |-> queue, queue_next |-> queue, front_current |-> minus_one,
          front_next |-> minus_one, rear_current |-> minus_one, rear_next |-> minus_one]
  BY DEF inst_queue_init, Q
<1> HIDE DEF minus_one, queue
<1>4. inst_queue_init(NoInst) \in InstQueueState(V)
  BY <1>1, <1>2, <1>3 DEF InstQueueState, Q
<1> QED
  BY <1>4, NoInstIsInst DEF IsQueue

\* What the latches hold are instructions, words 0x0 and words that are none.
IsLatch(latch) ==
    \E inst, pc, npc : /\ latch = [inst |-> inst, inst_pc |-> pc, npc_pred |-> npc]
                       /\ IsInst(inst)

AreLatches(latches) == DOMAIN latches = 1 .. W /\ \A i \in 1 .. W : IsLatch(latches[i])

IsRegister(reg) ==
    \E c, n : reg = [current |-> c, next |-> n] /\ AreLatches(c) /\ AreLatches(n)

\* Whatever is fetched names registers.
LEMMA ProgramHasInsts ==
    ASSUME NEW p \in Programs, NEW addr
    PROVE  IsInst(inst_at(p, addr))
<1> DEFINE slot == (addr % MEMORY_SIZE) \div 4
<1>1. CASE slot \in DOMAIN p
  <2>1. inst_at(p, addr) = p[slot]
    BY <1>1 DEF inst_at
  <2> HIDE DEF slot
  <2>2. CASE p[slot] \in {NoInst, Illegal}
    <3>1. IsInst(NoInst) /\ IsInst(Illegal)
      BY NumRegsAssumption DEF IsInst, NoInst, Illegal, Regs
    <3> QED
      BY <2>1, <2>2, <3>1
  <2>3. CASE p[slot] \notin {NoInst, Illegal}
    <3> DEFINE inst == p[slot]
               Op == ImmOp \cup RegOp \cup BranchOp \cup LoadOp \cup StoreOp
                        \cup {"LUI", "AUIPC", "JAL", "JALR"}
    <3>1. /\ inst \in [op : Op, rd : Regs, rs1 : Regs, rs2 : Regs, imm : Words]
          /\ inst.op \in BranchOp \cup StoreOp => inst.rd = 0
      BY <1>1, <2>3, ProgramsAssumption
    <3> HIDE DEF inst
    <3>2. inst.op \in Op /\ {inst.rd, inst.rs1, inst.rs2} \subseteq Regs
      BY <3>1
    <3>3. inst.op \notin BranchOp \cup StoreOp => HasResult(op_type_of(inst.op))
      BY <3>2 DEF op_type_of, HasResult, ImmOp, RegOp, BranchOp, LoadOp, StoreOp
    <3>4. IsInst(inst)
      BY <3>1, <3>2, <3>3 DEF IsInst
    <3> QED
      BY <2>1, <3>4 DEF inst
  <2> QED
    BY <2>2, <2>3
<1>2. CASE slot \notin DOMAIN p
  BY <1>2, NoInstIsInst DEF inst_at
<1> QED
  BY <1>1, <1>2

\* fetch_step fills the latches with instructions.
LEMMA FetchedAreLatches ==
    ASSUME program \in Programs, NEW reg_pc
    PROVE  AreLatches(Fetched(reg_pc))
<1> DEFINE pc(i) == plus(reg_pc, 4 * (i - 1))
           taken == {i \in 1 .. ISSUE_WIDTH : btb_lookup(btb, pc(i)) # plus(pc(i), 4)}
           before(i) == {k \in taken : k < i}
           npc(i) == btb_lookup(btb, pc(IF before(i) = {} THEN i ELSE Nth(taken, 0)))
           inst(i) == IF before(i) = {} THEN inst_at(program, pc(i)) ELSE NoInst
           latch(i) == [inst |-> inst(i), inst_pc |-> pc(i), npc_pred |-> npc(i)]
<1>1. Fetched(reg_pc) = [i \in 1 .. ISSUE_WIDTH |-> latch(i)]
  BY DEF Fetched
<1>2. ASSUME NEW i PROVE IsInst(inst(i))
  BY ProgramHasInsts, NoInstIsInst
<1> HIDE DEF inst, npc, pc
<1>3. ASSUME NEW i PROVE IsLatch(latch(i))
  BY <1>2 DEF IsLatch
<1> HIDE DEF latch
<1> QED
  BY <1>1, <1>3 DEF AreLatches, W

\* Emptied latches are latches.
LEMMA EmptiedAreLatches ==
    ASSUME NEW latches, AreLatches(latches)
    PROVE  AreLatches([i \in DOMAIN latches |-> [latches[i] EXCEPT !.inst = NoInst]])
<1> DEFINE emptied(latch) == [latch EXCEPT !.inst = NoInst]
           new == [i \in DOMAIN latches |-> emptied(latches[i])]
<1>1. ASSUME NEW latch, IsLatch(latch) PROVE IsLatch(emptied(latch))
  <2>1. PICK inst, pc, npc : latch = [inst |-> inst, inst_pc |-> pc, npc_pred |-> npc]
    BY <1>1 DEF IsLatch
  <2>2. emptied(latch) = [inst |-> NoInst, inst_pc |-> pc, npc_pred |-> npc]
    BY <2>1
  <2> QED
    BY <2>2, NoInstIsInst DEF IsLatch
<1> HIDE DEF emptied
<1>2. AreLatches(new)
  BY <1>1 DEF AreLatches
<1> QED
  BY <1>2 DEF new, emptied

-----------------------------------------------------------------------------

(* Issue: what a batch may count on. *)

\* get_batch_size leaves room in every pool for each instruction of the batch, whatever it is.
LEMMA BatchFits ==
    ASSUME IsQueue(iq), IsRob(rob), rob.front_current = -1 <=> rob.rear_current = -1,
           IsStations(alu_rs, NUM_ALU_RES_STATIONS),
           IsStations(branch_rs, NUM_BRANCH_RES_STATIONS),
           IsBuffers(mb, NUM_MEMORY_BUFFERS),
           NEW n \in Nat, n < batch_size
    PROVE  /\ n < inst_queue_cur_entries(iq)
           /\ n < rob_num_free_slots(rob)
           /\ n < res_stations_num_free(alu_rs)
           /\ n < res_stations_num_free(branch_rs)
           /\ n < memory_buffers_num_free(mb)
<1> DEFINE a == inst_queue_cur_entries(iq)
           b == rob_num_free_slots(rob)
           c == res_stations_num_free(alu_rs)
           d == res_stations_num_free(branch_rs)
           e == memory_buffers_num_free(mb)
           all == {a, b, c, d, e, ISSUE_WIDTH}
           least == CHOOSE x \in all : \A y \in all : x <= y
<1>1. batch_size = least
  BY DEF batch_size
<1>2. a \in Nat
  BY QueueHead
<1>3. b \in Nat
  <2>1. PICK V : rob \in RobState(V)
    BY DEF IsRob
  <2>2. /\ QueueSize(rob.front_current, rob.rear_current) \in 0 .. S
        /\ rob_num_free_slots(rob) = S - QueueSize(rob.front_current, rob.rear_current)
    BY <2>1, FreeSlots
  <2> QED
    BY <2>2, SizeIsPositive
<1>4. c \in Nat /\ d \in Nat /\ e \in Nat
  <2>1. /\ NUM_ALU_RES_STATIONS \in Nat /\ NUM_BRANCH_RES_STATIONS \in Nat
        /\ NUM_MEMORY_BUFFERS \in Nat
    BY ConfigAssumption
  <2>2. /\ FreeStations(alu_rs) \in SUBSET (1 .. NUM_ALU_RES_STATIONS)
        /\ FreeStations(branch_rs) \in SUBSET (1 .. NUM_BRANCH_RES_STATIONS)
    BY StationFields DEF FreeStations
  <2>3. FreeBuffers(mb) \in SUBSET (1 .. NUM_MEMORY_BUFFERS)
    BY BufferFields DEF FreeBuffers
  <2> QED
    BY <2>1, <2>2, <2>3, RankType DEF res_stations_num_free, memory_buffers_num_free
<1> HIDE DEF a, b, c, d, e
<1>5. all \in SUBSET Nat /\ all # {}
  BY <1>2, <1>3, <1>4, QueueSizes DEF W
<1>6. \E x \in all : \A y \in all : x <= y
  BY <1>5, LeastExists
<1>7. least \in all /\ \A y \in all : least <= y
  BY <1>6, Zenon
<1> HIDE DEF least
<1>8. least \in Nat /\ n < least
  BY <1>1, <1>5, <1>7
<1>9. least <= a /\ least <= b /\ least <= c /\ least <= d /\ least <= e
  BY <1>7
<1> QED
  BY <1>2, <1>3, <1>4, <1>8, <1>9 DEF a, b, c, d, e

\* set_q_v waits for an id or for nobody.
LEMMA OperandIsId ==
    ASSUME IsFile(regs), dependencies \in [Regs -> {0} \cup RobIds], NEW rs \in Regs, NEW v
    PROVE  set_q_v(rs).q \in {0} \cup RobIds /\ value(v).q \in {0} \cup RobIds
<1>1. PICK V : regs \in FilesOf(V)
  BY DEF IsFile
<1>2. regs[rs].rob_id \in {0} \cup RobIds /\ dependencies[rs] \in {0} \cup RobIds
  BY <1>1 DEF FilesOf
<1> QED
  BY <1>2 DEF set_q_v, value, NA

-----------------------------------------------------------------------------

\* Ages without the remainder.
LEMMA AgesAgree ==
    ASSUME IsRob(rob), NEW k \in Flying(rob)
    PROVE  Age(k) = AgeOf(rob, k)
<1>1. /\ rob.front_next \in Cursor /\ k - 1 \in Slots /\ k \in RobIds
      /\ rob.front_next # -1
  BY RobShape, IdsAreSlots DEF Flying, InWindow
<1> DEFINE f == rob.front_next
           i == k - 1
           x == (i - f) + S
<1>2. f \in 0 .. S - 1 /\ i \in 0 .. S - 1
  BY <1>1, SizeIsPositive DEF Cursor
<1>3. Age(k) = x % S
  BY DEF Age, S
<1> HIDE DEF f, i
<1>4. x \in 0 .. 2 * S - 1
  BY <1>2, SizeIsPositive
<1>5. x % S = IF x < S THEN x ELSE x - S
  BY <1>4, Wrap
<1>6. x % S = IF f <= i THEN i - f ELSE (i - f) + S
  BY <1>2, <1>5, SizeIsPositive
<1> QED
  BY <1>3, <1>6 DEF AgeOf, AgeFrom, f, i

\* AliasesNameTheYoungestWriter as the lemmas have it: with ids and ages.
LEMMA NamedAliases ==
    IsRob(rob) => (AliasesNameTheYoungestWriter <=> Named(rob, regs))
<1> SUFFICES ASSUME IsRob(rob) PROVE AliasesNameTheYoungestWriter <=> Named(rob, regs)
  OBVIOUS
<1>1. \A k \in Flying(rob) : Age(k) = AgeOf(rob, k)
  BY AgesAgree
<1>2. \A reg, k : k \in Writers(reg) <=> Writes(rob, k, reg)
  BY DEF Writers, Writes, InFlight, Flying, entry
<1>3. \A reg, k : Writes(rob, k, reg) => Age(k) = AgeOf(rob, k)
  BY <1>1 DEF Writes
<1>4. ASSUME NEW reg
      PROVE  (IF Writers(reg) = {} THEN ~regs[reg].busy
              ELSE /\ regs[reg].busy
                   /\ regs[reg].rob_id \in Writers(reg)
                   /\ \A k \in Writers(reg) : Age(k) <= Age(regs[reg].rob_id))
             <=> /\ regs[reg].busy => Writes(rob, regs[reg].rob_id, reg)
                 /\ \A k : Writes(rob, k, reg) =>
                       regs[reg].busy /\ AgeOf(rob, k) <= AgeOf(rob, regs[reg].rob_id)
  BY <1>2, <1>3
<1> QED
  BY <1>4 DEF AliasesNameTheYoungestWriter, Named

-----------------------------------------------------------------------------

(* Who waits for whom. *)

\* An instruction in flight that has yet to put its result on the bus.
Awaited(r, q) ==
    /\ q \in Flying(r)
    /\ HasResult(r.queue_next[q - 1].op_type)
    /\ ~r.queue_next[q - 1].ready

\* id may wait for q.
Delivers(r, id, q) == id \in Flying(r) /\ Awaited(r, q) /\ AgeOf(r, q) < AgeOf(r, id)

\* The parts of OperandsWillCome: a pool, and the data of stores.
PoolWaits(pool, r) == \A id, q : Waiting(pool, id, q) => Delivers(r, id, q)

DataWaits(r) ==
    /\ WaitingStoresGoOn(r)
    /\ \A id \in Flying(r) :
          IsStore(r.queue_next[id - 1].op_type) /\ r.queue_next[id - 1].q # 0
              => Delivers(r, id, r.queue_next[id - 1].q)

(***************************************************************************)
(* What a step that lets nobody in or out may do to those who wait: those  *)
(* of them that heard a result wait no more, and only who is heard is      *)
(* finished by a result.                                                   *)
(***************************************************************************)
SparesEntry(before, after, id, heard) ==
    /\ after.op_type = before.op_type
    /\ HasResult(before.op_type) /\ after.ready => before.ready \/ id \in heard
    /\ IsStore(before.op_type) /\ after.q # 0 =>
           /\ after.q = before.q
           /\ before.ready \/ (after.q \notin heard /\ ~after.ready)

Spares(r, new, heard) ==
    /\ new.front_next = r.front_next /\ new.rear_next = r.rear_next
    /\ \A id \in Flying(r) : SparesEntry(r.queue_next[id - 1], new.queue_next[id - 1], id, heard)

\* A step that leaves the next copy alone.
LEMMA SparesAll ==
    ASSUME NEW r, NEW new, new.queue_next = r.queue_next,
           new.front_next = r.front_next, new.rear_next = r.rear_next
    PROVE  Spares(r, new, {})
  BY DEF Spares, SparesEntry

\* Nobody moves in a step that spares.
LEMMA SparedFlying ==
    ASSUME NEW r, NEW new, NEW heard, Spares(r, new, heard)
    PROVE  Flying(new) = Flying(r) /\ \A k : AgeOf(new, k) = AgeOf(r, k)
  BY DEF Spares, Flying, AgeOf

\* Who is awaited stays so until it is heard.
LEMMA DeliversStill ==
    ASSUME NEW r, NEW new, NEW heard, Spares(r, new, heard), NEW id, NEW q,
           Delivers(r, id, q), q \notin heard
    PROVE  Delivers(new, id, q)
<1>1. Flying(new) = Flying(r) /\ \A k : AgeOf(new, k) = AgeOf(r, k)
  BY SparedFlying
<1>2. SparesEntry(r.queue_next[q - 1], new.queue_next[q - 1], q, heard)
  BY DEF Spares, Delivers, Awaited
<1> QED
  BY <1>1, <1>2 DEF Delivers, Awaited, SparesEntry

\* Those in a pool go on waiting.
LEMMA PoolWaitsOn ==
    ASSUME NEW r, NEW new, NEW heard, Spares(r, new, heard),
           NEW old, PoolWaits(old, r), NEW pool, StillWaiting(pool, old, heard)
    PROVE  PoolWaits(pool, new)
<1> SUFFICES ASSUME NEW id, NEW q, Waiting(pool, id, q) PROVE Delivers(new, id, q)
  BY DEF PoolWaits
<1>1. Waiting(old, id, q) /\ q \notin heard
  BY DEF StillWaiting
<1>2. Delivers(r, id, q)
  BY <1>1 DEF PoolWaits
<1> QED
  BY <1>1, <1>2, DeliversStill

\* So do stores.
LEMMA DataWaitsOn ==
    ASSUME NEW r, NEW new, NEW heard, Spares(r, new, heard), DataWaits(r)
    PROVE  DataWaits(new)
<1>1. Flying(new) = Flying(r)
  BY SparedFlying
<1>2. ASSUME NEW id \in Flying(new), IsStore(new.queue_next[id - 1].op_type),
             new.queue_next[id - 1].q # 0
      PROVE  ~new.queue_next[id - 1].ready /\ Delivers(new, id, new.queue_next[id - 1].q)
  <2> DEFINE before == r.queue_next[id - 1]
             after == new.queue_next[id - 1]
  <2>1. SparesEntry(before, after, id, heard)
    BY <1>1 DEF Spares
  <2>2. IsStore(before.op_type) /\ after.q = before.q
    BY <1>2, <2>1 DEF SparesEntry
  <2>3. ~before.ready /\ Delivers(r, id, before.q)
    BY <1>1, <1>2, <2>2 DEF DataWaits, WaitingStoresGoOn
  <2>4. after.q \notin heard /\ ~after.ready
    BY <1>2, <2>1, <2>2, <2>3 DEF SparesEntry
  <2>5. Delivers(r, id, after.q)
    BY <2>2, <2>3
  <2> HIDE DEF before, after
  <2>6. Delivers(new, id, after.q)
    BY <2>4, <2>5, DeliversStill
  <2> QED
    BY <2>4, <2>6 DEF after
<1> QED
  BY <1>2 DEF DataWaits, WaitingStoresGoOn

\* Nobody's operand is a branch's target.
LEMMA TransferSpares ==
    ASSUME NEW r, IsRob(r), NEW id \in RobIds, NEW npc_actual
    PROVE  Spares(r, rob_add_npc_actual(r, id, npc_actual), {})
<1> DEFINE new == rob_add_npc_actual(r, id, npc_actual)
<1>1. PICK U : r \in RobState(U)
  BY DEF IsRob
<1> DEFINE V == U \cup {npc_actual}
<1>2. r \in RobState(V) /\ npc_actual \in V
  BY <1>1, RobGrow
<1> HIDE DEF V
<1>3. /\ OnlyAnswers(r, id, new)
      /\ new.queue_next[id - 1].ready
             => r.queue_next[id - 1].ready \/ r.queue_next[id - 1].op_type = "BRANCH"
  BY <1>2, AddNpcActualFields
<1> HIDE DEF new
<1>4. ASSUME NEW k \in Flying(r)
      PROVE  SparesEntry(r.queue_next[k - 1], new.queue_next[k - 1], k, {})
  <2>1. k - 1 \in Slots
    BY IdsAreSlots DEF Flying
  <2>2. CASE k = id
    <3>1. /\ new.queue_next[k - 1].op_type = r.queue_next[k - 1].op_type
          /\ new.queue_next[k - 1].q = r.queue_next[k - 1].q
      BY <1>3, <2>1 DEF OnlyAnswers
    <3> QED
      BY <1>3, <2>2, <3>1 DEF SparesEntry, HasResult, IsStore, StoreType
  <2>3. CASE k # id
    <3>1. k - 1 # id - 1
      BY <2>1, <2>3, IdsAreSlots DEF Flying
    <3>2. new.queue_next[k - 1] = r.queue_next[k - 1]
      BY <1>3, <2>1, <3>1 DEF OnlyAnswers
    <3> QED
      BY <3>2 DEF SparesEntry
  <2> QED
    BY <2>2, <2>3
<1>5. Spares(r, new, {})
  BY <1>3, <1>4 DEF Spares, OnlyAnswers
<1> QED
  BY <1>5 DEF new

\* The address of a store finishes it only if its data are there.
LEMMA AddressSpares ==
    ASSUME NEW r, IsRob(r), NEW id \in RobIds, NEW addr,
           IsStore(r.queue_next[id - 1].op_type)
    PROVE  Spares(r, rob_add_address(r, id, addr), {})
<1> DEFINE new == rob_add_address(r, id, addr)
<1>1. PICK U : r \in RobState(U)
  BY DEF IsRob
<1> DEFINE V == U \cup {addr}
<1>2. r \in RobState(V) /\ addr \in V
  BY <1>1, RobGrow
<1> HIDE DEF V
<1>3. /\ OnlyAnswers(r, id, new)
      /\ new.queue_next[id - 1].ready
             => r.queue_next[id - 1].ready \/ r.queue_next[id - 1].q = 0
  BY <1>2, AddAddressFields
<1> HIDE DEF new
<1>4. ASSUME NEW k \in Flying(r)
      PROVE  SparesEntry(r.queue_next[k - 1], new.queue_next[k - 1], k, {})
  <2>1. k - 1 \in Slots
    BY IdsAreSlots DEF Flying
  <2>2. CASE k = id
    <3>1. /\ new.queue_next[k - 1].op_type = r.queue_next[k - 1].op_type
          /\ new.queue_next[k - 1].q = r.queue_next[k - 1].q
      BY <1>3, <2>1 DEF OnlyAnswers
    <3> QED
      BY <1>3, <2>2, <3>1 DEF SparesEntry, HasResult, IsStore, StoreType
  <2>3. CASE k # id
    <3>1. k - 1 # id - 1
      BY <2>1, <2>3, IdsAreSlots DEF Flying
    <3>2. new.queue_next[k - 1] = r.queue_next[k - 1]
      BY <1>3, <2>1, <3>1 DEF OnlyAnswers
    <3> QED
      BY <3>2 DEF SparesEntry
  <2> QED
    BY <2>2, <2>3
<1>5. Spares(r, new, {})
  BY <1>3, <1>4 DEF Spares, OnlyAnswers
<1> QED
  BY <1>5 DEF new

\* Whoever waits for a result that is heard has it.
LEMMA BusSpares ==
    ASSUME NEW r, IsRob(r), EntriesInPlace(r), NEW bus, IsBus(bus),
           \A id \in Heard(bus) : HasResult(r.queue_next[id - 1].op_type)
    PROVE  Spares(r, rob_step(r, bus), Heard(bus))
<1> DEFINE new == rob_step(r, bus)
<1>1. PICK U : r \in RobState(U)
  BY DEF IsRob
<1>2. PICK B : bus \in Bus(B)
  BY DEF IsBus
<1> DEFINE V == U \cup B
<1>3. r \in RobState(V) /\ bus \in Bus(V)
  BY <1>1, <1>2, RobGrow, BusGrow
<1> HIDE DEF V
<1>4. /\ new.front_next = r.front_next /\ new.rear_next = r.rear_next
      /\ \A i \in Slots : new.queue_next[i] = CaptureEntry(r.queue_next[i], bus)
  BY <1>3, StepFields
<1> HIDE DEF new
<1>5. ASSUME NEW id \in Flying(r)
      PROVE  SparesEntry(r.queue_next[id - 1], new.queue_next[id - 1], id, Heard(bus))
  <2> DEFINE before == r.queue_next[id - 1]
             after == CaptureEntry(before, bus)
  <2>1. id \in RobIds /\ id - 1 \in Slots /\ (id - 1) + 1 = id
    BY IdsAreSlots DEF Flying
  <2>2. before.busy /\ before.rob_id = id
    BY <2>1 DEF EntriesInPlace, Flying
  <2>3. before \in RobEntry(V)
    BY <1>3, <2>1 DEF RobState
  <2>4. before.q \in {0} \cup RobIds /\ before.ready \in BOOLEAN
    BY <2>3 DEF RobEntry
  <2> HIDE DEF before
  <2>5. /\ after.op_type = before.op_type
        /\ before.ready => after = before
        /\ after.ready => \/ before.ready
                          \/ cdb_is_val_ready(bus, before.rob_id)
                          \/ IsStore(before.op_type) /\ before.dest # 0
        /\ after.q # 0 => /\ after.q = before.q
                          /\ after.ready => \/ before.ready
                                            \/ cdb_is_val_ready(bus, before.rob_id)
        /\ before.busy /\ ~before.ready /\ IsStore(before.op_type) /\ before.q # 0
              /\ cdb_is_val_ready(bus, before.q) => after.q = 0
    BY <1>3, <2>3, CaptureFields
  <2> HIDE DEF after
  <2>6. IsStore(before.op_type) => ~HasResult(before.op_type)
    BY DEF IsStore, StoreType, HasResult
  <2>7. cdb_is_val_ready(bus, id) => id \in Heard(bus) /\ HasResult(before.op_type)
    BY <2>1 DEF Heard, before
  <2>8. HasResult(before.op_type) /\ after.ready => before.ready \/ id \in Heard(bus)
    BY <2>2, <2>5, <2>6, <2>7
  <2>9. ASSUME IsStore(before.op_type), after.q # 0
        PROVE  after.q = before.q /\ (before.ready \/ (after.q \notin Heard(bus) /\ ~after.ready))
    <3>1. after.q = before.q
      BY <2>5, <2>9
    <3>2. ASSUME ~before.ready PROVE after.q \notin Heard(bus)
      BY <2>2, <2>5, <2>9, <3>1, <3>2 DEF Heard
    <3>3. ASSUME ~before.ready PROVE ~after.ready
      BY <2>2, <2>5, <2>6, <2>7, <2>9, <3>3
    <3> QED
      BY <3>1, <3>2, <3>3
  <2>10. SparesEntry(before, after, id, Heard(bus))
    BY <2>5, <2>8, <2>9 DEF SparesEntry
  <2> QED
    BY <1>4, <2>1, <2>10 DEF before, after
<1>6. Spares(r, new, Heard(bus))
  BY <1>4, <1>5 DEF Spares
<1> QED
  BY <1>6 DEF new

-----------------------------------------------------------------------------

\* What enters the reorder buffer waits for the producer it was given.
EnteredWith(r, new, id, q) ==
    new.queue_next[id - 1].q = q /\ new.rear_current = r.rear_current

\* What rob_enqueue writes is there.
LEMMA EnqueuedOperand ==
    ASSUME NEW r, IsRob(r), NEW op_type \in OpType, NEW dest, NEW val,
           NEW q \in {0} \cup RobIds, NEW npc_pred, NEW inst_pc
    PROVE  EnteredWith(r, rob_enqueue(r, op_type, dest, val, q, npc_pred, inst_pc),
                       rob_enqueue_id(r), q)
<1> DEFINE new == rob_enqueue(r, op_type, dest, val, q, npc_pred, inst_pc)
           rear == (r.rear_next + 1) % S
<1>1. PICK U : r \in RobState(U)
  BY DEF IsRob
<1> DEFINE V == U \cup {dest, val, npc_pred, inst_pc}
<1>2. r \in RobState(V) /\ dest \in V /\ val \in V /\ npc_pred \in V /\ inst_pc \in V
  BY <1>1, RobGrow
<1> HIDE DEF V
<1>3. EntryAdded(V, r, new, rear, op_type, dest, q)
  BY <1>2, EnqueueFields
<1>4. rob_enqueue_id(r) = rear + 1
  BY DEF rob_enqueue_id, S
<1> HIDE DEF new, rear
<1>5. rear \in Slots /\ new.queue_next[rear].q = q /\ new.rear_current = r.rear_current
  BY <1>3 DEF EntryAdded
<1>6. rob_enqueue_id(r) - 1 = rear
  BY <1>4, <1>5, IdsAreSlots
<1> QED
  BY <1>5, <1>6 DEF new, EnteredWith

\* Whoever is awaited when another enters is awaited by it, or goes on being awaited.
LEMMA DeliversAfterEntry ==
    ASSUME NEW r, NEW new, NEW id, NEW op_type, NEW dest, Entered(r, new, id, op_type, dest),
           NEW q, Awaited(r, q), NEW k, k = id \/ Delivers(r, k, q)
    PROVE  Delivers(new, k, q)
<1>1. q \in Flying(r) /\ q \in Flying(new) /\ new.queue_next[q - 1] = r.queue_next[q - 1]
      /\ AgeOf(new, q) = AgeOf(r, q) /\ AgeOf(new, q) < AgeOf(new, id)
  BY DEF Entered, Awaited
<1>2. Awaited(new, q)
  BY <1>1 DEF Awaited
<1>3. CASE k = id
  BY <1>1, <1>2, <1>3 DEF Delivers, Entered
<1>4. CASE Delivers(r, k, q)
  <2>1. k \in Flying(new) /\ AgeOf(new, k) = AgeOf(r, k) /\ AgeOf(r, q) < AgeOf(r, k)
    BY <1>4 DEF Delivers, Entered
  <2> QED
    BY <1>1, <1>2, <2>1 DEF Delivers
<1> QED
  BY <1>3, <1>4

\* A pool that takes an instruction, with its operands, or leaves it to the others.
LEMMA PoolWaitsEnters ==
    ASSUME NEW r, NEW new, NEW id, NEW op_type, NEW dest, Entered(r, new, id, op_type, dest),
           NEW old, PoolWaits(old, r), NEW operands, \A q \in operands : q = 0 \/ Awaited(r, q),
           NEW pool, WaitsToo(pool, old, id, operands)
    PROVE  PoolWaits(pool, new)
<1> SUFFICES ASSUME NEW k, NEW q, Waiting(pool, k, q) PROVE Delivers(new, k, q)
  BY DEF PoolWaits
<1>1. q # 0
  BY DEF Waiting
<1>2. CASE Waiting(old, k, q)
  <2>1. Delivers(r, k, q)
    BY <1>2 DEF PoolWaits
  <2> QED
    BY <2>1, DeliversAfterEntry DEF Delivers
<1>3. CASE k = id /\ q \in operands
  <2>1. Awaited(r, q)
    BY <1>1, <1>3
  <2> QED
    BY <1>3, <2>1, DeliversAfterEntry
<1> QED
  BY <1>2, <1>3 DEF WaitsToo

\* A store that enters may wait for its data.
LEMMA DataWaitsEnters ==
    ASSUME NEW r, NEW new, NEW id, NEW op_type, NEW dest, Entered(r, new, id, op_type, dest),
           DataWaits(r),
           IsStore(op_type) =>
               new.queue_next[id - 1].q = 0 \/ Awaited(r, new.queue_next[id - 1].q)
    PROVE  DataWaits(new)
<1>1. ASSUME NEW k \in Flying(new), IsStore(new.queue_next[k - 1].op_type),
             new.queue_next[k - 1].q # 0
      PROVE  ~new.queue_next[k - 1].ready /\ Delivers(new, k, new.queue_next[k - 1].q)
  <2> DEFINE q == new.queue_next[k - 1].q
  <2>1. CASE k = id
    <3>1. Awaited(r, q)
      BY <1>1, <2>1 DEF Entered
    <3> HIDE DEF q
    <3>2. Delivers(new, k, q)
      BY <2>1, <3>1, DeliversAfterEntry
    <3> QED
      BY <2>1, <3>2 DEF q, Entered
  <2>2. CASE k # id
    <3>1. k \in Flying(r) /\ new.queue_next[k - 1] = r.queue_next[k - 1]
      BY <1>1, <2>2 DEF Entered
    <3>2. ~r.queue_next[k - 1].ready /\ Delivers(r, k, q)
      BY <1>1, <3>1 DEF DataWaits, WaitingStoresGoOn
    <3> HIDE DEF q
    <3>3. Delivers(new, k, q)
      BY <3>2, DeliversAfterEntry DEF Delivers
    <3> QED
      BY <3>1, <3>2, <3>3 DEF q
  <2> QED
    BY <2>1, <2>2
<1> QED
  BY <1>1 DEF DataWaits, WaitingStoresGoOn

\* Who waits, and who is awaited, are not the oldest that leaves, for that has finished.
LEMMA DeliversAfterLeave ==
    ASSUME NEW r, IsRob(r), NEW new, NEW id, Left(r, new, id),
           NEW k, NEW q, Delivers(r, k, q), ~r.queue_next[k - 1].ready
    PROVE  Delivers(new, k, q)
<1>1. k # id /\ q # id /\ k \in Flying(r) /\ q \in Flying(r)
      /\ HasResult(r.queue_next[q - 1].op_type) /\ ~r.queue_next[q - 1].ready
      /\ AgeOf(r, q) < AgeOf(r, k)
  BY DEF Left, Delivers, Awaited
<1>2. k \in Flying(new) /\ q \in Flying(new)
  BY <1>1 DEF Left
<1>3. /\ AgeOf(new, k) = AgeOf(r, k) - 1 /\ AgeOf(new, q) = AgeOf(r, q) - 1
      /\ new.queue_next[q - 1] = r.queue_next[q - 1]
  BY <1>2 DEF Left
<1>4. AgeOf(r, k) \in Int /\ AgeOf(r, q) \in Int
  BY <1>1, AgeType DEF Flying
<1>5. AgeOf(new, q) < AgeOf(new, k)
  BY <1>1, <1>3, <1>4
<1> QED
  BY <1>1, <1>2, <1>3, <1>5 DEF Delivers, Awaited

\* So a pool may wait on: whoever is in it has not finished, and is not the one that leaves.
LEMMA PoolWaitsLeaves ==
    ASSUME NEW r, IsRob(r), NEW new, NEW id, Left(r, new, id),
           NEW held, Settled(held, r), NEW pool, PoolWaits(pool, r),
           NEW name, \A h \in InPool(name, pool) : h \in held
    PROVE  PoolWaits(pool, new)
<1> SUFFICES ASSUME NEW k, NEW q, Waiting(pool, k, q) PROVE Delivers(new, k, q)
  BY DEF PoolWaits
<1>1. Delivers(r, k, q)
  BY DEF PoolWaits
<1>2. PICK h \in InPool(name, pool) : h[3] = k
  BY WaiterIsThere
<1>3. ~r.queue_next[k - 1].ready
  BY <1>2, SettledMember
<1> QED
  BY <1>1, <1>3, DeliversAfterLeave

\* So do stores.
LEMMA DataWaitsLeaves ==
    ASSUME NEW r, IsRob(r), NEW new, NEW id, Left(r, new, id), DataWaits(r)
    PROVE  DataWaits(new)
<1>1. ASSUME NEW k \in Flying(new), IsStore(new.queue_next[k - 1].op_type),
             new.queue_next[k - 1].q # 0
      PROVE  ~new.queue_next[k - 1].ready /\ Delivers(new, k, new.queue_next[k - 1].q)
  <2> DEFINE q == new.queue_next[k - 1].q
  <2>1. k \in Flying(r) /\ new.queue_next[k - 1] = r.queue_next[k - 1]
    BY <1>1 DEF Left
  <2>2. ~r.queue_next[k - 1].ready /\ Delivers(r, k, q)
    BY <1>1, <2>1 DEF DataWaits, WaitingStoresGoOn
  <2> HIDE DEF q
  <2>3. Delivers(new, k, q)
    BY <2>2, DeliversAfterLeave
  <2> QED
    BY <2>1, <2>2, <2>3 DEF q
<1> QED
  BY <1>1 DEF DataWaits, WaitingStoresGoOn

\* When nobody is in flight nobody waits.
LEMMA NobodyInFlightWaits ==
    ASSUME NEW r, Flying(r) = {}
    PROVE  DataWaits(r) /\ \A pool, name : InPool(name, pool) = {} => PoolWaits(pool, r)
<1>1. DataWaits(r)
  BY DEF DataWaits, WaitingStoresGoOn
<1>2. ASSUME NEW pool, NEW name, InPool(name, pool) = {} PROVE PoolWaits(pool, r)
  BY <1>2, NobodyWaits DEF PoolWaits
<1> QED
  BY <1>1, <1>2

\* Waiting goes on through any number of steps.
LEMMA StillWaitingOn ==
    ASSUME NEW a, NEW b, NEW c, StillWaiting(b, a, {}), StillWaiting(c, b, {})
    PROVE  StillWaiting(c, a, {})
  BY DEF StillWaiting

\* A pool nobody touches waits for whom it waited for.
LEMMA StillWaitingHere ==
    \A pool : /\ StillWaiting(pool, pool, {})
              /\ \A id, operands : WaitsToo(pool, pool, id, operands)
  BY DEF StillWaiting, WaitsToo

-----------------------------------------------------------------------------

(* Who a register names. *)

\* Until the batch of a cycle the two windows are one.
LEMMA WindowsAgree ==
    ASSUME NEW r, IsRob(r), NEW n, Windows(r, "decode", n), NEW i \in Slots,
           InWindow(r.front_next, r.rear_next, i)
    PROVE  InWindow(r.front_current, r.rear_current, i)
<1> DEFINE fc == r.front_current
           rc == r.rear_current
           fn == r.front_next
           rn == r.rear_next
<1>1. InStep(fc, rc, fn, rn, 0, 0)
  BY DEF Windows
<1>2. fc \in Cursor /\ rc \in Cursor /\ fn \in Cursor /\ rn \in Cursor /\ S \in Nat \ {0}
  BY RobShape, SizeIsPositive
<1>3. InWindow(fn, rn, i)
  OBVIOUS
<1> HIDE DEF fc, rc, fn, rn
<1>4. fn # -1 /\ rn # -1
  BY <1>1, <1>3 DEF InStep, InWindow
<1>5. QueueSize(fn, rn) = QueueSize(fc, rc) /\ QueueSize(fn, rn) > 0
  <2>1. QueueSize(fn, rn) > 0 /\ QueueSize(fc, rc) \in Int
    BY <1>2, <1>4 DEF QueueSize, Cursor, Slots, S
  <2>2. QueueSize(fn, rn) = (QueueSize(fc, rc) + 0) - 0
    BY <1>1 DEF InStep
  <2> QED
    BY <2>1, <2>2
<1>6. fn = fc /\ fc # -1 /\ rc # -1
  <2>1. fn = IF QueueSize(fc, rc) = 0 THEN 0 ELSE AfterLap(fc + 0)
    BY <1>1, <1>5 DEF InStep
  <2>2. fc # -1 /\ rc # -1
    BY <1>1, <1>5 DEF InStep, QueueSize
  <2> QED
    BY <1>2, <1>5, <2>1, <2>2 DEF AfterLap, Cursor, Slots, S
<1>7. rn = rc
  BY <1>2, <1>4, <1>5, <1>6 DEF QueueSize, Cursor, Slots, S
<1> QED
  BY <1>3, <1>6, <1>7 DEF fc, rc

\* An operand of an instruction that is issued has its value, or its producer will deliver it.
LEMMA OperandAwaited ==
    ASSUME phase = "issue", IsRob(rob), IsFile(regs), Named(rob, regs),
           dependencies \in [Regs -> {0} \cup RobIds],
           BatchSeesItself, ReadersFindWriters, CopiesAgree(rob, TRUE), NEW rs \in Regs
    PROVE  set_q_v(rs).q = 0 \/ Awaited(rob, set_q_v(rs).q)
<1>1. \A v : value(v).q = 0
  BY DEF value, NA
<1>2. CASE dependencies[rs] # 0
  <2> DEFINE q == dependencies[rs]
  <2>1. rs # 0 /\ regs[rs].busy /\ regs[rs].rob_id = q
    BY <1>2 DEF BatchSeesItself
  <2>2. Writes(rob, q, rs)
    BY <2>1 DEF Named
  <2>3. ~rob.queue_next[q - 1].ready
    BY <1>2, <2>1 DEF ReadersFindWriters
  <2>4. set_q_v(rs).q = q
    BY <1>2 DEF set_q_v
  <2> QED
    BY <2>2, <2>3, <2>4 DEF Awaited, Writes
<1>3. CASE dependencies[rs] = 0 /\ ~regs[rs].busy
  BY <1>1, <1>3 DEF set_q_v
<1>4. CASE dependencies[rs] = 0 /\ regs[rs].busy
  <2> DEFINE q == regs[rs].rob_id
  <2>1. rs # 0
    BY <1>4 DEF ReadersFindWriters
  <2>2. Writes(rob, q, rs)
    BY <1>4, <2>1 DEF Named
  <2>3. InWindow(rob.front_current, rob.rear_current, q - 1)
    BY <1>4 DEF ReadersFindWriters
  <2>4. q \in Flying(rob) /\ q - 1 \in Slots
    BY <2>2, IdsAreSlots DEF Writes, Flying
  <2>5. rob.queue_next[q - 1] = rob.queue_current[q - 1]
    BY <2>3, <2>4 DEF CopiesAgree, Flying
  <2>6. CASE rob_is_entry_ready(rob, q)
    BY <1>1, <1>4, <2>6 DEF set_q_v
  <2>7. CASE ~rob_is_entry_ready(rob, q)
    <3>1. set_q_v(rs).q = q
      BY <1>4, <2>7 DEF set_q_v
    <3>2. ~rob.queue_next[q - 1].ready
      BY <2>5, <2>7 DEF rob_is_entry_ready
    <3> QED
      BY <2>2, <2>4, <3>1, <3>2 DEF Awaited, Writes
  <2> QED
    BY <2>6, <2>7
<1> QED
  BY <1>2, <1>3, <1>4
===============================================================================
