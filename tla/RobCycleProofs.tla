---------------------------- MODULE RobCycleProofs ----------------------------
(***************************************************************************)
(* Theorems about RobCycle for every buffer size, width and set of words:    *)
(* its inductive invariant, what follows from it, that no store waits in     *)
(* vain, and that the circular buffer implements the bounded queue of        *)
(* RobFifo.                                                                  *)
(***************************************************************************)
EXTENDS RobCycle, RobLemmas

(* The invariant. *)

\* The invariant holds of the buffer that rob_init builds.
LEMMA InitRobInv == Init => RobInv
<1> SUFFICES ASSUME Init PROVE RobInv
  OBVIOUS
<1> USE DEF Init
<1>1. /\ rob.front_current = -1 /\ rob.rear_current = -1
      /\ rob.front_next = -1 /\ rob.rear_next = -1
      /\ \A i \in Slots : rob.queue_next[i].rob_id = i + 1
  BY DEF rob_init
<1>2. cdb = << >>
  BY DEF cdb_init
<1>3. TypeOK
  <2>1. rob_init \in RobState(Words)
    BY InitType, WordsAssumption DEF NA
  <2> QED
    BY <1>2, <2>1, WidthAssumption DEF TypeOK
<1>4. CursorsInStep
  BY <1>1, UpdateWindow DEF CursorsInStep, Cursor
<1>5. CommitsWithoutGap
  BY WidthAssumption DEF CommitsWithoutGap
<1>6. InFlightIsBusy /\ FinishedReadsTheSame
  BY <1>1 DEF InFlightIsBusy, FinishedReadsTheSame, InNext, InWindow
<1> QED
  BY <1>1, <1>2, <1>3, <1>4, <1>5, <1>6
  DEF RobInv, BusEmptyAtIssue, SlotsKeepIds, PendingIsUnfinished

\* While nothing has been committed in the cycle the two windows are in step.
LEMMA BeforeCommit ==
    ASSUME RobInv, phase \in {"issue", "execute"}
    PROVE  InStep(rob.front_current, rob.rear_current, rob.front_next, rob.rear_next, issued, 0)
  BY DEF RobInv, CursorsInStep, CommitsWithoutGap

\* Whatever the issue unit enqueues keeps the invariant and spares the current window.
LEMMA EnqueueInv ==
    ASSUME RobInv, NEW op_type \in OpType, NEW dest \in Words, NEW value \in Words,
           NEW q \in {0} \cup RobIds, NEW npc_pred \in Words, NEW inst_pc \in Words,
           IsStore(op_type) => dest = 0,
           Enqueue(op_type, dest, value, q, npc_pred, inst_pc)
    PROVE  /\ RobInv'
           /\ \A i \in Slots : InCurrent(i) => rob'.queue_next[i] = rob.queue_next[i]
<1> DEFINE rear == (rob.rear_next + 1) % S
           new == rob_enqueue(rob, op_type, dest, value, q, npc_pred, inst_pc)
           held == QueueSize(rob.front_current, rob.rear_current)
<1>1. /\ phase = "issue" /\ issued < ISSUE_WIDTH /\ issued < rob_num_free_slots(rob)
      /\ rob' = new /\ pending' = pending \cup {rear + 1} /\ issued' = issued + 1
      /\ UNCHANGED <<cdb, phase, commit_num, committed, retired>>
  BY DEF Enqueue, CanIssue, rob_enqueue_id, S
<1>2. rob \in RobState(Words) /\ issued \in Nat /\ pending \subseteq RobIds
  BY DEF RobInv, TypeOK
<1>e. EntryAdded(Words, rob, new, rear, op_type, dest, q)
  BY <1>2, EnqueueFields
<1>3. /\ new \in RobState(Words)
      /\ rear \in Slots
      /\ rear = IF rob.rear_next + 1 = S THEN 0 ELSE rob.rear_next + 1
      /\ new.queue_current = rob.queue_current
      /\ new.front_current = rob.front_current
      /\ new.rear_current = rob.rear_current
      /\ new.front_next = IF rob.front_next = -1 THEN 0 ELSE rob.front_next
      /\ new.rear_next = rear
      /\ \A i \in Slots : i # rear => new.queue_next[i] = rob.queue_next[i]
      /\ new.queue_next[rear].busy
      /\ ~new.queue_next[rear].ready
      /\ new.queue_next[rear].dest = dest
      /\ new.queue_next[rear].op_type = op_type
      /\ new.queue_next[rear].rob_id = rob.queue_next[rear].rob_id
  BY <1>e DEF EntryAdded
<1>4. /\ rob.front_current \in Cursor /\ rob.rear_current \in Cursor
      /\ rob.front_next \in Cursor /\ rob.rear_next \in Cursor
  BY <1>2 DEF RobState, Cursor
<1>5. /\ InStep(rob.front_current, rob.rear_current, new.front_next, new.rear_next, issued + 1, 0)
      /\ ~InWindow(rob.front_current, rob.rear_current, rear)
      /\ \A i \in Slots : InWindow(new.front_next, new.rear_next, i)
                              => InWindow(rob.front_next, rob.rear_next, i) \/ i = rear
  <2>1. InStep(rob.front_current, rob.rear_current, rob.front_next, rob.rear_next, issued, 0)
    BY <1>1, BeforeCommit
  <2>2. issued < S - held
    <3>1. rob.front_current = -1 <=> rob.rear_current = -1
      BY <2>1 DEF InStep
    <3> QED
      BY <1>1, <1>2, <3>1, FreeSlots
  <2> HIDE DEF new
  <2> QED
    BY <1>2, <1>3, <1>4, <2>1, <2>2, EnqueueWindow
<1> HIDE DEF new, rear
<1>6. TypeOK'
  <2>1. rear + 1 \in RobIds
    BY <1>3, SizeIsPositive
  <2>2. issued + 1 \in 0 .. ISSUE_WIDTH
    BY <1>1, <1>2, WidthAssumption
  <2> QED
    BY <1>1, <1>2, <1>3, <2>1, <2>2 DEF RobInv, TypeOK
<1>7. commit_num = 0 /\ committed = 0
  BY <1>1 DEF RobInv, CommitsWithoutGap
<1>8. CursorsInStep'
  BY <1>1, <1>3, <1>5, <1>7 DEF CursorsInStep
<1>9. CommitsWithoutGap' /\ BusEmptyAtIssue'
  BY <1>1, <1>7 DEF RobInv, CommitsWithoutGap, BusEmptyAtIssue
<1>10. SlotsKeepIds'
  BY <1>1, <1>3 DEF RobInv, SlotsKeepIds
<1>11. PendingIsUnfinished'
  <2> SUFFICES ASSUME NEW id \in pending'
               PROVE  /\ ~new.queue_next[id - 1].ready
                      /\ ~cdb_is_val_ready(cdb, id)
                      /\ IsStore(new.queue_next[id - 1].op_type)
                            => new.queue_next[id - 1].dest = 0
    BY <1>1 DEF PendingIsUnfinished
  <2>1. ~cdb_is_val_ready(cdb, id)
    BY <1>1 DEF RobInv, BusEmptyAtIssue, cdb_is_val_ready
  <2>2. CASE id - 1 = rear
    BY <1>3, <2>1, <2>2
  <2>3. CASE id - 1 # rear
    <3>1. id \in pending
      BY <1>1, <1>3, <2>3, SizeIsPositive
    <3>2. id - 1 \in Slots
      BY <1>2, <3>1, SizeIsPositive
    <3> QED
      BY <1>3, <2>1, <2>3, <3>1, <3>2 DEF RobInv, PendingIsUnfinished
  <2> QED
    BY <2>2, <2>3
<1>12. InFlightIsBusy'
  BY <1>1, <1>3, <1>5 DEF RobInv, InFlightIsBusy, InNext
<1>13. \A i \in Slots : InCurrent(i) => i # rear
  BY <1>5 DEF InCurrent
<1>14. FinishedReadsTheSame'
  BY <1>1, <1>3, <1>5, <1>13 DEF RobInv, FinishedReadsTheSame, InCurrent, InNext
<1>15. \A i \in Slots : InCurrent(i) => rob'.queue_next[i] = rob.queue_next[i]
  BY <1>1, <1>3, <1>13
<1> QED
  BY <1>6, <1>8, <1>9, <1>10, <1>11, <1>12, <1>14, <1>15 DEF RobInv

\* What a functional unit may do to the buffer and to the bus when it answers.
LEMMA AnswerInv ==
    ASSUME RobInv, NEW id \in RobIds, NEW op_types, Answer(id, op_types),
           rob' \in RobState(Words),
           rob'.queue_current = rob.queue_current,
           rob'.front_current = rob.front_current, rob'.rear_current = rob.rear_current,
           rob'.front_next = rob.front_next, rob'.rear_next = rob.rear_next,
           \A i \in Slots : /\ i # id - 1 => rob'.queue_next[i] = rob.queue_next[i]
                            /\ rob'.queue_next[i].rob_id = rob.queue_next[i].rob_id
                            /\ rob'.queue_next[i].busy = rob.queue_next[i].busy,
           cdb' \in Bus(Words),
           \A k : cdb_is_val_ready(cdb', k) => cdb_is_val_ready(cdb, k) \/ k = id
    PROVE  RobInv'
<1>1. /\ phase = "execute" /\ id \in pending /\ pending' = pending \ {id}
      /\ UNCHANGED <<phase, issued, commit_num, committed, retired>>
  BY DEF Answer
<1>2. TypeOK'
  BY <1>1 DEF RobInv, TypeOK, Bus
<1>3. CursorsInStep'
  BY <1>1 DEF RobInv, CursorsInStep
<1>4. CommitsWithoutGap' /\ BusEmptyAtIssue'
  BY <1>1 DEF RobInv, CommitsWithoutGap, BusEmptyAtIssue
<1>5. SlotsKeepIds'
  BY DEF RobInv, SlotsKeepIds
<1>6. PendingIsUnfinished'
  <2> SUFFICES ASSUME NEW other \in pending, other # id
               PROVE  /\ ~rob'.queue_next[other - 1].ready
                      /\ ~cdb_is_val_ready(cdb', other)
                      /\ IsStore(rob'.queue_next[other - 1].op_type)
                            => rob'.queue_next[other - 1].dest = 0
    BY <1>1 DEF PendingIsUnfinished
  <2>1. other - 1 \in Slots /\ other - 1 # id - 1
    BY SizeIsPositive DEF RobInv, TypeOK
  <2>2. rob'.queue_next[other - 1] = rob.queue_next[other - 1]
    BY <2>1
  <2> QED
    BY <2>2 DEF RobInv, PendingIsUnfinished
<1>7. InFlightIsBusy'
  BY DEF RobInv, InFlightIsBusy, InNext
<1>8. FinishedReadsTheSame'
  <2>1. id - 1 \in Slots /\ ~rob.queue_next[id - 1].ready
    BY <1>1, SizeIsPositive DEF RobInv, PendingIsUnfinished
  <2>2. ASSUME NEW i \in Slots, InCurrent(i), InNext(i), rob.queue_current[i].ready
        PROVE  rob'.queue_next[i] = rob.queue_current[i]
    BY <2>1, <2>2 DEF RobInv, FinishedReadsTheSame
  <2> QED
    BY <2>2 DEF FinishedReadsTheSame, InCurrent, InNext
<1> QED
  BY <1>2, <1>3, <1>4, <1>5, <1>6, <1>7, <1>8 DEF RobInv

\* Every unit answers for one pending instruction, and finishes it only if it is a branch,
\* or a store whose data is there; a result goes on the bus.
LEMMA UnitAnswers ==
    ASSUME RobInv, BroadcastResult \/ BroadcastJump \/ ResolveBranch \/ SendAddress
    PROVE  \E id \in pending :
              LET old == rob.queue_next[id - 1]
              IN  /\ phase = "execute" /\ pending' = pending \ {id}
                  /\ UNCHANGED <<phase, issued, commit_num, committed, retired>>
                  /\ OnlyAnswers(rob, id, rob')
                  /\ rob'.queue_next[id - 1].ready =>
                        \/ old.ready
                        \/ IsStore(old.op_type) /\ old.q = 0
                        \/ old.op_type = "BRANCH"
                  /\ \A k : cdb_is_val_ready(cdb', k) =>
                              cdb_is_val_ready(cdb, k) \/ (k = id /\ HasResult(old.op_type))
                  /\ \A k : cdb_is_val_ready(cdb, k) => cdb_is_val_ready(cdb', k)
                  /\ HasResult(old.op_type) => cdb_is_val_ready(cdb', id)
<1>1. rob \in RobState(Words) /\ cdb \in Bus(Words)
  BY DEF RobInv, TypeOK, Bus
<1>2. CASE BroadcastResult
  <2> PICK id \in RobIds, val \in Words :
        /\ Answer(id, {"AL", "LOAD"}) /\ Len(cdb) < CDB_SIZE
        /\ cdb' = cdb_write(cdb, id, val) /\ rob' = rob
    BY <1>2 DEF BroadcastResult
  <2> QED
    BY <1>1, WriteType DEF Answer, OnlyAnswers, HasResult
<1>3. CASE BroadcastJump
  <2> PICK id \in RobIds, val \in Words, npc_actual \in Words :
        /\ Answer(id, {"JUMP"}) /\ Len(cdb) < CDB_SIZE
        /\ cdb' = cdb_write(cdb, id, val) /\ rob' = rob_add_npc_actual(rob, id, npc_actual)
    BY <1>3, WordsAssumption DEF BroadcastJump
  <2> QED
    BY <1>1, WriteType, AddNpcActualFields DEF Answer, HasResult
<1>4. CASE ResolveBranch
  <2> PICK id \in RobIds, npc_actual \in Words :
        /\ Answer(id, {"BRANCH"}) /\ cdb' = cdb /\ rob' = rob_add_npc_actual(rob, id, npc_actual)
    BY <1>4, WordsAssumption DEF ResolveBranch
  <2> QED
    BY <1>1, AddNpcActualFields DEF Answer, HasResult
<1>5. CASE SendAddress
  <2> PICK id \in RobIds, addr \in Words :
        /\ Answer(id, StoreType) /\ cdb' = cdb /\ rob' = rob_add_address(rob, id, addr)
    BY <1>5 DEF SendAddress
  <2> QED
    BY <1>1, AddAddressFields DEF Answer, HasResult, StoreType, IsStore
<1> QED
  BY <1>2, <1>3, <1>4, <1>5

\* The functional units keep the invariant.
LEMMA UnitsInv ==
    ASSUME RobInv, BroadcastResult \/ BroadcastJump \/ ResolveBranch \/ SendAddress
    PROVE  RobInv'
<1>1. rob \in RobState(Words) /\ cdb \in Bus(Words)
  BY DEF RobInv, TypeOK, Bus
<1>2. CASE BroadcastResult
  <2> PICK id \in RobIds, val \in Words :
        /\ Answer(id, {"AL", "LOAD"}) /\ cdb' = cdb_write(cdb, id, val) /\ rob' = rob
    BY <1>2 DEF BroadcastResult
  <2> QED
    BY <1>1, WriteType, AnswerInv
<1>3. CASE BroadcastJump
  <2> PICK id \in RobIds, val \in Words, npc_actual \in Words :
        /\ Answer(id, {"JUMP"})
        /\ cdb' = cdb_write(cdb, id, val) /\ rob' = rob_add_npc_actual(rob, id, npc_actual)
    BY <1>3, WordsAssumption DEF BroadcastJump
  <2>1. OnlyAnswers(rob, id, rob')
    BY <1>1, AddNpcActualFields
  <2> QED
    BY <1>1, <2>1, WriteType, AddNpcActualFields, AnswerInv DEF OnlyAnswers
<1>4. CASE ResolveBranch
  <2> PICK id \in RobIds, npc_actual \in Words :
        /\ Answer(id, {"BRANCH"}) /\ cdb' = cdb /\ rob' = rob_add_npc_actual(rob, id, npc_actual)
    BY <1>4, WordsAssumption DEF ResolveBranch
  <2>1. OnlyAnswers(rob, id, rob')
    BY <1>1, AddNpcActualFields
  <2> QED
    BY <1>1, <2>1, AddNpcActualFields, AnswerInv DEF OnlyAnswers
<1>5. CASE SendAddress
  <2> PICK id \in RobIds, addr \in Words :
        /\ Answer(id, StoreType) /\ cdb' = cdb /\ rob' = rob_add_address(rob, id, addr)
    BY <1>5 DEF SendAddress
  <2>1. OnlyAnswers(rob, id, rob')
    BY <1>1, AddAddressFields
  <2> QED
    BY <1>1, <2>1, AddAddressFields, AnswerInv DEF OnlyAnswers
<1> QED
  BY <1>2, <1>3, <1>4, <1>5

\* rob_step keeps the invariant.
LEMMA CaptureInv == ASSUME RobInv, Capture PROVE RobInv'
<1>1. /\ phase = "execute" /\ phase' = "commit" /\ rob' = rob_step(rob, cdb)
      /\ UNCHANGED <<cdb, issued, commit_num, committed, pending, retired>>
  BY DEF Capture
<1>2. rob \in RobState(Words) /\ cdb \in Bus(Words) /\ pending \subseteq RobIds
  BY DEF RobInv, TypeOK, Bus
<1>3. /\ rob' \in RobState(Words)
      /\ rob'.queue_current = rob.queue_current
      /\ rob'.front_current = rob.front_current /\ rob'.rear_current = rob.rear_current
      /\ rob'.front_next = rob.front_next /\ rob'.rear_next = rob.rear_next
      /\ \A i \in Slots : rob'.queue_next[i] = CaptureEntry(rob.queue_next[i], cdb)
  BY <1>1, <1>2, StepFields
<1>4. \A i \in Slots :
        /\ rob'.queue_next[i].rob_id = rob.queue_next[i].rob_id
        /\ rob'.queue_next[i].busy = rob.queue_next[i].busy
        /\ rob'.queue_next[i].op_type = rob.queue_next[i].op_type
        /\ rob'.queue_next[i].dest = rob.queue_next[i].dest
        /\ rob.queue_next[i].ready => rob'.queue_next[i] = rob.queue_next[i]
        /\ rob'.queue_next[i].ready =>
              \/ rob.queue_next[i].ready
              \/ cdb_is_val_ready(cdb, rob.queue_next[i].rob_id)
              \/ IsStore(rob.queue_next[i].op_type) /\ rob.queue_next[i].dest # 0
  <2> TAKE i \in Slots
  <2>1. rob.queue_next[i] \in RobEntry(Words)
    BY <1>2 DEF RobState
  <2>2. rob'.queue_next[i] = CaptureEntry(rob.queue_next[i], cdb)
    BY <1>3
  <2> QED
    BY <1>2, <2>1, <2>2, CaptureFields
<1>5. commit_num = 0 /\ committed = 0
  BY <1>1 DEF RobInv, CommitsWithoutGap
<1>6. TypeOK'
  BY <1>1, <1>3 DEF RobInv, TypeOK
<1>7. CursorsInStep'
  BY <1>1, <1>3 DEF RobInv, CursorsInStep
<1>8. CommitsWithoutGap' /\ BusEmptyAtIssue'
  BY <1>1, <1>5, WidthAssumption DEF CommitsWithoutGap, BusEmptyAtIssue
<1>9. SlotsKeepIds'
  BY <1>4 DEF RobInv, SlotsKeepIds
<1>10. PendingIsUnfinished'
  <2> SUFFICES ASSUME NEW id \in pending
               PROVE  /\ ~rob'.queue_next[id - 1].ready
                      /\ ~cdb_is_val_ready(cdb, id)
                      /\ IsStore(rob'.queue_next[id - 1].op_type)
                            => rob'.queue_next[id - 1].dest = 0
    BY <1>1 DEF PendingIsUnfinished
  <2>1. id - 1 \in Slots /\ (id - 1) + 1 = id
    BY <1>2, SizeIsPositive
  <2>2. rob.queue_next[id - 1].rob_id = id
    BY <2>1 DEF RobInv, SlotsKeepIds
  <2>3. /\ ~rob.queue_next[id - 1].ready
        /\ ~cdb_is_val_ready(cdb, id)
        /\ IsStore(rob.queue_next[id - 1].op_type) => rob.queue_next[id - 1].dest = 0
    BY DEF RobInv, PendingIsUnfinished
  <2> QED
    BY <1>4, <2>1, <2>2, <2>3
<1>11. InFlightIsBusy'
  BY <1>3, <1>4 DEF RobInv, InFlightIsBusy, InNext
<1>12. FinishedReadsTheSame'
  BY <1>3, <1>4 DEF RobInv, FinishedReadsTheSame, InCurrent, InNext
<1> QED
  BY <1>6, <1>7, <1>8, <1>9, <1>10, <1>11, <1>12 DEF RobInv

\* If the n-th commit of a cycle is ready, so is every one before it.
LEMMA ReadyIsMonotone ==
    ASSUME NEW r, NEW n \in Nat, NEW m \in Nat, m <= n, rob_ready(r, n),
           QueueSize(r.front_current, r.rear_current) \in Int
    PROVE  rob_ready(r, m)
<1>1. m < QueueSize(r.front_current, r.rear_current)
  BY DEF rob_ready
<1>2. \A i \in 0 .. m : i \in 0 .. n
  OBVIOUS
<1> QED
  BY <1>1, <1>2, Zenon DEF rob_ready

\* single_commit takes the entry at the front of the window being built, and no other:
\* it is finished, and what rob_dequeue returns is its copy in queue_next.
LEMMA CommitsTheFront ==
    ASSUME RobInv, Commit
    PROVE  LET index == rob.front_current + commit_num
               after == rob_dequeue(rob, commit_num)
               front == IF rob.front_next = rob.rear_next THEN -1
                        ELSE IF rob.front_next + 1 = S THEN 0 ELSE rob.front_next + 1
               rear == IF rob.front_next = rob.rear_next THEN -1 ELSE rob.rear_next
           IN  /\ committed = commit_num
               /\ commit_num \in Nat /\ commit_num < COMMIT_WIDTH
               /\ InStep(rob.front_current, rob.rear_current, front, rear,
                         issued, commit_num + 1)
               /\ rob.front_next \in Slots /\ rob.rear_next \in Slots
               /\ \A i \in Slots : InWindow(front, rear, i)
                     => InNext(i) /\ i # rob.front_next
               /\ after \in RobState(Words)
               /\ after.queue_current = rob.queue_current
               /\ after.front_current = rob.front_current
               /\ after.rear_current = rob.rear_current
               /\ \A i \in Slots :
                     /\ i # rob.front_next => after.queue_next[i] = rob.queue_next[i]
                     /\ after.queue_next[i].ready = rob.queue_next[i].ready
                     /\ after.queue_next[i].rob_id = rob.queue_next[i].rob_id
                     /\ after.queue_next[i].op_type = rob.queue_next[i].op_type
                     /\ after.queue_next[i].dest = rob.queue_next[i].dest
                     /\ after.queue_next[i].q = rob.queue_next[i].q
               /\ after.front_next = front
               /\ after.rear_next = rear
               /\ InNext(rob.front_next)
               /\ rob.queue_next[rob.front_next].ready
               /\ rob_dequeue_entry(rob, commit_num) = rob.queue_next[rob.front_next]
<1> DEFINE index == rob.front_current + commit_num
           after == rob_dequeue(rob, commit_num)
           held == QueueSize(rob.front_current, rob.rear_current)
<1>1. phase = "commit" /\ rob_ready(rob, commit_num)
  BY DEF Commit
<1>2. /\ rob \in RobState(Words) /\ issued \in Nat
      /\ commit_num \in Nat /\ committed \in Nat /\ commit_num < COMMIT_WIDTH
  BY <1>1 DEF RobInv, TypeOK, CommitsWithoutGap
<1>3. /\ rob.front_current \in Cursor /\ rob.rear_current \in Cursor
      /\ rob.front_next \in Cursor /\ rob.rear_next \in Cursor
  BY <1>2 DEF RobState, Cursor
<1>4. /\ rob.front_current \in Slots
      /\ commit_num < held
      /\ index \in 0 .. 2 * S - 1
      /\ LET i == IF index < S THEN index ELSE index - S
         IN  i \in Slots /\ rob.queue_current[i].ready
  <2>1. commit_num \in 0 .. commit_num
    BY <1>2
  <2> QED
    BY <1>1, <1>2, <2>1, ReadyWindow
<1>5. held \in 0 .. S
  <2>1. rob.front_current # -1
    BY <1>4, SizeIsPositive
  <2> QED
    BY <1>3, <2>1, QueueSizeBounds, Zenon DEF Cursor
<1>6. committed = commit_num
  <2>1. committed <= commit_num /\ (committed < commit_num => ~rob_ready(rob, committed))
    BY DEF RobInv, CommitsWithoutGap
  <2>2. rob_ready(rob, committed)
    BY <1>1, <1>2, <1>5, <2>1, ReadyIsMonotone
  <2> QED
    BY <1>2, <2>1, <2>2
<1>7. InStep(rob.front_current, rob.rear_current, rob.front_next, rob.rear_next,
             issued, commit_num)
  BY <1>1, <1>6 DEF RobInv, CursorsInStep
<1> DEFINE front == IF rob.front_next = rob.rear_next THEN -1
                    ELSE IF rob.front_next + 1 = S THEN 0 ELSE rob.front_next + 1
           rear == IF rob.front_next = rob.rear_next THEN -1 ELSE rob.rear_next
<1>8. /\ InStep(rob.front_current, rob.rear_current, front, rear, issued, commit_num + 1)
      /\ rob.front_next \in Slots
      /\ rob.front_next = AfterLap(index)
      /\ \A i \in Slots : InWindow(front, rear, i)
            => InNext(i) /\ i # rob.front_next
      /\ rob.rear_next \in Slots
      /\ InNext(rob.front_next) /\ InCurrent(rob.front_next)
  <2>1. /\ InStep(rob.front_current, rob.rear_current, front, rear, issued, commit_num + 1)
        /\ rob.front_next \in Slots
        /\ rob.front_next = AfterLap(index)
        /\ \A i \in Slots : InWindow(front, rear, i)
              => InWindow(rob.front_next, rob.rear_next, i) /\ i # rob.front_next
    BY <1>2, <1>3, <1>4, <1>7, DequeueWindow
  <2>2. /\ rob.rear_next \in Slots
        /\ InWindow(rob.front_next, rob.rear_next, rob.front_next)
        /\ InWindow(rob.front_current, rob.rear_current, rob.front_next)
    BY <1>2, <1>3, <1>4, <1>7, FrontInWindows
  <2> HIDE DEF front, rear, index
  <2> QED
    BY <2>1, <2>2 DEF InNext, InCurrent
<1>9. /\ after \in RobState(Words)
      /\ after.queue_current = rob.queue_current
      /\ after.front_current = rob.front_current
      /\ after.rear_current = rob.rear_current
      /\ \A i \in Slots : i # index => after.queue_next[i] = rob.queue_next[i]
      /\ \A i \in Slots : /\ after.queue_next[i].ready = rob.queue_next[i].ready
                          /\ after.queue_next[i].rob_id = rob.queue_next[i].rob_id
                          /\ after.queue_next[i].op_type = rob.queue_next[i].op_type
                          /\ after.queue_next[i].dest = rob.queue_next[i].dest
                          /\ after.queue_next[i].q = rob.queue_next[i].q
      /\ after.front_next = front
      /\ after.rear_next = rear
  BY <1>2, <1>4, <1>8, DequeueFields
<1>10. \A i \in Slots : i = index => i = rob.front_next
  BY <1>8, SizeIsPositive DEF AfterLap, S
<1>11. rob.queue_current[rob.front_next].ready
  BY <1>4, <1>8 DEF AfterLap, S
<1>12. rob.queue_next[rob.front_next] = rob.queue_current[rob.front_next]
  BY <1>8, <1>11 DEF RobInv, FinishedReadsTheSame
<1>13. rob_dequeue_entry(rob, commit_num) = rob.queue_next[rob.front_next]
  BY <1>8, <1>12 DEF rob_dequeue_entry, AfterLap
<1> HIDE DEF after, front, rear, index
<1> QED
  BY <1>2, <1>6, <1>8, <1>9, <1>10, <1>11, <1>12, <1>13 DEF after, front, rear

\* A commit keeps the invariant, with or without a flush.
LEMMA CommitInv == ASSUME RobInv, Commit PROVE RobInv'
<1> DEFINE entry == rob_dequeue_entry(rob, commit_num)
           after == rob_dequeue(rob, commit_num)
           front == IF rob.front_next = rob.rear_next THEN -1
                    ELSE IF rob.front_next + 1 = S THEN 0 ELSE rob.front_next + 1
           rear == IF rob.front_next = rob.rear_next THEN -1 ELSE rob.rear_next
<1>1. /\ phase = "commit"
      /\ retired' = <<entry>>
      /\ \/ rob' = after /\ pending' = pending /\ phase' = AfterIteration
         \/ rob' = rob_clear(after) /\ pending' = {} /\ phase' = "update"
      /\ commit_num' = commit_num + 1 /\ committed' = committed + 1
      /\ UNCHANGED <<cdb, issued>>
  BY DEF Commit
<1>2. /\ commit_num \in Nat /\ commit_num < COMMIT_WIDTH /\ committed = commit_num
      /\ InStep(rob.front_current, rob.rear_current, front, rear, issued, commit_num + 1)
      /\ \A i \in Slots : InWindow(front, rear, i) => InNext(i) /\ i # rob.front_next
      /\ after \in RobState(Words)
      /\ after.queue_current = rob.queue_current
      /\ after.front_current = rob.front_current
      /\ after.rear_current = rob.rear_current
      /\ \A i \in Slots : /\ i # rob.front_next => after.queue_next[i] = rob.queue_next[i]
                          /\ after.queue_next[i].ready = rob.queue_next[i].ready
                          /\ after.queue_next[i].rob_id = rob.queue_next[i].rob_id
                          /\ after.queue_next[i].op_type = rob.queue_next[i].op_type
                          /\ after.queue_next[i].dest = rob.queue_next[i].dest
      /\ after.front_next = front
      /\ after.rear_next = rear
  BY CommitsTheFront
<1>3. entry \in RobEntry(Words)
  BY CommitsTheFront DEF RobInv, TypeOK, RobState
<1>4. <<entry>> \in Seq(RobEntry(Words)) /\ Len(<<entry>>) <= 1
  BY <1>3
<1>5. /\ commit_num + 1 \in 0 .. COMMIT_WIDTH
      /\ AfterIteration \in {"update", "commit"}
      /\ AfterIteration = "commit" => commit_num + 1 < COMMIT_WIDTH
  BY <1>2, WidthAssumption DEF AfterIteration
<1> HIDE DEF after, entry, front, rear
<1>6. CASE rob' = after /\ pending' = pending /\ phase' = AfterIteration
  <2>1. TypeOK'
    BY <1>1, <1>2, <1>4, <1>5, <1>6 DEF RobInv, TypeOK
  <2>2. CursorsInStep'
    BY <1>1, <1>2, <1>6 DEF CursorsInStep
  <2>3. CommitsWithoutGap' /\ BusEmptyAtIssue'
    BY <1>1, <1>2, <1>5, <1>6 DEF CommitsWithoutGap, BusEmptyAtIssue
  <2>4. SlotsKeepIds'
    BY <1>2, <1>6 DEF RobInv, SlotsKeepIds
  <2>5. PendingIsUnfinished'
    <3>1. \A id \in pending : id - 1 \in Slots
      BY SizeIsPositive DEF RobInv, TypeOK
    <3> QED
      BY <1>1, <1>2, <1>6, <3>1 DEF RobInv, PendingIsUnfinished
  <2>6. \A i \in Slots : InWindow(front, rear, i)
            => InNext(i) /\ rob'.queue_next[i] = rob.queue_next[i]
    BY <1>2, <1>6
  <2>7. InFlightIsBusy'
    BY <1>2, <1>6, <2>6 DEF RobInv, InFlightIsBusy, InNext
  <2>8. FinishedReadsTheSame'
    BY <1>2, <1>6, <2>6 DEF RobInv, FinishedReadsTheSame, InNext, InCurrent
  <2> QED
    BY <2>1, <2>2, <2>3, <2>4, <2>5, <2>7, <2>8 DEF RobInv
<1>7. CASE rob' = rob_clear(after) /\ pending' = {} /\ phase' = "update"
  <2>1. /\ rob' \in RobState(Words)
        /\ rob'.front_next = -1 /\ rob'.rear_next = -1
        /\ \A i \in Slots : rob'.queue_next[i].rob_id = after.queue_next[i].rob_id
    BY <1>2, <1>7, ClearFields
  <2>2. TypeOK'
    BY <1>1, <1>2, <1>4, <1>5, <1>7, <2>1 DEF RobInv, TypeOK
  <2>3. CursorsInStep'
    BY <1>7, <2>1 DEF CursorsInStep
  <2>4. CommitsWithoutGap' /\ BusEmptyAtIssue'
    BY <1>1, <1>2, <1>7 DEF CommitsWithoutGap, BusEmptyAtIssue
  <2>5. SlotsKeepIds'
    BY <1>2, <2>1 DEF RobInv, SlotsKeepIds
  <2>6. PendingIsUnfinished' /\ InFlightIsBusy' /\ FinishedReadsTheSame'
    BY <1>7, <2>1
    DEF PendingIsUnfinished, InFlightIsBusy, FinishedReadsTheSame, InNext, InWindow
  <2> QED
    BY <2>2, <2>3, <2>4, <2>5, <2>6 DEF RobInv
<1> QED
  BY <1>1, <1>6, <1>7

\* The end of the commit loop keeps the invariant.
LEMMA CommitNothingInv == ASSUME RobInv, CommitNothing PROVE RobInv'
<1>1. /\ phase = "commit" /\ ~rob_ready(rob, commit_num)
      /\ phase' = AfterIteration /\ commit_num' = commit_num + 1
      /\ UNCHANGED <<rob, cdb, issued, committed, pending, retired>>
  BY DEF CommitNothing
<1>2. /\ commit_num \in Nat /\ committed \in Nat /\ commit_num < COMMIT_WIDTH
      /\ committed <= commit_num /\ (committed < commit_num => ~rob_ready(rob, committed))
  BY <1>1 DEF RobInv, TypeOK, CommitsWithoutGap
<1>3. ~rob_ready(rob, committed)
  BY <1>1, <1>2
<1>4. /\ AfterIteration \in {"update", "commit"}
      /\ AfterIteration = "commit" => commit_num + 1 < COMMIT_WIDTH
  BY <1>2, WidthAssumption DEF AfterIteration
<1>5. TypeOK'
  BY <1>1, <1>2, <1>4, WidthAssumption DEF RobInv, TypeOK
<1>6. CursorsInStep'
  BY <1>1 DEF RobInv, CursorsInStep
<1>7. CommitsWithoutGap' /\ BusEmptyAtIssue'
  BY <1>1, <1>2, <1>3, <1>4 DEF CommitsWithoutGap, BusEmptyAtIssue
<1>8. SlotsKeepIds' /\ PendingIsUnfinished' /\ InFlightIsBusy' /\ FinishedReadsTheSame'
  BY <1>1 DEF RobInv, SlotsKeepIds, PendingIsUnfinished, InFlightIsBusy,
              FinishedReadsTheSame, InNext, InCurrent
<1> QED
  BY <1>5, <1>6, <1>7, <1>8 DEF RobInv

\* The end of the issue loop keeps the invariant.
LEMMA EndIssueInv == ASSUME RobInv, EndIssue PROVE RobInv'
<1>1. /\ phase = "issue" /\ phase' = "execute"
      /\ UNCHANGED <<rob, cdb, issued, commit_num, committed, pending, retired>>
  BY DEF EndIssue
<1>2. TypeOK'
  BY <1>1 DEF RobInv, TypeOK
<1>3. CursorsInStep'
  BY <1>1 DEF RobInv, CursorsInStep
<1>4. CommitsWithoutGap' /\ BusEmptyAtIssue'
  BY <1>1 DEF RobInv, CommitsWithoutGap, BusEmptyAtIssue
<1>5. SlotsKeepIds' /\ PendingIsUnfinished' /\ InFlightIsBusy' /\ FinishedReadsTheSame'
  BY <1>1 DEF RobInv, SlotsKeepIds, PendingIsUnfinished, InFlightIsBusy,
              FinishedReadsTheSame, InNext, InCurrent
<1> QED
  BY <1>2, <1>3, <1>4, <1>5 DEF RobInv

\* update_current keeps the invariant.
LEMMA UpdateCurrentInv == ASSUME RobInv, UpdateCurrent PROVE RobInv'
<1>1. /\ phase = "update" /\ phase' = "issue"
      /\ rob' = rob_update_current(rob) /\ cdb' = << >>
      /\ issued' = 0 /\ commit_num' = 0 /\ committed' = 0
      /\ pending' = pending /\ retired' = << >>
  BY DEF UpdateCurrent, cdb_clear, cdb_init
<1>2. rob \in RobState(Words)
  BY DEF RobInv, TypeOK
<1>3. /\ rob' \in RobState(Words)
      /\ rob'.queue_current = rob.queue_next /\ rob'.queue_next = rob.queue_next
      /\ rob'.front_current = rob.front_next /\ rob'.front_next = rob.front_next
      /\ rob'.rear_current = rob.rear_next /\ rob'.rear_next = rob.rear_next
  BY <1>1, <1>2, UpdateFields
<1>4. TypeOK'
  BY <1>1, <1>3, WidthAssumption DEF RobInv, TypeOK
<1>5. CursorsInStep'
  <2>1. rob.front_next \in Cursor /\ rob.rear_next \in Cursor
    BY <1>2 DEF RobState, Cursor
  <2>2. rob.front_next = -1 <=> rob.rear_next = -1
    BY DEF RobInv, CursorsInStep, InStep
  <2> QED
    BY <1>1, <1>3, <2>1, <2>2, UpdateWindow DEF CursorsInStep
<1>6. CommitsWithoutGap' /\ BusEmptyAtIssue'
  BY <1>1 DEF CommitsWithoutGap, BusEmptyAtIssue
<1>7. SlotsKeepIds' /\ InFlightIsBusy' /\ FinishedReadsTheSame'
  BY <1>3 DEF RobInv, SlotsKeepIds, InFlightIsBusy, FinishedReadsTheSame, InNext
<1>8. PendingIsUnfinished'
  BY <1>1, <1>3 DEF RobInv, PendingIsUnfinished, cdb_is_val_ready
<1> QED
  BY <1>4, <1>5, <1>6, <1>7, <1>8 DEF RobInv

\* Each of the three kinds of instruction enters the buffer through Enqueue.
LEMMA IssueInv ==
    ASSUME RobInv, IssueResult \/ IssueBranch \/ IssueStore
    PROVE  /\ RobInv'
           /\ \A i \in Slots : InCurrent(i) => rob'.queue_next[i] = rob.queue_next[i]
<1>1. NA \in Words /\ NA \in {0} \cup RobIds
  BY WordsAssumption DEF NA
<1>2. CASE IssueResult
  <2> PICK op_type \in {"AL", "LOAD"} \cap Types, rd_addr \in Dests :
        Enqueue(op_type, rd_addr, NA, NA, NA, NA)
    BY <1>2 DEF IssueResult
  <2>1. op_type \in OpType /\ rd_addr \in Words /\ ~IsStore(op_type)
    BY WordsAssumption DEF IsStore, StoreType
  <2> QED
    BY <1>1, <2>1, EnqueueInv
<1>3. CASE IssueBranch
  <2> PICK op_type \in {"JUMP", "BRANCH"} \cap Types, npc_pred \in Targets, inst_pc \in Pcs,
           dest \in {NA} \cup Dests :
        Enqueue(op_type, dest, NA, NA, npc_pred, inst_pc)
    BY <1>3 DEF IssueBranch
  <2>1. /\ op_type \in OpType /\ ~IsStore(op_type)
        /\ dest \in Words /\ npc_pred \in Words /\ inst_pc \in Words
    BY <1>1, WordsAssumption DEF IsStore, StoreType
  <2> QED
    BY <1>1, <2>1, EnqueueInv
<1>4. CASE IssueStore
  <2> PICK op_type \in StoreType \cap Types, value \in Words, q \in {NA} \cup Producers :
        Enqueue(op_type, NA, value, q, NA, NA)
    BY <1>4 DEF IssueStore
  <2>1. op_type \in OpType /\ q \in {0} \cup RobIds
    BY WordsAssumption DEF NA, Producers
  <2>2. NA = 0
    BY DEF NA
  <2> QED
    BY <1>1, <2>1, <2>2, EnqueueInv
<1> QED
  BY <1>2, <1>3, <1>4

\* The invariant is inductive.
LEMMA StepInv == RobInv /\ [Next]_vars => RobInv'
<1> SUFFICES ASSUME RobInv, [Next]_vars PROVE RobInv'
  OBVIOUS
<1>1. CASE IssueResult \/ IssueBranch \/ IssueStore
  BY <1>1, IssueInv
<1>2. CASE EndIssue
  BY <1>2, EndIssueInv
<1>3. CASE BroadcastResult \/ BroadcastJump \/ ResolveBranch \/ SendAddress
  BY <1>3, UnitsInv
<1>4. CASE Capture
  BY <1>4, CaptureInv
<1>5. CASE Commit
  BY <1>5, CommitInv
<1>6. CASE CommitNothing
  BY <1>6, CommitNothingInv
<1>7. CASE UpdateCurrent
  BY <1>7, UpdateCurrentInv
<1>8. CASE UNCHANGED vars
  BY <1>8 DEF vars, RobInv, TypeOK, CursorsInStep, CommitsWithoutGap, BusEmptyAtIssue,
     SlotsKeepIds, PendingIsUnfinished, InFlightIsBusy, FinishedReadsTheSame, InNext, InCurrent
<1> QED
  BY <1>1, <1>2, <1>3, <1>4, <1>5, <1>6, <1>7, <1>8 DEF Next

-----------------------------------------------------------------------------

(***************************************************************************)
(* The inductive invariant holds in every reachable state, for every       *)
(* buffer size, issue and commit width, bus size and set of words.         *)
(***************************************************************************)
THEOREM RobInvariance == Spec => []RobInv
  BY InitRobInv, StepInv, PTL DEF Spec

\* rob.c and the loops of step() keep the structs in the shape rob.h declares.
THEOREM TypeCorrectness == Spec => []TypeOK
<1>1. RobInv => TypeOK
  BY DEF RobInv
<1> QED
  BY <1>1, RobInvariance, PTL

\* The window rob_enqueue and rob_dequeue build is the one that is read, moved on by
\* what the cycle issued and committed.
THEOREM CursorsStayInStep == Spec => []CursorsInStep
<1>1. RobInv => CursorsInStep
  BY DEF RobInv
<1> QED
  BY <1>1, RobInvariance, PTL

\* No live entry ever loses its busy bit to the write of a wrapped rob_dequeue.
THEOREM LiveEntriesAreBusy == Spec => []InFlightIsBusy
<1>1. RobInv => InFlightIsBusy
  BY DEF RobInv
<1> QED
  BY <1>1, RobInvariance, PTL

\* A wrapped rob_dequeue returns the entry it should, although it reads the other array.
THEOREM FinishedEntriesAgree == Spec => []FinishedReadsTheSame
<1>1. RobInv => FinishedReadsTheSame
  BY DEF RobInv
<1> QED
  BY <1>1, RobInvariance, PTL

\* However full the buffer is, a batch never overwrites an entry the same cycle reads.
THEOREM IssueKeepsCurrent == Spec => IssueSparesCurrent
<1> DEFINE Spares == phase = "issue" /\ issued' > issued =>
                        \A i \in Slots : InCurrent(i) => rob'.queue_next[i] = rob.queue_next[i]
<1>1. RobInv /\ [Next]_vars => [Spares]_vars
  <2> SUFFICES ASSUME RobInv, Next, phase = "issue", issued' > issued
               PROVE  \A i \in Slots : InCurrent(i) => rob'.queue_next[i] = rob.queue_next[i]
    OBVIOUS
  <2>1. issued \in Nat
    BY DEF RobInv, TypeOK
  <2>2. CASE IssueResult \/ IssueBranch \/ IssueStore
    BY <2>2, IssueInv
  <2>3. CASE EndIssue
    BY <2>1, <2>3 DEF EndIssue
  <2>4. ~(BroadcastResult \/ BroadcastJump \/ ResolveBranch \/ SendAddress \/ Capture
           \/ Commit \/ CommitNothing \/ UpdateCurrent)
    BY DEF BroadcastResult, BroadcastJump, ResolveBranch, SendAddress, Answer, Capture,
           Commit, CommitNothing, UpdateCurrent
  <2> QED
    BY <2>2, <2>3, <2>4 DEF Next
<1>2. [][Spares]_vars <=> IssueSparesCurrent
  BY PTL DEF IssueSparesCurrent
<1> QED
  BY <1>1, <1>2, RobInvariance, PTL DEF Spec

-----------------------------------------------------------------------------

(* The inductive invariant, next to RobInv. *)

Waiting(i) == InNext(i) /\ IsStore(rob.queue_next[i].op_type) /\ rob.queue_next[i].q # 0

HasItsProducer(i) ==
    LET producer == rob.queue_next[i].q - 1
    IN  /\ InNext(producer)
        /\ AgeInNext(producer) < AgeInNext(i)
        /\ HasResult(rob.queue_next[producer].op_type)
        /\ ~rob.queue_next[producer].ready
        /\ ~rob.queue_next[i].ready

\* Every instruction that has a result to deliver will, or does so in this cycle.
UnfinishedWillAnswer ==
    \A i \in Slots :
        InNext(i) /\ HasResult(rob.queue_next[i].op_type) /\ ~rob.queue_next[i].ready
            => i + 1 \in pending \/ (phase = "execute" /\ cdb_is_val_ready(cdb, i + 1))

\* A store never broadcasts, so its own id on the bus cannot finish it.
BusHasResults ==
    phase = "execute" =>
        \A i \in Slots : cdb_is_val_ready(cdb, i + 1) => HasResult(rob.queue_next[i].op_type)

\* What set_q_v finds not ready in queue_current is not ready in queue_next either.
CopiesAgreeAtIssue ==
    phase = "issue" =>
        \A i \in Slots :
            /\ InCurrent(i) => rob.queue_next[i] = rob.queue_current[i]
            /\ InNext(i) /\ ~InCurrent(i) => ~rob.queue_next[i].ready

WaitInv ==
    /\ \A i \in Slots : Waiting(i) => HasItsProducer(i)
    /\ UnfinishedWillAnswer
    /\ BusHasResults
    /\ CopiesAgreeAtIssue

-----------------------------------------------------------------------------

\* The two ways to say how far an entry is behind the front agree.
LEMMA AgeIsAgeFrom == \A i : AgeInNext(i) = AgeFrom(rob.front_next, i)
  BY DEF AgeInNext, AgeFrom, S

-----------------------------------------------------------------------------

\* Nobody waits in an empty buffer.
LEMMA InitWaitInv == Init => WaitInv
<1> SUFFICES ASSUME Init PROVE WaitInv
  OBVIOUS
<1>1. rob.front_next = -1 /\ rob.front_current = -1 /\ phase = "issue"
  BY DEF Init, rob_init
<1> QED
  BY <1>1 DEF WaitInv, Waiting, UnfinishedWillAnswer, BusHasResults, CopiesAgreeAtIssue,
              InNext, InCurrent, InWindow

\* The typing facts about entries that the steps below share.
LEMMA EntryTypes ==
    ASSUME RobInv
    PROVE  /\ rob \in RobState(Words) /\ cdb \in Bus(Words) /\ pending \subseteq RobIds
           /\ \A i \in Slots : /\ rob.queue_next[i] \in RobEntry(Words)
                               /\ rob.queue_next[i].rob_id = i + 1
                               /\ rob.queue_next[i].ready \in BOOLEAN
                               /\ rob.queue_next[i].q \in {0} \cup RobIds
                               /\ rob.queue_next[i].q # 0 => rob.queue_next[i].q - 1 \in Slots
<1>1. rob \in RobState(Words) /\ cdb \in Bus(Words) /\ pending \subseteq RobIds
  BY DEF RobInv, TypeOK, Bus
<1>2. \A i \in Slots : rob.queue_next[i] \in RobEntry(Words)
  BY <1>1 DEF RobState
<1>3. \A i \in Slots : rob.queue_next[i].rob_id = i + 1
  BY DEF RobInv, SlotsKeepIds
<1> QED
  BY <1>1, <1>2, <1>3, SizeIsPositive DEF RobEntry

\* issue: what a store may wait for is in flight and unfinished in both copies.
LEMMA EnqueueWaitInv ==
    ASSUME RobInv, WaitInv,
           NEW op_type \in OpType, NEW dest \in Words, NEW value \in Words,
           NEW q \in {0} \cup Producers, NEW npc_pred \in Words, NEW inst_pc \in Words,
           IsStore(op_type) \/ q = 0,
           Enqueue(op_type, dest, value, q, npc_pred, inst_pc)
    PROVE  WaitInv'
<1> DEFINE rear == (rob.rear_next + 1) % S
           new == rob_enqueue(rob, op_type, dest, value, q, npc_pred, inst_pc)
<1>1. /\ phase = "issue" /\ issued < rob_num_free_slots(rob)
      /\ rob' = new /\ pending' = pending \cup {rear + 1}
      /\ phase' = phase /\ cdb' = cdb
  BY DEF Enqueue, CanIssue, rob_enqueue_id, S
<1>2. rob \in RobState(Words) /\ issued \in Nat /\ q \in {0} \cup RobIds
  BY DEF RobInv, TypeOK, Producers
<1>e. EntryAdded(Words, rob, new, rear, op_type, dest, q)
  BY <1>2, EnqueueFields
<1>3. /\ rear \in Slots
      /\ rear = IF rob.rear_next + 1 = S THEN 0 ELSE rob.rear_next + 1
      /\ new.queue_current = rob.queue_current
      /\ new.front_current = rob.front_current
      /\ new.rear_current = rob.rear_current
      /\ new.front_next = IF rob.front_next = -1 THEN 0 ELSE rob.front_next
      /\ new.rear_next = rear
      /\ \A i \in Slots : i # rear => new.queue_next[i] = rob.queue_next[i]
      /\ ~new.queue_next[rear].ready
      /\ new.queue_next[rear].q = q
      /\ new.queue_next[rear].op_type = op_type
  BY <1>e DEF EntryAdded
<1>4. /\ rob.front_current \in Cursor /\ rob.rear_current \in Cursor
      /\ rob.front_next \in Cursor /\ rob.rear_next \in Cursor
  BY <1>2 DEF RobState, Cursor
<1>5. /\ InStep(rob.front_current, rob.rear_current, rob.front_next, rob.rear_next, issued, 0)
      /\ issued < S - QueueSize(rob.front_current, rob.rear_current)
  <2>1. InStep(rob.front_current, rob.rear_current, rob.front_next, rob.rear_next, issued, 0)
    BY <1>1, BeforeCommit
  <2>2. rob.front_current = -1 <=> rob.rear_current = -1
    BY <2>1 DEF InStep
  <2> QED
    BY <1>1, <1>2, <2>1, <2>2, FreeSlots
<1> HIDE DEF new, rear
<1>6. /\ ~InWindow(rob.front_current, rob.rear_current, rear)
      /\ \A i \in Slots : InWindow(new.front_next, new.rear_next, i)
                              => InWindow(rob.front_next, rob.rear_next, i) \/ i = rear
  BY <1>2, <1>3, <1>4, <1>5, EnqueueWindow
<1>7. /\ ~InWindow(rob.front_next, rob.rear_next, rear)
      /\ InWindow(new.front_next, new.rear_next, rear)
      /\ \A i \in Slots : InWindow(rob.front_next, rob.rear_next, i) =>
             /\ InWindow(new.front_next, new.rear_next, i)
             /\ AgeFrom(new.front_next, i) = AgeFrom(rob.front_next, i)
             /\ AgeFrom(new.front_next, i) < AgeFrom(new.front_next, rear)
  BY <1>2, <1>3, <1>4, <1>5, EnqueueAges
<1>8. \A i \in Slots : InNext(i) => /\ i # rear /\ InNext(i)'
                                    /\ rob'.queue_next[i] = rob.queue_next[i]
                                    /\ AgeInNext(i)' = AgeInNext(i)
                                    /\ \A k \in Slots : k = rear => AgeInNext(i)' < AgeInNext(k)'
  <2>1. \A i : AgeInNext(i)' = AgeFrom(rob'.front_next, i)
    BY DEF AgeInNext, AgeFrom, S
  <2> QED
    BY <1>1, <1>3, <1>7, <2>1, AgeIsAgeFrom DEF InNext
<1>9. \A i \in Slots : InNext(i)' => InNext(i) \/ i = rear
  BY <1>1, <1>6 DEF InNext
<1>10. q # 0 => /\ q - 1 \in Slots /\ InNext(q - 1)
                /\ HasResult(rob.queue_next[q - 1].op_type)
                /\ ~rob.queue_next[q - 1].ready
  <2>1. q # 0 => /\ q \in RobIds /\ InNext(q - 1)
                 /\ HasResult(rob.queue_next[q - 1].op_type)
                 /\ InCurrent(q - 1) => ~rob.queue_current[q - 1].ready
    BY DEF Producers, rob_is_entry_ready
  <2>2. q # 0 => q - 1 \in Slots
    BY <2>1, SizeIsPositive
  <2> QED
    BY <1>1, <2>1, <2>2 DEF WaitInv, CopiesAgreeAtIssue
<1>11. ASSUME NEW i \in Slots, Waiting(i)' PROVE HasItsProducer(i)'
  <2>1. CASE i = rear
    <3>1. rob'.queue_next[i].q = q /\ q # 0 /\ ~rob'.queue_next[i].ready
      BY <1>1, <1>3, <1>11, <2>1 DEF Waiting
    <3> QED
      BY <1>8, <1>10, <2>1, <3>1 DEF HasItsProducer
  <2>2. CASE i # rear
    <3>1. InNext(i) /\ rob'.queue_next[i] = rob.queue_next[i]
      BY <1>8, <1>9, <1>11, <2>2 DEF Waiting
    <3>2. Waiting(i)
      BY <1>11, <3>1 DEF Waiting
    <3>3. HasItsProducer(i)
      BY <3>2 DEF WaitInv
    <3>4. rob.queue_next[i].q - 1 \in Slots
      BY <3>2, EntryTypes DEF Waiting
    <3> QED
      BY <1>8, <3>1, <3>3, <3>4 DEF HasItsProducer
  <2> QED
    BY <2>1, <2>2
<1>12. UnfinishedWillAnswer'
  BY <1>1, <1>8, <1>9 DEF WaitInv, UnfinishedWillAnswer
<1>13. BusHasResults'
  BY <1>1 DEF BusHasResults
<1>14. CopiesAgreeAtIssue'
  BY <1>1, <1>3, <1>6, <1>8, <1>9 DEF WaitInv, CopiesAgreeAtIssue, InCurrent
<1> QED
  BY <1>11, <1>12, <1>13, <1>14 DEF WaitInv

\* A store that is issued without its data names an older entry that will deliver them.
LEMMA IssueWaitInv ==
    ASSUME RobInv, WaitInv, IssueResult \/ IssueBranch \/ IssueStore
    PROVE  WaitInv'
<1>1. NA \in Words /\ NA = 0
  BY WordsAssumption DEF NA
<1>2. CASE IssueResult
  <2> PICK op_type \in {"AL", "LOAD"} \cap Types, rd_addr \in Dests :
        Enqueue(op_type, rd_addr, NA, NA, NA, NA)
    BY <1>2 DEF IssueResult
  <2> QED
    BY <1>1, WordsAssumption, EnqueueWaitInv
<1>3. CASE IssueBranch
  <2> PICK op_type \in {"JUMP", "BRANCH"} \cap Types, npc_pred \in Targets, inst_pc \in Pcs,
           dest \in {NA} \cup Dests :
        Enqueue(op_type, dest, NA, NA, npc_pred, inst_pc)
    BY <1>3 DEF IssueBranch
  <2> QED
    BY <1>1, WordsAssumption, EnqueueWaitInv
<1>4. CASE IssueStore
  <2> PICK op_type \in StoreType \cap Types, value \in Words, q \in {NA} \cup Producers :
        Enqueue(op_type, NA, value, q, NA, NA)
    BY <1>4 DEF IssueStore
  <2>1. op_type \in OpType /\ IsStore(op_type)
    BY WordsAssumption DEF IsStore
  <2> QED
    BY <1>1, <2>1, EnqueueWaitInv
<1> QED
  BY <1>2, <1>3, <1>4

\* execute: a unit leaves the windows, the types and the operands alone.
LEMMA UnitsWaitInv ==
    ASSUME RobInv, WaitInv, BroadcastResult \/ BroadcastJump \/ ResolveBranch \/ SendAddress
    PROVE  WaitInv'
<1> PICK id \in pending :
        /\ phase = "execute" /\ pending' = pending \ {id} /\ phase' = phase
        /\ OnlyAnswers(rob, id, rob')
        /\ rob'.queue_next[id - 1].ready =>
              \/ rob.queue_next[id - 1].ready
              \/ IsStore(rob.queue_next[id - 1].op_type) /\ rob.queue_next[id - 1].q = 0
              \/ rob.queue_next[id - 1].op_type = "BRANCH"
        /\ \A k : cdb_is_val_ready(cdb', k) =>
                    \/ cdb_is_val_ready(cdb, k)
                    \/ k = id /\ HasResult(rob.queue_next[id - 1].op_type)
        /\ \A k : cdb_is_val_ready(cdb, k) => cdb_is_val_ready(cdb', k)
        /\ HasResult(rob.queue_next[id - 1].op_type) => cdb_is_val_ready(cdb', id)
  BY UnitAnswers
<1>1. id \in RobIds /\ id - 1 \in Slots /\ (id - 1) + 1 = id
  BY EntryTypes, SizeIsPositive
<1>2. /\ \A i : InNext(i)' <=> InNext(i)
      /\ \A i : AgeInNext(i)' = AgeInNext(i)
      /\ \A i \in Slots : /\ i # id - 1 => rob'.queue_next[i] = rob.queue_next[i]
                          /\ rob'.queue_next[i].op_type = rob.queue_next[i].op_type
                          /\ rob'.queue_next[i].q = rob.queue_next[i].q
  BY DEF OnlyAnswers, InNext, AgeInNext
<1>3. ASSUME NEW i \in Slots, rob'.queue_next[i].ready, ~rob.queue_next[i].ready
      PROVE  \/ rob.queue_next[i].op_type = "BRANCH"
             \/ IsStore(rob.queue_next[i].op_type) /\ rob.queue_next[i].q = 0
  <2>1. i = id - 1
    BY <1>2, <1>3
  <2> QED
    BY <1>3, <2>1
<1>4. ASSUME NEW i \in Slots, Waiting(i)' PROVE HasItsProducer(i)'
  <2>1. Waiting(i) /\ HasItsProducer(i)
    BY <1>2, <1>4 DEF WaitInv, Waiting
  <2>2. rob.queue_next[i].q - 1 \in Slots
    BY <2>1, EntryTypes DEF Waiting
  <2>3. ~rob'.queue_next[i].ready
    BY <1>3, <2>1 DEF HasItsProducer, Waiting, IsStore, StoreType
  <2>4. ~rob'.queue_next[rob.queue_next[i].q - 1].ready
    BY <1>3, <2>1, <2>2 DEF HasItsProducer, HasResult, IsStore, StoreType
  <2> QED
    BY <1>2, <2>1, <2>2, <2>3, <2>4 DEF HasItsProducer
<1>5. UnfinishedWillAnswer'
  <2> SUFFICES ASSUME NEW i \in Slots, InNext(i), HasResult(rob.queue_next[i].op_type),
                      ~rob'.queue_next[i].ready
               PROVE  i + 1 \in pending' \/ (phase' = "execute" /\ cdb_is_val_ready(cdb', i + 1))
    BY <1>2 DEF UnfinishedWillAnswer
  <2>1. CASE i = id - 1
    BY <1>1, <2>1
  <2>2. CASE i # id - 1
    <3>1. ~rob.queue_next[i].ready /\ i + 1 # id
      BY <1>1, <1>2, <2>2, SizeIsPositive
    <3>2. i + 1 \in pending \/ cdb_is_val_ready(cdb, i + 1)
      BY <3>1 DEF WaitInv, UnfinishedWillAnswer
    <3> QED
      BY <3>1, <3>2
  <2> QED
    BY <2>1, <2>2
<1>6. BusHasResults'
  <2> SUFFICES ASSUME NEW i \in Slots, cdb_is_val_ready(cdb', i + 1)
               PROVE  HasResult(rob.queue_next[i].op_type)
    BY <1>2 DEF BusHasResults
  <2>1. CASE cdb_is_val_ready(cdb, i + 1)
    BY <2>1 DEF WaitInv, BusHasResults
  <2>2. CASE i + 1 = id /\ HasResult(rob.queue_next[id - 1].op_type)
    BY <1>1, <2>2, SizeIsPositive
  <2> QED
    BY <2>1, <2>2
<1>7. CopiesAgreeAtIssue'
  BY DEF CopiesAgreeAtIssue
<1> QED
  BY <1>4, <1>5, <1>6, <1>7 DEF WaitInv

\* rob_step: who waited for a result on the bus waits no more, and its producer is finished.
LEMMA CaptureWaitInv == ASSUME RobInv, WaitInv, Capture PROVE WaitInv'
<1>1. /\ phase = "execute" /\ phase' = "commit" /\ rob' = rob_step(rob, cdb)
      /\ cdb' = cdb /\ pending' = pending
  BY DEF Capture
<1>2. /\ rob'.front_next = rob.front_next /\ rob'.rear_next = rob.rear_next
      /\ \A i \in Slots : rob'.queue_next[i] = CaptureEntry(rob.queue_next[i], cdb)
  BY <1>1, EntryTypes, StepFields
<1>3. /\ \A i : InNext(i)' <=> InNext(i)
      /\ \A i : AgeInNext(i)' = AgeInNext(i)
  BY <1>2 DEF InNext, AgeInNext
<1>4. ASSUME NEW i \in Slots
      PROVE  /\ rob'.queue_next[i].op_type = rob.queue_next[i].op_type
             /\ rob'.queue_next[i].ready =>
                   \/ rob.queue_next[i].ready
                   \/ cdb_is_val_ready(cdb, i + 1)
                   \/ IsStore(rob.queue_next[i].op_type)
             /\ rob.queue_next[i].busy /\ cdb_is_val_ready(cdb, i + 1)
                   => rob'.queue_next[i].ready
             /\ rob'.queue_next[i].q # 0 =>
                   /\ rob'.queue_next[i].q = rob.queue_next[i].q
                   /\ rob'.queue_next[i].ready =>
                         rob.queue_next[i].ready \/ cdb_is_val_ready(cdb, i + 1)
             /\ rob.queue_next[i].busy /\ ~rob.queue_next[i].ready
                   /\ IsStore(rob.queue_next[i].op_type) /\ rob.queue_next[i].q # 0
                   /\ cdb_is_val_ready(cdb, rob.queue_next[i].q)
                   => rob'.queue_next[i].q = 0
             /\ rob.queue_next[i].ready => rob'.queue_next[i].ready
  <2>1. /\ rob.queue_next[i] \in RobEntry(Words) /\ cdb \in Bus(Words)
        /\ rob.queue_next[i].rob_id = i + 1
    BY EntryTypes
  <2>2. rob'.queue_next[i] = CaptureEntry(rob.queue_next[i], cdb)
    BY <1>2
  <2> QED
    BY <2>1, <2>2, CaptureFields
<1>5. \A i \in Slots : cdb_is_val_ready(cdb, i + 1) =>
          HasResult(rob.queue_next[i].op_type) /\ ~IsStore(rob.queue_next[i].op_type)
  BY <1>1 DEF WaitInv, BusHasResults, HasResult, IsStore, StoreType
<1>6. ASSUME NEW i \in Slots, Waiting(i)' PROVE HasItsProducer(i)'
  <2> DEFINE q == rob.queue_next[i].q
  <2>1. /\ Waiting(i) /\ rob'.queue_next[i].q = q
        /\ rob'.queue_next[i].ready =>
                         rob.queue_next[i].ready \/ cdb_is_val_ready(cdb, i + 1)
    BY <1>3, <1>4, <1>6 DEF Waiting
  <2>2. HasItsProducer(i)
    BY <2>1 DEF WaitInv
  <2>3. q - 1 \in Slots /\ (q - 1) + 1 = q
    BY <2>1, EntryTypes, SizeIsPositive DEF Waiting
  <2>4. ~rob'.queue_next[i].ready
    BY <1>5, <2>1, <2>2 DEF HasItsProducer, Waiting
  <2>5. ~cdb_is_val_ready(cdb, q)
    <3>1. rob.queue_next[i].busy /\ ~rob.queue_next[i].ready
      BY <2>1, <2>2 DEF RobInv, InFlightIsBusy, Waiting, HasItsProducer
    <3> QED
      BY <1>4, <1>6, <2>1, <3>1 DEF Waiting
  <2>6. ~rob'.queue_next[q - 1].ready
    <3>1. ~IsStore(rob.queue_next[q - 1].op_type)
      BY <2>2 DEF HasItsProducer, HasResult, IsStore, StoreType
    <3> QED
      BY <1>4, <2>2, <2>3, <2>5, <3>1 DEF HasItsProducer
  <2> QED
    BY <1>3, <1>4, <2>1, <2>2, <2>3, <2>4, <2>6 DEF HasItsProducer
<1>7. UnfinishedWillAnswer'
  <2> SUFFICES ASSUME NEW i \in Slots, InNext(i), HasResult(rob.queue_next[i].op_type),
                      ~rob'.queue_next[i].ready
               PROVE  i + 1 \in pending
    BY <1>1, <1>3, <1>4 DEF UnfinishedWillAnswer
  <2>1. rob.queue_next[i].busy
    BY DEF RobInv, InFlightIsBusy
  <2>2. ~rob.queue_next[i].ready /\ ~cdb_is_val_ready(cdb, i + 1)
    BY <1>4, <2>1
  <2> QED
    BY <2>2 DEF WaitInv, UnfinishedWillAnswer
<1>8. BusHasResults' /\ CopiesAgreeAtIssue'
  BY <1>1 DEF BusHasResults, CopiesAgreeAtIssue
<1> QED
  BY <1>6, <1>7, <1>8 DEF WaitInv

\* commit: the entry that leaves is finished, so nobody waits for it.
LEMMA CommitWaitInv == ASSUME RobInv, WaitInv, Commit PROVE WaitInv'
<1> DEFINE after == rob_dequeue(rob, commit_num)
           front == IF rob.front_next = rob.rear_next THEN -1
                    ELSE IF rob.front_next + 1 = S THEN 0 ELSE rob.front_next + 1
           rear == IF rob.front_next = rob.rear_next THEN -1 ELSE rob.rear_next
<1>1. /\ phase = "commit" /\ phase' # "issue" /\ phase' # "execute" /\ cdb' = cdb
      /\ \/ rob' = after /\ pending' = pending
         \/ rob' = rob_clear(after)
  BY DEF Commit, AfterIteration
<1>2. /\ rob.front_next \in Slots /\ rob.rear_next \in Slots
      /\ \A i \in Slots : InWindow(front, rear, i) => InNext(i) /\ i # rob.front_next
      /\ after \in RobState(Words)
      /\ \A i \in Slots : /\ i # rob.front_next => after.queue_next[i] = rob.queue_next[i]
                          /\ after.queue_next[i].op_type = rob.queue_next[i].op_type
      /\ after.front_next = front
      /\ after.rear_next = rear
      /\ rob.queue_next[rob.front_next].ready
  BY CommitsTheFront
<1>3. \A i \in Slots : InNext(i) /\ i # rob.front_next =>
          InWindow(front, rear, i) /\ AgeFrom(front, i) = AgeFrom(rob.front_next, i) - 1
  BY <1>2, DequeueAges DEF InNext
<1> HIDE DEF after, front, rear
<1>4. BusHasResults' /\ CopiesAgreeAtIssue'
  BY <1>1 DEF BusHasResults, CopiesAgreeAtIssue
<1>5. CASE rob' = after /\ pending' = pending
  <2>1. \A i \in Slots : InNext(i)' => /\ InNext(i) /\ i # rob.front_next
                                       /\ rob'.queue_next[i] = rob.queue_next[i]
    BY <1>2, <1>5 DEF InNext
  <2>2. \A i \in Slots : InNext(i) /\ i # rob.front_next =>
            InNext(i)' /\ AgeInNext(i)' = AgeInNext(i) - 1
    <3>1. \A i : AgeInNext(i)' = AgeFrom(rob'.front_next, i)
      BY DEF AgeInNext, AgeFrom, S
    <3> QED
      BY <1>2, <1>3, <1>5, <3>1, AgeIsAgeFrom DEF InNext
  <2>3. ASSUME NEW i \in Slots, Waiting(i)' PROVE HasItsProducer(i)'
    <3>1. /\ InNext(i) /\ i # rob.front_next
          /\ rob'.queue_next[i] = rob.queue_next[i]
      BY <2>1, <2>3 DEF Waiting
    <3>2. Waiting(i) /\ HasItsProducer(i)
      BY <2>3, <3>1 DEF Waiting, WaitInv
    <3> DEFINE producer == rob.queue_next[i].q - 1
    <3>3. producer \in Slots
      BY <3>2, EntryTypes DEF Waiting
    <3>4. producer # rob.front_next
      BY <1>2, <3>2 DEF HasItsProducer
    <3>5. /\ InNext(producer)' /\ AgeInNext(producer)' = AgeInNext(producer) - 1
          /\ AgeInNext(i)' = AgeInNext(i) - 1
      BY <2>2, <3>1, <3>2, <3>3, <3>4 DEF HasItsProducer
    <3>6. rob'.queue_next[producer] = rob.queue_next[producer]
      BY <2>1, <3>1, <3>3, <3>5
    <3>7. AgeInNext(i) \in Int /\ AgeInNext(producer) \in Int
      BY <1>2, <3>3, SizeIsPositive DEF AgeInNext, S
    <3> QED
      BY <3>1, <3>2, <3>5, <3>6, <3>7 DEF HasItsProducer
  <2>4. UnfinishedWillAnswer'
    BY <1>1, <1>5, <2>1 DEF WaitInv, UnfinishedWillAnswer
  <2> QED
    BY <1>4, <2>3, <2>4 DEF WaitInv
<1>6. CASE rob' = rob_clear(after)
  <2>1. \A i : ~InNext(i)'
    BY <1>2, <1>6, ClearFields DEF InNext, InWindow
  <2> QED
    BY <1>4, <2>1 DEF WaitInv, Waiting, UnfinishedWillAnswer
<1> QED
  BY <1>1, <1>5, <1>6

\* update_current moves nobody and finishes nobody.
LEMMA UpdateWaitInv == ASSUME RobInv, WaitInv, UpdateCurrent PROVE WaitInv'
<1>1. /\ phase = "update" /\ phase' = "issue" /\ pending' = pending
      /\ rob' = rob_update_current(rob)
  BY DEF UpdateCurrent
<1>2. /\ rob'.queue_current = rob.queue_next /\ rob'.queue_next = rob.queue_next
      /\ rob'.front_current = rob.front_next /\ rob'.front_next = rob.front_next
      /\ rob'.rear_current = rob.rear_next /\ rob'.rear_next = rob.rear_next
  BY <1>1, EntryTypes, UpdateFields
<1>3. /\ \A i : InNext(i)' <=> InNext(i)
      /\ \A i : InCurrent(i)' <=> InNext(i)'
      /\ \A i : AgeInNext(i)' = AgeInNext(i)
  BY <1>2 DEF InNext, InCurrent, AgeInNext
<1>4. \A i \in Slots : Waiting(i)' => HasItsProducer(i)'
  BY <1>2, <1>3 DEF WaitInv, Waiting, HasItsProducer
<1>5. UnfinishedWillAnswer'
  BY <1>1, <1>2, <1>3 DEF WaitInv, UnfinishedWillAnswer
<1>6. BusHasResults' /\ CopiesAgreeAtIssue'
  BY <1>1, <1>2, <1>3 DEF BusHasResults, CopiesAgreeAtIssue
<1> QED
  BY <1>4, <1>5, <1>6 DEF WaitInv

\* Steps that touch neither the buffer nor the bus.
LEMMA IdleWaitInv ==
    ASSUME WaitInv, EndIssue \/ CommitNothing \/ UNCHANGED vars, RobInv
    PROVE  WaitInv'
<1>1. /\ rob' = rob /\ cdb' = cdb /\ pending' = pending
      /\ phase' = "issue" => phase = "issue"
      /\ phase' = "execute" => phase \in {"issue", "execute"}
      /\ phase = "execute" => phase' = "execute"
      /\ phase = "issue" => cdb = << >>
  BY DEF EndIssue, CommitNothing, AfterIteration, vars, RobInv, BusEmptyAtIssue
<1>2. /\ \A i : InNext(i)' <=> InNext(i)
      /\ \A i : InCurrent(i)' <=> InCurrent(i)
      /\ \A i : AgeInNext(i)' = AgeInNext(i)
  BY <1>1 DEF InNext, InCurrent, AgeInNext
<1>3. \A i \in Slots : Waiting(i)' => HasItsProducer(i)'
  BY <1>1, <1>2 DEF WaitInv, Waiting, HasItsProducer
<1>4. UnfinishedWillAnswer'
  BY <1>1, <1>2 DEF WaitInv, UnfinishedWillAnswer
<1>5. BusHasResults'
  <2>1. phase = "issue" => \A k : ~cdb_is_val_ready(cdb, k)
    BY <1>1 DEF cdb_is_val_ready
  <2> QED
    BY <1>1, <2>1 DEF WaitInv, BusHasResults
<1>6. CopiesAgreeAtIssue'
  BY <1>1, <1>2 DEF WaitInv, CopiesAgreeAtIssue
<1> QED
  BY <1>3, <1>4, <1>5, <1>6 DEF WaitInv

\* With the invariant of the buffer, the waiting of its stores is inductive.
LEMMA StepWaitInv == RobInv /\ WaitInv /\ [Next]_vars => WaitInv'
<1> SUFFICES ASSUME RobInv, WaitInv, [Next]_vars PROVE WaitInv'
  OBVIOUS
<1>1. CASE IssueResult \/ IssueBranch \/ IssueStore
  BY <1>1, IssueWaitInv
<1>2. CASE BroadcastResult \/ BroadcastJump \/ ResolveBranch \/ SendAddress
  BY <1>2, UnitsWaitInv
<1>3. CASE Capture
  BY <1>3, CaptureWaitInv
<1>4. CASE Commit
  BY <1>4, CommitWaitInv
<1>5. CASE UpdateCurrent
  BY <1>5, UpdateWaitInv
<1>6. CASE EndIssue \/ CommitNothing \/ UNCHANGED vars
  BY <1>6, IdleWaitInv
<1> QED
  BY <1>1, <1>2, <1>3, <1>4, <1>5, <1>6 DEF Next

\* The producer a store waits for has its answer coming, or on the bus.
LEMMA WaitInvImplies == RobInv /\ WaitInv => WaitingStoreHasProducer
<1> SUFFICES ASSUME RobInv, WaitInv, NEW i \in Slots, Waiting(i)
             PROVE  /\ HasItsProducer(i)
                    /\ \/ rob.queue_next[i].q \in pending
                       \/ cdb_is_val_ready(cdb, rob.queue_next[i].q)
  BY DEF WaitingStoreHasProducer, Waiting, HasItsProducer
<1>1. HasItsProducer(i)
  BY DEF WaitInv
<1>2. rob.queue_next[i].q - 1 \in Slots /\ (rob.queue_next[i].q - 1) + 1 = rob.queue_next[i].q
  BY EntryTypes, SizeIsPositive DEF Waiting
<1> QED
  BY <1>1, <1>2 DEF WaitInv, UnfinishedWillAnswer, HasItsProducer

-----------------------------------------------------------------------------

(***************************************************************************)
(* A store that waits for its data never waits for a result that has gone  *)
(* by, for a slot another instruction has taken, or for a younger one      *)
(* (rob_enqueue, set_q_v, rob_step), for every buffer size and width.      *)
(***************************************************************************)
THEOREM StoresHaveProducers == Spec => []WaitingStoreHasProducer
<1>1. Init => WaitInv
  BY InitWaitInv
<1>2. RobInv /\ WaitInv /\ [Next]_vars => WaitInv'
  BY StepWaitInv
<1>3. RobInv /\ WaitInv => WaitingStoreHasProducer
  BY WaitInvImplies
<1> QED
  BY <1>1, <1>2, <1>3, RobInvariance, PTL DEF Spec

-----------------------------------------------------------------------------

(* A window of an array as the sequence of its entries, oldest first. *)

SlotAt(front, k) == IF (front + k) - 1 < S THEN (front + k) - 1 ELSE ((front + k) - 1) - S

Window(entries, front, rear) ==
    [k \in 1 .. QueueSize(front, rear) |-> entries[((front + k) - 1) % S]]

\* The members of a window are slots, in the order the code steps through them.
LEMMA SlotsOfWindow ==
    ASSUME NEW front \in Cursor, NEW rear \in Cursor, front = -1 <=> rear = -1
    PROVE  /\ QueueSize(front, rear) \in 0 .. S
           /\ \A k \in 1 .. QueueSize(front, rear) :
                 /\ SlotAt(front, k) \in Slots
                 /\ ((front + k) - 1) % S = SlotAt(front, k)
                 /\ InWindow(front, rear, SlotAt(front, k))
<1>1. /\ QueueSize(front, rear) \in 0 .. S
      /\ \A k \in 1 .. QueueSize(front, rear) :
            /\ (front + k) - 1 \in 0 .. 2 * S - 1
            /\ SlotAt(front, k) \in Slots
            /\ InWindow(front, rear, SlotAt(front, k))
  BY SizeIsPositive DEF QueueSize, InWindow, SlotAt, Cursor, S
<1>2. ASSUME NEW k \in 1 .. QueueSize(front, rear)
      PROVE  ((front + k) - 1) % S = SlotAt(front, k)
  BY <1>1, Wrap DEF SlotAt
<1> QED
  BY <1>1, <1>2

\* A window read from front to rear is a sequence of entries.
LEMMA WindowIsSequence ==
    ASSUME NEW entries \in [Slots -> RobEntry(Words)],
           NEW front \in Cursor, NEW rear \in Cursor, front = -1 <=> rear = -1
    PROVE  /\ Window(entries, front, rear) \in Seq(RobEntry(Words))
           /\ Len(Window(entries, front, rear)) = QueueSize(front, rear)
           /\ \A k \in 1 .. QueueSize(front, rear) :
                 Window(entries, front, rear)[k] = entries[SlotAt(front, k)]
<1> DEFINE size == QueueSize(front, rear)
           window == Window(entries, front, rear)
<1>1. /\ size \in Nat
      /\ \A k \in 1 .. size : /\ SlotAt(front, k) \in Slots
                              /\ ((front + k) - 1) % S = SlotAt(front, k)
  BY SlotsOfWindow, SizeIsPositive
<1>2. window = [k \in 1 .. size |-> entries[((front + k) - 1) % S]]
  BY DEF Window
<1> HIDE DEF size, window
<1>3. \A k \in 1 .. size : window[k] = entries[SlotAt(front, k)] /\ window[k] \in RobEntry(Words)
  BY <1>1, <1>2
<1>4. window \in [1 .. size -> RobEntry(Words)]
  BY <1>2, <1>3
<1>5. window \in Seq(RobEntry(Words)) /\ Len(window) = size
  BY <1>1, <1>4
<1> QED
  BY <1>3, <1>5 DEF size, window

\* rob_enqueue appends: the slots of the older entries are none of them the new one's.
LEMMA EnterWindow ==
    ASSUME NEW fn \in Cursor, NEW rn \in Cursor, fn = -1 <=> rn = -1, QueueSize(fn, rn) < S
    PROVE  LET front == IF fn = -1 THEN 0 ELSE fn
               rear == IF rn + 1 = S THEN 0 ELSE rn + 1
               size == QueueSize(fn, rn)
           IN  /\ front \in Slots /\ rear \in Slots
               /\ QueueSize(front, rear) = size + 1
               /\ SlotAt(front, size + 1) = rear
               /\ \A k \in 1 .. size : /\ SlotAt(front, k) = SlotAt(fn, k)
                                       /\ SlotAt(front, k) # rear
  BY SizeIsPositive DEF QueueSize, SlotAt, Cursor, S

\* rob_dequeue takes the first: every other entry moves up one place.
LEMMA LeaveWindow ==
    ASSUME NEW fn \in Slots, NEW rn \in Slots
    PROVE  LET front == IF fn = rn THEN -1 ELSE IF fn + 1 = S THEN 0 ELSE fn + 1
               rear == IF fn = rn THEN -1 ELSE rn
               size == QueueSize(fn, rn)
           IN  /\ front \in Cursor /\ rear \in Cursor /\ (front = -1 <=> rear = -1)
               /\ size > 0 /\ QueueSize(front, rear) = size - 1
               /\ SlotAt(fn, 1) = fn
               /\ \A k \in 1 .. size - 1 : /\ SlotAt(front, k) = SlotAt(fn, k + 1)
                                           /\ SlotAt(front, k) # fn
  BY SizeIsPositive DEF QueueSize, SlotAt, Cursor, S

-----------------------------------------------------------------------------

(* The mapped queue. *)

\* The same of the next window of a buffer.
LEMMA WindowOfRob ==
    ASSUME NEW r \in RobState(Words), r.front_next = -1 <=> r.rear_next = -1
    PROVE  LET size == QueueSize(r.front_next, r.rear_next)
               queue == Window(r.queue_next, r.front_next, r.rear_next)
           IN  /\ r.front_next \in Cursor /\ r.rear_next \in Cursor
               /\ size \in 0 .. S
               /\ queue \in Seq(RobEntry(Words))
               /\ Len(queue) = size
               /\ \A k \in 1 .. size : /\ SlotAt(r.front_next, k) \in Slots
                                       /\ queue[k] = r.queue_next[SlotAt(r.front_next, k)]
<1>1. /\ r.front_next \in Cursor /\ r.rear_next \in Cursor
      /\ r.queue_next \in [Slots -> RobEntry(Words)]
  BY DEF RobState, Cursor
<1>2. /\ QueueSize(r.front_next, r.rear_next) \in 0 .. S
      /\ \A k \in 1 .. QueueSize(r.front_next, r.rear_next) :
            SlotAt(r.front_next, k) \in Slots
  BY <1>1, SlotsOfWindow
<1> DEFINE size == QueueSize(r.front_next, r.rear_next)
           queue == Window(r.queue_next, r.front_next, r.rear_next)
<1>3. /\ queue \in Seq(RobEntry(Words))
      /\ Len(queue) = size
      /\ \A k \in 1 .. size : queue[k] = r.queue_next[SlotAt(r.front_next, k)]
  BY <1>1, WindowIsSequence
<1> HIDE DEF size, queue
<1>4. \A k \in 1 .. size : /\ SlotAt(r.front_next, k) \in Slots
                          /\ queue[k] = r.queue_next[SlotAt(r.front_next, k)]
  BY <1>2, <1>3 DEF size
<1> QED
  BY <1>1, <1>2, <1>3, <1>4, Zenon DEF size, queue

\* The queue of the abstract specification is the next window, before and after a step.
LEMMA InFlightIsWindow ==
    /\ InFlight = Window(rob.queue_next, rob.front_next, rob.rear_next)
    /\ InFlight' = Window(rob'.queue_next, rob'.front_next, rob'.rear_next)
  BY DEF InFlight, Window, S

\* What the proofs below need of the invariant.
LEMMA TypedNext ==
    /\ RobInv => rob \in RobState(Words) /\ (rob.front_next = -1 <=> rob.rear_next = -1)
    /\ RobInv' => rob' \in RobState(Words) /\ (rob'.front_next = -1 <=> rob'.rear_next = -1)
  BY DEF RobInv, TypeOK, CursorsInStep, InStep

\* The queue of the abstract specification, member by member.
LEMMA QueueOfRob ==
    ASSUME RobInv
    PROVE  LET size == QueueSize(rob.front_next, rob.rear_next)
           IN  /\ InFlight \in Seq(RobEntry(Words))
               /\ size \in 0 .. S
               /\ Len(InFlight) = size
               /\ \A k \in 1 .. size :
                     /\ SlotAt(rob.front_next, k) \in Slots
                     /\ InFlight[k] = rob.queue_next[SlotAt(rob.front_next, k)]
  BY TypedNext, InFlightIsWindow, WindowOfRob

\* The same after a step.
LEMMA PrimedQueueOfRob ==
    ASSUME RobInv'
    PROVE  LET size == QueueSize(rob'.front_next, rob'.rear_next)
           IN  /\ InFlight' \in Seq(RobEntry(Words))
               /\ size \in 0 .. S
               /\ Len(InFlight') = size
               /\ \A k \in 1 .. size :
                     /\ SlotAt(rob'.front_next, k) \in Slots
                     /\ InFlight'[k] = rob'.queue_next[SlotAt(rob'.front_next, k)]
  BY TypedNext, InFlightIsWindow, WindowOfRob

\* A fresh buffer is the empty queue.
LEMMA InitFifo == Init => Fifo!Init
<1> SUFFICES ASSUME Init PROVE Fifo!Init
  OBVIOUS
<1>1. QueueSize(rob.front_next, rob.rear_next) = 0
  BY DEF Init, rob_init, QueueSize
<1>2. RobInv
  BY InitRobInv
<1>3. InFlight \in Seq(RobEntry(Words)) /\ Len(InFlight) = 0
  BY <1>1, <1>2, QueueOfRob
<1>4. InFlight = << >>
  BY <1>3
<1> QED
  BY <1>4 DEF Fifo!Init, Init

\* Results arrive for unfinished entries only, and leave what issue wrote alone.
Progressed(old, new) ==
    IF old.ready THEN new = old
    ELSE /\ new.op_type = old.op_type
         /\ new.inst_pc = old.inst_pc
         /\ new.npc_pred = old.npc_pred

\* A step that moves no cursor and only adds to entries is progress of the queue.
LEMMA ProgressStep ==
    ASSUME RobInv, RobInv', retired' = retired,
           rob'.front_next = rob.front_next, rob'.rear_next = rob.rear_next,
           \A i \in Slots : Progressed(rob.queue_next[i], rob'.queue_next[i])
    PROVE  Fifo!Progress
<1>1. /\ InFlight \in Seq(RobEntry(Words)) /\ InFlight' \in Seq(RobEntry(Words))
      /\ Len(InFlight') = Len(InFlight)
  BY QueueOfRob, PrimedQueueOfRob
<1>2. ASSUME NEW k \in 1 .. Len(InFlight) PROVE Progressed(InFlight[k], InFlight'[k])
  <2>1. /\ SlotAt(rob.front_next, k) \in Slots
        /\ InFlight[k] = rob.queue_next[SlotAt(rob.front_next, k)]
        /\ InFlight'[k] = rob'.queue_next[SlotAt(rob.front_next, k)]
    BY QueueOfRob, PrimedQueueOfRob
  <2> QED
    BY <2>1
<1> QED
  BY <1>1, <1>2 DEF Fifo!Progress, Progressed

\* rob_enqueue appends to the queue.
LEMMA EnqueueEnters ==
    ASSUME RobInv, RobInv', NEW op_type \in OpType, NEW dest \in Words, NEW value \in Words,
           NEW q \in {0} \cup RobIds, NEW npc_pred \in Words, NEW inst_pc \in Words,
           Enqueue(op_type, dest, value, q, npc_pred, inst_pc)
    PROVE  Fifo!Enter
<1> DEFINE rear == (rob.rear_next + 1) % S
           new == rob_enqueue(rob, op_type, dest, value, q, npc_pred, inst_pc)
           size == QueueSize(rob.front_next, rob.rear_next)
<1>1. /\ phase = "issue" /\ issued < rob_num_free_slots(rob)
      /\ rob' = new /\ retired' = retired
  BY DEF Enqueue, CanIssue
<1>2. rob \in RobState(Words) /\ issued \in Nat
  BY DEF RobInv, TypeOK
<1>3. /\ rob.front_next \in Cursor /\ rob.rear_next \in Cursor
      /\ rob.front_next = -1 <=> rob.rear_next = -1
  BY <1>2, TypedNext DEF RobState, Cursor
<1>e. EntryAdded(Words, rob, new, rear, op_type, dest, q)
  BY <1>2, EnqueueFields
<1>4. /\ rear \in Slots
      /\ rear = IF rob.rear_next + 1 = S THEN 0 ELSE rob.rear_next + 1
      /\ new.front_next = IF rob.front_next = -1 THEN 0 ELSE rob.front_next
      /\ new.rear_next = rear
      /\ \A i \in Slots : i # rear => new.queue_next[i] = rob.queue_next[i]
      /\ ~new.queue_next[rear].ready
  BY <1>e DEF EntryAdded
<1>5. size < S
  <2>1. InStep(rob.front_current, rob.rear_current, rob.front_next, rob.rear_next, issued, 0)
    BY <1>1, BeforeCommit
  <2>2. /\ rob_num_free_slots(rob) = S - QueueSize(rob.front_current, rob.rear_current)
        /\ QueueSize(rob.front_current, rob.rear_current) \in 0 .. S
    BY <1>2, <2>1, FreeSlots DEF InStep
  <2>3. size = (QueueSize(rob.front_current, rob.rear_current) + issued) - 0
    BY <2>1, Zenon DEF InStep
  <2> QED
    BY <1>1, <1>2, <2>2, <2>3, SizeIsPositive
<1> HIDE DEF rear, new
<1>6. /\ QueueSize(new.front_next, new.rear_next) = size + 1
      /\ SlotAt(new.front_next, size + 1) = rear
      /\ \A k \in 1 .. size : /\ SlotAt(new.front_next, k) = SlotAt(rob.front_next, k)
                              /\ SlotAt(new.front_next, k) # rear
  BY <1>3, <1>4, <1>5, EnterWindow
<1>7. /\ InFlight \in Seq(RobEntry(Words)) /\ Len(InFlight) = size /\ size \in Nat
      /\ \A k \in 1 .. size : /\ SlotAt(rob.front_next, k) \in Slots
                              /\ InFlight[k] = rob.queue_next[SlotAt(rob.front_next, k)]
  BY QueueOfRob, SizeIsPositive
<1>8. /\ InFlight' \in Seq(RobEntry(Words)) /\ Len(InFlight') = size + 1
      /\ \A k \in 1 .. size + 1 : InFlight'[k] = new.queue_next[SlotAt(new.front_next, k)]
  BY <1>1, <1>6, PrimedQueueOfRob
<1> HIDE DEF size
<1>9. \A k \in 1 .. size : InFlight'[k] = InFlight[k]
  BY <1>4, <1>6, <1>7, <1>8
<1>10. ~InFlight'[size + 1].ready
  <2>1. size + 1 \in 1 .. size + 1
    BY <1>7
  <2> QED
    BY <1>4, <1>6, <1>8, <2>1
<1>11. size < REORDER_BUFFER_SIZE
  BY <1>5 DEF S
<1> QED
  BY <1>1, <1>7, <1>8, <1>9, <1>10, <1>11 DEF Fifo!Enter

\* So does every kind of issue.
LEMMA IssueEnters ==
    ASSUME RobInv, RobInv', IssueResult \/ IssueBranch \/ IssueStore
    PROVE  Fifo!Enter
<1>1. NA \in Words /\ NA \in {0} \cup RobIds
  BY WordsAssumption DEF NA
<1>2. CASE IssueResult
  <2> PICK op_type \in {"AL", "LOAD"} \cap Types, rd_addr \in Dests :
        Enqueue(op_type, rd_addr, NA, NA, NA, NA)
    BY <1>2 DEF IssueResult
  <2>1. op_type \in OpType /\ rd_addr \in Words
    BY WordsAssumption
  <2> QED
    BY <1>1, <2>1, EnqueueEnters
<1>3. CASE IssueBranch
  <2> PICK op_type \in {"JUMP", "BRANCH"} \cap Types, npc_pred \in Targets, inst_pc \in Pcs,
           dest \in {NA} \cup Dests :
        Enqueue(op_type, dest, NA, NA, npc_pred, inst_pc)
    BY <1>3 DEF IssueBranch
  <2>1. op_type \in OpType /\ dest \in Words /\ npc_pred \in Words /\ inst_pc \in Words
    BY <1>1, WordsAssumption
  <2> QED
    BY <1>1, <2>1, EnqueueEnters
<1>4. CASE IssueStore
  <2> PICK op_type \in StoreType \cap Types, value \in Words, q \in {NA} \cup Producers :
        Enqueue(op_type, NA, value, q, NA, NA)
    BY <1>4 DEF IssueStore
  <2>1. op_type \in OpType /\ q \in {0} \cup RobIds
    BY WordsAssumption DEF NA, Producers
  <2> QED
    BY <1>1, <2>1, EnqueueEnters
<1> QED
  BY <1>2, <1>3, <1>4

\* What the functional units do is progress.
LEMMA UnitsProgress ==
    ASSUME RobInv, RobInv', BroadcastResult \/ BroadcastJump \/ ResolveBranch \/ SendAddress
    PROVE  Fifo!Progress
<1> PICK id \in pending : retired' = retired /\ OnlyAnswers(rob, id, rob')
  BY UnitAnswers
<1>1. ~rob.queue_next[id - 1].ready
  BY DEF RobInv, PendingIsUnfinished
<1>2. \A i \in Slots : Progressed(rob.queue_next[i], rob'.queue_next[i])
  BY <1>1 DEF OnlyAnswers, Progressed
<1>3. rob'.front_next = rob.front_next /\ rob'.rear_next = rob.rear_next
  BY DEF OnlyAnswers
<1> QED
  BY <1>2, <1>3, ProgressStep

\* What rob_step captures is progress.
LEMMA CaptureProgresses ==
    ASSUME RobInv, RobInv', Capture
    PROVE  Fifo!Progress
<1>1. rob' = rob_step(rob, cdb) /\ retired' = retired
  BY DEF Capture
<1>2. rob \in RobState(Words) /\ cdb \in Bus(Words)
  BY DEF RobInv, TypeOK, Bus
<1>3. /\ rob'.front_next = rob.front_next /\ rob'.rear_next = rob.rear_next
      /\ \A i \in Slots : rob'.queue_next[i] = CaptureEntry(rob.queue_next[i], cdb)
  BY <1>1, <1>2, StepFields
<1>4. ASSUME NEW i \in Slots PROVE Progressed(rob.queue_next[i], rob'.queue_next[i])
  <2>1. rob.queue_next[i] \in RobEntry(Words)
    BY <1>2 DEF RobState
  <2> QED
    BY <1>2, <1>3, <2>1, CaptureFields DEF Progressed
<1> QED
  BY <1>1, <1>3, <1>4, ProgressStep

\* A commit takes the head of the queue, which has finished; a flush takes all.
LEMMA CommitRetires ==
    ASSUME RobInv, RobInv', Commit
    PROVE  Fifo!Retire
<1> DEFINE entry == rob_dequeue_entry(rob, commit_num)
           after == rob_dequeue(rob, commit_num)
           front == IF rob.front_next = rob.rear_next THEN -1
                    ELSE IF rob.front_next + 1 = S THEN 0 ELSE rob.front_next + 1
           rear == IF rob.front_next = rob.rear_next THEN -1 ELSE rob.rear_next
           size == QueueSize(rob.front_next, rob.rear_next)
<1>1. /\ retired' = <<entry>>
      /\ Mispredicted(entry) => rob' = rob_clear(after)
      /\ ~Mispredicted(entry) => rob' = after
  BY DEF Commit
<1>2. /\ rob.front_next \in Slots /\ rob.rear_next \in Slots
      /\ after \in RobState(Words)
      /\ \A i \in Slots : i # rob.front_next => after.queue_next[i] = rob.queue_next[i]
      /\ after.front_next = front /\ after.rear_next = rear
      /\ rob.queue_next[rob.front_next].ready
      /\ entry = rob.queue_next[rob.front_next]
  BY CommitsTheFront
<1> HIDE DEF entry, after
<1>3. /\ size > 0 /\ QueueSize(front, rear) = size - 1
      /\ SlotAt(rob.front_next, 1) = rob.front_next
      /\ \A k \in 1 .. size - 1 : /\ SlotAt(front, k) = SlotAt(rob.front_next, k + 1)
                                  /\ SlotAt(front, k) # rob.front_next
  BY <1>2, LeaveWindow
<1> HIDE DEF front, rear
<1>4. /\ InFlight \in Seq(RobEntry(Words)) /\ Len(InFlight) = size /\ size \in Nat
      /\ \A k \in 1 .. size : /\ SlotAt(rob.front_next, k) \in Slots
                              /\ InFlight[k] = rob.queue_next[SlotAt(rob.front_next, k)]
  BY QueueOfRob, SizeIsPositive
<1>5. InFlight # << >> /\ Head(InFlight) = entry
  BY <1>2, <1>3, <1>4
<1>6. CASE Mispredicted(entry)
  <2>1. rob'.front_next = -1
    BY <1>1, <1>2, <1>6, ClearFields
  <2>2. InFlight' \in Seq(RobEntry(Words)) /\ Len(InFlight') = 0
    BY <2>1, PrimedQueueOfRob DEF QueueSize
  <2>3. InFlight' = << >>
    BY <2>2
  <2> QED
    BY <1>1, <1>2, <1>5, <1>6, <2>3 DEF Fifo!Retire
<1>7. CASE ~Mispredicted(entry)
  <2>1. /\ InFlight' \in Seq(RobEntry(Words)) /\ Len(InFlight') = size - 1
        /\ \A k \in 1 .. size - 1 : InFlight'[k] = rob'.queue_next[SlotAt(front, k)]
    BY <1>1, <1>2, <1>3, <1>7, PrimedQueueOfRob
  <2>2. /\ Tail(InFlight) \in Seq(RobEntry(Words)) /\ Len(Tail(InFlight)) = size - 1
        /\ \A k \in 1 .. size - 1 : Tail(InFlight)[k] = InFlight[k + 1]
    BY <1>4, <1>5, HeadTailProperties
  <2> HIDE DEF size
  <2>3. ASSUME NEW k \in 1 .. size - 1 PROVE InFlight'[k] = Tail(InFlight)[k]
    <3>1. k + 1 \in 1 .. size
      BY <1>4
    <3>2. /\ SlotAt(front, k) = SlotAt(rob.front_next, k + 1)
          /\ SlotAt(front, k) # rob.front_next
      BY <1>3
    <3>3. rob'.queue_next[SlotAt(front, k)] = rob.queue_next[SlotAt(front, k)]
      BY <1>1, <1>2, <1>4, <1>7, <3>1, <3>2
    <3> QED
      BY <1>4, <2>1, <2>2, <3>1, <3>2, <3>3
  <2>4. InFlight' = Tail(InFlight)
    BY <2>1, <2>2, <2>3, SeqEqual
  <2> QED
    BY <1>1, <1>2, <1>5, <1>7, <2>4 DEF Fifo!Retire
<1> QED
  BY <1>6, <1>7

\* Steps that leave the buffer being built as it is.
LEMMA SameQueue ==
    ASSUME rob'.queue_next = rob.queue_next,
           rob'.front_next = rob.front_next, rob'.rear_next = rob.rear_next
    PROVE  InFlight' = InFlight
  BY InFlightIsWindow

\* Every step of the buffer is one of the queue, or none.
LEMMA StepFifo == RobInv /\ RobInv' /\ [Next]_vars => [Fifo!Next]_<<InFlight, retired>>
<1> SUFFICES ASSUME RobInv, RobInv', [Next]_vars
             PROVE  Fifo!Next \/ UNCHANGED <<InFlight, retired>>
  OBVIOUS
<1>1. CASE IssueResult \/ IssueBranch \/ IssueStore
  BY <1>1, IssueEnters DEF Fifo!Next
<1>2. CASE BroadcastResult \/ BroadcastJump \/ ResolveBranch \/ SendAddress
  BY <1>2, UnitsProgress DEF Fifo!Next
<1>3. CASE Capture
  BY <1>3, CaptureProgresses DEF Fifo!Next
<1>4. CASE Commit
  BY <1>4, CommitRetires DEF Fifo!Next
<1>5. CASE UpdateCurrent
  <2>1. rob' = rob_update_current(rob) /\ retired' = << >>
    BY <1>5 DEF UpdateCurrent
  <2>2. InFlight' = InFlight
    BY <2>1, TypedNext, UpdateFields, SameQueue
  <2> QED
    BY <2>1, <2>2 DEF Fifo!Next, Fifo!Forget
<1>6. CASE EndIssue \/ CommitNothing \/ UNCHANGED vars
  <2>1. rob' = rob /\ retired' = retired
    BY <1>6 DEF EndIssue, CommitNothing, vars
  <2> QED
    BY <2>1, SameQueue
<1> QED
  BY <1>1, <1>2, <1>3, <1>4, <1>5, <1>6 DEF Next

-----------------------------------------------------------------------------

(***************************************************************************)
(* rob.c in the cycle of step() is a bounded queue: with its two copies,   *)
(* four cursors and wrapped indices an instruction still enters at the     *)
(* back, leaves finished and from the front, is never changed once it is   *)
(* finished, and a mispredicted one empties the buffer, for every size.    *)
(***************************************************************************)
THEOREM RobImplementsFifo == Spec => ImplementsFifo
<1>1. Init => Fifo!Init
  BY InitFifo
<1>2. RobInv /\ RobInv' /\ [Next]_vars => [Fifo!Next]_<<InFlight, retired>>
  BY StepFifo
<1> QED
  BY <1>1, <1>2, RobInvariance, PTL DEF Spec, ImplementsFifo, Fifo!Spec, Fifo!fifoVars
===============================================================================
