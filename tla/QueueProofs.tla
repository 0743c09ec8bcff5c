------------------------------ MODULE QueueProofs ------------------------------
(***************************************************************************)
(* Theorems about Pipeline: the queue of the memory buffers, where each    *)
(* instruction is, loads and the stores before them, and what the runs     *)
(* check of the whole invariant.                                           *)
(***************************************************************************)
EXTENDS PipelineProofs

\* Whoever is in flight before and after keeps his place in the order of the ages.
SameAges(new, r) ==
    \A a, b \in Flying(r) :
        a \in Flying(new) /\ b \in Flying(new) /\ AgeOf(r, a) < AgeOf(r, b)
            => AgeOf(new, a) < AgeOf(new, b)

\* What a step that lets nobody in or out, one that lets one in, and one that lets one out do.
LEMMA AgesStay ==
    ASSUME NEW r, IsRob(r), NEW new
    PROVE  /\ new.front_next = r.front_next => SameAges(new, r)
           /\ \A A : Answers(r, new, A) => SameAges(new, r)
           /\ \A id, op_type, dest : Entered(r, new, id, op_type, dest) => SameAges(new, r)
           /\ \A id : Left(r, new, id) => SameAges(new, r)
<1>1. new.front_next = r.front_next => SameAges(new, r)
  BY DEF SameAges, AgeOf
<1>2. ASSUME NEW A, Answers(r, new, A) PROVE SameAges(new, r)
  BY <1>1, <1>2 DEF Answers
<1>3. ASSUME NEW id, NEW op_type, NEW dest, Entered(r, new, id, op_type, dest)
      PROVE  SameAges(new, r)
  BY <1>3 DEF SameAges, Entered
<1>4. ASSUME NEW id, Left(r, new, id) PROVE SameAges(new, r)
  <2>1. ASSUME NEW k \in Flying(r) PROVE AgeOf(r, k) \in Int
    BY <2>1, AgeType DEF Flying
  <2>2. ASSUME NEW a \in Flying(r), NEW b \in Flying(r), a \in Flying(new), b \in Flying(new),
               AgeOf(r, a) < AgeOf(r, b)
        PROVE  AgeOf(new, a) < AgeOf(new, b)
    <3>1. AgeOf(new, a) = AgeOf(r, a) - 1 /\ AgeOf(new, b) = AgeOf(r, b) - 1
      BY <1>4, <2>2 DEF Left
    <3>2. AgeOf(r, a) \in Int /\ AgeOf(r, b) \in Int
      BY <2>1
    <3> QED
      BY <2>2, <3>1, <3>2
  <2> QED
    BY <2>2 DEF SameAges
<1> QED
  BY <1>1, <1>2, <1>3, <1>4

\* Whoever is in the queue is in flight.
QueueFlies(copy, r) == \A i \in InQueue(copy) : copy[i].rob_id \in Flying(r)

\* For nobody is in a buffer who is not.
LEMMA QueuedAreInFlight == Inv => QueueFlies(mb.next, rob)
<1> SUFFICES ASSUME Inv, NEW i \in InQueue(mb.next) PROVE mb.next[i].rob_id \in Flying(rob)
  BY DEF QueueFlies
<1> DEFINE h == Holder("mb", i, mb.next[i].rob_id, mb.next[i].op)
<1>1. i \in DOMAIN mb.next /\ mb.next[i].busy
  BY DEF InQueue
<1>2. h \in InPool("mb", mb.next)
  BY <1>1, PoolMember
<1>3. h[3] = mb.next[i].rob_id
  BY HolderParts
<1> HIDE DEF h
<1>4. h \in Held /\ Settled(Held, rob)
  BY <1>2, HeldMember DEF Inv
<1>5. h[3] \in Flying(rob)
  BY <1>4, SettledMember
<1> QED
  BY <1>3, <1>5

\* Those who stay stay in program order.
LEMMA ByAgeStays ==
    ASSUME NEW old, NEW r, ByAge(old, r), QueueFlies(old, r), NEW copy, NEW new,
           QueueFlies(copy, new), KeepsOrder(copy, old), SameAges(new, r)
    PROVE  ByAge(copy, new)
<1> SUFFICES ASSUME NEW i \in InQueue(copy), NEW k \in InQueue(copy),
                    copy[i].queue_pos < copy[k].queue_pos
             PROVE  AgeOf(new, copy[i].rob_id) < AgeOf(new, copy[k].rob_id)
  BY DEF ByAge
<1>1. /\ i \in InQueue(old) /\ copy[i].rob_id = old[i].rob_id
      /\ k \in InQueue(old) /\ copy[k].rob_id = old[k].rob_id
      /\ old[i].queue_pos < old[k].queue_pos
  BY DEF KeepsOrder
<1>2. AgeOf(r, old[i].rob_id) < AgeOf(r, old[k].rob_id)
  BY <1>1 DEF ByAge
<1>3. /\ old[i].rob_id \in Flying(r) /\ old[i].rob_id \in Flying(new)
      /\ old[k].rob_id \in Flying(r) /\ old[k].rob_id \in Flying(new)
  BY <1>1 DEF QueueFlies
<1> QED
  BY <1>1, <1>2, <1>3 DEF SameAges

\* Who enters the queue is younger than those before.
LEMMA ByAgeEnters ==
    ASSUME NEW old, NEW r, ByAge(old, r), QueueFlies(old, r), NEW copy, NEW new,
           NEW id, NEW op_type, NEW dest, Entered(r, new, id, op_type, dest),
           NEW i, NEW op, QueueGains(copy, old, i, id, op),
           \A k \in InQueue(copy) : copy[k].queue_pos \in Int
    PROVE  ByAge(copy, new)
<1> SUFFICES ASSUME NEW j \in InQueue(copy), NEW k \in InQueue(copy),
                    copy[j].queue_pos < copy[k].queue_pos
             PROVE  AgeOf(new, copy[j].rob_id) < AgeOf(new, copy[k].rob_id)
  BY DEF ByAge
<1>1. j # i
  <2> SUFFICES ASSUME j = i PROVE FALSE
    OBVIOUS
  <2>1. k = i \/ copy[k].queue_pos < copy[i].queue_pos
    BY DEF QueueGains
  <2> QED
    BY <2>1
<1>2. j \in InQueue(old) /\ copy[j] = old[j]
  BY <1>1 DEF QueueGains
<1>3. CASE k = i
  <2>1. copy[k].rob_id = id
    BY <1>3 DEF QueueGains
  <2>2. old[j].rob_id \in Flying(r)
    BY <1>2 DEF QueueFlies
  <2> QED
    BY <1>2, <2>1, <2>2 DEF Entered
<1>4. CASE k # i
  <2>1. k \in InQueue(old) /\ copy[k] = old[k]
    BY <1>4 DEF QueueGains
  <2>2. AgeOf(r, old[j].rob_id) < AgeOf(r, old[k].rob_id)
    BY <1>2, <2>1 DEF ByAge
  <2>3. old[j].rob_id \in Flying(r) /\ old[k].rob_id \in Flying(r)
    BY <1>2, <2>1 DEF QueueFlies
  <2> QED
    BY <1>2, <2>1, <2>2, <2>3 DEF Entered
<1> QED
  BY <1>3, <1>4

-----------------------------------------------------------------------------

\* The units that work for loads do so for the same ones.
FewerLoads(new, units) ==
    \A u \in LoadUnits(new) : u \in LoadUnits(units) /\ new[u].dest_id = units[u].dest_id

\* As long as their buffers are as they were.
LEMMA AddressesStillToCome ==
    ASSUME NEW units, NEW buffers, AddressesToCome(units, buffers),
           NEW now, FewerLoads(now, units), NEW new, new.current = buffers.current,
           \A u \in LoadUnits(now) :
               AwaitsAddress(buffers, now[u].dest_id) =>
                   SameInQueue(new.next[now[u].dest_id], buffers.next[now[u].dest_id])
    PROVE  AddressesToCome(now, new)
<1>1. ASSUME NEW u \in LoadUnits(now) PROVE AwaitsAddress(new, now[u].dest_id)
  <2>1. AwaitsAddress(buffers, now[u].dest_id)
    BY DEF AddressesToCome, FewerLoads
  <2>2. SameInQueue(new.next[now[u].dest_id], buffers.next[now[u].dest_id])
    BY <2>1
  <2> QED
    BY <2>1, <2>2 DEF AwaitsAddress, SameInQueue
<1>2. ASSUME NEW u \in LoadUnits(now), NEW w \in LoadUnits(now), now[u].dest_id = now[w].dest_id
      PROVE  u = w
  BY <1>2 DEF AddressesToCome, FewerLoads
<1> QED
  BY <1>1, <1>2 DEF AddressesToCome

\* No step, no change.
LEMMA SameLoads ==
    \A units, e : FewerLoads(units, units) /\ SameInQueue(e, e)
  BY DEF FewerLoads, SameInQueue

-----------------------------------------------------------------------------

\* What the steps of the queue have in common.
LEMMA QueueStep ==
    ASSUME Inv, Inv', QueueInv, SameAges(rob', rob), QueueSound(mb'),
           KeepsOrder(mb'.next, mb.next),
           phase' \in {"fetch", "decode", "issue"} => QueueGrows(mb'),
           AddressesToCome(address_units', mb')
    PROVE  QueueInv'
<1>1. QueueFlies(mb.next, rob)
  BY QueuedAreInFlight
<1>2. QueueFlies(mb.next, rob)'
  BY QueuedAreInFlight, PTL
<1>3. QueueFlies(mb'.next, rob')
  BY <1>2
<1>4. ByAge(mb.next, rob)
  BY DEF QueueInv
<1>5. ByAge(mb'.next, rob')
  BY <1>1, <1>3, <1>4, ByAgeStays
<1> QED
  BY <1>5 DEF QueueInv, QueueSound

\* Nothing has happened to the queue.
LEMMA OrderKept == \A copy : KeepsOrder(copy, copy)
  BY DEF KeepsOrder

\* A step of others.
LEMMA QueueUntouched ==
    ASSUME Inv, Inv', QueueInv, SameAges(rob', rob), mb' = mb, address_units' = address_units,
           phase # "update",
           phase' \in {"fetch", "decode", "issue"} => phase \in {"fetch", "decode", "issue"}
    PROVE  QueueInv'
<1>1. QueueSound(mb) /\ AddressesToCome(address_units, mb)
  BY DEF QueueInv, QueueSound
<1>2. KeepsOrder(mb'.next, mb.next)
  BY OrderKept
<1>3. phase' \in {"fetch", "decode", "issue"} => QueueGrows(mb')
  BY DEF QueueInv
<1> QED
  BY <1>1, <1>2, <1>3, QueueStep

-----------------------------------------------------------------------------

\* The front end.
LEMMA FrontQueue ==
    Inv /\ Inv' /\ QueueInv /\ (Fetch \/ DecodeLatch \/ DecodeStalls \/ DecodeFails \/ EndIssue)
        => QueueInv'
<1> SUFFICES ASSUME Inv, Inv', QueueInv,
                    Fetch \/ DecodeLatch \/ DecodeStalls \/ DecodeFails \/ EndIssue
             PROVE  QueueInv'
  OBVIOUS
<1>1. /\ phase \in {"fetch", "decode", "issue"}
      /\ mb' = mb /\ address_units' = address_units /\ rob' = rob
  BY DEF Fetch, DecodeLatch, DecodeStalls, DecodeFails, EndIssue, issueVars, unitVars
<1>2. SameAges(rob', rob)
  BY <1>1, AgesStay DEF Inv, Shapes
<1> QED
  BY <1>1, <1>2, QueueUntouched

\* Instructions that do not go to the buffers.
LEMMA IssueAlQueue == Inv /\ Inv' /\ QueueInv /\ IssueAl => QueueInv'
<1> SUFFICES ASSUME Inv, Inv', QueueInv, IssueAl PROVE QueueInv'
  OBVIOUS
<1> DEFINE inst == inst_queue_front(iq, index)
           op_type == op_type_of(inst.op)
<1>1. /\ phase = "issue" /\ index < batch_size /\ op_type = "AL"
      /\ mb' = mb /\ address_units' = address_units
      /\ rob' = rob_enqueue(rob, op_type, inst.rd, NA, NA, NA, NA)
  BY DEF IssueAl, Issuing, unitVars
<1>2. op_type \in OpType /\ NA \in {0} \cup RobIds
  BY <1>1 DEF OpType, NA
<1>3. Entered(rob, rob', rob_enqueue_id(rob), op_type, inst.rd)
  BY <1>1, <1>2, BatchEnters
<1>4. IsRob(rob)
  BY DEF Inv, Shapes
<1>5. SameAges(rob', rob)
  BY <1>3, <1>4, AgesStay
<1> QED
  BY <1>1, <1>5, QueueUntouched

\* As before.
LEMMA IssueBranchQueue == Inv /\ Inv' /\ QueueInv /\ IssueBranch => QueueInv'
<1> SUFFICES ASSUME Inv, Inv', QueueInv, IssueBranch PROVE QueueInv'
  OBVIOUS
<1> DEFINE inst == inst_queue_front(iq, index)
           op_type == op_type_of(inst.op)
<1>1. /\ phase = "issue" /\ index < batch_size /\ op_type \in {"JUMP", "BRANCH"}
      /\ mb' = mb /\ address_units' = address_units
      /\ rob' = rob_enqueue(rob, op_type, inst.rd, NA, NA, inst.npc_pred, inst.inst_pc)
  BY DEF IssueBranch, Issuing, unitVars
<1>2. op_type \in OpType /\ NA \in {0} \cup RobIds
  BY <1>1 DEF OpType, NA
<1>3. Entered(rob, rob', rob_enqueue_id(rob), op_type, inst.rd)
  BY <1>1, <1>2, BatchEnters
<1>4. IsRob(rob)
  BY DEF Inv, Shapes
<1>5. SameAges(rob', rob)
  BY <1>3, <1>4, AgesStay
<1> QED
  BY <1>1, <1>5, QueueUntouched

\* A load or a store that enters goes to the end of the queue.
LEMMA IssueMemoryQueue == Inv /\ Inv' /\ QueueInv /\ IssueMemory => QueueInv'
<1> SUFFICES ASSUME Inv, Inv', QueueInv, IssueMemory PROVE QueueInv'
  OBVIOUS
<1> DEFINE inst == inst_queue_front(iq, index)
           op_type == op_type_of(inst.op)
           j == set_q_v(inst.rs1)
           k == IF inst.op \in StoreOp THEN set_q_v(inst.rs2) ELSE value(NA)
           id == rob_enqueue_id(rob)
           n == NUM_MEMORY_BUFFERS
<1>1. /\ phase = "issue" /\ index < batch_size /\ op_type \in {"LOAD"} \cup StoreType
      /\ phase' = phase /\ address_units' = address_units
      /\ rob' = rob_enqueue(rob, op_type, inst.rd, k.v, k.q, NA, NA)
      /\ mb' = memory_buffers_enqueue(mb, inst.op, j.q, k.q, j.v, k.v, inst.imm, id)
  BY DEF IssueMemory, Issuing, unitVars
<1>2. op_type \in OpType
  BY <1>1 DEF OpType, StoreType
<1>3. k.q \in {0} \cup RobIds
  <2>1. IsFile(regs) /\ dependencies \in [Regs -> {0} \cup RobIds]
    BY DEF Inv, Shapes
  <2>2. inst.rs1 \in Regs /\ inst.rs2 \in Regs
    BY <1>1, IssueMeets DEF IsInst
  <2> QED
    BY <2>1, <2>2, OperandIsId
<1> DEFINE q == k.q
           val == k.v
<1>4. q \in {0} \cup RobIds /\ rob' = rob_enqueue(rob, op_type, inst.rd, val, q, NA, NA)
  BY <1>1, <1>3
<1> HIDE DEF q, val
<1>5. Entered(rob, rob', id, op_type, inst.rd)
  BY <1>1, <1>2, <1>4, BatchEnters
<1>6. IsBuffers(mb, n) /\ n \in Nat /\ BuffersInStep(mb, rob)
      /\ mb.count_enqueue < memory_buffers_num_free(mb)
  BY <1>1, Sizes, IssueMeets DEF PoolsAre
<1>7. IsBuffers(mb', n)
  BY DEF Inv, Shapes
<1>8. QueueShape(mb, n) /\ QueueShape(mb', n)
  BY <1>6, <1>7, QueueShaped
<1>9. QueueJoins(mb', mb, n, id, inst.op)
  BY <1>1, <1>6, EnqueueJoins
<1> HIDE DEF j, k, id, inst, op_type
<1>10. PICK i : QueueJoined(mb', mb, n, i, id, inst.op)
  BY <1>9 DEF QueueJoins
<1>11. QueueSound(mb) /\ QueueGrows(mb) /\ ByAge(mb.next, rob)
       /\ AddressesToCome(address_units, mb)
  BY <1>1 DEF QueueInv, QueueSound
<1>12. QueueSound(mb') /\ QueueGrows(mb') /\ QueueGains(mb'.next, mb.next, i, id, inst.op)
  BY <1>8, <1>10, <1>11, QueueAfterJoin
<1>13. QueueFlies(mb.next, rob)
  BY QueuedAreInFlight
<1>14. \A b \in InQueue(mb'.next) : mb'.next[b].queue_pos \in Int
  BY <1>8 DEF QueueShape, InQueue
<1>15. ByAge(mb'.next, rob')
  BY <1>5, <1>11, <1>12, <1>13, <1>14, ByAgeEnters
<1>16. AddressesToCome(address_units, mb')
  <2>1. mb'.current = mb.current /\ ~mb.current[i].busy
    BY <1>10 DEF QueueJoined
  <2>2. ASSUME NEW u \in LoadUnits(address_units),
               AwaitsAddress(mb, address_units[u].dest_id)
        PROVE  SameInQueue(mb'.next[address_units[u].dest_id], mb.next[address_units[u].dest_id])
    <3>1. address_units[u].dest_id \in 1 .. n /\ address_units[u].dest_id # i
      BY <1>8, <2>1, <2>2 DEF AwaitsAddress, QueueShape
    <3>2. mb'.next[address_units[u].dest_id] = mb.next[address_units[u].dest_id]
      BY <1>10, <3>1 DEF QueueJoined
    <3> QED
      BY <3>2, SameLoads
  <2> QED
    BY <1>11, <2>1, <2>2, SameLoads, AddressesStillToCome
<1> QED
  BY <1>1, <1>12, <1>15, <1>16 DEF QueueInv, QueueSound

-----------------------------------------------------------------------------

\* The units of other kinds leave the queue alone.
LEMMA AluStepQueue == Inv /\ Inv' /\ QueueInv /\ AluStep => QueueInv'
<1> SUFFICES ASSUME Inv, Inv', QueueInv, AluStep PROVE QueueInv'
  OBVIOUS
<1>1. /\ phase = "alu" /\ Advance(NUM_ALU_UNITS, "branch")
      /\ mb' = mb /\ address_units' = address_units /\ rob' = rob
  BY DEF AluStep
<1>2. phase' \in {"alu", "branch"}
  BY <1>1 DEF Advance
<1>3. SameAges(rob', rob)
  BY <1>1, AgesStay DEF Inv, Shapes
<1> QED
  BY <1>1, <1>2, <1>3, QueueUntouched

\* The target of a branch changes no age.
LEMMA BranchStepQueue == Inv /\ Inv' /\ QueueInv /\ BranchStep => QueueInv'
<1> SUFFICES ASSUME Inv, Inv', QueueInv, BranchStep PROVE QueueInv'
  OBVIOUS
<1>1. /\ phase = "branch" /\ Advance(NUM_BRANCH_UNITS, "memory")
      /\ mb' = mb /\ address_units' = address_units
      /\ rob' = rob \/ \E id, npc_actual : rob' = rob_add_npc_actual(rob, id, npc_actual)
  BY DEF BranchStep
<1>2. phase' \in {"branch", "memory"}
  BY <1>1 DEF Advance
<1>3. IsRob(rob)
  BY DEF Inv, Shapes
<1>4. rob'.front_next = rob.front_next
  <2>1. PICK V : rob \in RobState(V)
    BY <1>3 DEF IsRob
  <2>2. \A id, npc_actual : rob_add_npc_actual(rob, id, npc_actual).front_next = rob.front_next
    BY <2>1 DEF rob_add_npc_actual, RobState
  <2> QED
    BY <1>1, <2>2
<1>5. SameAges(rob', rob)
  BY <1>3, <1>4, AgesStay
<1> QED
  BY <1>1, <1>2, <1>5, QueueUntouched

\* A load that is read from memory waits for no address.
LEMMA MemoryStepQueue == Inv /\ Inv' /\ QueueInv /\ MemoryStep => QueueInv'
<1> SUFFICES ASSUME Inv, Inv', QueueInv, MemoryStep PROVE QueueInv'
  OBVIOUS
<1> DEFINE n == NUM_MEMORY_BUFFERS
<1>1. /\ phase = "memory" /\ Advance(NUM_MEMORY_UNITS, "address")
      /\ \/ mb' = mb
         \/ \E i \in memory_candidate(mb, rob) : mb' = memory_buffers_dequeue_memory(mb, i)
      /\ rob' = rob /\ address_units' = address_units
  BY DEF MemoryStep
<1>2. phase' \in {"memory", "address"}
  BY <1>1 DEF Advance
<1>3. SameAges(rob', rob)
  BY <1>1, AgesStay DEF Inv, Shapes
<1>4. CASE mb' = mb
  BY <1>1, <1>2, <1>3, <1>4, QueueUntouched
<1>5. ASSUME NEW i \in memory_candidate(mb, rob), mb' = memory_buffers_dequeue_memory(mb, i)
      PROVE  QueueInv'
  <2>1. IsBuffers(mb, n) /\ IsBuffers(mb', n) /\ n \in Nat
    BY Sizes DEF Inv, Shapes
  <2>2. QueueShape(mb, n) /\ QueueShape(mb', n)
    BY <2>1, QueueShaped
  <2>3. MayLoad(mb, rob, n, i) /\ QueueSpared(mb', mb, n, i)
    BY <1>5, <2>1, DequeueMemorySpares
  <2>4. QueueSound(mb) /\ AddressesToCome(address_units, mb)
    BY <1>1 DEF QueueInv, QueueSound
  <2>5. QueueSound(mb') /\ KeepsOrder(mb'.next, mb.next)
    BY <2>2, <2>3, <2>4, QueueAfterMemory
  <2>6. mb'.current = mb.current
    BY <2>3 DEF QueueSpared, SameCounts
  <2>7. ASSUME NEW u \in LoadUnits(address_units),
               AwaitsAddress(mb, address_units[u].dest_id)
        PROVE  SameInQueue(mb'.next[address_units[u].dest_id], mb.next[address_units[u].dest_id])
    <3>1. address_units[u].dest_id \in 1 .. n /\ address_units[u].dest_id # i
      BY <2>2, <2>3, <2>7 DEF AwaitsAddress, QueueShape, MayLoad
    <3>2. mb'.next[address_units[u].dest_id] = mb.next[address_units[u].dest_id]
      BY <2>3, <3>1 DEF QueueSpared
    <3> QED
      BY <3>2, SameLoads
  <2>8. AddressesToCome(address_units, mb')
    BY <2>4, <2>6, <2>7, SameLoads, AddressesStillToCome
  <2> QED
    BY <1>1, <1>2, <1>3, <2>5, <2>8, QueueStep
<1> QED
  BY <1>1, <1>4, <1>5

-----------------------------------------------------------------------------

\* Order is kept through any number of steps.
LEMMA OrderKeptOn ==
    ASSUME NEW a, NEW b, NEW c, KeepsOrder(b, a), KeepsOrder(c, b)
    PROVE  KeepsOrder(c, a)
  BY DEF KeepsOrder

\* Which units work for loads when unit i is replaced by u.
LEMMA LoadsAfterPut ==
    ASSUME NEW n, NEW units, IsAddressUnits(units, n), NEW i \in 1 .. n,
           NEW u, IsAddressUnit(u)
    PROVE  /\ DOMAIN units = 1 .. n /\ DOMAIN Put(units, i, u) = 1 .. n
           /\ Put(units, i, u)[i] = u
           /\ \A w \in 1 .. n : w # i => Put(units, i, u)[w] = units[w]
           /\ \A w : w # i => (w \in LoadUnits(Put(units, i, u)) <=> w \in LoadUnits(units))
           /\ i \in LoadUnits(Put(units, i, u)) <=> u.relative_cycle > 0 /\ ~u.is_store
<1>1. DOMAIN units = 1 .. n
  BY DEF IsAddressUnits
<1> DEFINE new == Put(units, i, u)
<1>2. /\ DOMAIN new = 1 .. n /\ new[i] = u
      /\ \A w \in 1 .. n : w # i => new[w] = units[w]
  BY <1>1 DEF Put
<1> HIDE DEF new
<1>3. \A w : w # i => (w \in LoadUnits(new) <=> w \in LoadUnits(units))
  BY <1>1, <1>2 DEF LoadUnits
<1>4. i \in LoadUnits(new) <=> u.relative_cycle > 0 /\ ~u.is_store
  BY <1>2 DEF LoadUnits
<1> QED
  BY <1>1, <1>2, <1>3, <1>4 DEF new

\* Whatever the address units hand on, the queue of buffers stays in order.
LEMMA DeliverQueue ==
    ASSUME Inv, Inv', QueueInv, phase = "address", Advance(NUM_ADDRESS_UNITS, "capture"),
           NEW u, IsAddressUnit(u), u.relative_cycle > 0,
           NEW buffers, IsBuffers(buffers, NUM_MEMORY_BUFFERS),
           QueueSound(buffers), KeepsOrder(buffers.next, mb.next),
           AddressesToCome(Put(address_units, index + 1, u), buffers),
           Deliver(u, buffers)
    PROVE  QueueInv'
<1> DEFINE i == index + 1
           n == NUM_ADDRESS_UNITS
           m == NUM_MEMORY_BUFFERS
           units == Put(address_units, i, u)
<1>1. /\ index \in Nat /\ index < n /\ n \in Nat \ {0}
      /\ IsAddressUnits(address_units, n) /\ IsRob(rob)
  BY UnitsBefore, Sizes DEF UnitPhases
<1>2. i \in 1 .. n /\ DOMAIN address_units = 1 .. n
  BY <1>1 DEF IsAddressUnits
<1>3. phase' \in {"address", "capture"}
  BY DEF Advance
<1>4. SameAges(rob', rob)
  <2>1. PICK V : rob \in RobState(V)
    BY <1>1 DEF IsRob
  <2>2. \A id, address : rob_add_address(rob, id, address).front_next = rob.front_next
    BY <2>1 DEF rob_add_address, RobState
  <2>3. rob'.front_next = rob.front_next
    BY <2>2 DEF Deliver
  <2> QED
    BY <1>1, <2>3, AgesStay
<1>5. PICK V : u \in AddressUnitOf(V)
  BY DEF IsAddressUnit
<1>6. /\ free(u).relative_cycle = 0 /\ free(u).dest_id = u.dest_id /\ free(u).is_store = u.is_store
      /\ IsAddressUnit(free(u))
  BY <1>5 DEF free, AddressUnitOf, IsAddressUnit
<1>7. /\ \A w \in 1 .. n : w # i => units[w] = address_units[w]
      /\ units[i] = u /\ DOMAIN units = 1 .. n
      /\ \A w : w # i => (w \in LoadUnits(units) <=> w \in LoadUnits(address_units))
      /\ i \in LoadUnits(units) <=> u.relative_cycle > 0 /\ ~u.is_store
  BY <1>1, <1>2, LoadsAfterPut
<1> DEFINE freed == Put(address_units, i, free(u))
<1>8. /\ \A w \in 1 .. n : w # i => freed[w] = address_units[w]
      /\ \A w : w # i => (w \in LoadUnits(freed) <=> w \in LoadUnits(address_units))
      /\ i \notin LoadUnits(freed)
  <2>1. /\ \A w \in 1 .. n : w # i => freed[w] = address_units[w]
        /\ \A w : w # i => (w \in LoadUnits(freed) <=> w \in LoadUnits(address_units))
        /\ i \in LoadUnits(freed) <=> free(u).relative_cycle > 0 /\ ~free(u).is_store
    BY <1>1, <1>2, <1>6, LoadsAfterPut
  <2>2. ~(free(u).relative_cycle > 0)
    BY <1>6
  <2> QED
    BY <2>1, <2>2
<1>9. AddressesToCome(units, buffers)
  OBVIOUS
<1> HIDE DEF units, freed
<1>10. \A w \in LoadUnits(freed) : w \in 1 .. n /\ w # i /\ w \in LoadUnits(units)
                                  /\ freed[w] = units[w]
  BY <1>2, <1>7, <1>8 DEF LoadUnits
<1>11. FewerLoads(freed, units)
  BY <1>10 DEF FewerLoads
<1>12. CASE mb' = buffers /\ address_units' = units
  BY <1>3, <1>4, <1>9, <1>12, QueueStep
<1>13. CASE mb' = buffers /\ address_units' = freed
  <2>1. AddressesToCome(freed, buffers)
    BY <1>9, <1>11, SameLoads, AddressesStillToCome
  <2> QED
    BY <1>3, <1>4, <1>13, <2>1, QueueStep
<1>14. CASE /\ ~u.is_store /\ address_units' = freed
            /\ mb' = memory_buffers_add_address(buffers, u.dest_id, u.address)
  <2> DEFINE b == u.dest_id
  <2>1. i \in LoadUnits(units)
    BY <1>7, <1>14
  <2>2. AwaitsAddress(buffers, b)
    BY <1>7, <1>9, <2>1 DEF AddressesToCome
  <2>3. QueueShape(buffers, m)
    BY QueueShaped
  <2>4. QueueShape(mb', m)
    <3>1. IsBuffers(mb', m)
      BY DEF Inv, Shapes
    <3> QED
      BY <3>1, QueueShaped
  <2>5. b \in 1 .. m /\ buffers.next[b].queue_pos = 0
    BY <2>2, <2>3 DEF AwaitsAddress, QueueShape
  <2>6. QueueAddressed(mb', buffers, m, b, u.address)
    BY <1>14, AddAddresses
  <2> HIDE DEF b
  <2>7. QueueSound(mb') /\ KeepsOrder(mb'.next, buffers.next)
    BY <2>3, <2>4, <2>5, <2>6, QueueAfterAddress
  <2>8. KeepsOrder(mb'.next, mb.next)
    BY <2>7, OrderKeptOn
  <2>9. mb'.current = buffers.current
    BY <2>6 DEF QueueAddressed, SameCounts
  <2>10. ASSUME NEW w \in LoadUnits(freed), AwaitsAddress(buffers, freed[w].dest_id)
         PROVE  SameInQueue(mb'.next[freed[w].dest_id], buffers.next[freed[w].dest_id])
    <3>1. w \in LoadUnits(units) /\ w # i /\ freed[w] = units[w]
      BY <1>10
    <3>2. units[w].dest_id # b
      BY <1>7, <1>9, <2>1, <3>1 DEF AddressesToCome, b
    <3>3. freed[w].dest_id \in 1 .. m /\ freed[w].dest_id # b
      BY <2>3, <2>10, <3>1, <3>2 DEF AwaitsAddress, QueueShape
    <3>4. mb'.next[freed[w].dest_id] = buffers.next[freed[w].dest_id]
      BY <2>6, <3>3 DEF QueueAddressed
    <3> QED
      BY <3>4, SameLoads
  <2>11. AddressesToCome(freed, mb')
    BY <1>9, <1>11, <2>9, <2>10, AddressesStillToCome
  <2> QED
    BY <1>3, <1>4, <1>14, <2>7, <2>8, <2>11, QueueStep
<1>15. \/ mb' = buffers /\ address_units' = units
       \/ mb' = buffers /\ address_units' = freed
       \/ /\ ~u.is_store /\ address_units' = freed
          /\ mb' = memory_buffers_add_address(buffers, u.dest_id, u.address)
  BY DEF Deliver, Put, units, freed
<1> QED
  BY <1>12, <1>13, <1>14, <1>15

\* A store that is sent leaves the queue for good, a load until its address comes.
LEMMA AddressStepQueue == Inv /\ Inv' /\ QueueInv /\ AddressStep => QueueInv'
<1> SUFFICES ASSUME Inv, Inv', QueueInv, AddressStep PROVE QueueInv'
  OBVIOUS
<1> DEFINE i == index + 1
           unit == address_units[i]
           n == NUM_ADDRESS_UNITS
           m == NUM_MEMORY_BUFFERS
<1>1. phase = "address" /\ Advance(n, "capture")
  BY DEF AddressStep
<1>2. /\ index \in Nat /\ index < n /\ n \in Nat \ {0} /\ m \in Nat
      /\ IsAddressUnits(address_units, n) /\ IsRob(rob)
      /\ IsBuffers(mb, m) /\ BuffersInStep(mb, rob)
  <2>1. phase \in UnitPhases
    BY <1>1 DEF UnitPhases
  <2> QED
    BY <1>1, <2>1, UnitsBefore, Sizes
<1>3. i \in 1 .. n /\ DOMAIN address_units = 1 .. n
  BY <1>2 DEF IsAddressUnits
<1>4. /\ unit.relative_cycle \in Nat /\ IsAddressUnit(count(unit))
      /\ count(unit).relative_cycle = unit.relative_cycle + 1
      /\ count(unit).dest_id = unit.dest_id
      /\ count(unit).is_store = unit.is_store
  BY <1>2, <1>3, AddressUnitFields
<1>5. QueueSound(mb) /\ AddressesToCome(address_units, mb)
  BY <1>1 DEF QueueInv, QueueSound
<1>6. ASSUME NEW k \in address_candidate(mb), NEW address, NEW id,
             unit.relative_cycle = 0,
             id = IF mb.current[k].op \in StoreOp THEN mb.current[k].rob_id ELSE k,
             Deliver([relative_cycle |-> 1, is_store |-> mb.current[k].op \in StoreOp,
                      address |-> address, dest_id |-> id],
                     memory_buffers_dequeue_address(mb, k))
      PROVE  QueueInv'
  <2> DEFINE is_store == mb.current[k].op \in StoreOp
             u == [relative_cycle |-> 1, is_store |-> is_store,
                   address |-> address, dest_id |-> id]
             buffers == memory_buffers_dequeue_address(mb, k)
             units == Put(address_units, i, u)
  <2>1. Deliver(u, buffers)
    BY <1>6
  <2>2. IsBuffers(buffers, m)
    <3>1. AddressLeaves(buffers, mb, m, rob, "mb", k)
      BY <1>2, <1>6, LeaveForAddress
    <3> QED
      BY <3>1 DEF AddressLeaves, BuffersAfter
  <2>3. QueueLeft(buffers, mb, m, k)
    BY <1>2, <1>6, DequeueAddressLeaves
  <2>4. /\ u.relative_cycle = 1 /\ u.is_store = is_store /\ u.dest_id = id
    OBVIOUS
  <2>5. IsAddressUnit(u)
    <3>1. u \in AddressUnitOf({address, id})
      BY DEF AddressUnitOf
    <3> QED
      BY <3>1 DEF IsAddressUnit
  <2> HIDE DEF u, buffers
  <2>6. /\ QueueSound(buffers) /\ KeepsOrder(buffers.next, mb.next)
        /\ k \notin InQueue(buffers.next)
    BY <1>2, <1>5, <2>2, <2>3, QueueAfterLeave
  <2>7. /\ k \in 1 .. m /\ mb.current[k].busy
        /\ k \in InQueue(mb.current) /\ k \in InQueue(mb.next)
    BY <1>2, <1>5, <2>3, LeavesFromQueue
  <2>8. QueueShape(mb, m) /\ QueueShape(buffers, m)
    BY <1>2, <2>2, QueueShaped
  <2>9. buffers.current = mb.current
    BY <2>3 DEF QueueLeft
  <2>10. /\ \A w \in 1 .. n : w # i => units[w] = address_units[w]
         /\ units[i] = u /\ DOMAIN units = 1 .. n
         /\ \A w : w # i => (w \in LoadUnits(units) <=> w \in LoadUnits(address_units))
         /\ i \in LoadUnits(units) <=> u.relative_cycle > 0 /\ ~u.is_store
    BY <1>2, <1>3, <2>5, LoadsAfterPut
  <2> HIDE DEF units
  <2>11. ASSUME NEW w \in LoadUnits(units), w # i
         PROVE  /\ w \in LoadUnits(address_units) /\ units[w] = address_units[w]
                /\ AwaitsAddress(mb, units[w].dest_id)
                /\ units[w].dest_id # k
                /\ AwaitsAddress(buffers, units[w].dest_id)
    <3> DEFINE b == units[w].dest_id
    <3>1. w \in LoadUnits(address_units) /\ w \in 1 .. n
      BY <1>3, <2>10, <2>11 DEF LoadUnits
    <3>2. units[w] = address_units[w]
      BY <2>10, <2>11, <3>1
    <3>3. AwaitsAddress(mb, b)
      BY <1>5, <3>1, <3>2 DEF AddressesToCome
    <3> HIDE DEF b
    <3>4. b # k
      BY <2>7, <3>3 DEF AwaitsAddress, InQueue
    <3>5. b \in 1 .. m
      BY <2>8, <3>3 DEF AwaitsAddress, QueueShape
    <3>6. MovesUp(buffers.next[b], mb.next[b], mb.next[k].queue_pos)
      BY <2>3, <3>4, <3>5 DEF QueueLeft
    <3>7. ~(mb.next[b].queue_pos > mb.next[k].queue_pos)
      <4>1. mb.next[k].queue_pos \in 1 .. mb.num_in_queue_next
        BY <1>5, <2>7 DEF QueueSound, Ordered
      <4>2. mb.num_in_queue_next \in Int
        BY <2>8 DEF QueueShape
      <4> QED
        BY <3>3, <4>1, <4>2 DEF AwaitsAddress
    <3>8. AwaitsAddress(buffers, b)
      BY <2>8, <2>9, <3>3, <3>5, <3>6, <3>7 DEF AwaitsAddress, MovesUp, QueueShape
    <3> QED
      BY <3>1, <3>2, <3>3, <3>4, <3>8 DEF b
  <2>12. ASSUME i \in LoadUnits(units)
         PROVE  units[i].dest_id = k /\ AwaitsAddress(buffers, k)
    <3>1. ~is_store
      BY <2>4, <2>10, <2>12
    <3>2. units[i].dest_id = k
      BY <1>6, <2>4, <2>10, <3>1
    <3>3. /\ buffers.next[k].busy = mb.next[k].busy
          /\ buffers.next[k].op = mb.next[k].op
          /\ buffers.next[k].a = 0 /\ buffers.next[k].queue_pos = 0
      BY <2>3, <3>1 DEF QueueLeft
    <3>4. mb.next[k].busy /\ mb.current[k].queue_pos # 0
      BY <2>7 DEF InQueue
    <3>5. mb.next[k].op = mb.current[k].op
      BY <1>2, <2>7, <2>8 DEF BuffersInStep, QueueShape
    <3>6. AwaitsAddress(buffers, k)
      BY <2>7, <2>8, <2>9, <3>1, <3>3, <3>4, <3>5 DEF AwaitsAddress, QueueShape
    <3> QED
      BY <3>2, <3>6
  <2>13. AddressesToCome(units, buffers)
    <3>1. ASSUME NEW w \in LoadUnits(units) PROVE AwaitsAddress(buffers, units[w].dest_id)
      BY <2>11, <2>12
    <3>2. ASSUME NEW v \in LoadUnits(units), NEW w \in LoadUnits(units),
                 units[v].dest_id = units[w].dest_id
          PROVE  v = w
      <4>1. CASE v = i /\ w # i
        BY <2>11, <2>12, <3>2, <4>1
      <4>2. CASE v # i /\ w = i
        BY <2>11, <2>12, <3>2, <4>2
      <4>3. CASE v # i /\ w # i
        <5>1. /\ v \in LoadUnits(address_units) /\ units[v] = address_units[v]
              /\ w \in LoadUnits(address_units) /\ units[w] = address_units[w]
          BY <2>11, <4>3
        <5> QED
          BY <1>5, <3>2, <5>1 DEF AddressesToCome
      <4> QED
        BY <4>1, <4>2, <4>3
    <3> QED
      BY <3>1, <3>2 DEF AddressesToCome
  <2>14. u.relative_cycle > 0
    BY <2>4
  <2> QED
    BY <1>1, <2>1, <2>2, <2>5, <2>6, <2>13, <2>14, DeliverQueue DEF units
<1>7. CASE unit.relative_cycle > 0 /\ Deliver(count(unit), mb)
  <2> DEFINE u == count(unit)
             units == Put(address_units, i, u)
  <2>0. IsAddressUnit(u)
    BY <1>4
  <2> HIDE DEF u
  <2>1. /\ \A w \in 1 .. n : w # i => units[w] = address_units[w]
        /\ units[i] = u /\ DOMAIN units = 1 .. n
        /\ \A w : w # i => (w \in LoadUnits(units) <=> w \in LoadUnits(address_units))
        /\ i \in LoadUnits(units) <=> u.relative_cycle > 0 /\ ~u.is_store
    BY <1>2, <1>3, <2>0, LoadsAfterPut
  <2> USE DEF u
  <2>2. u.relative_cycle > 0
    BY <1>4, <1>7
  <2>3. ASSUME NEW w \in LoadUnits(units)
        PROVE  w \in LoadUnits(address_units) /\ units[w].dest_id = address_units[w].dest_id
    <3>1. CASE w = i
      <4>1. i \in LoadUnits(address_units)
        BY <1>3, <1>4, <1>7, <2>1, <2>3, <3>1 DEF LoadUnits
      <4> QED
        BY <1>4, <2>1, <3>1, <4>1
    <3>2. CASE w # i
      BY <1>3, <2>1, <2>3, <3>2 DEF LoadUnits
    <3> QED
      BY <3>1, <3>2
  <2>4. FewerLoads(units, address_units)
    BY <2>3 DEF FewerLoads
  <2> HIDE DEF units, u
  <2>5. AddressesToCome(units, mb)
    BY <1>5, <2>4, SameLoads, AddressesStillToCome
  <2>6. KeepsOrder(mb.next, mb.next)
    BY OrderKept
  <2> QED
    BY <1>1, <1>2, <1>4, <1>5, <1>7, <2>2, <2>5, <2>6, DeliverQueue DEF units, u
<1>8. CASE mb' = mb /\ rob' = rob /\ address_units' = address_units
  <2>1. phase' \in {"address", "capture"}
    BY <1>1 DEF Advance
  <2>2. SameAges(rob', rob)
    BY <1>2, <1>8, AgesStay
  <2> QED
    BY <1>1, <1>8, <2>1, <2>2, QueueUntouched
<1>9. \/ unit.relative_cycle = 0 /\ \E k \in address_candidate(mb) : \E address, id :
            /\ id = IF mb.current[k].op \in StoreOp THEN mb.current[k].rob_id ELSE k
            /\ Deliver([relative_cycle |-> 1, is_store |-> mb.current[k].op \in StoreOp,
                        address |-> address, dest_id |-> id],
                       memory_buffers_dequeue_address(mb, k))
      \/ mb' = mb /\ rob' = rob /\ address_units' = address_units
      \/ unit.relative_cycle > 0 /\ Deliver(count(unit), mb)
  BY DEF AddressStep
<1> QED
  BY <1>6, <1>7, <1>8, <1>9

-----------------------------------------------------------------------------

\* What is heard on the bus moves nobody.
LEMMA CaptureQueue == Inv /\ Inv' /\ QueueInv /\ Capture => QueueInv'
<1> SUFFICES ASSUME Inv, Inv', QueueInv, Capture PROVE QueueInv'
  OBVIOUS
<1> DEFINE n == NUM_MEMORY_BUFFERS
<1>1. /\ phase = "capture" /\ phase' = "commit" /\ address_units' = address_units
      /\ mb' = memory_buffers_step(mb, cdb) /\ rob' = rob_step(rob, cdb)
  BY DEF Capture, unitVars
<1>2. IsRob(rob) /\ IsBuffers(mb, n) /\ IsBuffers(mb', n) /\ n \in Nat
  BY Sizes DEF Inv, Shapes
<1>3. SameAges(rob', rob)
  <2>1. PICK V : rob \in RobState(V)
    BY <1>2 DEF IsRob
  <2>2. rob'.front_next = rob.front_next
    BY <1>1, <2>1 DEF rob_step, RobState
  <2> QED
    BY <1>2, <2>2, AgesStay
<1>4. QueueShape(mb, n) /\ QueueShape(mb', n)
  BY <1>2, QueueShaped
<1>5. QueueKept(mb', mb, n)
  BY <1>1, <1>2, StepKeepsQueue
<1>6. QueueSound(mb) /\ AddressesToCome(address_units, mb)
  BY <1>1 DEF QueueInv, QueueSound
<1>7. QueueSound(mb') /\ KeepsOrder(mb'.next, mb.next)
  BY <1>4, <1>5, <1>6, QueueAfterStep
<1>8. mb'.current = mb.current
  BY <1>5 DEF QueueKept, SameCounts
<1>9. ASSUME NEW u \in LoadUnits(address_units), AwaitsAddress(mb, address_units[u].dest_id)
      PROVE  SameInQueue(mb'.next[address_units[u].dest_id], mb.next[address_units[u].dest_id])
  <2>1. address_units[u].dest_id \in 1 .. n
    BY <1>4, <1>9 DEF AwaitsAddress, QueueShape
  <2> QED
    BY <1>5, <2>1 DEF QueueKept
<1>10. AddressesToCome(address_units, mb')
  BY <1>6, <1>8, <1>9, SameLoads, AddressesStillToCome
<1> QED
  BY <1>1, <1>3, <1>7, <1>10, QueueStep

-----------------------------------------------------------------------------

\* Who leaves the reorder buffer makes all others younger by one.
LEMMA GoOnQueue ==
    ASSUME Inv, Inv', QueueInv, phase = "commit", rob_ready(rob, index), GoOn
    PROVE  QueueInv'
<1>1. /\ Advance(COMMIT_WIDTH, "update") /\ rob' = Dequeued
      /\ mb' = mb /\ address_units' = address_units
  BY DEF GoOn, unitVars
<1>2. Left(rob, rob', Entry.rob_id) /\ IsRob(rob)
  BY <1>1, Retires DEF Inv, Shapes
<1>3. SameAges(rob', rob)
  BY <1>2, AgesStay
<1>4. phase' \in {"commit", "update"}
  BY <1>1 DEF Advance
<1> QED
  BY <1>1, <1>3, <1>4, QueueUntouched

\* A flush empties the queue.
LEMMA FlushQueue ==
    ASSUME Inv, phase = "commit", NEW file, NEW target, Flush(file, target)
    PROVE  QueueInv'
<1> DEFINE n == NUM_MEMORY_BUFFERS
<1>1. /\ phase' = "update" /\ mb' = memory_buffers_clear(mb)
      /\ address_units' = [i \in DOMAIN address_units |-> free(address_units[i])]
  BY DEF Flush
<1>2. IsBuffers(mb, n) /\ IsAddressUnits(address_units, NUM_ADDRESS_UNITS)
  BY DEF Inv, Shapes
<1>3. /\ mb'.num_in_queue_next = 0 /\ DOMAIN mb'.next = 1 .. n
      /\ \A k \in 1 .. n : ~mb'.next[k].busy
  BY <1>1, <1>2, ClearAndUpdateQueue
<1>4. InQueue(mb'.next) = {} /\ Ordered(mb'.next, 0)
  BY <1>3, EmptyQueue
<1>5. ByAge(mb'.next, rob')
  BY <1>4 DEF ByAge
<1>6. LoadUnits(address_units') = {}
  <2>1. ASSUME NEW u \in DOMAIN address_units PROVE free(address_units[u]).relative_cycle = 0
    <3>1. u \in 1 .. NUM_ADDRESS_UNITS
      BY <1>2 DEF IsAddressUnits
    <3> QED
      BY <1>2, <3>1, AddressUnitFields
  <2>2. /\ DOMAIN address_units' = DOMAIN address_units
        /\ \A u \in DOMAIN address_units : address_units'[u].relative_cycle = 0
    BY <1>1, <2>1
  <2> HIDE <1>1
  <2> QED
    BY <2>2 DEF LoadUnits
<1>7. AddressesToCome(address_units', mb')
  BY <1>6 DEF AddressesToCome
<1> QED
  BY <1>1, <1>3, <1>4, <1>5, <1>7 DEF QueueInv

\* Either way of a commit.
LEMMA CommitQueue == Inv /\ Inv' /\ QueueInv /\ Commit => QueueInv'
<1> SUFFICES ASSUME Inv, Inv', QueueInv, Commit PROVE QueueInv'
  OBVIOUS
<1>1. /\ phase = "commit" /\ rob_ready(rob, index)
      /\ GoOn \/ \E file, target : Flush(file, target)
  BY DEF Commit, CommitJump, CommitBranch, CommitResult, CommitStore, Committing, CommitTransfer
<1> QED
  BY <1>1, GoOnQueue, FlushQueue

\* The end of the commit loop.
LEMMA CommitNothingQueue == Inv /\ Inv' /\ QueueInv /\ CommitNothing => QueueInv'
<1> SUFFICES ASSUME Inv, Inv', QueueInv, CommitNothing PROVE QueueInv'
  OBVIOUS
<1>1. /\ Advance(COMMIT_WIDTH, "update") /\ phase = "commit"
      /\ mb' = mb /\ address_units' = address_units /\ rob' = rob
  BY DEF CommitNothing, issueVars, unitVars
<1>2. SameAges(rob', rob)
  BY <1>1, AgesStay DEF Inv, Shapes
<1>3. phase' \in {"commit", "update"}
  BY <1>1 DEF Advance
<1> QED
  BY <1>1, <1>2, <1>3, QueueUntouched

\* The next cycle starts with the queue of this one.
LEMMA UpdateCurrentQueue == Inv /\ Inv' /\ QueueInv /\ UpdateCurrent => QueueInv'
<1> SUFFICES ASSUME Inv, Inv', QueueInv, UpdateCurrent PROVE QueueInv'
  OBVIOUS
<1> DEFINE n == NUM_MEMORY_BUFFERS
<1>1. /\ phase = "update" /\ phase' \in {"fetch", "halted"}
      /\ rob' = rob_update_current(rob) /\ mb' = memory_buffers_update_current(mb)
      /\ address_units' = address_units
  BY DEF UpdateCurrent, unitVars
<1>2. /\ IsRob(rob) /\ IsBuffers(mb, n) /\ IsBuffers(mb', n) /\ n \in Nat
      /\ EntriesInPlace(rob) /\ Windows(rob, "update", index)
  BY <1>1, Sizes DEF Inv, Shapes
<1>3. rob'.front_next = rob.front_next
  BY <1>1, <1>2, UpdateRob
<1>4. SameAges(rob', rob)
  BY <1>2, <1>3, AgesStay
<1>5. /\ mb'.current = mb.next /\ mb'.next = mb.next
      /\ mb'.num_in_queue_current = mb.num_in_queue_next
      /\ mb'.num_in_queue_next = mb.num_in_queue_next
      /\ mb'.count_address = 0 /\ mb'.count_enqueue = 0
  BY <1>1, <1>2, ClearAndUpdateQueue
<1>6. Ordered(mb.next, mb.num_in_queue_next) /\ AddressesToCome(address_units, mb)
  BY DEF QueueInv
<1>7. QueueSound(mb') /\ QueueGrows(mb') /\ KeepsOrder(mb'.next, mb.next)
  BY <1>2, <1>5, <1>6, QueueTurns
<1>8. QueueShape(mb, n)
  BY <1>2, QueueShaped
<1>9. ASSUME NEW b, AwaitsAddress(mb, b) PROVE AwaitsAddress(mb', b)
  BY <1>5, <1>8, <1>9 DEF AwaitsAddress, QueueShape
<1>10. AddressesToCome(address_units, mb')
  BY <1>6, <1>9 DEF AddressesToCome
<1> QED
  BY <1>1, <1>4, <1>7, <1>10, QueueStep

-----------------------------------------------------------------------------

\* At the start nobody is in the queue.
LEMMA InitQueue == Init => QueueInv
<1> SUFFICES ASSUME Init PROVE QueueInv
  OBVIOUS
<1>1. /\ mb = memory_buffers_init(NUM_MEMORY_BUFFERS) /\ phase = "fetch"
      /\ address_units = [i \in 1 .. NUM_ADDRESS_UNITS |-> idle_address_unit]
  BY DEF Init
<1>2. /\ mb.current = mb.next /\ mb.num_in_queue_current = 0 /\ mb.num_in_queue_next = 0
      /\ mb.count_address = 0 /\ mb.count_enqueue = 0
      /\ \A k \in DOMAIN mb.next : ~mb.next[k].busy
  BY <1>1 DEF memory_buffers_init
<1>3. InQueue(mb.next) = {} /\ Ordered(mb.next, 0)
  BY <1>2, EmptyQueue
<1>4. ByAge(mb.next, rob)
  BY <1>3 DEF ByAge
<1>5. QueueInStep(mb)
  BY <1>2, <1>3 DEF QueueInStep
<1>6. LoadUnits(address_units) = {}
  BY <1>1 DEF LoadUnits, idle_address_unit
<1>7. AddressesToCome(address_units, mb)
  BY <1>6 DEF AddressesToCome
<1> QED
  BY <1>2, <1>3, <1>4, <1>5, <1>7 DEF QueueInv, QueueGrows

\* A step that changes nothing.
LEMMA QueueStutters == QueueInv /\ UNCHANGED vars => QueueInv'
<1> SUFFICES ASSUME QueueInv, UNCHANGED vars PROVE QueueInv'
  OBVIOUS
<1>1. /\ mb' = mb /\ rob' = rob /\ phase' = phase /\ address_units' = address_units
  BY DEF vars, issueVars, unitVars, controlVars
<1> QED
  BY <1>1 DEF QueueInv

\* Together with the invariant of the core, the order of the queue is inductive.
LEMMA QueueKeeps == Inv /\ Inv' /\ QueueInv /\ [Next]_vars => QueueInv'
  BY FrontQueue, IssueAlQueue, IssueBranchQueue, IssueMemoryQueue,
     AluStepQueue, BranchStepQueue, MemoryStepQueue, AddressStepQueue, CaptureQueue,
     CommitQueue, CommitNothingQueue, UpdateCurrentQueue, QueueStutters
  DEF Next

\* In order, the queue has as many members as places.
LEMMA PlacesCounted ==
    ASSUME NEW copy, NEW num, Ordered(copy, num)
    PROVE  Cardinality(InQueue(copy)) = num
<1> DEFINE at == [p \in 1 .. num |-> CHOOSE i \in InQueue(copy) : copy[i].queue_pos = p]
<1>1. \A p \in 1 .. num : at[p] \in InQueue(copy) /\ copy[at[p]].queue_pos = p
  BY DEF Ordered
<1>2. at \in [1 .. num -> InQueue(copy)]
  BY <1>1
<1>3. \A i \in InQueue(copy) : at[copy[i].queue_pos] = i
  BY <1>1 DEF Ordered
<1>4. num \in Nat /\ \A i \in InQueue(copy) : copy[i].queue_pos \in 1 .. num
  BY DEF Ordered
<1> HIDE DEF at
<1>5. at \in Injection(1 .. num, InQueue(copy))
  BY <1>1, <1>2 DEF Injection, IsInjective
<1>6. at \in Surjection(1 .. num, InQueue(copy))
  BY <1>2, <1>3, <1>4 DEF Surjection
<1>7. ExistsBijection(1 .. num, InQueue(copy))
  BY <1>5, <1>6 DEF Bijection, ExistsBijection
<1> QED
  BY <1>4, <1>7, FS_CountingElements

\* What the runs check of it.
LEMMA QueueIsInOrder == Inv /\ QueueInv => MemoryQueueIsInOrder
<1> SUFFICES ASSUME Inv, QueueInv PROVE MemoryQueueIsInOrder
  OBVIOUS
<1> DEFINE queued == {i \in Busy(mb.next) : mb.next[i].queue_pos # 0}
           num == mb.num_in_queue_next
<1>1. queued = InQueue(mb.next)
  BY DEF Busy, InQueue
<1>2. Ordered(mb.next, num) /\ ByAge(mb.next, rob) /\ QueueFlies(mb.next, rob) /\ IsRob(rob)
  BY QueuedAreInFlight DEF QueueInv, Inv, Shapes
<1>3. Cardinality(queued) = num
  BY <1>1, <1>2, PlacesCounted
<1> HIDE DEF queued
<1>4. {mb.next[i].queue_pos : i \in queued} = 1 .. num
  BY <1>1, <1>2 DEF Ordered
<1>5. ASSUME NEW i \in queued, NEW k \in queued
      PROVE  mb.next[i].queue_pos < mb.next[k].queue_pos
                <=> Age(mb.next[i].rob_id) < Age(mb.next[k].rob_id)
  <2> DEFINE a == mb.next[i].rob_id
             b == mb.next[k].rob_id
             p == mb.next[i].queue_pos
             q == mb.next[k].queue_pos
  <2>1. a \in Flying(rob) /\ b \in Flying(rob)
    BY <1>1, <1>2 DEF QueueFlies
  <2>2. a \in RobIds /\ b \in RobIds
    BY <2>1 DEF Flying
  <2>3. Age(a) = AgeOf(rob, a) /\ Age(b) = AgeOf(rob, b)
    BY <1>2, <2>1, AgesAgree
  <2>4. AgeOf(rob, a) \in Int /\ AgeOf(rob, b) \in Int
    BY <1>2, <2>2, AgeType
  <2>5. /\ p < q => AgeOf(rob, a) < AgeOf(rob, b)
        /\ q < p => AgeOf(rob, b) < AgeOf(rob, a)
        /\ p = q => i = k
    BY <1>1, <1>2 DEF ByAge, Ordered
  <2>6. p \in 1 .. num /\ q \in 1 .. num /\ num \in Nat
    BY <1>1, <1>2 DEF Ordered
  <2>7. i = k => a = b
    OBVIOUS
  <2> HIDE DEF a, b, p, q, num
  <2>8. p < q <=> AgeOf(rob, a) < AgeOf(rob, b)
    BY <2>4, <2>5, <2>6, <2>7
  <2>9. p < q <=> Age(a) < Age(b)
    BY <2>3, <2>8
  <2> QED
    BY <2>9 DEF a, b, p, q
<1> QED
  BY <1>3, <1>4, <1>5 DEF MemoryQueueIsInOrder, queued

-----------------------------------------------------------------------------

\* In every state of every program the queue is in program order, and whoever an address unit works
\* for is out of it.
THEOREM QueueInvariance == Spec => [](Inv /\ QueueInv)
<1>1. Init => Inv /\ QueueInv
  BY InitKeeps, InitQueue
<1>2. (Inv /\ QueueInv) /\ [Next]_vars => (Inv /\ QueueInv)'
  BY InvKept, QueueKeeps
<1> QED
  BY <1>1, <1>2, PTL DEF Spec

\* The queue of the memory buffers has no gap and is in program order, whatever is taken out of its
\* middle in the cycle in which others enter (memory_buffers_enqueue, memory_buffers_dequeue,
\* shift_queue).
THEOREM MemoryQueueStaysInOrder == Spec => []MemoryQueueIsInOrder
<1>1. Inv /\ QueueInv => MemoryQueueIsInOrder
  BY QueueIsInOrder
<1> QED
  BY <1>1, QueueInvariance, PTL

-----------------------------------------------------------------------------

(***************************************************************************)
(* Nobody is lost: each instruction in flight is held somewhere, or needs  *)
(* nobody.                                                                 *)
(***************************************************************************)

\* Everyone in held but the instructions A is in after too.
Spread(after, held, A) == \A h \in held : h[3] \in A \/ \E g \in after : g[3] = h[3]

\* Nobody enters, who is answered for stays so, and the instructions A are from now on.
Relieves(r, new, A, zero) ==
    \A id \in Flying(new) :
        /\ id \in Flying(r)
        /\ Answered(r.queue_next[id - 1], zero) => Answered(new.queue_next[id - 1], zero)
        /\ id \in A => Answered(new.queue_next[id - 1], zero)

\* Who is found stays found while those who are let go have been answered for.
LEMMA FoundGoesOn ==
    ASSUME NEW held, NEW r, NEW zero, FoundIn(held, r, zero), NEW after, NEW new, NEW A,
           Spread(after, held, A), Relieves(r, new, A, zero)
    PROVE  FoundIn(after, new, zero)
<1> SUFFICES ASSUME NEW id \in Flying(new), ~Answered(new.queue_next[id - 1], zero)
             PROVE  \E g \in after : g[3] = id
  BY DEF FoundIn
<1>1. id \in Flying(r) /\ ~Answered(r.queue_next[id - 1], zero) /\ id \notin A
  BY DEF Relieves
<1>2. PICK h \in held : h[3] = id
  BY <1>1 DEF FoundIn
<1> QED
  BY <1>1, <1>2 DEF Spread

\* Nothing changes in the reorder buffer, or nothing but its current copy.
LEMMA RelievesNobody ==
    ASSUME NEW r, NEW new, NEW zero, new.queue_next = r.queue_next,
           new.front_next = r.front_next, new.rear_next = r.rear_next
    PROVE  Relieves(r, new, {}, zero)
  BY DEF Relieves, Flying

\* Everyone stays.
LEMMA SpreadSame ==
    ASSUME NEW held, NEW after, \A h \in held : h \in after
    PROVE  Spread(after, held, {})
  BY DEF Spread

\* One moves on.
LEMMA SpreadMoves ==
    ASSUME NEW held, NEW after, NEW earlier, NEW later, later \in after, later[3] = earlier[3],
           \A h \in held : h # earlier => h \in after
    PROVE  Spread(after, held, {})
<1> SUFFICES ASSUME NEW h \in held PROVE \E g \in after : g[3] = h[3]
  BY DEF Spread
<1>1. CASE h = earlier
  BY <1>1
<1>2. CASE h # earlier
  BY <1>2
<1> QED
  BY <1>1, <1>2

\* One is answered for.
LEMMA SpreadAnswered ==
    ASSUME NEW held, NEW after, NEW earlier, \A h \in held : h # earlier => h \in after
    PROVE  Spread(after, held, {earlier[3]})
<1> SUFFICES ASSUME NEW h \in held PROVE h[3] \in {earlier[3]} \/ \E g \in after : g[3] = h[3]
  BY DEF Spread
<1>1. CASE h = earlier
  BY <1>1
<1>2. CASE h # earlier
  BY <1>2
<1> QED
  BY <1>1, <1>2

-----------------------------------------------------------------------------

(* The bus. *)

\* A result more is on the bus.
Carries(new, bus, id) ==
    /\ Len(new) = Len(bus) + 1
    /\ \A h \in InBus(bus) : h \in InBus(new)
    /\ \E i : Holder("cdb", i, id, NA) \in InBus(new)

\* With a free entry cdb_write drops nothing.
LEMMA BusCarries ==
    ASSUME NEW bus, IsBus(bus), NEW id \in RobIds, NEW val, Len(bus) < CDB_SIZE
    PROVE  Carries(cdb_write(bus, id, val), bus, id)
<1> DEFINE result == [rob_id |-> id, val |-> val]
           new == Append(bus, result)
<1>1. PICK U : bus \in Bus(U)
  BY DEF IsBus
<1> DEFINE V == U \cup {val}
           T == [rob_id : RobIds, val : V]
<1>2. bus \in Seq(T) /\ result \in T
  <2>1. U \subseteq V /\ val \in V
    OBVIOUS
  <2> HIDE DEF V
  <2>2. bus \in Bus(V)
    BY <1>1, <2>1, BusGrow
  <2> QED
    BY <2>1, <2>2 DEF Bus
<1> HIDE DEF T, result
<1>3. cdb_write(bus, id, val) = new
  BY DEF cdb_write, result
<1>4. /\ Len(bus) \in Nat /\ Len(new) = Len(bus) + 1
      /\ DOMAIN bus = 1 .. Len(bus) /\ DOMAIN new = 1 .. Len(bus) + 1
      /\ \A i \in 1 .. Len(bus) : new[i] = bus[i]
      /\ new[Len(bus) + 1] = result
  BY <1>2
<1> HIDE DEF new
<1>5. \A h \in InBus(bus) : h \in InBus(new)
  BY <1>4, BusMember
<1>6. Holder("cdb", Len(bus) + 1, id, NA) \in InBus(new)
  <2>1. Len(bus) + 1 \in DOMAIN new /\ new[Len(bus) + 1].rob_id = id
    BY <1>4 DEF result
  <2> QED
    BY <2>1, BusMember
<1> QED
  BY <1>3, <1>4, <1>5, <1>6 DEF Carries

\* In the loops of the units there is one, and the next index has one more.
LEMMA RoomIsLeft ==
    ASSUME Inv, BusRoom
    PROVE  /\ Len(cdb) \in Nat
           /\ phase = "alu" => Len(cdb) <= index /\ Len(cdb) < CDB_SIZE
           /\ phase = "branch" => Len(cdb) <= NUM_ALU_UNITS + index /\ Len(cdb) < CDB_SIZE
           /\ phase = "memory" => /\ Len(cdb) <= NUM_ALU_UNITS + NUM_BRANCH_UNITS + index
                                  /\ Len(cdb) < CDB_SIZE
<1>1. IsBus(cdb) /\ index \in Nat
  BY DEF Inv, Shapes
<1>2. Len(cdb) \in Nat
  <2>1. PICK U : cdb \in Seq([rob_id : RobIds, val : U])
    BY <1>1 DEF IsBus, Bus
  <2> QED
    BY <2>1, LenProperties
<1>3. /\ NUM_ALU_UNITS \in Nat \ {0} /\ NUM_BRANCH_UNITS \in Nat \ {0}
      /\ NUM_MEMORY_UNITS \in Nat \ {0}
      /\ CDB_SIZE = NUM_ALU_UNITS + NUM_BRANCH_UNITS + NUM_MEMORY_UNITS
  BY Sizes, ConfigAssumption
<1>4. /\ phase = "alu" => index < NUM_ALU_UNITS
      /\ phase = "branch" => index < NUM_BRANCH_UNITS
      /\ phase = "memory" => index < NUM_MEMORY_UNITS
  BY DEF Inv, IndexInRange
<1>5. CASE phase = "alu"
  BY <1>1, <1>2, <1>3, <1>4, <1>5 DEF BusRoom, Stepped, UntilUnitsWork
<1>6. CASE phase = "branch"
  BY <1>1, <1>2, <1>3, <1>4, <1>6 DEF BusRoom, Stepped, UntilUnitsWork
<1>7. CASE phase = "memory"
  BY <1>1, <1>2, <1>3, <1>4, <1>7 DEF BusRoom, Stepped, UntilUnitsWork
<1> QED
  BY <1>2, <1>5, <1>6, <1>7

\* A unit that broadcasts, and one that does not, leaves room for those after it.
LEMMA RoomStays ==
    ASSUME Inv, BusRoom, NEW n \in Nat, Len(cdb') \in Nat, Len(cdb') <= Len(cdb) + 1,
           \/ phase = "alu" /\ n = NUM_ALU_UNITS /\ phase' \in {"alu", "branch"}
           \/ phase = "branch" /\ n = NUM_BRANCH_UNITS /\ phase' \in {"branch", "memory"}
           \/ phase = "memory" /\ n = NUM_MEMORY_UNITS /\ phase' \in {"memory", "address"},
           IF phase' = phase THEN index' = index + 1 ELSE index' = 0 /\ index + 1 = n
    PROVE  BusRoom'
<1>1. index \in Nat
  BY DEF Inv, Shapes
<1>2. /\ NUM_ALU_UNITS \in Nat \ {0} /\ NUM_BRANCH_UNITS \in Nat \ {0}
      /\ NUM_MEMORY_UNITS \in Nat \ {0}
      /\ CDB_SIZE = NUM_ALU_UNITS + NUM_BRANCH_UNITS + NUM_MEMORY_UNITS
  BY Sizes, ConfigAssumption
<1>3. Len(cdb) \in Nat
  BY RoomIsLeft
<1>4. CASE phase = "alu"
  <2>1. Len(cdb) <= index
    BY <1>4, RoomIsLeft
  <2> QED
    BY <1>1, <1>2, <1>3, <1>4, <2>1 DEF BusRoom, Stepped, UntilUnitsWork
<1>5. CASE phase = "branch"
  <2>1. Len(cdb) <= NUM_ALU_UNITS + index
    BY <1>5, RoomIsLeft
  <2> QED
    BY <1>1, <1>2, <1>3, <1>5, <2>1 DEF BusRoom, Stepped, UntilUnitsWork
<1>6. CASE phase = "memory"
  <2>1. Len(cdb) <= NUM_ALU_UNITS + NUM_BRANCH_UNITS + index
    BY <1>6, RoomIsLeft
  <2> QED
    BY <1>1, <1>2, <1>3, <1>6, <2>1 DEF BusRoom, Stepped, UntilUnitsWork
<1> QED
  BY <1>4, <1>5, <1>6

-----------------------------------------------------------------------------

(* The units that broadcast. *)

\* The next unit, or the first of the next kind.
LEMMA NextUnit ==
    ASSUME index \in Nat, NEW n \in Nat \ {0}, NEW next, index < n, Advance(n, next), next # phase
    PROVE  /\ phase' \in {phase, next}
           /\ IF phase' = phase THEN index' = index + 1 ELSE index' = 0 /\ index + 1 = n
  BY DEF Advance

\* Whom a unit puts on the bus is there, and all others are where they were.
LEMMA Broadcast ==
    ASSUME Inv, BusRoom, phase \in {"alu", "branch", "memory"},
           NEW earlier \in Held, earlier[1] # "cdb", NEW val,
           cdb' = cdb_write(cdb, earlier[3], val), phase' \notin {"commit", "update"},
           \A h \in Held : h # earlier /\ h[1] # "cdb" => h \in Held'
    PROVE  Spread(Held', Held, {}) /\ Len(cdb') \in Nat /\ Len(cdb') = Len(cdb) + 1
<1>1. IsBus(cdb) /\ Settled(Held, rob)
  BY DEF Inv, Shapes
<1>2. earlier[3] \in RobIds
  BY <1>1, SettledMember
<1>3. Len(cdb) \in Nat /\ Len(cdb) < CDB_SIZE
  BY RoomIsLeft
<1>4. Carries(cdb', cdb, earlier[3])
  BY <1>1, <1>2, <1>3, BusCarries
<1>5. PICK i : Holder("cdb", i, earlier[3], NA) \in InBus(cdb')
  BY <1>4 DEF Carries
<1> DEFINE later == Holder("cdb", i, earlier[3], NA)
<1>6. later[3] = earlier[3]
  BY HolderParts
<1>7. \A h \in InBus(cdb') : h \in Held'
  BY DEF Held
<1>8. later \in Held'
  BY <1>5, <1>7
<1> HIDE DEF later
<1>9. ASSUME NEW h \in Held, h # earlier PROVE h \in Held'
  <2>1. CASE h[1] # "cdb"
    BY <1>9, <2>1
  <2>2. CASE h[1] = "cdb"
    <3>1. h \in InBus(cdb)
      BY <2>2, HeldMember, PlaceOf
    <3> QED
      BY <1>4, <1>7, <3>1 DEF Carries
  <2> QED
    BY <2>1, <2>2
<1>10. Spread(Held', Held, {})
  BY <1>6, <1>8, <1>9, SpreadMoves
<1> QED
  BY <1>3, <1>4, <1>10 DEF Carries

\* alu_step loses nobody.
LEMMA AluStepFinds ==
    ASSUME Inv, BusRoom, AluStep
    PROVE  Spread(Held', Held, {}) /\ BusRoom'
<1> DEFINE i == index + 1
           unit == alus[i]
           station == res_stations_ready(alu_rs)
           n == NUM_ALU_UNITS
<1>1. /\ phase = "alu" /\ Advance(n, "branch")
      /\ branch_rs' = branch_rs /\ mb' = mb
      /\ branch_units' = branch_units /\ memory_units' = memory_units
      /\ address_units' = address_units
  BY DEF AluStep
<1>2. phase \in UnitPhases
  BY <1>1 DEF UnitPhases
<1>3. /\ index \in Nat /\ index < n /\ n \in Nat \ {0}
      /\ IsUnits(alus, n) /\ IsBus(cdb) /\ Settled(Held, rob)
      /\ IsStations(alu_rs, NUM_ALU_RES_STATIONS) /\ StationsInStep(alu_rs)
  BY <1>1, <1>2, UnitsBefore, Sizes
<1>4. i \in 1 .. n
  BY <1>3
<1>5. phase' \in {"alu", "branch"}
      /\ IF phase' = phase THEN index' = index + 1 ELSE index' = 0 /\ index + 1 = n
  BY <1>1, <1>3, NextUnit
<1>6. phase \notin {"commit", "update"} /\ phase' \notin {"commit", "update"}
  BY <1>1, <1>5
<1> HIDE DEF i, n, unit, station
<1>7. /\ unit.relative_cycle \in Nat
      /\ IsUnit(count(unit)) /\ IsUnit(free(unit))
      /\ count(unit).relative_cycle = unit.relative_cycle + 1
      /\ count(unit).entry_rob_id = unit.entry_rob_id
      /\ free(unit).relative_cycle = 0
      /\ free(unit).entry_rob_id = unit.entry_rob_id
  BY <1>3, <1>4, UnitFields DEF unit
<1>8. \A new : IsUnit(new) /\ (unit.relative_cycle > 0 => new.entry_rob_id = unit.entry_rob_id)
                  => UnitPut(alus, i, new, n, "alu")
  BY <1>3, <1>4, PutUnit DEF unit
<1>9. Len(cdb) \in Nat
  BY RoomIsLeft
<1>10. ASSUME Spread(Held', Held, {}), Len(cdb') \in Nat, Len(cdb') <= Len(cdb) + 1
       PROVE  Spread(Held', Held, {}) /\ BusRoom'
  BY <1>1, <1>3, <1>5, <1>10, RoomStays DEF n
<1>11. CASE /\ unit.relative_cycle = 0
            /\ res_stations_has_ready(alu_rs)
            /\ alu_rs' = res_stations_remove(alu_rs)
            /\ cdb' = cdb
            /\ \E out : alus' = Put(alus, i,
                    [relative_cycle |-> 1, num_cycles |-> CYCLES_AL,
                     entry_rob_id |-> station.rob_id, out |-> out])
  <2>1. PICK out : alus' = Put(alus, i,
                    [relative_cycle |-> 1, num_cycles |-> CYCLES_AL,
                     entry_rob_id |-> station.rob_id, out |-> out])
    BY <1>11
  <2> DEFINE new == [relative_cycle |-> 1, num_cycles |-> CYCLES_AL,
                     entry_rob_id |-> station.rob_id, out |-> out]
             later == Holder("alu", i, station.rob_id, NA)
  <2>2. IsUnit(new)
    <3>1. new \in UnitOf({CYCLES_AL, station.rob_id, out})
      BY DEF UnitOf
    <3> QED
      BY <3>1 DEF IsUnit
  <2>3. new.relative_cycle = 1 /\ new.entry_rob_id = station.rob_id
    OBVIOUS
  <2>4. alus' = Put(alus, i, new)
    BY <2>1
  <2> HIDE DEF new
  <2>5. UnitPut(alus, i, new, n, "alu")
    BY <1>8, <1>11, <2>2
  <2>6. Gains(InUnits("alu", alus'), InUnits("alu", alus), later)
    BY <1>11, <2>3, <2>4, <2>5 DEF UnitPut, Turns, unit
  <2>7. StationLeaves(alu_rs', alu_rs, NUM_ALU_RES_STATIONS, station.rob_id, station.op)
    BY <1>3, <1>11, Sizes, LeaveStations DEF station
  <2>8. PICK k : Loses(InPool("alu_rs", alu_rs'.next), InPool("alu_rs", alu_rs.next),
                       Holder("alu_rs", k, station.rob_id, station.op))
    BY <2>7 DEF StationLeaves, Departs
  <2> DEFINE earlier == Holder("alu_rs", k, station.rob_id, station.op)
  <2>9. earlier[3] = station.rob_id /\ later[3] = station.rob_id
    BY HolderParts
  <2> HIDE DEF earlier, later
  <2>10. later \in Held'
    BY <2>6 DEF Held, Gains
  <2>11. \A h \in Held : h # earlier => h \in Held'
    BY <1>1, <1>6, <1>11, <2>6, <2>8, HeldMember DEF Held, Gains, Loses, earlier
  <2>12. Spread(Held', Held, {})
    BY <2>9, <2>10, <2>11, SpreadMoves
  <2> QED
    BY <1>9, <1>10, <1>11, <2>12
<1>12. CASE alus' = alus /\ alu_rs' = alu_rs /\ cdb' = cdb
  <2>1. Held' = Held
    BY <1>1, <1>6, <1>12 DEF Held
  <2> QED
    BY <1>9, <1>10, <1>12, <2>1, SpreadSame
<1>13. CASE AtWork(unit) /\ alus' = Put(alus, i, count(unit)) /\ alu_rs' = alu_rs /\ cdb' = cdb
  <2>1. UnitPut(alus, i, count(unit), n, "alu")
    BY <1>7, <1>8
  <2>2. unit.relative_cycle > 0 /\ count(unit).relative_cycle > 0
    BY <1>7, <1>13 DEF AtWork
  <2>3. InUnits("alu", alus') = InUnits("alu", alus)
    BY <1>13, <2>1, <2>2 DEF UnitPut, Turns, unit
  <2>4. Held' = Held
    BY <1>1, <1>6, <1>13, <2>3 DEF Held
  <2> QED
    BY <1>9, <1>10, <1>13, <2>4, SpreadSame
<1>14. CASE /\ Finished(unit) /\ alus' = Put(alus, i, free(unit)) /\ alu_rs' = alu_rs
            /\ cdb' = cdb_write(cdb, unit.entry_rob_id, unit.out)
  <2> DEFINE id == unit.entry_rob_id
             earlier == Holder("alu", i, id, NA)
  <2>1. UnitPut(alus, i, free(unit), n, "alu")
    BY <1>7, <1>8
  <2>2. unit.relative_cycle > 0 /\ free(unit).relative_cycle = 0
    BY <1>7, <1>14 DEF Finished
  <2>3. free(unit).entry_rob_id = id
    BY <1>7
  <2>4. Loses(InUnits("alu", alus'), InUnits("alu", alus), earlier)
    BY <1>14, <2>1, <2>2, <2>3 DEF UnitPut, Turns, unit
  <2>5. earlier \in Held
    BY <2>4, HeldMember DEF Loses
  <2>6. earlier[1] = "alu" /\ earlier[3] = id
    BY HolderParts
  <2>7. cdb' = cdb_write(cdb, earlier[3], unit.out)
    BY <1>14, <2>6
  <2> HIDE DEF id, earlier
  <2>8. \A h \in Held : h # earlier /\ h[1] # "cdb" => h \in Held'
    BY <1>1, <1>14, <2>4, HeldMember, PlaceOf DEF Held, Loses
  <2>9. Spread(Held', Held, {}) /\ Len(cdb') \in Nat /\ Len(cdb') = Len(cdb) + 1
    BY <1>1, <1>6, <2>5, <2>6, <2>7, <2>8, Broadcast
  <2> QED
    BY <1>9, <1>10, <2>9
<1>15. \/ /\ unit.relative_cycle = 0
          /\ res_stations_has_ready(alu_rs)
          /\ alu_rs' = res_stations_remove(alu_rs)
          /\ cdb' = cdb
          /\ \E out : alus' = Put(alus, i,
                    [relative_cycle |-> 1, num_cycles |-> CYCLES_AL,
                     entry_rob_id |-> station.rob_id, out |-> out])
       \/ alus' = alus /\ alu_rs' = alu_rs /\ cdb' = cdb
       \/ AtWork(unit) /\ alus' = Put(alus, i, count(unit)) /\ alu_rs' = alu_rs /\ cdb' = cdb
       \/ /\ Finished(unit) /\ alus' = Put(alus, i, free(unit)) /\ alu_rs' = alu_rs
          /\ cdb' = cdb_write(cdb, unit.entry_rob_id, unit.out)
  BY DEF AluStep, Put, unit, station, i
<1> QED
  BY <1>11, <1>12, <1>13, <1>14, <1>15

\* memory_step loses nobody.
LEMMA MemoryStepFinds ==
    ASSUME Inv, BusRoom, MemoryStep
    PROVE  Spread(Held', Held, {}) /\ BusRoom'
<1> DEFINE i == index + 1
           unit == memory_units[i]
           loads == memory_candidate(mb, rob)
           n == NUM_MEMORY_UNITS
<1>1. /\ phase = "memory" /\ Advance(n, "address")
      /\ alu_rs' = alu_rs /\ branch_rs' = branch_rs
      /\ alus' = alus /\ branch_units' = branch_units
      /\ address_units' = address_units
  BY DEF MemoryStep
<1>2. phase \in UnitPhases
  BY <1>1 DEF UnitPhases
<1>3. /\ index \in Nat /\ index < n /\ n \in Nat \ {0}
      /\ IsUnits(memory_units, n) /\ IsBus(cdb) /\ Settled(Held, rob)
      /\ IsBuffers(mb, NUM_MEMORY_BUFFERS) /\ BuffersInStep(mb, rob)
  BY <1>1, <1>2, UnitsBefore, Sizes
<1>4. i \in 1 .. n
  BY <1>3
<1>5. phase' \in {"memory", "address"}
      /\ IF phase' = phase THEN index' = index + 1 ELSE index' = 0 /\ index + 1 = n
  BY <1>1, <1>3, NextUnit
<1>6. phase \notin {"commit", "update"} /\ phase' \notin {"commit", "update"}
  BY <1>1, <1>5
<1> HIDE DEF i, n, unit, loads
<1>7. /\ unit.relative_cycle \in Nat
      /\ IsUnit(count(unit)) /\ IsUnit(free(unit))
      /\ count(unit).relative_cycle = unit.relative_cycle + 1
      /\ count(unit).entry_rob_id = unit.entry_rob_id
      /\ free(unit).relative_cycle = 0
      /\ free(unit).entry_rob_id = unit.entry_rob_id
  BY <1>3, <1>4, UnitFields DEF unit
<1>8. \A new : IsUnit(new) /\ (unit.relative_cycle > 0 => new.entry_rob_id = unit.entry_rob_id)
                  => UnitPut(memory_units, i, new, n, "memory")
  BY <1>3, <1>4, PutUnit DEF unit
<1>9. Len(cdb) \in Nat
  BY RoomIsLeft
<1>10. ASSUME Spread(Held', Held, {}), Len(cdb') \in Nat, Len(cdb') <= Len(cdb) + 1
       PROVE  Spread(Held', Held, {}) /\ BusRoom'
  BY <1>1, <1>3, <1>5, <1>10, RoomStays DEF n
<1>11. ASSUME unit.relative_cycle = 0,
              NEW k \in loads,
              mb' = memory_buffers_dequeue_memory(mb, k),
              cdb' = cdb,
              NEW out,
              memory_units' = Put(memory_units, i,
                    [relative_cycle |-> 1, num_cycles |-> CYCLES_MEMORY,
                     entry_rob_id |-> mb.current[k].rob_id, out |-> out])
       PROVE  Spread(Held', Held, {}) /\ BusRoom'
  <2> DEFINE id == mb.current[k].rob_id
             new == [relative_cycle |-> 1, num_cycles |-> CYCLES_MEMORY,
                     entry_rob_id |-> id, out |-> out]
             later == Holder("memory", i, id, NA)
             earlier == Holder("mb", k, id, mb.current[k].op)
  <2>1. IsUnit(new)
    <3>1. new \in UnitOf({CYCLES_MEMORY, id, out})
      BY DEF UnitOf
    <3> QED
      BY <3>1 DEF IsUnit
  <2>2. new.relative_cycle = 1 /\ new.entry_rob_id = id
    OBVIOUS
  <2>3. memory_units' = Put(memory_units, i, new)
    BY <1>11
  <2> HIDE DEF new
  <2>4. UnitPut(memory_units, i, new, n, "memory")
    BY <1>8, <1>11, <2>1
  <2>5. Gains(InUnits("memory", memory_units'), InUnits("memory", memory_units), later)
    BY <1>11, <2>2, <2>3, <2>4 DEF UnitPut, Turns, unit
  <2>6. LoadLeaves(mb', mb, NUM_MEMORY_BUFFERS, rob, "mb", k)
    BY <1>3, <1>11, Sizes, LeaveForMemory DEF loads
  <2>7. Loses(InPool("mb", mb'.next), InPool("mb", mb.next), earlier)
    BY <2>6 DEF LoadLeaves, HolderOf
  <2>8. earlier[3] = id /\ later[3] = id
    BY HolderParts
  <2> HIDE DEF earlier, later
  <2>9. later \in Held'
    BY <2>5 DEF Held, Gains
  <2>10. \A h \in Held : h # earlier => h \in Held'
    BY <1>1, <1>6, <1>11, <2>5, <2>7, HeldMember DEF Held, Gains, Loses
  <2>11. Spread(Held', Held, {})
    BY <2>8, <2>9, <2>10, SpreadMoves
  <2> QED
    BY <1>9, <1>10, <1>11, <2>11
<1>12. CASE memory_units' = memory_units /\ mb' = mb /\ cdb' = cdb
  <2>1. Held' = Held
    BY <1>1, <1>6, <1>12 DEF Held
  <2> QED
    BY <1>9, <1>10, <1>12, <2>1, SpreadSame
<1>13. CASE AtWork(unit) /\ memory_units' = Put(memory_units, i, count(unit)) /\ mb' = mb /\ cdb' = cdb
  <2>1. UnitPut(memory_units, i, count(unit), n, "memory")
    BY <1>7, <1>8
  <2>2. unit.relative_cycle > 0 /\ count(unit).relative_cycle > 0
    BY <1>7, <1>13 DEF AtWork
  <2>3. InUnits("memory", memory_units') = InUnits("memory", memory_units)
    BY <1>13, <2>1, <2>2 DEF UnitPut, Turns, unit
  <2>4. Held' = Held
    BY <1>1, <1>6, <1>13, <2>3 DEF Held
  <2> QED
    BY <1>9, <1>10, <1>13, <2>4, SpreadSame
<1>14. CASE /\ Finished(unit) /\ memory_units' = Put(memory_units, i, free(unit)) /\ mb' = mb
            /\ cdb' = cdb_write(cdb, unit.entry_rob_id, unit.out)
  <2> DEFINE id == unit.entry_rob_id
             earlier == Holder("memory", i, id, NA)
  <2>1. UnitPut(memory_units, i, free(unit), n, "memory")
    BY <1>7, <1>8
  <2>2. unit.relative_cycle > 0 /\ free(unit).relative_cycle = 0
    BY <1>7, <1>14 DEF Finished
  <2>3. free(unit).entry_rob_id = id
    BY <1>7
  <2>4. Loses(InUnits("memory", memory_units'), InUnits("memory", memory_units), earlier)
    BY <1>14, <2>1, <2>2, <2>3 DEF UnitPut, Turns, unit
  <2>5. earlier \in Held
    BY <2>4, HeldMember DEF Loses
  <2>6. earlier[1] = "memory" /\ earlier[3] = id
    BY HolderParts
  <2>7. cdb' = cdb_write(cdb, earlier[3], unit.out)
    BY <1>14, <2>6
  <2> HIDE DEF id, earlier
  <2>8. \A h \in Held : h # earlier /\ h[1] # "cdb" => h \in Held'
    BY <1>1, <1>14, <2>4, HeldMember, PlaceOf DEF Held, Loses
  <2>9. Spread(Held', Held, {}) /\ Len(cdb') \in Nat /\ Len(cdb') = Len(cdb) + 1
    BY <1>1, <1>6, <2>5, <2>6, <2>7, <2>8, Broadcast
  <2> QED
    BY <1>9, <1>10, <2>9
<1>15. \/ /\ unit.relative_cycle = 0
          /\ \E k \in loads :
               /\ mb' = memory_buffers_dequeue_memory(mb, k)
               /\ \E out : memory_units' = Put(memory_units, i,
                     [relative_cycle |-> 1, num_cycles |-> CYCLES_MEMORY,
                      entry_rob_id |-> mb.current[k].rob_id, out |-> out])
          /\ cdb' = cdb
       \/ memory_units' = memory_units /\ mb' = mb /\ cdb' = cdb
       \/ AtWork(unit) /\ memory_units' = Put(memory_units, i, count(unit)) /\ mb' = mb /\ cdb' = cdb
       \/ /\ Finished(unit) /\ memory_units' = Put(memory_units, i, free(unit)) /\ mb' = mb
          /\ cdb' = cdb_write(cdb, unit.entry_rob_id, unit.out)
  BY DEF MemoryStep, Put, unit, loads, i
<1> QED
  BY <1>11, <1>12, <1>13, <1>14, <1>15

\* A branch that knows where it goes has finished; a jump has not, and nobody else is disturbed.
LEMMA TransferRelieves ==
    ASSUME NEW r, IsRob(r), NEW id \in RobIds, NEW npc_actual, NEW zero
    PROVE  LET new == rob_add_npc_actual(r, id, npc_actual)
           IN  /\ Relieves(r, new, {}, zero)
               /\ r.queue_next[id - 1].op_type = "BRANCH" => Relieves(r, new, {id}, zero)
<1> DEFINE new == rob_add_npc_actual(r, id, npc_actual)
           entry_ == r.queue_next[id - 1]
           changed == [entry_ EXCEPT !.npc_actual = npc_actual,
                                     !.ready = entry_.ready \/ entry_.op_type = "BRANCH"]
<1>1. PICK V : r \in RobState(V)
  BY DEF IsRob
<1>2. id - 1 \in Slots /\ \A k \in RobIds : k - 1 \in Slots /\ (k - 1 = id - 1 => k = id)
  BY IdsAreSlots DEF RobIds
<1>3. entry_ \in RobEntry(V)
  BY <1>1, <1>2 DEF RobState
<1>4. /\ changed.op_type = entry_.op_type /\ changed.dest = entry_.dest /\ changed.q = entry_.q
      /\ entry_.ready => changed.ready
      /\ entry_.op_type = "BRANCH" => changed.ready
  BY <1>3 DEF RobEntry
<1> HIDE DEF changed
<1>5. /\ new.front_next = r.front_next /\ new.rear_next = r.rear_next
      /\ new.queue_next = [r.queue_next EXCEPT ![id - 1] = changed]
  BY <1>1 DEF rob_add_npc_actual, RobState, changed
<1>6. /\ new.queue_next[id - 1] = changed
      /\ \A i \in Slots : i # id - 1 => new.queue_next[i] = r.queue_next[i]
  BY <1>1, <1>2, <1>5 DEF RobState
<1>7. Flying(new) = Flying(r) /\ \A k \in Flying(r) : k \in RobIds
  BY <1>5 DEF Flying
<1> HIDE DEF new
<1>8. ASSUME NEW k \in Flying(r), Answered(r.queue_next[k - 1], zero)
      PROVE  Answered(new.queue_next[k - 1], zero)
  <2>1. CASE k = id
    BY <1>4, <1>6, <1>8, <2>1 DEF Answered
  <2>2. CASE k # id
    BY <1>2, <1>6, <1>7, <1>8, <2>2
  <2> QED
    BY <2>1, <2>2
<1>9. entry_.op_type = "BRANCH" => Answered(new.queue_next[id - 1], zero)
  BY <1>4, <1>6 DEF Answered
<1> QED
  BY <1>7, <1>8, <1>9 DEF Relieves, new

\* branch_step loses nobody.
LEMMA BranchStepFinds ==
    ASSUME Inv, BusRoom, NEW zero, Found(zero), BranchStep
    PROVE  Found(zero)' /\ BusRoom'
<1> DEFINE i == index + 1
           unit == branch_units[i]
           station == res_stations_ready(branch_rs)
           is_jump == station.op \in {"JAL", "JALR"}
           n == NUM_BRANCH_UNITS
<1>1. /\ phase = "branch" /\ Advance(n, "memory")
      /\ alu_rs' = alu_rs /\ mb' = mb
      /\ alus' = alus /\ memory_units' = memory_units
      /\ address_units' = address_units
  BY DEF BranchStep
<1>2. phase \in UnitPhases
  BY <1>1 DEF UnitPhases
<1>3. /\ index \in Nat /\ index < n /\ n \in Nat \ {0}
      /\ IsBranchUnits(branch_units, n) /\ IsBus(cdb) /\ IsRob(rob) /\ Settled(Held, rob)
      /\ IsStations(branch_rs, NUM_BRANCH_RES_STATIONS) /\ StationsInStep(branch_rs)
  BY <1>1, <1>2, UnitsBefore, Sizes
<1>4. i \in 1 .. n
  BY <1>3
<1>5. phase' \in {"branch", "memory"}
      /\ IF phase' = phase THEN index' = index + 1 ELSE index' = 0 /\ index + 1 = n
  BY <1>1, <1>3, NextUnit
<1>6. phase \notin {"commit", "update"} /\ phase' \notin {"commit", "update"}
  BY <1>1, <1>5
<1> HIDE DEF i, n, unit, station, is_jump
<1>7. /\ unit.relative_cycle \in Nat
      /\ IsBranchUnit(count(unit)) /\ IsBranchUnit(free(unit))
      /\ count(unit).relative_cycle = unit.relative_cycle + 1
      /\ count(unit).entry_rob_id = unit.entry_rob_id
      /\ KindOf(count(unit)) = KindOf(unit)
      /\ free(unit).relative_cycle = 0
      /\ free(unit).entry_rob_id = unit.entry_rob_id
      /\ KindOf(free(unit)) = KindOf(unit)
  BY <1>3, <1>4, BranchUnitFields DEF unit, KindOf
<1>8. \A new : /\ IsBranchUnit(new)
               /\ unit.relative_cycle > 0 =>
                      new.entry_rob_id = unit.entry_rob_id /\ KindOf(new) = KindOf(unit)
               => BranchUnitPut(branch_units, i, new, n)
  BY <1>3, <1>4, PutBranchUnit DEF unit
<1>9. Len(cdb) \in Nat
  BY RoomIsLeft
<1>10. ASSUME NEW A, Spread(Held', Held, A), Relieves(rob, rob', A, zero),
              Len(cdb') \in Nat, Len(cdb') <= Len(cdb) + 1
       PROVE  Found(zero)' /\ BusRoom'
  <2>1. FoundIn(Held, rob, zero)
    BY DEF Found
  <2>2. FoundIn(Held', rob', zero)
    BY <1>10, <2>1, FoundGoesOn
  <2>3. Found(zero)'
    BY <2>2 DEF Found
  <2>4. BusRoom'
    BY <1>1, <1>3, <1>5, <1>10, RoomStays DEF n
  <2> QED
    BY <2>3, <2>4
<1>11. ASSUME unit.relative_cycle = 0,
              res_stations_has_ready(branch_rs),
              branch_rs' = res_stations_remove(branch_rs),
              cdb' = cdb, rob' = rob,
              NEW cycles, NEW out_cdb, NEW out_npc,
              branch_units' = Put(branch_units, i,
                    [relative_cycle |-> 1, num_cycles |-> cycles,
                     entry_rob_id |-> station.rob_id, out_cdb |-> out_cdb,
                     out_npc_actual |-> out_npc, entry_is_jump |-> is_jump])
       PROVE  Found(zero)' /\ BusRoom'
  <2> DEFINE new == [relative_cycle |-> 1, num_cycles |-> cycles,
                     entry_rob_id |-> station.rob_id, out_cdb |-> out_cdb,
                     out_npc_actual |-> out_npc, entry_is_jump |-> is_jump]
             later == Holder("branch", i, station.rob_id, KindOf(new))
  <2>1. is_jump \in BOOLEAN
    BY DEF is_jump
  <2>2. IsBranchUnit(new)
    <3>1. new \in BranchUnitOf({cycles, station.rob_id, out_cdb, out_npc})
      BY <2>1 DEF BranchUnitOf
    <3> QED
      BY <3>1 DEF IsBranchUnit
  <2>3. new.relative_cycle = 1 /\ new.entry_rob_id = station.rob_id
    OBVIOUS
  <2>4. branch_units' = Put(branch_units, i, new)
    BY <1>11
  <2> HIDE DEF new
  <2>5. BranchUnitPut(branch_units, i, new, n)
    BY <1>8, <1>11, <2>2
  <2>6. Gains(InBranchUnits(branch_units'), InBranchUnits(branch_units), later)
    BY <1>11, <2>3, <2>4, <2>5 DEF BranchUnitPut, Turns, unit
  <2>7. StationLeaves(branch_rs', branch_rs, NUM_BRANCH_RES_STATIONS, station.rob_id, station.op)
    BY <1>3, <1>11, Sizes, LeaveStations DEF station
  <2>8. PICK k : Loses(InPool("branch_rs", branch_rs'.next), InPool("branch_rs", branch_rs.next),
                       Holder("branch_rs", k, station.rob_id, station.op))
    BY <2>7 DEF StationLeaves, Departs
  <2> DEFINE earlier == Holder("branch_rs", k, station.rob_id, station.op)
  <2>9. earlier[3] = station.rob_id /\ later[3] = station.rob_id
    BY HolderParts
  <2> HIDE DEF earlier, later
  <2>10. later \in Held'
    BY <2>6 DEF Held, Gains
  <2>11. \A h \in Held : h # earlier => h \in Held'
    BY <1>1, <1>6, <1>11, <2>6, <2>8, HeldMember DEF Held, Gains, Loses, earlier
  <2>12. Spread(Held', Held, {})
    BY <2>9, <2>10, <2>11, SpreadMoves
  <2> QED
    BY <1>9, <1>10, <1>11, <2>12, RelievesNobody
<1>12. CASE branch_units' = branch_units /\ branch_rs' = branch_rs /\ cdb' = cdb /\ rob' = rob
  <2>1. Held' = Held
    BY <1>1, <1>6, <1>12 DEF Held
  <2>2. Spread(Held', Held, {})
    BY <2>1, SpreadSame
  <2>3. Relieves(rob, rob', {}, zero)
    BY <1>12, RelievesNobody
  <2> QED
    BY <1>9, <1>10, <1>12, <2>2, <2>3
<1>13. CASE /\ AtWork(unit) /\ branch_units' = Put(branch_units, i, count(unit))
            /\ branch_rs' = branch_rs /\ cdb' = cdb /\ rob' = rob
  <2>1. BranchUnitPut(branch_units, i, count(unit), n)
    BY <1>7, <1>8
  <2>2. unit.relative_cycle > 0 /\ count(unit).relative_cycle > 0
    BY <1>7, <1>13 DEF AtWork
  <2>3. InBranchUnits(branch_units') = InBranchUnits(branch_units)
    BY <1>13, <2>1, <2>2 DEF BranchUnitPut, Turns, unit
  <2>4. Held' = Held
    BY <1>1, <1>6, <1>13, <2>3 DEF Held
  <2>5. Spread(Held', Held, {})
    BY <2>4, SpreadSame
  <2>6. Relieves(rob, rob', {}, zero)
    BY <1>13, RelievesNobody
  <2> QED
    BY <1>9, <1>10, <1>13, <2>5, <2>6
<1>14. CASE /\ Finished(unit) /\ branch_units' = Put(branch_units, i, free(unit))
            /\ branch_rs' = branch_rs
            /\ rob' = rob_add_npc_actual(rob, unit.entry_rob_id, unit.out_npc_actual)
            /\ cdb' = IF unit.entry_is_jump
                      THEN cdb_write(cdb, unit.entry_rob_id, unit.out_cdb) ELSE cdb
  <2> DEFINE id == unit.entry_rob_id
             earlier == Holder("branch", i, id, KindOf(unit))
  <2>1. BranchUnitPut(branch_units, i, free(unit), n)
    BY <1>7, <1>8
  <2>2. unit.relative_cycle > 0 /\ free(unit).relative_cycle = 0
    BY <1>7, <1>14 DEF Finished
  <2>3. free(unit).entry_rob_id = id /\ KindOf(free(unit)) = KindOf(unit)
    BY <1>7
  <2>4. Loses(InBranchUnits(branch_units'), InBranchUnits(branch_units), earlier)
    BY <1>14, <2>1, <2>2, <2>3 DEF BranchUnitPut, Turns, unit
  <2>5. earlier \in Held
    BY <2>4, HeldMember DEF Loses
  <2>6. earlier[1] = "branch" /\ earlier[3] = id /\ earlier[4] = KindOf(unit)
    BY HolderParts
  <2>7. id \in RobIds /\ Fits(earlier, rob.queue_next[id - 1])
    BY <1>3, <2>5, <2>6, SettledMember
  <2> HIDE DEF earlier
  <2>8. \A h \in Held : h # earlier /\ h[1] # "cdb" => h \in Held'
    BY <1>1, <1>14, <2>4, HeldMember, PlaceOf DEF Held, Loses
  <2>9. CASE unit.entry_is_jump
    <3>1. cdb' = cdb_write(cdb, earlier[3], unit.out_cdb)
      BY <1>14, <2>6, <2>9
    <3>2. Spread(Held', Held, {}) /\ Len(cdb') \in Nat /\ Len(cdb') = Len(cdb) + 1
      BY <1>1, <1>6, <2>5, <2>6, <2>8, <3>1, Broadcast
    <3>3. Relieves(rob, rob', {}, zero)
      BY <1>3, <1>14, <2>7, TransferRelieves
    <3> QED
      BY <1>9, <1>10, <3>2, <3>3
  <2>10. CASE ~unit.entry_is_jump
    <3>1. cdb' = cdb
      BY <1>14, <2>10
    <3>2. \A h \in Held : h # earlier => h \in Held'
      BY <1>1, <1>6, <1>14, <2>4, <3>1, HeldMember DEF Held, Loses
    <3>3. Spread(Held', Held, {earlier[3]})
      BY <3>2, SpreadAnswered
    <3>4. rob.queue_next[id - 1].op_type = "BRANCH"
      BY <2>6, <2>7, <2>10 DEF Fits, KindOf
    <3>5. Relieves(rob, rob', {id}, zero)
      BY <1>3, <1>14, <2>7, <3>4, TransferRelieves
    <3> QED
      BY <1>9, <1>10, <2>6, <3>1, <3>3, <3>5
  <2> QED
    BY <2>9, <2>10
<1>15. \/ /\ unit.relative_cycle = 0
          /\ res_stations_has_ready(branch_rs)
          /\ branch_rs' = res_stations_remove(branch_rs)
          /\ cdb' = cdb /\ rob' = rob
          /\ \E cycles, out_cdb, out_npc : branch_units' = Put(branch_units, i,
                [relative_cycle |-> 1, num_cycles |-> cycles,
                 entry_rob_id |-> station.rob_id, out_cdb |-> out_cdb,
                 out_npc_actual |-> out_npc, entry_is_jump |-> is_jump])
       \/ branch_units' = branch_units /\ branch_rs' = branch_rs /\ cdb' = cdb /\ rob' = rob
       \/ /\ AtWork(unit) /\ branch_units' = Put(branch_units, i, count(unit))
          /\ branch_rs' = branch_rs /\ cdb' = cdb /\ rob' = rob
       \/ /\ Finished(unit) /\ branch_units' = Put(branch_units, i, free(unit))
          /\ branch_rs' = branch_rs
          /\ rob' = rob_add_npc_actual(rob, unit.entry_rob_id, unit.out_npc_actual)
          /\ cdb' = IF unit.entry_is_jump
                    THEN cdb_write(cdb, unit.entry_rob_id, unit.out_cdb) ELSE cdb
  BY DEF BranchStep, Put, unit, station, is_jump, i
<1> QED
  BY <1>11, <1>12, <1>13, <1>14, <1>15

-----------------------------------------------------------------------------

(* The address units. *)

\* A store that has its address has finished or waits for its data, unless the address is 0.
LEMMA AddressRelieves ==
    ASSUME NEW r, IsRob(r), NEW id \in RobIds, NEW addr, NEW zero, zero \/ addr # 0,
           IsStore(r.queue_next[id - 1].op_type)
    PROVE  Relieves(r, rob_add_address(r, id, addr), {id}, zero)
<1> DEFINE new == rob_add_address(r, id, addr)
           entry_ == r.queue_next[id - 1]
           changed == [entry_ EXCEPT !.dest = addr, !.ready = entry_.ready \/ entry_.q = 0]
<1>1. PICK V : r \in RobState(V)
  BY DEF IsRob
<1>2. id - 1 \in Slots /\ \A k \in RobIds : k - 1 \in Slots /\ (k - 1 = id - 1 => k = id)
  BY IdsAreSlots DEF RobIds
<1>3. entry_ \in RobEntry(V)
  BY <1>1, <1>2 DEF RobState
<1>4. /\ changed.op_type = entry_.op_type /\ changed.dest = addr /\ changed.q = entry_.q
      /\ entry_.q = 0 => changed.ready
  BY <1>3 DEF RobEntry
<1> HIDE DEF changed
<1>5. /\ new.front_next = r.front_next /\ new.rear_next = r.rear_next
      /\ new.queue_next = [r.queue_next EXCEPT ![id - 1] = changed]
  BY <1>1 DEF rob_add_address, RobState, changed
<1>6. /\ new.queue_next[id - 1] = changed
      /\ \A i \in Slots : i # id - 1 => new.queue_next[i] = r.queue_next[i]
  BY <1>1, <1>2, <1>5 DEF RobState
<1>7. Flying(new) = Flying(r) /\ \A k \in Flying(r) : k \in RobIds
  BY <1>5 DEF Flying
<1> HIDE DEF new
<1>8. Answered(new.queue_next[id - 1], zero)
  BY <1>4, <1>6 DEF Answered
<1>9. ASSUME NEW k \in Flying(r), Answered(r.queue_next[k - 1], zero)
      PROVE  Answered(new.queue_next[k - 1], zero)
  BY <1>2, <1>6, <1>7, <1>8, <1>9
<1> QED
  BY <1>7, <1>8, <1>9 DEF Relieves, new

\* With a load's address nobody is released, with a store's only the store.
LEMMA DeliverFinds ==
    ASSUME Inv, phase = "address", NEW zero, zero \/ StoresMissZero',
           NEW u, IsAddressUnit(u), u.relative_cycle > 0,
           NEW buffers, IsBuffers(buffers, NUM_MEMORY_BUFFERS), BuffersInStep(buffers, rob),
           StoreCycles(address_units[index + 1]) > 0
               => u.dest_id = address_units[index + 1].dest_id,
           Settled(HeldWith(buffers.next, Put(address_units, index + 1, u)), rob),
           FoundIn(HeldWith(buffers.next, Put(address_units, index + 1, u)), rob, zero),
           Deliver(u, buffers)
    PROVE  FoundIn(HeldWith(mb'.next, address_units'), rob', zero)
<1> DEFINE i == index + 1
           n == NUM_ADDRESS_UNITS
           units == Put(address_units, i, u)
           mine == Holder("address", i, u.dest_id, NA)
           before == HeldWith(buffers.next, units)
           after == HeldWith(mb'.next, address_units')
<1>1. /\ index \in Nat /\ index < n /\ n \in Nat \ {0}
      /\ IsAddressUnits(address_units, n) /\ IsRob(rob)
  <2>1. phase \in UnitPhases
    BY DEF UnitPhases
  <2> QED
    BY <2>1, UnitsBefore, Sizes
<1>2. i \in 1 .. n
  BY <1>1
<1>3. AddressUnitPut(address_units, i, u, n)
  BY <1>1, <1>2, PutAddressUnit
<1>4. IsAddressUnits(units, n)
  BY <1>3 DEF AddressUnitPut
<1>5. DOMAIN address_units = 1 .. n
  BY <1>1 DEF IsAddressUnits
<1>6. units[i] = u /\ \A y : Put(units, i, y) = Put(address_units, i, y)
  BY <1>2, <1>5, PutTwice
<1>7. /\ IsAddressUnit(free(u)) /\ StoreCycles(free(u)) = 0 /\ free(u).dest_id = u.dest_id
  BY <1>2, <1>4, <1>6, AddressUnitFields
<1>8. AddressUnitPut(units, i, free(u), n)
  BY <1>2, <1>4, <1>6, <1>7, PutAddressUnit
<1>9. \/ mb' = buffers /\ rob' = rob /\ address_units' = units
      \/ /\ u.is_store /\ mb' = buffers /\ rob' = rob_add_address(rob, u.dest_id, u.address)
         /\ address_units' = Put(units, i, free(u))
      \/ /\ ~u.is_store /\ mb' = memory_buffers_add_address(buffers, u.dest_id, u.address)
         /\ rob' = rob /\ address_units' = Put(units, i, free(u))
  <2>1. address_units' = Put(address_units, i, u) \/ address_units' = Put(address_units, i, free(u))
    BY DEF Deliver, Put
  <2> QED
    BY <1>6 DEF Deliver, Put
<1>10. free(u).is_store = u.is_store /\ free(u).address = u.address
  BY DEF free, IsAddressUnit, AddressUnitOf
<1>11. DOMAIN units = 1 .. n /\ Put(units, i, free(u))[i] = free(u)
       /\ DOMAIN Put(units, i, free(u)) = 1 .. n
  BY <1>2, <1>5 DEF Put
<1>12. FoundIn(before, rob, zero) /\ Settled(before, rob)
  OBVIOUS
<1> HIDE DEF i, n, units, before, after
<1>13. CASE mb' = buffers /\ rob' = rob /\ address_units' = units
  BY <1>12, <1>13 DEF before
<1>14. CASE /\ u.is_store /\ mb' = buffers
            /\ rob' = rob_add_address(rob, u.dest_id, u.address)
            /\ address_units' = Put(units, i, free(u))
  <2>1. StoreCycles(u) > 0
    BY <1>14 DEF StoreCycles
  <2>2. Loses(InAddressUnits(address_units'), InAddressUnits(units), mine)
    BY <1>6, <1>7, <1>8, <1>14, <2>1 DEF AddressUnitPut, Turns
  <2>3. mine[1] = "address" /\ mine[3] = u.dest_id
    BY HolderParts
  <2> HIDE DEF mine
  <2>4. mine \in before
    BY <2>2, HeldWithMember DEF Loses, before
  <2>5. u.dest_id \in RobIds /\ Fits(mine, rob.queue_next[u.dest_id - 1])
    BY <1>12, <2>3, <2>4, SettledMember
  <2>6. IsStore(rob.queue_next[u.dest_id - 1].op_type)
    BY <2>3, <2>5 DEF Fits
  <2>7. zero \/ u.address # 0
    BY <1>2, <1>10, <1>11, <1>14 DEF StoresMissZero
  <2>8. Relieves(rob, rob', {u.dest_id}, zero)
    BY <1>1, <1>14, <2>5, <2>6, <2>7, AddressRelieves
  <2>9. \A h \in before : h # mine => h \in after
    BY <1>14, <2>2, HeldWithMember DEF Loses, before, after
  <2>10. Spread(after, before, {mine[3]})
    BY <2>9, SpreadAnswered
  <2>11. FoundIn(after, rob', zero)
    BY <1>12, <2>3, <2>8, <2>10, FoundGoesOn
  <2> QED
    BY <2>11 DEF after
<1>15. CASE /\ ~u.is_store /\ mb' = memory_buffers_add_address(buffers, u.dest_id, u.address)
            /\ rob' = rob /\ address_units' = Put(units, i, free(u))
  <2>1. StoreCycles(u) = 0
    BY <1>15 DEF StoreCycles
  <2>2. InAddressUnits(address_units') = InAddressUnits(units)
    BY <1>6, <1>7, <1>8, <1>15, <2>1 DEF AddressUnitPut, Turns
  <2>3. InPool("mb", mb'.next) = InPool("mb", buffers.next)
    BY <1>15, Sizes, TakeAddress
  <2>4. \A h \in before : h \in after
    BY <2>2, <2>3, HeldWithMember DEF before, after
  <2>5. Spread(after, before, {}) /\ Relieves(rob, rob', {}, zero)
    BY <1>15, <2>4, SpreadSame, RelievesNobody
  <2>6. FoundIn(after, rob', zero)
    BY <1>12, <2>5, FoundGoesOn
  <2> QED
    BY <2>6 DEF after
<1> QED
  BY <1>9, <1>13, <1>14, <1>15

\* address_step loses nobody, unless the address is 0.
LEMMA AddressStepFinds ==
    ASSUME Inv, NEW zero, Found(zero), zero \/ StoresMissZero', AddressStep
    PROVE  Found(zero)'
<1> DEFINE i == index + 1
           unit == address_units[i]
           n == NUM_ADDRESS_UNITS
           m == NUM_MEMORY_BUFFERS
<1>1. /\ phase = "address" /\ Advance(n, "capture")
      /\ alu_rs' = alu_rs /\ branch_rs' = branch_rs /\ alus' = alus
      /\ branch_units' = branch_units /\ memory_units' = memory_units /\ cdb' = cdb
  BY DEF AddressStep
<1>2. phase \in UnitPhases
  BY <1>1 DEF UnitPhases
<1>3. /\ index \in Nat /\ index < n /\ n \in Nat \ {0} /\ m \in Nat
      /\ IsAddressUnits(address_units, n) /\ IsRob(rob) /\ Settled(Held, rob)
      /\ IsBuffers(mb, m) /\ BuffersInStep(mb, rob)
  BY <1>1, <1>2, UnitsBefore, Sizes
<1>4. i \in 1 .. n
  BY <1>3
<1>5. phase' \in UnitPhases \cup {"capture"}
  BY <1>1, <1>3, UnitAdvances DEF UnitPhases
<1>6. /\ unit.relative_cycle \in Nat
      /\ IsAddressUnit(count(unit))
      /\ count(unit).relative_cycle = unit.relative_cycle + 1
      /\ count(unit).dest_id = unit.dest_id
      /\ count(unit).is_store = unit.is_store
  BY <1>3, <1>4, AddressUnitFields
<1>7. \A new : /\ IsAddressUnit(new)
               /\ StoreCycles(unit) > 0 => new.dest_id = unit.dest_id
               => AddressUnitPut(address_units, i, new, n)
  BY <1>3, <1>4, PutAddressUnit
<1>8. Settled(HeldWith(mb.next, address_units), rob)
  <2>1. \A h \in HeldWith(mb.next, address_units) : h \in Held
    BY HeldNow
  <2> QED
    BY <1>3, <2>1, SettledShrinks
<1>9. FoundIn(HeldWith(mb.next, address_units), rob, zero)
  <2>1. \A h \in Held : h \in HeldWith(mb.next, address_units)
    BY HeldNow
  <2>2. Spread(HeldWith(mb.next, address_units), Held, {}) /\ Relieves(rob, rob, {}, zero)
    BY <2>1, SpreadSame, RelievesNobody
  <2>3. FoundIn(Held, rob, zero)
    BY DEF Found
  <2> QED
    BY <2>2, <2>3, FoundGoesOn
<1>10. ASSUME FoundIn(HeldWith(mb'.next, address_units'), rob', zero)
       PROVE  Found(zero)'
  <2>1. \A h \in HeldWith(mb'.next, address_units') : h \in Held'
    BY <1>1, <1>2, <1>5, HeldThen
  <2>2. Spread(Held', HeldWith(mb'.next, address_units'), {}) /\ Relieves(rob', rob', {}, zero)
    BY <2>1, SpreadSame, RelievesNobody
  <2>3. FoundIn(Held', rob', zero)
    BY <1>10, <2>2, FoundGoesOn
  <2> QED
    BY <2>3 DEF Found
<1>11. ASSUME NEW u, IsAddressUnit(u), u.relative_cycle > 0,
              StoreCycles(unit) > 0 => u.dest_id = unit.dest_id,
              NEW buffers, IsBuffers(buffers, m), BuffersInStep(buffers, rob),
              Settled(HeldWith(buffers.next, Put(address_units, i, u)), rob),
              FoundIn(HeldWith(buffers.next, Put(address_units, i, u)), rob, zero),
              Deliver(u, buffers)
       PROVE  Found(zero)'
  <2>1. FoundIn(HeldWith(mb'.next, address_units'), rob', zero)
    BY <1>1, <1>11, DeliverFinds
  <2> QED
    BY <1>10, <2>1
<1> HIDE DEF i, n, m, unit
<1>12. ASSUME unit.relative_cycle = 0, NEW k \in address_candidate(mb), NEW address, NEW id,
              id = IF mb.current[k].op \in StoreOp THEN mb.current[k].rob_id ELSE k,
              Deliver([relative_cycle |-> 1, is_store |-> mb.current[k].op \in StoreOp,
                       address |-> address, dest_id |-> id],
                      memory_buffers_dequeue_address(mb, k))
       PROVE  Found(zero)'
  <2> DEFINE is_store == mb.current[k].op \in StoreOp
             u == [relative_cycle |-> 1, is_store |-> is_store,
                   address |-> address, dest_id |-> id]
             buffers == memory_buffers_dequeue_address(mb, k)
             units == Put(address_units, i, u)
             later == Holder("address", i, id, NA)
             earlier == HolderOf("mb", k, mb)
             before == HeldWith(mb.next, address_units)
             after == HeldWith(buffers.next, units)
  <2>1. Deliver(u, buffers)
    BY <1>12
  <2>2. is_store \in BOOLEAN
    OBVIOUS
  <2>3. AddressLeaves(buffers, mb, m, rob, "mb", k)
    BY <1>3, <1>12, LeaveForAddress
  <2>4. earlier[1] = "mb" /\ earlier[3] = mb.current[k].rob_id
        /\ later[1] = "address" /\ later[3] = id
    BY HolderParts DEF HolderOf
  <2> HIDE DEF later, earlier, is_store, buffers
  <2>5. IsAddressUnit(u)
    <3>1. u \in AddressUnitOf({address, id})
      BY <2>2 DEF AddressUnitOf
    <3> QED
      BY <3>1 DEF IsAddressUnit
  <2>6. u.relative_cycle = 1 /\ u.is_store = is_store /\ u.dest_id = id
    OBVIOUS
  <2> HIDE DEF u
  <2>7. StoreCycles(unit) = 0
    BY <1>12 DEF StoreCycles
  <2>8. AddressUnitPut(address_units, i, u, n)
    BY <1>7, <2>5, <2>7
  <2>9. IsBuffers(buffers, m) /\ BuffersInStep(buffers, rob)
    BY <2>3 DEF AddressLeaves, BuffersAfter
  <2>10. earlier \in InPool("mb", mb.next)
    BY <2>3 DEF AddressLeaves, earlier
  <2>11. earlier \in before
    BY <2>10, HeldWithMember
  <2>12. Relieves(rob, rob, {}, zero)
    BY RelievesNobody
  <2> HIDE DEF units, before, after
  <2>13. CASE is_store
    <3>1. Loses(InPool("mb", buffers.next), InPool("mb", mb.next), earlier)
      BY <2>3, <2>13 DEF AddressLeaves, earlier, is_store
    <3>2. StoreCycles(u) = 1
      BY <2>6, <2>13 DEF StoreCycles
    <3>3. Gains(InAddressUnits(units), InAddressUnits(address_units), later)
      BY <2>6, <2>7, <2>8, <3>2 DEF AddressUnitPut, Turns, unit, later, units
    <3>4. later[3] = earlier[3]
      BY <1>12, <2>4, <2>13 DEF is_store
    <3>5. \A h \in after : h = later \/ (h \in before /\ h # earlier)
      BY <2>4, <3>1, <3>3, HeldWithMember, PlaceOf DEF Loses, Gains, before, after
    <3>6. Fits(later, rob.queue_next[later[3] - 1])
      <4>1. Fits(earlier, rob.queue_next[earlier[3] - 1])
        BY <1>8, <2>11, SettledMember DEF before
      <4>2. earlier[4] = mb.current[k].op
        BY HolderParts DEF HolderOf, earlier
      <4> QED
        BY <2>4, <2>13, <3>4, <4>1, <4>2 DEF Fits, is_store
    <3>7. Settled(after, rob)
      BY <1>8, <2>11, <3>4, <3>5, <3>6, SettledMoves DEF before
    <3>8. later \in after
      BY <3>3, HeldWithMember DEF Gains, after
    <3>9. \A h \in before : h # earlier => h \in after
      BY <3>1, <3>3, HeldWithMember DEF Loses, Gains, before, after
    <3>10. Spread(after, before, {})
      BY <3>4, <3>8, <3>9, SpreadMoves
    <3>11. FoundIn(after, rob, zero)
      BY <1>9, <2>12, <3>10, FoundGoesOn DEF before
    <3> QED
      BY <1>11, <2>1, <2>5, <2>6, <2>7, <2>9, <3>7, <3>11 DEF after, units
  <2>14. CASE ~is_store
    <3>1. InPool("mb", buffers.next) = InPool("mb", mb.next)
      BY <2>3, <2>14 DEF AddressLeaves, is_store
    <3>2. StoreCycles(u) = 0
      BY <2>6, <2>14 DEF StoreCycles
    <3>3. InAddressUnits(units) = InAddressUnits(address_units)
      BY <2>7, <2>8, <3>2 DEF AddressUnitPut, Turns, unit, units
    <3>4. after = before
      BY <3>1, <3>3 DEF HeldWith, before, after
    <3>5. Settled(after, rob) /\ FoundIn(after, rob, zero)
      BY <1>8, <1>9, <3>4 DEF before
    <3> QED
      BY <1>11, <2>1, <2>5, <2>6, <2>7, <2>9, <3>5 DEF after, units
  <2> QED
    BY <2>2, <2>13, <2>14
<1>13. CASE unit.relative_cycle > 0 /\ Deliver(count(unit), mb)
  <2> DEFINE units == Put(address_units, i, count(unit))
  <2>1. AddressUnitPut(address_units, i, count(unit), n)
    BY <1>6, <1>7
  <2>2. /\ StoreCycles(unit) > 0 => StoreCycles(count(unit)) > 0
        /\ StoreCycles(unit) = 0 => StoreCycles(count(unit)) = 0
        /\ StoreCycles(unit) > 0 \/ StoreCycles(unit) = 0
    BY <1>6, <1>13 DEF StoreCycles
  <2>3. InAddressUnits(units) = InAddressUnits(address_units)
    BY <2>1, <2>2 DEF AddressUnitPut, Turns, unit
  <2>4. HeldWith(mb.next, units) = HeldWith(mb.next, address_units)
    BY <2>3 DEF HeldWith
  <2>5. Settled(HeldWith(mb.next, units), rob) /\ FoundIn(HeldWith(mb.next, units), rob, zero)
    BY <1>8, <1>9, <2>4
  <2>6. count(unit).relative_cycle > 0
    BY <1>6
  <2> QED
    BY <1>3, <1>6, <1>11, <1>13, <2>5, <2>6
<1>14. CASE mb' = mb /\ rob' = rob /\ address_units' = address_units
  <2>1. FoundIn(HeldWith(mb'.next, address_units'), rob', zero)
    BY <1>9, <1>14
  <2> QED
    BY <1>10, <2>1
<1>15. \/ /\ unit.relative_cycle = 0
          /\ \E k \in address_candidate(mb) : \E address, id :
                /\ id = IF mb.current[k].op \in StoreOp THEN mb.current[k].rob_id ELSE k
                /\ Deliver([relative_cycle |-> 1, is_store |-> mb.current[k].op \in StoreOp,
                            address |-> address, dest_id |-> id],
                           memory_buffers_dequeue_address(mb, k))
       \/ mb' = mb /\ rob' = rob /\ address_units' = address_units
       \/ unit.relative_cycle > 0 /\ Deliver(count(unit), mb)
  BY DEF AddressStep, unit, i
<1> QED
  BY <1>12, <1>13, <1>14, <1>15

-----------------------------------------------------------------------------

(* A cycle. *)

\* A step that moves nobody, or has moved everybody on.
LEMMA FoundAfter ==
    ASSUME NEW zero, Found(zero), NEW A, Spread(Held', Held, A), Relieves(rob, rob', A, zero)
    PROVE  Found(zero)'
<1>1. FoundIn(Held, rob, zero)
  BY DEF Found
<1>2. FoundIn(Held', rob', zero)
  BY <1>1, FoundGoesOn
<1> QED
  BY <1>2 DEF Found

\* A step that changes no place and no entry of the next copy.
LEMMA FoundStill ==
    ASSUME NEW zero, Found(zero), Held' = Held, rob'.queue_next = rob.queue_next,
           rob'.front_next = rob.front_next, rob'.rear_next = rob.rear_next
    PROVE  Found(zero)'
<1>1. Spread(Held', Held, {})
  BY SpreadSame
<1>2. Relieves(rob, rob', {}, zero)
  BY RelievesNobody
<1> QED
  BY <1>1, <1>2, FoundAfter

\* Fetch, decode and the end of the batch.
LEMMA FrontFinds ==
    ASSUME NEW zero, Found(zero), Fetch \/ DecodeLatch \/ DecodeStalls \/ DecodeFails \/ EndIssue
    PROVE  Found(zero)'
<1>1. /\ alu_rs' = alu_rs /\ branch_rs' = branch_rs /\ mb' = mb /\ rob' = rob /\ cdb' = cdb
      /\ alus' = alus /\ branch_units' = branch_units /\ memory_units' = memory_units
      /\ address_units' = address_units
      /\ phase \notin {"commit", "update"} /\ phase' \notin {"commit", "update"}
  BY DEF Fetch, DecodeLatch, DecodeStalls, DecodeFails, EndIssue, Advance, issueVars, unitVars
<1>2. Held' = Held
  BY <1>1 DEF Held
<1> QED
  BY <1>1, <1>2, FoundStill

\* Who enters the reorder buffer has been given a place.
LEMMA IssueFinds ==
    ASSUME Inv, NEW zero, Found(zero), phase = "issue", index < batch_size,
           NEW op_type \in OpType, NEW rd, NEW value_, NEW q \in {0} \cup RobIds,
           NEW npc_pred, NEW inst_pc,
           rob' = rob_enqueue(rob, op_type, rd, value_, q, npc_pred, inst_pc),
           NEW later \in Held', later[3] = rob_enqueue_id(rob),
           \A h \in Held : h \in Held'
    PROVE  Found(zero)'
<1> DEFINE id == rob_enqueue_id(rob)
<1>1. /\ IsRob(rob) /\ index \in Nat /\ Windows(rob, "issue", index) /\ EntriesInPlace(rob)
      /\ CopiesAgree(rob, phase \in UntilUnitsWork)
  BY DEF Inv, Shapes
<1>2. CopiesAgree(rob, TRUE)
  BY <1>1, Agreement DEF UntilUnitsWork
<1>3. index < rob_num_free_slots(rob)
  BY IssueMeets
<1>4. Entered(rob, rob', id, op_type, rd)
  BY <1>1, <1>2, <1>3, EnqueueRob
<1> HIDE DEF id
<1>5. /\ \A k : k \in Flying(rob') <=> k \in Flying(rob) \/ k = id
      /\ \A k \in Flying(rob) : rob'.queue_next[k - 1] = rob.queue_next[k - 1]
  BY <1>4 DEF Entered
<1>6. FoundIn(Held, rob, zero)
  BY DEF Found
<1>7. ASSUME NEW k \in Flying(rob'), ~Answered(rob'.queue_next[k - 1], zero)
      PROVE  \E h \in Held' : h[3] = k
  <2>1. CASE k = id
    BY <2>1 DEF id
  <2>2. CASE k # id
    BY <1>5, <1>6, <1>7, <2>2 DEF FoundIn
  <2> QED
    BY <2>1, <2>2
<1>8. FoundIn(Held', rob', zero)
  BY <1>7 DEF FoundIn
<1> QED
  BY <1>8 DEF Found

\* handle_al_operation loses nobody.
LEMMA IssueAlFinds ==
    ASSUME Inv, NEW zero, Found(zero), IssueAl
    PROVE  Found(zero)'
<1> DEFINE inst == inst_queue_front(iq, index)
           j == IF inst.op \in ImmOp \cup RegOp THEN set_q_v(inst.rs1) ELSE value(inst.imm)
           k == IF inst.op \in RegOp THEN set_q_v(inst.rs2)
                ELSE value(IF inst.op \in ImmOp THEN inst.imm ELSE NA)
           id == rob_enqueue_id(rob)
<1>1. /\ phase = "issue" /\ index < batch_size
      /\ UNCHANGED unitVars /\ cdb' = cdb /\ phase' = phase /\ branch_rs' = branch_rs /\ mb' = mb
  BY DEF IssueAl, Issuing
<1>2. /\ rob' = rob_enqueue(rob, "AL", inst.rd, NA, NA, NA, NA)
      /\ alu_rs' = res_stations_add(alu_rs, inst.op, j.q, k.q, j.v, k.v, NA, id, inst.inst_pc)
  BY DEF IssueAl
<1>3. /\ IsInst(inst) /\ id \in RobIds
      /\ PoolsAre(alu_rs, branch_rs, mb, rob, index)
      /\ alu_rs.added < res_stations_num_free(alu_rs)
  BY <1>1, IssueMeets
<1>4. j.q \in {0} \cup RobIds /\ k.q \in {0} \cup RobIds
  <2>1. inst.rs1 \in Regs /\ inst.rs2 \in Regs
    BY <1>3 DEF IsInst
  <2>2. IsFile(regs) /\ dependencies \in [Regs -> {0} \cup RobIds]
    BY DEF Inv, Shapes
  <2> QED
    BY <2>1, <2>2, OperandIsId
<1> HIDE DEF inst, j, k, id
<1>5. StationEnters(alu_rs', alu_rs, NUM_ALU_RES_STATIONS, id, inst.op)
  <2>1. IsStations(alu_rs, NUM_ALU_RES_STATIONS) /\ StationsInStep(alu_rs)
        /\ NUM_ALU_RES_STATIONS \in Nat
        /\ id \in RobIds /\ alu_rs.added < res_stations_num_free(alu_rs)
    BY <1>3, Sizes DEF PoolsAre
  <2> QED
    BY <1>2, <1>4, <2>1, EnterStations
<1>6. PICK i : Gains(InPool("alu_rs", alu_rs'.next), InPool("alu_rs", alu_rs.next),
                     Holder("alu_rs", i, id, inst.op))
  BY <1>5 DEF StationEnters, Joins
<1> DEFINE later == Holder("alu_rs", i, id, inst.op)
<1>7. later[3] = id
  BY HolderParts
<1> HIDE DEF later
<1>8. later \in Held'
  BY <1>6 DEF Held, Gains, later
<1>9. \A h \in Held : h \in Held'
  BY <1>1, <1>6 DEF Held, Gains, unitVars
<1>10. "AL" \in OpType /\ NA \in {0} \cup RobIds
  BY DEF OpType, NA
<1> QED
  BY <1>1, <1>2, <1>7, <1>8, <1>9, <1>10, IssueFinds DEF id

\* Nor does handle_branch_operation.
LEMMA IssueBranchFinds ==
    ASSUME Inv, NEW zero, Found(zero), IssueBranch
    PROVE  Found(zero)'
<1> DEFINE inst == inst_queue_front(iq, index)
           j == IF inst.op \in BranchOp \cup {"JALR"} THEN set_q_v(inst.rs1) ELSE value(NA)
           k == IF inst.op \in BranchOp THEN set_q_v(inst.rs2) ELSE value(NA)
           id == rob_enqueue_id(rob)
<1>1. /\ phase = "issue" /\ index < batch_size /\ op_type_of(inst.op) \in {"JUMP", "BRANCH"}
      /\ UNCHANGED unitVars /\ cdb' = cdb /\ phase' = phase /\ alu_rs' = alu_rs /\ mb' = mb
  BY DEF IssueBranch, Issuing
<1>2. /\ rob' = rob_enqueue(rob, op_type_of(inst.op), inst.rd, NA, NA,
                             inst.npc_pred, inst.inst_pc)
      /\ branch_rs' = res_stations_add(branch_rs, inst.op, j.q, k.q, j.v, k.v,
                                       inst.imm, id, inst.inst_pc)
  BY DEF IssueBranch
<1>3. /\ IsInst(inst) /\ id \in RobIds
      /\ PoolsAre(alu_rs, branch_rs, mb, rob, index)
      /\ branch_rs.added < res_stations_num_free(branch_rs)
  BY <1>1, IssueMeets
<1>4. j.q \in {0} \cup RobIds /\ k.q \in {0} \cup RobIds
  <2>1. inst.rs1 \in Regs /\ inst.rs2 \in Regs
    BY <1>3 DEF IsInst
  <2>2. IsFile(regs) /\ dependencies \in [Regs -> {0} \cup RobIds]
    BY DEF Inv, Shapes
  <2> QED
    BY <2>1, <2>2, OperandIsId
<1> HIDE DEF inst, j, k, id
<1>5. StationEnters(branch_rs', branch_rs, NUM_BRANCH_RES_STATIONS, id, inst.op)
  <2>1. IsStations(branch_rs, NUM_BRANCH_RES_STATIONS) /\ StationsInStep(branch_rs)
        /\ NUM_BRANCH_RES_STATIONS \in Nat
        /\ id \in RobIds /\ branch_rs.added < res_stations_num_free(branch_rs)
    BY <1>3, Sizes DEF PoolsAre
  <2> QED
    BY <1>2, <1>4, <2>1, EnterStations
<1>6. PICK i : Gains(InPool("branch_rs", branch_rs'.next), InPool("branch_rs", branch_rs.next),
                     Holder("branch_rs", i, id, inst.op))
  BY <1>5 DEF StationEnters, Joins
<1> DEFINE later == Holder("branch_rs", i, id, inst.op)
<1>7. later[3] = id
  BY HolderParts
<1> HIDE DEF later
<1>8. later \in Held'
  BY <1>6 DEF Held, Gains, later
<1>9. \A h \in Held : h \in Held'
  BY <1>1, <1>6 DEF Held, Gains, unitVars
<1>10. op_type_of(inst.op) \in OpType /\ NA \in {0} \cup RobIds
  BY <1>1 DEF OpType, NA
<1> QED
  BY <1>1, <1>2, <1>7, <1>8, <1>9, <1>10, IssueFinds DEF id

\* Nor does handle_mem_operation.
LEMMA IssueMemoryFinds ==
    ASSUME Inv, NEW zero, Found(zero), IssueMemory
    PROVE  Found(zero)'
<1> DEFINE inst == inst_queue_front(iq, index)
           j == set_q_v(inst.rs1)
           k == IF inst.op \in StoreOp THEN set_q_v(inst.rs2) ELSE value(NA)
           id == rob_enqueue_id(rob)
<1>1. /\ phase = "issue" /\ index < batch_size /\ op_type_of(inst.op) \in {"LOAD"} \cup StoreType
      /\ UNCHANGED unitVars /\ cdb' = cdb /\ phase' = phase
      /\ alu_rs' = alu_rs /\ branch_rs' = branch_rs
  BY DEF IssueMemory, Issuing
<1>2. /\ rob' = rob_enqueue(rob, op_type_of(inst.op), inst.rd, k.v, k.q, NA, NA)
      /\ mb' = memory_buffers_enqueue(mb, inst.op, j.q, k.q, j.v, k.v, inst.imm, id)
  BY DEF IssueMemory
<1>3. /\ IsInst(inst) /\ id \in RobIds
      /\ PoolsAre(alu_rs, branch_rs, mb, rob, index)
      /\ mb.count_enqueue < memory_buffers_num_free(mb)
  BY <1>1, IssueMeets
<1>4. j.q \in {0} \cup RobIds /\ k.q \in {0} \cup RobIds
  <2>1. inst.rs1 \in Regs /\ inst.rs2 \in Regs
    BY <1>3 DEF IsInst
  <2>2. IsFile(regs) /\ dependencies \in [Regs -> {0} \cup RobIds]
    BY DEF Inv, Shapes
  <2> QED
    BY <2>1, <2>2, OperandIsId
<1> HIDE DEF inst, j, k, id
<1>5. BufferEnters(mb', mb, NUM_MEMORY_BUFFERS, rob, id, inst.op)
  <2>1. IsBuffers(mb, NUM_MEMORY_BUFFERS) /\ BuffersInStep(mb, rob)
        /\ NUM_MEMORY_BUFFERS \in Nat
        /\ id \in RobIds /\ mb.count_enqueue < memory_buffers_num_free(mb)
    BY <1>3, Sizes DEF PoolsAre
  <2> QED
    BY <1>2, <1>4, <2>1, EnterBuffers
<1>6. PICK i : Gains(InPool("mb", mb'.next), InPool("mb", mb.next), Holder("mb", i, id, inst.op))
  BY <1>5 DEF BufferEnters, Joins
<1> DEFINE later == Holder("mb", i, id, inst.op)
<1>7. later[3] = id
  BY HolderParts
<1> HIDE DEF later
<1>8. later \in Held'
  BY <1>6 DEF Held, Gains, later
<1>9. \A h \in Held : h \in Held'
  BY <1>1, <1>6 DEF Held, Gains, unitVars
<1>10. op_type_of(inst.op) \in OpType
  BY <1>1 DEF OpType, StoreType
<1> QED
  BY <1>1, <1>2, <1>4, <1>7, <1>8, <1>9, <1>10, IssueFinds DEF id

\* Nor do the units.
LEMMA UnitsFind ==
    ASSUME Inv, BusRoom, NEW zero, Found(zero), AluStep \/ BranchStep \/ MemoryStep
    PROVE  Found(zero)' /\ BusRoom'
<1>1. CASE AluStep
  <2>1. Spread(Held', Held, {}) /\ BusRoom'
    BY <1>1, AluStepFinds
  <2>2. rob' = rob
    BY <1>1 DEF AluStep
  <2>3. Relieves(rob, rob', {}, zero)
    BY <2>2, RelievesNobody
  <2> QED
    BY <2>1, <2>3, FoundAfter
<1>2. CASE BranchStep
  BY <1>2, BranchStepFinds
<1>3. CASE MemoryStep
  <2>1. Spread(Held', Held, {}) /\ BusRoom'
    BY <1>3, MemoryStepFinds
  <2>2. rob' = rob
    BY <1>3 DEF MemoryStep
  <2>3. Relieves(rob, rob', {}, zero)
    BY <2>2, RelievesNobody
  <2> QED
    BY <2>1, <2>3, FoundAfter
<1> QED
  BY <1>1, <1>2, <1>3

\* The data of a store whose address is there finish it.
LEMMA DataFinish ==
    ASSUME NEW V, NEW held \in RobEntry(V), NEW bus
    PROVE  LET new == CaptureEntry(held, bus)
           IN  new.q = held.q \/ held.dest = 0 \/ new.ready
<1> DEFINE mine == cdb_is_val_ready(bus, held.rob_id)
           own == IF mine
                  THEN [held EXCEPT !.value = cdb_get_val(bus, held.rob_id), !.ready = TRUE]
                  ELSE held
           data == IsStore(held.op_type) /\ held.q # 0 /\ cdb_is_val_ready(bus, held.q)
           both == [own EXCEPT !.value = cdb_get_val(bus, held.q), !.q = 0,
                               !.ready = own.ready \/ held.dest # 0]
<1>1. CaptureEntry(held, bus) = IF ~held.busy \/ held.ready THEN held
                                ELSE IF data THEN both ELSE own
  BY DEF CaptureEntry
<1>2. own.q = held.q
  BY DEF RobEntry
<1>3. held.dest # 0 => both.ready
  <2>1. DOMAIN own = DOMAIN held /\ "ready" \in DOMAIN held
    BY DEF RobEntry
  <2> HIDE DEF own
  <2> QED
    BY <2>1
<1> HIDE DEF own, both, data
<1> QED
  BY <1>1, <1>2, <1>3

\* Who is on the bus is answered for, and whoever else was is still.
LEMMA BusRelieves ==
    ASSUME NEW r, IsRob(r), EntriesInPlace(r), NEW bus, IsBus(bus), NEW zero
    PROVE  Relieves(r, rob_step(r, bus), Heard(bus), zero)
<1> DEFINE new == rob_step(r, bus)
<1>1. PICK U : r \in RobState(U)
  BY DEF IsRob
<1>2. PICK B : bus \in Bus(B)
  BY DEF IsBus
<1> DEFINE V == U \cup B
<1>3. r \in RobState(V) /\ bus \in Bus(V)
  BY <1>1, <1>2, RobGrow, BusGrow
<1> HIDE DEF V
<1>4. /\ new.front_next = r.front_next /\ new.rear_next = r.rear_next
      /\ \A i \in Slots : new.queue_next[i] = CaptureEntry(r.queue_next[i], bus)
  BY <1>3, StepFields
<1> HIDE DEF new
<1>5. ASSUME NEW id \in Flying(r)
      PROVE  /\ Answered(r.queue_next[id - 1], zero) => Answered(new.queue_next[id - 1], zero)
             /\ id \in Heard(bus) => new.queue_next[id - 1].ready
  <2> DEFINE before == r.queue_next[id - 1]
             after == CaptureEntry(before, bus)
  <2>1. id \in RobIds /\ id - 1 \in Slots /\ (id - 1) + 1 = id
    BY IdsAreSlots DEF Flying
  <2>2. before.busy /\ before.rob_id = id
    BY <2>1 DEF EntriesInPlace, Flying
  <2>3. before \in RobEntry(V)
    BY <1>3, <2>1 DEF RobState
  <2> HIDE DEF before
  <2>4. /\ after.op_type = before.op_type /\ after.dest = before.dest
        /\ before.ready => after = before
        /\ before.busy /\ cdb_is_val_ready(bus, before.rob_id) => after.ready
    BY <1>3, <2>3, CaptureFields
  <2>5. after.q = before.q \/ before.dest = 0 \/ after.ready
    BY <2>3, DataFinish
  <2> HIDE DEF after
  <2>6. new.queue_next[id - 1] = after
    BY <1>4, <2>1 DEF before, after
  <2>7. Answered(before, zero) => Answered(after, zero)
    BY <2>4, <2>5 DEF Answered
  <2>8. id \in Heard(bus) => after.ready
    BY <2>2, <2>4 DEF Heard
  <2> QED
    BY <2>6, <2>7, <2>8 DEF before
<1>6. Flying(new) = Flying(r)
  BY <1>4 DEF Flying
<1>7. Relieves(r, new, Heard(bus), zero)
  BY <1>5, <1>6 DEF Relieves, Answered
<1> QED
  BY <1>7 DEF new

\* Who is heard has finished.
LEMMA HeardFinish ==
    ASSUME NEW r, IsRob(r), EntriesInPlace(r), NEW bus, IsBus(bus), NEW id \in Heard(bus),
           id \in Flying(rob_step(r, bus))
    PROVE  rob_step(r, bus).queue_next[id - 1].ready
<1> DEFINE new == rob_step(r, bus)
<1>1. PICK U : r \in RobState(U)
  BY DEF IsRob
<1>2. PICK B : bus \in Bus(B)
  BY DEF IsBus
<1> DEFINE V == U \cup B
<1>3. r \in RobState(V) /\ bus \in Bus(V)
  BY <1>1, <1>2, RobGrow, BusGrow
<1> HIDE DEF V
<1>4. /\ new.front_next = r.front_next /\ new.rear_next = r.rear_next
      /\ \A i \in Slots : new.queue_next[i] = CaptureEntry(r.queue_next[i], bus)
  BY <1>3, StepFields
<1>5. id \in Flying(new)
  OBVIOUS
<1> HIDE DEF new
<1>6. id \in Flying(r)
  BY <1>4, <1>5 DEF Flying
<1> DEFINE before == r.queue_next[id - 1]
<1>7. id \in RobIds /\ id - 1 \in Slots /\ (id - 1) + 1 = id
  BY <1>6, IdsAreSlots DEF Flying
<1>8. before.busy /\ before.rob_id = id
  BY <1>6, <1>7 DEF EntriesInPlace, Flying
<1>9. before \in RobEntry(V)
  BY <1>3, <1>7 DEF RobState
<1>10. cdb_is_val_ready(bus, id)
  BY DEF Heard
<1> HIDE DEF before
<1>11. CaptureEntry(before, bus).ready
  BY <1>3, <1>8, <1>9, <1>10, CaptureFields
<1>12. new.queue_next[id - 1].ready
  BY <1>4, <1>7, <1>11 DEF before
<1> QED
  BY <1>12 DEF new

\* Capture answers for those on the bus, and for nobody else.
LEMMA CaptureFinds ==
    ASSUME Inv, NEW zero, Found(zero), Capture
    PROVE  Found(zero)' /\ HeardAreDone'
<1>1. /\ phase = "capture" /\ phase' = "commit"
      /\ alu_rs' = res_stations_step(alu_rs, cdb)
      /\ branch_rs' = res_stations_step(branch_rs, cdb)
      /\ mb' = memory_buffers_step(mb, cdb)
      /\ rob' = rob_step(rob, cdb)
      /\ alus' = alus /\ branch_units' = branch_units /\ memory_units' = memory_units
      /\ address_units' = address_units /\ cdb' = cdb
  BY DEF Capture, unitVars
<1>2. /\ IsRob(rob) /\ IsBus(cdb) /\ EntriesInPlace(rob) /\ Settled(Held, rob)
      /\ IsStations(alu_rs, NUM_ALU_RES_STATIONS)
      /\ IsStations(branch_rs, NUM_BRANCH_RES_STATIONS)
      /\ IsBuffers(mb, NUM_MEMORY_BUFFERS)
  BY DEF Inv, Shapes
<1>3. /\ StationsStay(alu_rs', alu_rs, NUM_ALU_RES_STATIONS)
      /\ StationsStay(branch_rs', branch_rs, NUM_BRANCH_RES_STATIONS)
      /\ BuffersStay(mb', mb, NUM_MEMORY_BUFFERS, rob)
  BY <1>1, <1>2, Sizes, StayInStations, StayInBuffers
<1>4. \A name : /\ InPool(name, alu_rs'.next) = InPool(name, alu_rs.next)
                /\ InPool(name, branch_rs'.next) = InPool(name, branch_rs.next)
                /\ InPool(name, mb'.next) = InPool(name, mb.next)
  BY <1>3 DEF StationsStay, BuffersStay
<1>5. Spread(Held', Held, Heard(cdb))
  <2> SUFFICES ASSUME NEW h \in Held PROVE h[3] \in Heard(cdb) \/ h \in Held'
    BY DEF Spread
  <2>1. CASE h \in InBus(cdb)
    <3>1. PICK i \in DOMAIN cdb : h = Holder("cdb", i, cdb[i].rob_id, NA)
      BY <2>1, BusMember
    <3>2. h[3] = cdb[i].rob_id
      BY <3>1, HolderParts
    <3>3. h[3] \in RobIds
      BY <1>2, SettledMember
    <3> QED
      BY <3>2, <3>3 DEF Heard, cdb_is_val_ready
  <2>2. CASE h \notin InBus(cdb)
    BY <1>1, <1>4, <2>2 DEF Held
  <2> QED
    BY <2>1, <2>2
<1>6. Relieves(rob, rob', Heard(cdb), zero)
  BY <1>1, <1>2, BusRelieves
<1>7. Found(zero)'
  BY <1>5, <1>6, FoundAfter
<1>8. ASSUME NEW i \in DOMAIN cdb, cdb[i].rob_id \in Flying(rob')
      PROVE  rob'.queue_next[cdb[i].rob_id - 1].ready
  <2>1. cdb[i].rob_id \in Heard(cdb)
    BY <1>8 DEF Heard, cdb_is_val_ready, Flying
  <2> HIDE DEF Heard
  <2> QED
    BY <1>1, <1>2, <1>8, <2>1, HeardFinish
<1>9. HeardAreDone'
  BY <1>1, <1>8 DEF HeardAreDone
<1> QED
  BY <1>7, <1>9

\* A commit takes the oldest away, which was answered for, or everyone.
LEMMA CommitFinds ==
    ASSUME Inv, NEW zero, Found(zero), HeardAreDone, Commit
    PROVE  Found(zero)' /\ HeardAreDone'
<1>1. /\ phase = "commit" /\ rob_ready(rob, index) /\ cdb' = cdb
      /\ GoOn \/ \E file, target : Flush(file, target)
  <2>1. CASE CommitJump
    BY <2>1 DEF CommitJump, Committing, CommitTransfer
  <2>2. CASE CommitBranch
    BY <2>2 DEF CommitBranch, Committing, CommitTransfer
  <2>3. CASE CommitResult
    BY <2>3 DEF CommitResult, Committing
  <2>4. CASE CommitStore
    BY <2>4 DEF CommitStore, Committing
  <2> QED
    BY <2>1, <2>2, <2>3, <2>4 DEF Commit
<1>2. CASE GoOn
  <2>1. /\ rob' = Dequeued /\ alu_rs' = alu_rs /\ branch_rs' = branch_rs /\ mb' = mb
        /\ alus' = alus /\ branch_units' = branch_units /\ memory_units' = memory_units
        /\ address_units' = address_units /\ phase' \in {"commit", "update"}
    BY <1>1, <1>2 DEF GoOn, Advance, unitVars
  <2>2. Left(rob, rob', Entry.rob_id)
    BY <1>1, <2>1, Retires
  <2>3. \A id \in Flying(rob') : /\ id \in Flying(rob)
                                 /\ rob'.queue_next[id - 1] = rob.queue_next[id - 1]
    BY <2>2 DEF Left
  <2>4. Held' = Held
    BY <1>1, <2>1 DEF Held
  <2>5. Spread(Held', Held, {})
    BY <2>4, SpreadSame
  <2>6. Relieves(rob, rob', {}, zero)
    BY <2>3 DEF Relieves
  <2>7. Found(zero)'
    BY <2>5, <2>6, FoundAfter
  <2>8. HeardAreDone'
    BY <1>1, <2>3 DEF HeardAreDone
  <2> QED
    BY <2>7, <2>8
<1>3. CASE \E file, target : Flush(file, target)
  <2>1. rob' = rob_clear(Dequeued)
    BY <1>3 DEF Flush
  <2>2. IsRob(Dequeued) /\ EntriesInPlace(Dequeued)
    BY <1>1, Retires
  <2>3. Flying(rob') = {}
    BY <2>1, <2>2, ClearRob
  <2> QED
    BY <2>3 DEF Found, FoundIn, HeardAreDone
<1> QED
  BY <1>1, <1>2, <1>3

\* The loop of commit_step moves nobody by itself.
LEMMA CommitNothingFinds ==
    ASSUME NEW zero, Found(zero), HeardAreDone, CommitNothing
    PROVE  Found(zero)' /\ HeardAreDone'
<1>1. /\ alu_rs' = alu_rs /\ branch_rs' = branch_rs /\ mb' = mb /\ rob' = rob /\ cdb' = cdb
      /\ alus' = alus /\ branch_units' = branch_units /\ memory_units' = memory_units
      /\ address_units' = address_units
      /\ phase = "commit" /\ phase' \in {"commit", "update"}
  BY DEF CommitNothing, Advance, issueVars, unitVars
<1>2. Held' = Held
  BY <1>1 DEF Held
<1>3. Found(zero)'
  BY <1>1, <1>2, FoundStill
<1> QED
  BY <1>1, <1>3 DEF HeardAreDone

\* The next cycle starts with those of this one, and an empty bus.
LEMMA UpdateCurrentFinds ==
    ASSUME Inv, NEW zero, Found(zero), UpdateCurrent
    PROVE  Found(zero)' /\ cdb' = cdb_init
<1>1. /\ phase = "update" /\ phase' \in {"fetch", "halted"}
      /\ cdb' = cdb_clear(cdb) /\ rob' = rob_update_current(rob)
      /\ alu_rs' = res_stations_update_current(alu_rs)
      /\ branch_rs' = res_stations_update_current(branch_rs)
      /\ mb' = memory_buffers_update_current(mb)
      /\ alus' = alus /\ branch_units' = branch_units /\ memory_units' = memory_units
      /\ address_units' = address_units
  BY DEF UpdateCurrent, unitVars
<1>2. /\ IsRob(rob) /\ EntriesInPlace(rob) /\ Windows(rob, "update", index)
      /\ IsStations(alu_rs, NUM_ALU_RES_STATIONS)
      /\ IsStations(branch_rs, NUM_BRANCH_RES_STATIONS)
      /\ IsBuffers(mb, NUM_MEMORY_BUFFERS)
  BY <1>1 DEF Inv, Shapes
<1>3. /\ rob'.queue_next = rob.queue_next
      /\ rob'.front_next = rob.front_next /\ rob'.rear_next = rob.rear_next
  BY <1>1, <1>2, UpdateRob
<1>4. /\ StationsTurned(alu_rs', alu_rs, NUM_ALU_RES_STATIONS)
      /\ StationsTurned(branch_rs', branch_rs, NUM_BRANCH_RES_STATIONS)
      /\ BuffersTurned(mb', mb, NUM_MEMORY_BUFFERS, rob')
  BY <1>1, <1>2, Sizes, StayInStations, StayInBuffers
<1>5. cdb' = cdb_init /\ InBus(cdb') = {}
  BY <1>1, ClearBus
<1>6. /\ InPool("alu_rs", alu_rs'.next) = InPool("alu_rs", alu_rs.next)
      /\ InPool("branch_rs", branch_rs'.next) = InPool("branch_rs", branch_rs.next)
      /\ InPool("mb", mb'.next) = InPool("mb", mb.next)
  BY <1>4 DEF StationsTurned, BuffersTurned
<1>7. Held' = Held
  BY <1>1, <1>5, <1>6 DEF Held
<1>8. Found(zero)'
  BY <1>3, <1>7, FoundStill
<1> QED
  BY <1>5, <1>8

-----------------------------------------------------------------------------

\* The bus of a cycle is filled by the units and emptied at its end.
LEMMA RoomKept == Inv /\ FoundInv /\ [Next]_vars => BusRoom'
<1> SUFFICES ASSUME Inv, FoundInv, [Next]_vars PROVE BusRoom'
  OBVIOUS
<1>0. BusRoom /\ Found(TRUE)
  BY DEF FoundInv
<1>1. CASE Fetch \/ DecodeLatch \/ DecodeStalls \/ DecodeFails \/ EndIssue
           \/ IssueAl \/ IssueBranch \/ IssueMemory
  <2>1. /\ cdb' = cdb /\ phase \in {"fetch", "decode", "issue"}
        /\ \/ phase' \in {"decode", "failed", "issue"}
           \/ phase' = "alu" /\ index' = 0
    BY <1>1 DEF Fetch, DecodeLatch, DecodeStalls, DecodeFails, EndIssue, Advance,
                IssueAl, IssueBranch, IssueMemory, Issuing
  <2>2. Len(cdb) <= 0
    BY <1>0, <2>1 DEF BusRoom, Stepped, UntilUnitsWork
  <2> QED
    BY <2>1, <2>2 DEF BusRoom, Stepped, UntilUnitsWork
<1>2. CASE AluStep \/ BranchStep \/ MemoryStep
  BY <1>0, <1>2, UnitsFind
<1>3. CASE AddressStep \/ Capture \/ Commit \/ CommitNothing
  <2>1. /\ cdb' = cdb /\ phase \in {"address", "capture", "commit"}
        /\ phase' \in {"address", "capture", "commit", "update"}
    BY <1>3 DEF AddressStep, Capture, Commit, CommitJump, CommitBranch, CommitResult, CommitStore,
                Committing, CommitTransfer, Flush, GoOn, CommitNothing, Advance
  <2> QED
    BY <1>0, <2>1 DEF BusRoom, Stepped, UntilUnitsWork
<1>4. CASE UpdateCurrent
  <2>1. cdb' = cdb_init /\ phase' \in {"fetch", "halted"}
    BY <1>0, <1>4, UpdateCurrentFinds DEF UpdateCurrent
  <2>2. Len(cdb') = 0
    BY <2>1 DEF cdb_init
  <2> QED
    BY <2>1, <2>2 DEF BusRoom, Stepped, UntilUnitsWork
<1>5. CASE UNCHANGED vars
  <2>1. cdb' = cdb /\ phase' = phase /\ index' = index
    BY <1>5 DEF vars, controlVars
  <2> QED
    BY <1>0, <2>1 DEF BusRoom, Stepped
<1> QED
  BY <1>1, <1>2, <1>3, <1>4, <1>5 DEF Next

\* After capture whose result was on the bus has it.
LEMMA HeardKept == Inv /\ FoundInv /\ [Next]_vars => HeardAreDone'
<1> SUFFICES ASSUME Inv, FoundInv, [Next]_vars PROVE HeardAreDone'
  OBVIOUS
<1>0. HeardAreDone /\ Found(TRUE)
  BY DEF FoundInv
<1>1. CASE phase' \notin {"commit", "update"}
  BY <1>1 DEF HeardAreDone
<1>2. CASE Capture
  BY <1>0, <1>2, CaptureFinds
<1>3. CASE Commit
  BY <1>0, <1>3, CommitFinds
<1>4. CASE CommitNothing
  BY <1>0, <1>4, CommitNothingFinds
<1>5. CASE UNCHANGED vars
  <2>1. cdb' = cdb /\ phase' = phase /\ rob' = rob
    BY <1>5 DEF vars, controlVars, issueVars
  <2> QED
    BY <1>0, <2>1 DEF HeardAreDone
<1>6. \/ phase' \notin {"commit", "update"} \/ Capture \/ Commit \/ CommitNothing
      \/ UNCHANGED vars
  BY DEF Next, Fetch, DecodeLatch, DecodeStalls, DecodeFails, EndIssue, Advance,
         IssueAl, IssueBranch, IssueMemory, Issuing, AluStep, BranchStep, MemoryStep,
         AddressStep, UpdateCurrent
<1> QED
  BY <1>1, <1>2, <1>3, <1>4, <1>5, <1>6

\* Each step leaves everyone found; with the address 0 for none, so do the stores' addresses.
LEMMA FoundKept ==
    ASSUME Inv, BusRoom, HeardAreDone, NEW zero, Found(zero), zero \/ StoresMissZero', [Next]_vars
    PROVE  Found(zero)'
<1>1. CASE UNCHANGED vars
  <2>1. /\ alu_rs' = alu_rs /\ branch_rs' = branch_rs /\ mb' = mb /\ rob' = rob /\ cdb' = cdb
        /\ alus' = alus /\ branch_units' = branch_units /\ memory_units' = memory_units
        /\ address_units' = address_units /\ phase' = phase
    BY <1>1 DEF vars, issueVars, unitVars, controlVars
  <2>2. Held' = Held
    BY <2>1 DEF Held
  <2> QED
    BY <2>1, <2>2, FoundStill
<1>2. CASE Fetch \/ DecodeLatch \/ DecodeStalls \/ DecodeFails \/ EndIssue
  BY <1>2, FrontFinds
<1>3. CASE IssueAl
  BY <1>3, IssueAlFinds
<1>4. CASE IssueBranch
  BY <1>4, IssueBranchFinds
<1>5. CASE IssueMemory
  BY <1>5, IssueMemoryFinds
<1>6. CASE AluStep \/ BranchStep \/ MemoryStep
  BY <1>6, UnitsFind
<1>7. CASE AddressStep
  BY <1>7, AddressStepFinds
<1>8. CASE Capture
  BY <1>8, CaptureFinds
<1>9. CASE Commit
  BY <1>9, CommitFinds
<1>10. CASE CommitNothing
  BY <1>10, CommitNothingFinds
<1>11. CASE UpdateCurrent
  BY <1>11, UpdateCurrentFinds
<1> QED
  BY <1>1, <1>2, <1>3, <1>4, <1>5, <1>6, <1>7, <1>8, <1>9, <1>10, <1>11 DEF Next

\* Nobody is in flight at the start, and the bus is empty.
LEMMA InitFound == Init => FoundInv /\ Found(FALSE)
<1> SUFFICES ASSUME Init PROVE FoundInv /\ Found(FALSE)
  OBVIOUS
<1>1. rob = rob_init /\ cdb = << >> /\ phase = "fetch"
  BY DEF Init, cdb_init
<1>2. Flying(rob) = {}
  BY <1>1, InitRob
<1>3. Len(cdb) = 0
  BY <1>1
<1> QED
  BY <1>1, <1>2, <1>3 DEF FoundInv, Found, FoundIn, BusRoom, Stepped, HeardAreDone, UntilUnitsWork

\* Nobody is lost, over a step.
LEMMA FoundInvKept == Inv /\ FoundInv /\ [Next]_vars => FoundInv'
<1> SUFFICES ASSUME Inv, FoundInv, [Next]_vars PROVE FoundInv'
  OBVIOUS
<1>1. Found(TRUE)'
  BY FoundKept DEF FoundInv
<1> QED
  BY <1>1, RoomKept, HeardKept DEF FoundInv

-----------------------------------------------------------------------------

(* Where they are. *)

At(h) == <<h[1], h[2]>>

\* Who is held is at a place, and who is at a place is held there.
LEMMA PlacesAreHeld ==
    ASSUME Inv, NEW id
    PROVE  /\ \A h \in Held : h[3] = id => At(h) \in Places(id) \/ (h \in InBus(cdb) /\ At(h) \in OnBus(id))
           /\ \A x \in Places(id) : \E h \in Held : h[3] = id /\ x = At(h)
           /\ phase \notin {"commit", "update"} =>
                  \A x \in OnBus(id) : \E h \in Held : h[3] = id /\ x = At(h)
<1>0. IsAddressUnits(address_units, NUM_ADDRESS_UNITS)
  BY DEF Inv, Shapes
<1>1. ASSUME NEW h \in Held, h[3] = id
      PROVE  At(h) \in Places(id) \/ (h \in InBus(cdb) /\ At(h) \in OnBus(id))
  <2>1. CASE h \in InPool("alu_rs", alu_rs.next)
    <3>1. PICK i \in DOMAIN alu_rs.next :
             alu_rs.next[i].busy /\ h = Holder("alu_rs", i, alu_rs.next[i].rob_id, alu_rs.next[i].op)
      BY <2>1, PoolMember
    <3>2. h[1] = "alu_rs" /\ h[2] = i /\ h[3] = alu_rs.next[i].rob_id
      BY <3>1, HolderParts
    <3> QED
      BY <1>1, <3>1, <3>2 DEF Places, Busy, At
  <2>2. CASE h \in InPool("branch_rs", branch_rs.next)
    <3>1. PICK i \in DOMAIN branch_rs.next :
             /\ branch_rs.next[i].busy
             /\ h = Holder("branch_rs", i, branch_rs.next[i].rob_id, branch_rs.next[i].op)
      BY <2>2, PoolMember
    <3>2. h[1] = "branch_rs" /\ h[2] = i /\ h[3] = branch_rs.next[i].rob_id
      BY <3>1, HolderParts
    <3> QED
      BY <1>1, <3>1, <3>2 DEF Places, Busy, At
  <2>3. CASE h \in InPool("mb", mb.next)
    <3>1. PICK i \in DOMAIN mb.next :
             mb.next[i].busy /\ h = Holder("mb", i, mb.next[i].rob_id, mb.next[i].op)
      BY <2>3, PoolMember
    <3>2. h[1] = "mb" /\ h[2] = i /\ h[3] = mb.next[i].rob_id
      BY <3>1, HolderParts
    <3> QED
      BY <1>1, <3>1, <3>2 DEF Places, Busy, At
  <2>4. CASE h \in InUnits("alu", alus)
    <3>1. PICK i \in DOMAIN alus : /\ alus[i].relative_cycle > 0
                                   /\ h = Holder("alu", i, alus[i].entry_rob_id, NA)
      BY <2>4, UnitMember
    <3>2. h[1] = "alu" /\ h[2] = i /\ h[3] = alus[i].entry_rob_id
      BY <3>1, HolderParts
    <3> QED
      BY <1>1, <3>1, <3>2 DEF Places, Active, At
  <2>5. CASE h \in InUnits("memory", memory_units)
    <3>1. PICK i \in DOMAIN memory_units :
             /\ memory_units[i].relative_cycle > 0
             /\ h = Holder("memory", i, memory_units[i].entry_rob_id, NA)
      BY <2>5, UnitMember
    <3>2. h[1] = "memory" /\ h[2] = i /\ h[3] = memory_units[i].entry_rob_id
      BY <3>1, HolderParts
    <3> QED
      BY <1>1, <3>1, <3>2 DEF Places, Active, At
  <2>6. CASE h \in InBranchUnits(branch_units)
    <3>1. PICK i \in DOMAIN branch_units :
             /\ branch_units[i].relative_cycle > 0
             /\ h = Holder("branch", i, branch_units[i].entry_rob_id, KindOf(branch_units[i]))
      BY <2>6, BranchUnitMember
    <3>2. h[1] = "branch" /\ h[2] = i /\ h[3] = branch_units[i].entry_rob_id
      BY <3>1, HolderParts
    <3> QED
      BY <1>1, <3>1, <3>2 DEF Places, Active, At
  <2>7. CASE h \in InAddressUnits(address_units)
    <3>1. PICK i \in Active(address_units) :
             address_units[i].is_store /\ h = Holder("address", i, address_units[i].dest_id, NA)
      BY <2>7 DEF InAddressUnits
    <3>2. h[1] = "address" /\ h[2] = i /\ h[3] = address_units[i].dest_id
      BY <3>1, HolderParts
    <3> QED
      BY <1>1, <3>1, <3>2 DEF Places, At
  <2>8. CASE h \in InBus(cdb)
    <3>1. PICK i \in DOMAIN cdb : h = Holder("cdb", i, cdb[i].rob_id, NA)
      BY <2>8, BusMember
    <3>2. h[1] = "cdb" /\ h[2] = i /\ h[3] = cdb[i].rob_id
      BY <3>1, HolderParts
    <3> QED
      BY <1>1, <2>8, <3>1, <3>2 DEF OnBus, At
  <2> QED
    BY <1>1, <2>1, <2>2, <2>3, <2>4, <2>5, <2>6, <2>7, <2>8, HeldMember
<1>2. ASSUME NEW x \in Places(id) PROVE \E h \in Held : h[3] = id /\ x = At(h)
  <2>1. ASSUME NEW name, NEW pool, NEW i \in Busy(pool), pool[i].rob_id = id, x = <<name, i>>,
               \A h \in InPool(name, pool) : h \in Held
        PROVE  \E h \in Held : h[3] = id /\ x = At(h)
    <3> DEFINE h == Holder(name, i, pool[i].rob_id, pool[i].op)
    <3>1. h[1] = name /\ h[2] = i /\ h[3] = id
      BY <2>1, HolderParts
    <3>2. h \in InPool(name, pool)
      BY <2>1, PoolMember DEF Busy
    <3> HIDE DEF h
    <3> QED
      BY <2>1, <3>1, <3>2 DEF At
  <2>2. ASSUME NEW name, NEW units, NEW i \in Active(units), units[i].entry_rob_id = id,
               x = <<name, i>>, \A h \in InUnits(name, units) : h \in Held
        PROVE  \E h \in Held : h[3] = id /\ x = At(h)
    <3> DEFINE h == Holder(name, i, units[i].entry_rob_id, NA)
    <3>1. h[1] = name /\ h[2] = i /\ h[3] = id
      BY <2>2, HolderParts
    <3>2. h \in InUnits(name, units)
      BY <2>2 DEF InUnits
    <3> HIDE DEF h
    <3> QED
      BY <2>2, <3>1, <3>2 DEF At
  <2>3. ASSUME NEW i \in Active(branch_units), branch_units[i].entry_rob_id = id,
               x = <<"branch", i>>
        PROVE  \E h \in Held : h[3] = id /\ x = At(h)
    <3> DEFINE h == Holder("branch", i, branch_units[i].entry_rob_id, KindOf(branch_units[i]))
    <3>1. h[1] = "branch" /\ h[2] = i /\ h[3] = id
      BY <2>3, HolderParts
    <3>2. h \in InBranchUnits(branch_units)
      BY <2>3, BranchUnitMember DEF Active
    <3> HIDE DEF h
    <3> QED
      BY <2>3, <3>1, <3>2, HeldMember DEF At
  <2>4. ASSUME NEW i \in Active(address_units), address_units[i].is_store,
               address_units[i].dest_id = id, x = <<"address", i>>
        PROVE  \E h \in Held : h[3] = id /\ x = At(h)
    <3> DEFINE h == Holder("address", i, address_units[i].dest_id, NA)
    <3>1. h[1] = "address" /\ h[2] = i /\ h[3] = id
      BY <2>4, HolderParts
    <3>2. h \in InAddressUnits(address_units)
      BY <2>4 DEF InAddressUnits
    <3> HIDE DEF h
    <3> QED
      BY <2>4, <3>1, <3>2, HeldMember DEF At
  <2>5. /\ \A h \in InPool("alu_rs", alu_rs.next) : h \in Held
        /\ \A h \in InPool("branch_rs", branch_rs.next) : h \in Held
        /\ \A h \in InPool("mb", mb.next) : h \in Held
        /\ \A h \in InUnits("alu", alus) : h \in Held
        /\ \A h \in InUnits("memory", memory_units) : h \in Held
    BY HeldMember
  <2>6. \/ \E i \in Busy(alu_rs.next) : alu_rs.next[i].rob_id = id /\ x = <<"alu_rs", i>>
        \/ \E i \in Busy(branch_rs.next) : branch_rs.next[i].rob_id = id /\ x = <<"branch_rs", i>>
        \/ \E i \in Busy(mb.next) : mb.next[i].rob_id = id /\ x = <<"mb", i>>
        \/ \E i \in Active(alus) : alus[i].entry_rob_id = id /\ x = <<"alu", i>>
        \/ \E i \in Active(branch_units) :
              branch_units[i].entry_rob_id = id /\ x = <<"branch", i>>
        \/ \E i \in Active(memory_units) :
              memory_units[i].entry_rob_id = id /\ x = <<"memory", i>>
        \/ \E i \in Active(address_units) :
              /\ address_units[i].is_store /\ address_units[i].dest_id = id
              /\ x = <<"address", i>>
    BY <1>2 DEF Places
  <2>7. CASE \E i \in Busy(alu_rs.next) : alu_rs.next[i].rob_id = id /\ x = <<"alu_rs", i>>
    BY <2>1, <2>5, <2>7
  <2>8. CASE \E i \in Busy(branch_rs.next) :
                branch_rs.next[i].rob_id = id /\ x = <<"branch_rs", i>>
    BY <2>1, <2>5, <2>8
  <2>9. CASE \E i \in Busy(mb.next) : mb.next[i].rob_id = id /\ x = <<"mb", i>>
    BY <2>1, <2>5, <2>9
  <2>10. CASE \E i \in Active(alus) : alus[i].entry_rob_id = id /\ x = <<"alu", i>>
    BY <2>2, <2>5, <2>10
  <2>11. CASE \E i \in Active(memory_units) :
                 memory_units[i].entry_rob_id = id /\ x = <<"memory", i>>
    BY <2>2, <2>5, <2>11
  <2> QED
    BY <2>3, <2>4, <2>6, <2>7, <2>8, <2>9, <2>10, <2>11
<1>3. ASSUME phase \notin {"commit", "update"}, NEW x \in OnBus(id)
      PROVE  \E h \in Held : h[3] = id /\ x = At(h)
  <2>1. PICK i \in DOMAIN cdb : cdb[i].rob_id = id /\ x = <<"cdb", i>>
    BY <1>3 DEF OnBus
  <2> DEFINE h == Holder("cdb", i, cdb[i].rob_id, NA)
  <2>2. h[1] = "cdb" /\ h[2] = i /\ h[3] = id
    BY <2>1, HolderParts
  <2>3. h \in InBus(cdb)
    BY <2>1, BusMember
  <2> HIDE DEF h
  <2> QED
    BY <1>3, <2>1, <2>2, <2>3, HeldMember DEF At
<1> QED
  BY <1>1, <1>2, <1>3

\* A store that waits for its data alone is held by nobody, and everyone else by one.
LEMMA FoundOnce ==
    ASSUME Inv, Found(FALSE), HeardAreDone
    PROVE  EachIsInOnePlace
<1>1. Settled(Held, rob) /\ FoundIn(Held, rob, FALSE)
  BY DEF Inv, Found
<1> SUFFICES ASSUME NEW id \in RobIds
             PROVE  IF id \in InFlight /\ ~entry(id).ready
                    THEN Cardinality(Places(id) \cup OnBus(id)) = IF WaitsForData(id) THEN 0 ELSE 1
                    ELSE Places(id) = {}
  BY DEF EachIsInOnePlace
<1>2. id \in InFlight <=> id \in Flying(rob)
  BY DEF InFlight, Flying
<1>3. entry(id) = rob.queue_next[id - 1]
  BY DEF entry
<1>4. \A h \in Held : /\ h[3] \in Flying(rob) /\ ~rob.queue_next[h[3] - 1].ready
                      /\ Fits(h, rob.queue_next[h[3] - 1])
  BY <1>1 DEF Settled
<1>5. CASE ~(id \in InFlight /\ ~entry(id).ready)
  <2>1. \A h \in Held : h[3] # id
    BY <1>2, <1>3, <1>4, <1>5
  <2>2. Places(id) = {}
    BY <2>1, PlacesAreHeld
  <2> QED
    BY <1>5, <2>2
<1>6. CASE id \in InFlight /\ ~entry(id).ready
  <2> DEFINE all == Places(id) \cup OnBus(id)
  <2>1. phase \in {"commit", "update"} => OnBus(id) = {}
    BY <1>2, <1>3, <1>6 DEF HeardAreDone, OnBus
  <2>2. \A x \in all : \E h \in Held : h[3] = id /\ x = At(h)
    BY <2>1, PlacesAreHeld
  <2>3. \A h \in Held : h[3] = id => At(h) \in all
    BY PlacesAreHeld
  <2> HIDE DEF all
  <2>4. CASE WaitsForData(id)
    <3>1. \A h \in Held : h[3] # id
      BY <1>3, <1>4, <2>4 DEF WaitsForData, Fits
    <3>2. all = {}
      BY <2>2, <3>1
    <3> QED
      BY <1>6, <2>4, <3>2, FS_EmptySet DEF all
  <2>5. CASE ~WaitsForData(id)
    <3>1. ~Answered(rob.queue_next[id - 1], FALSE)
      BY <1>3, <1>6, <2>5 DEF Answered, WaitsForData
    <3>2. PICK h \in Held : h[3] = id
      BY <1>1, <1>2, <1>6, <3>1 DEF FoundIn
    <3>3. \A g \in Held : g[3] = id => g = h
      BY <1>1, <3>2 DEF Settled
    <3>4. all = {At(h)}
      BY <2>2, <2>3, <3>2, <3>3
    <3>5. Cardinality(all) = 1
      BY <3>4, FS_Singleton
    <3> QED
      BY <1>6, <2>5, <3>5 DEF all
  <2> QED
    BY <2>4, <2>5
<1> QED
  BY <1>5, <1>6

\* In every state of every program each unfinished instruction in flight is in a reservation station,
\* a memory buffer, a unit or on the bus, unless it is a store that only waits for its data or whose
\* entry shows address 0; the bus has a free entry for each unit that has yet to work in the cycle, so
\* cdb_write never drops a result; and rob_step leaves nobody unfinished whose result was on the bus.
THEOREM FoundInvariance == Spec => [](Inv /\ FoundInv)
<1>1. Init => Inv /\ FoundInv
  BY InitKeeps, InitFound
<1>2. (Inv /\ FoundInv) /\ [Next]_vars => (Inv /\ FoundInv)'
  BY InvKept, FoundInvKept
<1> QED
  BY <1>1, <1>2, PTL DEF Spec

\* While no store goes to address 0, which rob.c takes for an address that has yet to come, no
\* instruction is lost and none is in two places: who has finished is nowhere, who has not is in
\* exactly one place, and a store that only waits for its data is in none (issue, dispatch, the units,
\* cdb_write, rob_step and the flush of commit).
THEOREM NobodyIsLost == Spec /\ []StoresMissZero => []EachIsInOnePlace
<1> DEFINE Full == Inv /\ FoundInv /\ Found(FALSE)
<1>1. Init => Full
  BY InitKeeps, InitFound
<1>2. Full /\ StoresMissZero' /\ [Next]_vars => Full'
  <2> SUFFICES ASSUME Full, StoresMissZero', [Next]_vars PROVE Full'
    OBVIOUS
  <2>1. BusRoom /\ HeardAreDone
    BY DEF FoundInv
  <2>2. Found(FALSE)'
    BY <2>1, FoundKept
  <2> QED
    BY <2>2, InvKept, FoundInvKept
<1>3. Full => EachIsInOnePlace
  BY FoundOnce DEF FoundInv
<1> HIDE DEF Full
<1> QED
  BY <1>1, <1>2, <1>3, PTL DEF Spec

-----------------------------------------------------------------------------

(***************************************************************************)
(* A load and the stores before it.                                        *)
(***************************************************************************)

\* Nobody is sent for, or in the queue either, who was not.
FewerOutside(copy, old) ==
    \A i \in Outside(copy) : /\ i \in Outside(old)
                             /\ copy[i].rob_id = old[i].rob_id /\ copy[i].op = old[i].op

Fewer(copy, old) ==
    /\ FewerOutside(copy, old)
    /\ \A k \in InQueue(copy) : /\ k \in InQueue(old)
                                /\ copy[k].rob_id = old[k].rob_id /\ copy[k].op = old[k].op

\* Whoever an address unit works for is in flight.
StoresFly(units, r) == \A u \in StoreUnits(units) : units[u].dest_id \in Flying(r)

\* The address units work for nobody else.
LEMMA StoresAreInFlight == Inv => StoresFly(address_units, rob)
<1> SUFFICES ASSUME Inv, NEW u \in StoreUnits(address_units)
             PROVE  address_units[u].dest_id \in Flying(rob)
  BY DEF StoresFly
<1> DEFINE h == Holder("address", u, address_units[u].dest_id, NA)
<1>1. StoreCycles(address_units[u]) > 0 /\ u \in DOMAIN address_units
  BY DEF StoreUnits, StoreCycles
<1>2. IsAddressUnits(address_units, NUM_ADDRESS_UNITS)
  BY DEF Inv, Shapes
<1>3. h \in InAddressUnits(address_units)
  BY <1>1, <1>2, AddressUnitMember
<1>4. h[3] = address_units[u].dest_id
  BY HolderParts
<1> HIDE DEF h
<1>5. h \in Held /\ Settled(Held, rob)
  BY <1>3, HeldMember DEF Inv
<1>6. h[3] \in Flying(rob)
  BY <1>5, SettledMember
<1> QED
  BY <1>4, <1>6

\* Two in flight are of different ages.
LEMMA AgesDiffer ==
    ASSUME NEW r, IsRob(r), NEW a \in Flying(r), NEW b \in Flying(r), AgeOf(r, a) = AgeOf(r, b)
    PROVE  a = b
<1>1. /\ a \in RobIds /\ b \in RobIds /\ a - 1 \in Slots /\ b - 1 \in Slots
      /\ r.front_next # -1
  BY IdsAreSlots DEF Flying, InWindow
<1>2. r.front_next \in Slots
  BY <1>1, RobShape DEF Cursor
<1>3. /\ S \in Nat /\ a - 1 \in 0 .. S - 1 /\ b - 1 \in 0 .. S - 1 /\ r.front_next \in 0 .. S - 1
      /\ a \in Int /\ b \in Int
  BY <1>1, <1>2, SizeIsPositive
<1>4. AgeFrom(r.front_next, a - 1) = AgeFrom(r.front_next, b - 1)
  BY DEF AgeOf
<1> QED
  BY <1>3, <1>4 DEF AgeFrom

\* So who is older after was older before.
LEMMA AgesReturn ==
    ASSUME NEW r, IsRob(r), NEW new, IsRob(new), SameAges(new, r),
           NEW a \in Flying(r), NEW b \in Flying(r), a \in Flying(new), b \in Flying(new),
           AgeOf(new, a) < AgeOf(new, b)
    PROVE  AgeOf(r, a) < AgeOf(r, b)
<1>1. a \in RobIds /\ b \in RobIds
  BY DEF Flying
<1>2. /\ AgeOf(r, a) \in Int /\ AgeOf(r, b) \in Int
      /\ AgeOf(new, a) \in Int /\ AgeOf(new, b) \in Int
  BY <1>1, AgeType
<1>3. a # b
  BY <1>2
<1>4. AgeOf(r, a) # AgeOf(r, b)
  BY <1>3, AgesDiffer
<1>5. ~(AgeOf(r, b) < AgeOf(r, a))
  BY <1>2 DEF SameAges
<1> QED
  BY <1>2, <1>4, <1>5

\* No store comes before a load that has been sent for.
LEMMA LoadsBehindStays ==
    ASSUME NEW r, NEW new, SameAges(new, r), NEW old, LoadsBehind(old, r), BuffersFly(old, r),
           NEW copy, BuffersFly(copy, new), Fewer(copy, old)
    PROVE  LoadsBehind(copy, new)
<1>1. ASSUME NEW i \in Outside(copy)
      PROVE  /\ i \in Outside(old) /\ copy[i].rob_id = old[i].rob_id /\ copy[i].op = old[i].op
             /\ copy[i].rob_id \in Flying(r) /\ copy[i].rob_id \in Flying(new)
  BY DEF Fewer, FewerOutside, BuffersFly, Outside
<1>2. ASSUME NEW k \in InQueue(copy)
      PROVE  /\ k \in InQueue(old) /\ copy[k].rob_id = old[k].rob_id /\ copy[k].op = old[k].op
             /\ copy[k].rob_id \in Flying(r) /\ copy[k].rob_id \in Flying(new)
  BY DEF Fewer, BuffersFly, InQueue
<1>3. ASSUME NEW i \in Outside(copy), NEW k \in InQueue(copy), copy[k].op \in StoreOp
      PROVE  AgeOf(new, copy[i].rob_id) < AgeOf(new, copy[k].rob_id)
  <2>1. AgeOf(r, copy[i].rob_id) < AgeOf(r, copy[k].rob_id)
    BY <1>1, <1>2, <1>3 DEF LoadsBehind
  <2> QED
    BY <1>1, <1>2, <2>1 DEF SameAges
<1>4. ASSUME NEW i \in Outside(copy) PROVE copy[i].op \notin StoreOp
  BY <1>1 DEF LoadsBehind
<1> QED
  BY <1>3, <1>4 DEF LoadsBehind

\* The units that work for stores did so before, and those that did for loads still do; each has
\* worked d cycles more.
WorkGoesOn(new, units, now, n, later, m, d) ==
    /\ \A u \in StoreUnits(new) : /\ u \in StoreUnits(units) /\ new[u].dest_id = units[u].dest_id
                                  /\ Cycles(units, u, now, n) \in Int
                                  /\ Cycles(new, u, later, m) = Cycles(units, u, now, n) + d
    /\ \A w \in LoadUnits(units) : /\ w \in LoadUnits(new) /\ new[w].dest_id = units[w].dest_id
                                   /\ Cycles(units, w, now, n) \in Int
                                   /\ Cycles(new, w, later, m) = Cycles(units, w, now, n) + d

\* Whoever has the lead keeps it.
LEMMA StoresFirstStays ==
    ASSUME NEW r, IsRob(r), NEW new, IsRob(new), SameAges(new, r),
           NEW old, BuffersFly(old, r), NEW copy, BuffersFly(copy, new), FewerOutside(copy, old),
           NEW units, StoresFly(units, r), NEW after, StoresFly(after, new),
           NEW now, NEW n, NEW later, NEW m, NEW d \in Nat,
           StoresFirst(units, old, r, now, n), WorkGoesOn(after, units, now, n, later, m, d)
    PROVE  StoresFirst(after, copy, new, later, m)
<1> SUFFICES ASSUME NEW u \in StoreUnits(after), NEW i \in Outside(copy),
                    AgeOf(new, after[u].dest_id) < AgeOf(new, copy[i].rob_id)
             PROVE  \/ Cycles(after, u, later, m) >= CYCLES_ADDRESS
                    \/ \E w \in LoadUnits(after) :
                          /\ after[w].dest_id = i
                          /\ Cycles(after, w, later, m) <= Cycles(after, u, later, m)
  BY DEF StoresFirst
<1>1. /\ i \in Outside(old) /\ copy[i].rob_id = old[i].rob_id
      /\ copy[i].rob_id \in Flying(r) /\ copy[i].rob_id \in Flying(new)
  BY DEF FewerOutside, BuffersFly, Outside
<1>2. /\ u \in StoreUnits(units) /\ after[u].dest_id = units[u].dest_id
      /\ Cycles(units, u, now, n) \in Int
      /\ Cycles(after, u, later, m) = Cycles(units, u, now, n) + d
      /\ after[u].dest_id \in Flying(r) /\ after[u].dest_id \in Flying(new)
  BY DEF WorkGoesOn, StoresFly
<1>3. AgeOf(r, after[u].dest_id) < AgeOf(r, copy[i].rob_id)
  BY <1>1, <1>2, AgesReturn
<1>4. AgeOf(r, units[u].dest_id) < AgeOf(r, old[i].rob_id)
  BY <1>1, <1>2, <1>3
<1>5. CASE Cycles(units, u, now, n) >= CYCLES_ADDRESS
  BY <1>2, <1>5, Sizes
<1>6. ASSUME NEW w \in LoadUnits(units), units[w].dest_id = i,
             Cycles(units, w, now, n) <= Cycles(units, u, now, n)
      PROVE  \E x \in LoadUnits(after) :
                /\ after[x].dest_id = i
                /\ Cycles(after, x, later, m) <= Cycles(after, u, later, m)
  <2>1. /\ w \in LoadUnits(after) /\ after[w].dest_id = i
        /\ Cycles(units, w, now, n) \in Int
        /\ Cycles(after, w, later, m) = Cycles(units, w, now, n) + d
    BY <1>6 DEF WorkGoesOn
  <2>2. Cycles(after, w, later, m) <= Cycles(after, u, later, m)
    BY <1>2, <1>6, <2>1
  <2> QED
    BY <2>1, <2>2
<1> QED
  BY <1>1, <1>2, <1>4, <1>5, <1>6 DEF StoresFirst

\* The address units, with their cycles as numbers.
LEMMA UnitCycles ==
    ASSUME NEW n, NEW units, IsAddressUnits(units, n)
    PROVE  /\ DOMAIN units = 1 .. n
           /\ \A u \in 1 .. n : units[u].relative_cycle \in Nat
           /\ \A u \in 1 .. n : \A now, m : Cycles(units, u, now, m) \in Nat
<1>1. DOMAIN units = 1 .. n /\ \A u \in 1 .. n : units[u].relative_cycle \in Nat
  BY AddressUnitFields DEF IsAddressUnits
<1> QED
  BY <1>1 DEF Cycles

\* Outside their turn the units work on for the same instructions.
LEMMA WorkRests ==
    ASSUME NEW k, NEW units, IsAddressUnits(units, k), NEW now, now # "address", NEW n,
           NEW later, NEW m, later = "address" => m = 0
    PROVE  WorkGoesOn(units, units, now, n, later, m, IF later = "address" THEN 1 ELSE 0)
<1> DEFINE d == IF later = "address" THEN 1 ELSE 0
<1>1. ASSUME NEW u \in 1 .. k
      PROVE  /\ Cycles(units, u, now, n) \in Int
             /\ Cycles(units, u, later, m) = Cycles(units, u, now, n) + d
  <2>1. units[u].relative_cycle \in Nat
    BY UnitCycles
  <2>2. later = "address" => m < u
    OBVIOUS
  <2>3. Cycles(units, u, now, n) = units[u].relative_cycle
    BY <2>1 DEF Cycles
  <2>4. Cycles(units, u, later, m) = units[u].relative_cycle + d
    BY <2>1, <2>2 DEF Cycles
  <2> QED
    BY <2>1, <2>3, <2>4
<1>2. DOMAIN units = 1 .. k
  BY UnitCycles
<1>3. /\ \A u \in StoreUnits(units) : u \in 1 .. k
      /\ \A u \in LoadUnits(units) : u \in 1 .. k
  BY <1>2 DEF StoreUnits, LoadUnits
<1> HIDE DEF d
<1>4. WorkGoesOn(units, units, now, n, later, m, d)
  BY <1>1, <1>3 DEF WorkGoesOn
<1> QED
  BY <1>4 DEF d

\* What the steps outside the turn of the address units have in common.
LEMMA LoadsRest ==
    ASSUME Inv, Inv', LoadsInOrder, SameAges(rob', rob), Fewer(mb'.next, mb.next),
           address_units' = address_units, phase # "address", phase' = "address" => index' = 0
    PROVE  LoadsInOrder'
<1> DEFINE d == IF phase' = "address" THEN 1 ELSE 0
<1>1. /\ BuffersFly(mb.next, rob) /\ StoresFly(address_units, rob)
      /\ IsAddressUnits(address_units, NUM_ADDRESS_UNITS) /\ IsRob(rob)
  BY BuffersAreInFlight, StoresAreInFlight DEF Inv, Shapes
<1>2. /\ BuffersFly(mb.next, rob)' /\ StoresFly(address_units, rob)' /\ IsRob(rob)'
  BY BuffersAreInFlight, StoresAreInFlight, PTL DEF Inv, Shapes
<1>3. BuffersFly(mb'.next, rob') /\ StoresFly(address_units', rob') /\ IsRob(rob')
  BY <1>2
<1>4. LoadsBehind(mb.next, rob) /\ StoresFirst(address_units, mb.next, rob, phase, index)
  BY DEF LoadsInOrder
<1>5. LoadsBehind(mb'.next, rob')
  BY <1>1, <1>3, <1>4, LoadsBehindStays
<1>6. WorkGoesOn(address_units, address_units, phase, index, phase', index', d)
  BY <1>1, WorkRests
<1>7. d \in Nat
  OBVIOUS
<1> HIDE DEF d
<1>8. StoresFly(address_units, rob')
  BY <1>3
<1>9. StoresFirst(address_units, mb'.next, rob', phase', index')
  <2>1. FewerOutside(mb'.next, mb.next)
    BY DEF Fewer
  <2> QED
    BY <2>1, <1>1, <1>3, <1>4, <1>6, <1>7, <1>8, StoresFirstStays
<1> QED
  BY <1>5, <1>9 DEF LoadsInOrder

\* Nothing has happened to the buffers.
LEMMA SameBuffers == \A copy : Fewer(copy, copy)
  BY DEF Fewer, FewerOutside

\* Whoever is still in a buffer is there as before.
LEMMA FewerStay ==
    ASSUME NEW copy, NEW old, DOMAIN copy = DOMAIN old,
           \A i \in DOMAIN copy : copy[i].busy => SameInQueue(copy[i], old[i])
    PROVE  Fewer(copy, old)
<1>1. ASSUME NEW i \in Outside(copy)
      PROVE  i \in Outside(old) /\ copy[i].rob_id = old[i].rob_id /\ copy[i].op = old[i].op
  BY DEF Outside, SameInQueue
<1>2. ASSUME NEW i \in InQueue(copy)
      PROVE  i \in InQueue(old) /\ copy[i].rob_id = old[i].rob_id /\ copy[i].op = old[i].op
  BY DEF InQueue, SameInQueue
<1> QED
  BY <1>1, <1>2 DEF Fewer, FewerOutside

\* Who enters does so at the end of the queue.
LEMMA EntersBehind ==
    ASSUME NEW n, NEW buffers, QueueShape(buffers, n), NEW new, QueueShape(new, n),
           NEW i, NEW id, NEW op, QueueJoined(new, buffers, n, i, id, op), i \in InQueue(new.next),
           NEW r, IsRob(r), BuffersFly(buffers.next, r), LoadsBehind(buffers.next, r),
           NEW now, NEW op_type, NEW dest, Entered(r, now, id, op_type, dest)
    PROVE  LoadsBehind(new.next, now)
<1>1. ASSUME NEW k \in DOMAIN new.next, k # i
      PROVE  k \in DOMAIN buffers.next /\ new.next[k] = buffers.next[k]
  BY <1>1 DEF QueueShape, QueueJoined
<1>2. ASSUME NEW j \in Outside(new.next)
      PROVE  /\ j \in Outside(buffers.next) /\ new.next[j] = buffers.next[j]
             /\ new.next[j].rob_id \in Flying(r)
  <2>1. j # i
    BY DEF Outside, InQueue
  <2> QED
    BY <1>1, <2>1 DEF Outside, BuffersFly
<1>3. ASSUME NEW j \in Outside(new.next), NEW k \in InQueue(new.next), new.next[k].op \in StoreOp
      PROVE  AgeOf(now, new.next[j].rob_id) < AgeOf(now, new.next[k].rob_id)
  <2>1. CASE k = i
    <3>1. new.next[k].rob_id = id
      BY <2>1 DEF QueueJoined
    <3> QED
      BY <1>2, <3>1 DEF Entered
  <2>2. CASE k # i
    <3>1. /\ k \in InQueue(buffers.next) /\ new.next[k] = buffers.next[k]
          /\ new.next[k].rob_id \in Flying(r)
      BY <1>1, <2>2 DEF InQueue, BuffersFly
    <3>2. AgeOf(r, new.next[j].rob_id) < AgeOf(r, new.next[k].rob_id)
      BY <1>2, <1>3, <3>1 DEF LoadsBehind
    <3> QED
      BY <1>2, <3>1, <3>2 DEF Entered
  <2> QED
    BY <2>1, <2>2
<1>4. ASSUME NEW j \in Outside(new.next) PROVE new.next[j].op \notin StoreOp
  BY <1>2 DEF LoadsBehind
<1> QED
  BY <1>3, <1>4 DEF LoadsBehind

-----------------------------------------------------------------------------

\* The queue and the loads outside it, when nothing happens to the buffers.
LEMMA LoadsUntouched ==
    ASSUME Inv, Inv', LoadsInOrder, SameAges(rob', rob), mb' = mb,
           address_units' = address_units, phase # "address", phase' = "address" => index' = 0
    PROVE  LoadsInOrder'
<1>1. Fewer(mb'.next, mb.next)
  BY SameBuffers
<1> QED
  BY <1>1, LoadsRest

\* A load or store that enters comes after all loads that have been sent for.
LEMMA IssueMemoryLoads == Inv /\ Inv' /\ QueueInv /\ LoadsInOrder /\ IssueMemory => LoadsInOrder'
<1> SUFFICES ASSUME Inv, Inv', QueueInv, LoadsInOrder, IssueMemory PROVE LoadsInOrder'
  OBVIOUS
<1> DEFINE inst == inst_queue_front(iq, index)
           op_type == op_type_of(inst.op)
           j == set_q_v(inst.rs1)
           k == IF inst.op \in StoreOp THEN set_q_v(inst.rs2) ELSE value(NA)
           id == rob_enqueue_id(rob)
           n == NUM_MEMORY_BUFFERS
<1>1. /\ phase = "issue" /\ index < batch_size /\ op_type \in {"LOAD"} \cup StoreType
      /\ phase' = phase /\ address_units' = address_units
      /\ rob' = rob_enqueue(rob, op_type, inst.rd, k.v, k.q, NA, NA)
      /\ mb' = memory_buffers_enqueue(mb, inst.op, j.q, k.q, j.v, k.v, inst.imm, id)
  BY DEF IssueMemory, Issuing, unitVars
<1>2. op_type \in OpType
  BY <1>1 DEF OpType, StoreType
<1>3. k.q \in {0} \cup RobIds
  <2>1. IsFile(regs) /\ dependencies \in [Regs -> {0} \cup RobIds]
    BY DEF Inv, Shapes
  <2>2. inst.rs1 \in Regs /\ inst.rs2 \in Regs
    BY <1>1, IssueMeets DEF IsInst
  <2> QED
    BY <2>1, <2>2, OperandIsId
<1> DEFINE q == k.q
           val == k.v
<1>4. q \in {0} \cup RobIds /\ rob' = rob_enqueue(rob, op_type, inst.rd, val, q, NA, NA)
  BY <1>1, <1>3
<1> HIDE DEF q, val
<1>5. Entered(rob, rob', id, op_type, inst.rd)
  BY <1>1, <1>2, <1>4, BatchEnters
<1>6. IsBuffers(mb, n) /\ n \in Nat /\ BuffersInStep(mb, rob)
      /\ mb.count_enqueue < memory_buffers_num_free(mb)
  BY <1>1, Sizes, IssueMeets DEF PoolsAre
<1>7. IsBuffers(mb', n) /\ IsRob(rob) /\ IsRob(rob')
  BY DEF Inv, Shapes
<1>8. QueueShape(mb, n) /\ QueueShape(mb', n)
  BY <1>6, <1>7, QueueShaped
<1>9. QueueJoins(mb', mb, n, id, inst.op)
  BY <1>1, <1>6, EnqueueJoins
<1> HIDE DEF j, k, id, inst, op_type
<1>10. PICK i : QueueJoined(mb', mb, n, i, id, inst.op)
  BY <1>9 DEF QueueJoins
<1>11. QueueSound(mb) /\ QueueGrows(mb)
  BY <1>1 DEF QueueInv, QueueSound
<1>12. QueueGains(mb'.next, mb.next, i, id, inst.op)
  BY <1>8, <1>10, <1>11, QueueAfterJoin
<1>13. i \in InQueue(mb'.next)
  BY <1>12 DEF QueueGains
<1>14. /\ BuffersFly(mb.next, rob) /\ StoresFly(address_units, rob)
       /\ IsAddressUnits(address_units, NUM_ADDRESS_UNITS)
  BY BuffersAreInFlight, StoresAreInFlight DEF Inv, Shapes
<1>15. BuffersFly(mb.next, rob)' /\ StoresFly(address_units, rob)'
  BY BuffersAreInFlight, StoresAreInFlight, PTL
<1>16. BuffersFly(mb'.next, rob') /\ StoresFly(address_units, rob')
  BY <1>1, <1>15
<1>17. LoadsBehind(mb.next, rob) /\ StoresFirst(address_units, mb.next, rob, phase, index)
  BY DEF LoadsInOrder
<1>18. LoadsBehind(mb'.next, rob')
  BY <1>5, <1>7, <1>8, <1>10, <1>13, <1>14, <1>17, EntersBehind
<1>19. FewerOutside(mb'.next, mb.next)
  <2>1. ASSUME NEW b \in Outside(mb'.next)
        PROVE  b \in Outside(mb.next) /\ mb'.next[b] = mb.next[b]
    <3>1. b # i
      BY <1>13 DEF Outside, InQueue
    <3>2. b \in 1 .. n /\ mb'.next[b] = mb.next[b]
      BY <1>8, <1>10, <3>1 DEF QueueJoined, QueueShape, Outside
    <3> QED
      BY <1>8, <3>2 DEF Outside, QueueShape
  <2> QED
    BY <2>1 DEF FewerOutside
<1>20. SameAges(rob', rob)
  BY <1>5, <1>7, AgesStay
<1>21. WorkGoesOn(address_units, address_units, phase, index, phase', index', 0)
  BY <1>1, <1>14, WorkRests
<1>22. StoresFirst(address_units, mb'.next, rob', phase', index')
  BY <1>7, <1>14, <1>16, <1>17, <1>19, <1>20, <1>21, StoresFirstStays
<1> QED
  BY <1>1, <1>18, <1>22 DEF LoadsInOrder

-----------------------------------------------------------------------------

(* The address units. *)

\* The order of the loads depends on who waits and on the front.
LEMMA SameOrder ==
    ASSUME NEW r, NEW new, new.front_next = r.front_next, NEW old, NEW copy, Fewer(copy, old),
           NEW units, NEW now, NEW n,
           LoadsBehind(old, r), StoresFirst(units, old, r, now, n)
    PROVE  LoadsBehind(copy, new) /\ StoresFirst(units, copy, new, now, n)
<1>1. \A id : AgeOf(new, id) = AgeOf(r, id)
  BY DEF AgeOf
<1>2. LoadsBehind(copy, new)
  BY <1>1 DEF LoadsBehind, Fewer, FewerOutside
<1>3. StoresFirst(units, copy, new, now, n)
  BY <1>1 DEF StoresFirst, Fewer, FewerOutside
<1> QED
  BY <1>2, <1>3

\* After the turn of a unit it is the turn of those behind it.
LEMMA TurnEnds ==
    ASSUME NEW n \in Nat, NEW units, IsAddressUnits(units, n), index \in Nat, index < n,
           phase = "address", Advance(n, "capture"),
           NEW copy, NEW r, StoresFirst(units, copy, r, "address", index + 1)
    PROVE  StoresFirst(units, copy, r, phase', index')
<1>1. ASSUME NEW u \in 1 .. n
      PROVE  Cycles(units, u, phase', index') = Cycles(units, u, "address", index + 1)
  <2>1. \/ phase' = "address" /\ index' = index + 1
        \/ phase' = "capture" /\ index + 1 = n
    BY DEF Advance
  <2>2. phase' = "capture" => ~(index + 1 < u)
    BY <2>1
  <2> QED
    BY <2>1, <2>2 DEF Cycles
<1>2. DOMAIN units = 1 .. n
  BY UnitCycles
<1>3. /\ \A u \in StoreUnits(units) : u \in 1 .. n
      /\ \A u \in LoadUnits(units) : u \in 1 .. n
  BY <1>2 DEF StoreUnits, LoadUnits
<1> QED
  BY <1>1, <1>3 DEF StoresFirst

\* Which units work for stores when unit i is replaced by u.
LEMMA StoresAfterPut ==
    ASSUME NEW n, NEW units, IsAddressUnits(units, n), NEW i \in 1 .. n,
           NEW u, IsAddressUnit(u)
    PROVE  /\ \A w : w # i => (w \in StoreUnits(Put(units, i, u)) <=> w \in StoreUnits(units))
           /\ i \in StoreUnits(Put(units, i, u)) <=> u.relative_cycle > 0 /\ u.is_store
           /\ \A w \in 1 .. n : w # i => \A now, m :
                  Cycles(Put(units, i, u), w, now, m) = Cycles(units, w, now, m)
           /\ IsAddressUnits(Put(units, i, u), n)
<1> DEFINE new == Put(units, i, u)
<1>1. /\ DOMAIN units = 1 .. n /\ DOMAIN new = 1 .. n /\ new[i] = u
      /\ \A w \in 1 .. n : w # i => new[w] = units[w]
  BY LoadsAfterPut
<1>2. IsAddressUnits(new, n)
  <2>1. PICK V : units \in [1 .. n -> AddressUnitOf(V)]
    BY DEF IsAddressUnits
  <2>2. PICK T : u \in AddressUnitOf(T)
    BY DEF IsAddressUnit
  <2>3. u \in AddressUnitOf(V \cup T) /\ units \in [1 .. n -> AddressUnitOf(V \cup T)]
    BY <2>1, <2>2 DEF AddressUnitOf
  <2>4. new \in [1 .. n -> AddressUnitOf(V \cup T)]
    BY <2>3 DEF Put
  <2> QED
    BY <2>4 DEF IsAddressUnits
<1> HIDE DEF new
<1>3. \A w : w # i => (w \in StoreUnits(new) <=> w \in StoreUnits(units))
  BY <1>1 DEF StoreUnits
<1>4. i \in StoreUnits(new) <=> u.relative_cycle > 0 /\ u.is_store
  BY <1>1 DEF StoreUnits
<1>5. \A w \in 1 .. n : w # i => \A now, m : Cycles(new, w, now, m) = Cycles(units, w, now, m)
  BY <1>1 DEF Cycles
<1> QED
  BY <1>2, <1>3, <1>4, <1>5 DEF new

\* A unit that has finished goes, and takes nobody's lead.
LEMMA FreedUnit ==
    ASSUME NEW n, NEW units, IsAddressUnits(units, n), NEW i \in 1 .. n,
           NEW u, IsAddressUnit(u), u.relative_cycle = 0,
           NEW copy, NEW r, NEW now, NEW m, StoresFirst(units, copy, r, now, m),
           Cycles(units, i, now, m) >= CYCLES_ADDRESS
    PROVE  StoresFirst(Put(units, i, u), copy, r, now, m)
<1> DEFINE new == Put(units, i, u)
<1>1. /\ DOMAIN units = 1 .. n /\ DOMAIN new = 1 .. n
      /\ \A w \in 1 .. n : w # i => new[w] = units[w]
      /\ \A w : w # i => (w \in LoadUnits(new) <=> w \in LoadUnits(units))
  BY LoadsAfterPut
<1>2. /\ \A w : w # i => (w \in StoreUnits(new) <=> w \in StoreUnits(units))
      /\ i \in StoreUnits(new) <=> u.relative_cycle > 0 /\ u.is_store
      /\ \A w \in 1 .. n : w # i => \A x, y : Cycles(new, w, x, y) = Cycles(units, w, x, y)
  BY StoresAfterPut
<1>3. i \notin StoreUnits(new)
  BY <1>2
<1> HIDE DEF new
<1>4. ASSUME NEW v \in StoreUnits(new), NEW b \in Outside(copy),
             AgeOf(r, new[v].dest_id) < AgeOf(r, copy[b].rob_id)
      PROVE  \/ Cycles(new, v, now, m) >= CYCLES_ADDRESS
             \/ \E w \in LoadUnits(new) :
                   /\ new[w].dest_id = b
                   /\ Cycles(new, w, now, m) <= Cycles(new, v, now, m)
  <2>1. v # i /\ v \in 1 .. n
    BY <1>1, <1>3 DEF StoreUnits
  <2>2. /\ v \in StoreUnits(units) /\ new[v] = units[v]
        /\ Cycles(new, v, now, m) = Cycles(units, v, now, m)
    BY <1>1, <1>2, <2>1
  <2>3. CASE Cycles(units, v, now, m) >= CYCLES_ADDRESS
    BY <2>2, <2>3
  <2>4. ASSUME NEW w \in LoadUnits(units), units[w].dest_id = b,
               Cycles(units, w, now, m) <= Cycles(units, v, now, m)
        PROVE  \/ Cycles(new, v, now, m) >= CYCLES_ADDRESS
               \/ /\ w \in LoadUnits(new) /\ new[w].dest_id = b
                  /\ Cycles(new, w, now, m) <= Cycles(new, v, now, m)
    <3>1. w \in 1 .. n
      BY <1>1 DEF LoadUnits
    <3>2. CASE w = i
      <4>1. Cycles(units, i, now, m) \in Nat /\ Cycles(units, v, now, m) \in Nat
        BY <2>1, UnitCycles
      <4> QED
        BY <2>2, <2>4, <3>2, <4>1, Sizes
    <3>3. CASE w # i
      BY <1>1, <1>2, <2>2, <2>4, <3>1, <3>3
    <3> QED
      BY <3>2, <3>3
  <2>5. AgeOf(r, units[v].dest_id) < AgeOf(r, copy[b].rob_id)
    BY <1>4, <2>2
  <2> QED
    BY <2>2, <2>3, <2>4, <2>5 DEF StoresFirst
<1>5. StoresFirst(new, copy, r, now, m)
  BY <1>4 DEF StoresFirst
<1> QED
  BY <1>5 DEF new

\* Whatever the unit at the index hands on, loads stay behind the stores before them.
LEMMA DeliverLoads ==
    ASSUME Inv, Inv', LoadsInOrder, phase = "address", Advance(NUM_ADDRESS_UNITS, "capture"),
           NEW u, IsAddressUnit(u), u.relative_cycle \in 1 .. CYCLES_ADDRESS,
           NEW buffers, IsBuffers(buffers, NUM_MEMORY_BUFFERS),
           LoadsBehind(buffers.next, rob),
           StoresFirst(Put(address_units, index + 1, u), buffers.next, rob, "address", index + 1),
           ~u.is_store => AwaitsAddress(buffers, u.dest_id),
           Deliver(u, buffers)
    PROVE  LoadsInOrder'
<1> DEFINE i == index + 1
           n == NUM_ADDRESS_UNITS
           m == NUM_MEMORY_BUFFERS
           units == Put(address_units, i, u)
           freed == Put(address_units, i, free(u))
<1>1. /\ index \in Nat /\ index < n /\ n \in Nat \ {0}
      /\ IsAddressUnits(address_units, n) /\ IsRob(rob)
  BY UnitsBefore, Sizes DEF UnitPhases
<1>2. i \in 1 .. n /\ DOMAIN address_units = 1 .. n
  BY <1>1 DEF IsAddressUnits
<1>3. /\ IsAddressUnit(free(u)) /\ free(u).relative_cycle = 0
  <2>1. PICK V : u \in AddressUnitOf(V)
    BY DEF IsAddressUnit
  <2> QED
    BY <2>1 DEF free, AddressUnitOf, IsAddressUnit
<1>4. /\ DOMAIN units = 1 .. n /\ units[i] = u
      /\ \A w \in 1 .. n : w # i => units[w] = address_units[w]
  BY <1>1, <1>2, LoadsAfterPut
<1>5. IsAddressUnits(units, n)
  BY <1>1, <1>2, StoresAfterPut
<1>6. freed = Put(units, i, free(u))
  BY <1>2, PutTwice
<1>7. /\ DOMAIN freed = 1 .. n /\ freed[i] = free(u)
      /\ \A w \in 1 .. n : w # i => freed[w] = address_units[w]
  BY <1>1, <1>2, <1>3, LoadsAfterPut
<1>8. IsAddressUnits(freed, n)
  BY <1>1, <1>2, <1>3, StoresAfterPut
<1>9. StoresFirst(units, buffers.next, rob, "address", i)
  OBVIOUS
<1>10. CYCLES_ADDRESS \in Nat /\ CYCLES_ADDRESS > 0
  BY Sizes
<1>11. \A w \in 1 .. n : w # i => address_units[w].relative_cycle < CYCLES_ADDRESS
  BY <1>2 DEF LoadsInOrder
<1> HIDE DEF units, freed
<1>12. CASE u.relative_cycle # CYCLES_ADDRESS
  <2>1. mb' = buffers /\ rob' = rob /\ address_units' = units
    BY <1>12 DEF Deliver, Put, units
  <2>2. StoresFirst(units, buffers.next, rob, phase', index')
    BY <1>1, <1>5, <1>9, TurnEnds
  <2>3. \A w \in DOMAIN units : units[w].relative_cycle < CYCLES_ADDRESS
    BY <1>4, <1>10, <1>11, <1>12
  <2> QED
    BY <2>1, <2>2, <2>3 DEF LoadsInOrder
<1>13. CASE u.relative_cycle = CYCLES_ADDRESS
  <2>1. \/ u.is_store /\ rob' = rob_add_address(rob, u.dest_id, u.address) /\ mb' = buffers
        \/ ~u.is_store /\ rob' = rob /\ mb' = memory_buffers_add_address(buffers, u.dest_id, u.address)
    BY <1>13 DEF Deliver
  <2>2. address_units' = freed
    BY <1>13 DEF Deliver, Put, freed
  <2>3. Cycles(units, i, "address", i) >= CYCLES_ADDRESS
    BY <1>1, <1>4, <1>10, <1>13 DEF Cycles
  <2>4. StoresFirst(freed, buffers.next, rob, "address", i)
    BY <1>2, <1>3, <1>5, <1>6, <1>9, <2>3, FreedUnit
  <2>5. StoresFirst(freed, buffers.next, rob, phase', index')
    BY <1>1, <1>8, <2>4, TurnEnds
  <2>6. rob'.front_next = rob.front_next
    <3>1. PICK V : rob \in RobState(V)
      BY <1>1 DEF IsRob
    <3>2. \A id, address : rob_add_address(rob, id, address).front_next = rob.front_next
      BY <3>1 DEF rob_add_address, RobState
    <3> QED
      BY <2>1, <3>2
  <2>7. Fewer(mb'.next, buffers.next)
    <3>1. CASE mb' = buffers
      BY <3>1, SameBuffers
    <3>2. CASE ~u.is_store /\ mb' = memory_buffers_add_address(buffers, u.dest_id, u.address)
      <4> DEFINE b == u.dest_id
      <4>1. AwaitsAddress(buffers, b)
        BY <3>2
      <4>2. QueueShape(buffers, m)
        BY QueueShaped
      <4>3. QueueShape(mb', m)
        <5>1. IsBuffers(mb', m)
          BY DEF Inv, Shapes
        <5> QED
          BY <5>1, QueueShaped
      <4>4. QueueAddressed(mb', buffers, m, b, u.address)
        BY <3>2, AddAddresses
      <4> HIDE DEF b
      <4>5. b \in 1 .. m /\ buffers.next[b].busy /\ buffers.next[b].queue_pos = 0
        BY <4>1, <4>2 DEF AwaitsAddress, QueueShape
      <4>6. /\ mb'.next[b].rob_id = buffers.next[b].rob_id /\ mb'.next[b].op = buffers.next[b].op
            /\ mb'.next[b].queue_pos = 0
        BY <4>4, <4>5 DEF QueueAddressed
      <4>7. \A k \in 1 .. m : k # b => mb'.next[k] = buffers.next[k]
        BY <4>4 DEF QueueAddressed
      <4>8. DOMAIN mb'.next = 1 .. m /\ DOMAIN buffers.next = 1 .. m
        BY <4>2, <4>3 DEF QueueShape
      <4>9. FewerOutside(mb'.next, buffers.next)
        BY <4>5, <4>6, <4>7, <4>8 DEF FewerOutside, Outside
      <4>10. \A k \in InQueue(mb'.next) :
                 /\ k \in InQueue(buffers.next)
                 /\ mb'.next[k].rob_id = buffers.next[k].rob_id /\ mb'.next[k].op = buffers.next[k].op
        BY <4>5, <4>6, <4>7, <4>8 DEF InQueue
      <4> QED
        BY <4>9, <4>10 DEF Fewer
    <3> QED
      BY <2>1, <3>1, <3>2
  <2>8. LoadsBehind(mb'.next, rob') /\ StoresFirst(freed, mb'.next, rob', phase', index')
    BY <2>5, <2>6, <2>7, SameOrder
  <2>9. \A w \in DOMAIN freed : freed[w].relative_cycle < CYCLES_ADDRESS
    BY <1>3, <1>7, <1>10, <1>11
  <2> QED
    BY <2>2, <2>8, <2>9 DEF LoadsInOrder
<1> QED
  BY <1>12, <1>13

\* A unit that counts on keeps its lead.
LEMMA WorkCounts ==
    ASSUME NEW n, NEW units, IsAddressUnits(units, n), NEW k \in Nat, k + 1 \in 1 .. n,
           units[k + 1].relative_cycle > 0, NEW copy, NEW r,
           StoresFirst(units, copy, r, "address", k)
    PROVE  StoresFirst(Put(units, k + 1, count(units[k + 1])), copy, r, "address", k + 1)
<1> DEFINE i == k + 1
           u == count(units[i])
           new == Put(units, i, u)
<1>1. /\ IsAddressUnit(u) /\ units[i].relative_cycle \in Nat
      /\ u.relative_cycle = units[i].relative_cycle + 1
      /\ u.dest_id = units[i].dest_id /\ u.is_store = units[i].is_store
  BY AddressUnitFields
<1> HIDE DEF u
<1>2. /\ DOMAIN units = 1 .. n /\ DOMAIN new = 1 .. n /\ new[i] = u
      /\ \A w \in 1 .. n : w # i => new[w] = units[w]
  BY <1>1, LoadsAfterPut
<1> HIDE DEF new
<1>3. ASSUME NEW w \in 1 .. n
      PROVE  /\ new[w].dest_id = units[w].dest_id /\ new[w].is_store = units[w].is_store
             /\ new[w].relative_cycle > 0 <=> units[w].relative_cycle > 0
             /\ Cycles(new, w, "address", i) = Cycles(units, w, "address", k)
  <2>1. CASE w = i
    BY <1>1, <1>2, <2>1 DEF Cycles
  <2>2. CASE w # i
    <3>1. k < w <=> i < w
      BY <2>2
    <3> QED
      BY <1>2, <2>2, <3>1 DEF Cycles
  <2> QED
    BY <2>1, <2>2
<1>4. /\ \A w : w \in StoreUnits(new) <=> w \in StoreUnits(units)
      /\ \A w : w \in LoadUnits(new) <=> w \in LoadUnits(units)
      /\ \A w \in StoreUnits(units) : w \in 1 .. n
      /\ \A w \in LoadUnits(units) : w \in 1 .. n
  BY <1>2, <1>3 DEF StoreUnits, LoadUnits
<1>5. StoresFirst(new, copy, r, "address", i)
  BY <1>3, <1>4 DEF StoresFirst
<1> QED
  BY <1>5 DEF new, u

\* The buffers after buffer k has been sent to an address unit: a store has gone, a load waits.
LEMMA SentOutside ==
    ASSUME NEW n \in Nat, NEW buffers, IsBuffers(buffers, n), NEW new, IsBuffers(new, n),
           NEW r, BuffersInStep(buffers, r),
           NEW k, QueueLeft(new, buffers, n, k), QueueSound(buffers)
    PROVE  /\ \A i \in Outside(new.next) :
                 /\ new.next[i].rob_id = buffers.next[i].rob_id
                 /\ new.next[i].op = buffers.next[i].op
                 /\ \/ i \in Outside(buffers.next)
                    \/ i = k /\ buffers.current[k].op \notin StoreOp
           /\ \A i \in InQueue(new.next) :
                 /\ i \in InQueue(buffers.next)
                 /\ new.next[i].rob_id = buffers.next[i].rob_id
                 /\ new.next[i].op = buffers.next[i].op
           /\ k \in InQueue(buffers.next)
           /\ buffers.next[k].rob_id = buffers.current[k].rob_id
           /\ buffers.next[k].op = buffers.current[k].op
<1>1. QueueShape(buffers, n) /\ QueueShape(new, n)
  BY QueueShaped
<1>2. /\ k \in 1 .. n /\ buffers.current[k].busy
      /\ k \in InQueue(buffers.current) /\ k \in InQueue(buffers.next)
  BY LeavesFromQueue
<1>3. buffers.next[k].rob_id = buffers.current[k].rob_id /\ buffers.next[k].op = buffers.current[k].op
  BY <1>1, <1>2 DEF BuffersInStep, QueueShape
<1>4. KeepsOrder(new.next, buffers.next)
  BY QueueAfterLeave
<1>5. ASSUME NEW i \in Outside(new.next)
      PROVE  /\ new.next[i].rob_id = buffers.next[i].rob_id
             /\ new.next[i].op = buffers.next[i].op
             /\ \/ i \in Outside(buffers.next)
                \/ i = k /\ buffers.current[k].op \notin StoreOp
  <2>1. i \in 1 .. n /\ new.next[i].busy /\ new.next[i].queue_pos = 0
    BY <1>1 DEF Outside, QueueShape
  <2>2. CASE i = k
    BY <2>1, <2>2 DEF QueueLeft
  <2>3. CASE i # k
    <3>1. MovesUp(new.next[i], buffers.next[i], buffers.next[k].queue_pos)
      BY <2>1, <2>3 DEF QueueLeft
    <3>2. buffers.next[k].queue_pos >= 1
      BY <1>2 DEF QueueSound, Ordered
    <3>3. buffers.next[i].queue_pos \in Int /\ buffers.next[k].queue_pos \in Int
      BY <1>1, <1>2, <2>1 DEF QueueShape
    <3>4. buffers.next[i].busy /\ buffers.next[i].queue_pos = 0
      BY <2>1, <3>1, <3>2, <3>3 DEF MovesUp
    <3> QED
      BY <1>1, <2>1, <3>1, <3>4 DEF MovesUp, Outside, QueueShape
  <2> QED
    BY <2>2, <2>3
<1> QED
  BY <1>2, <1>3, <1>4, <1>5 DEF KeepsOrder

\* A load that is sent leaves no store behind it, so none is before one that is outside.
LEMMA SentBehind ==
    ASSUME NEW n \in Nat, NEW buffers, IsBuffers(buffers, n), NEW new, IsBuffers(new, n),
           NEW r, BuffersInStep(buffers, r),
           NEW k, QueueLeft(new, buffers, n, k), QueueSound(buffers), ByAge(buffers.next, r),
           buffers.current[k].op \in LoadOp \cup StoreOp, LoadsBehind(buffers.next, r)
    PROVE  LoadsBehind(new.next, r)
<1>1. ASSUME NEW i \in Outside(new.next)
      PROVE  /\ new.next[i].rob_id = buffers.next[i].rob_id
             /\ new.next[i].op = buffers.next[i].op
             /\ \/ i \in Outside(buffers.next)
                \/ i = k /\ buffers.current[k].op \notin StoreOp
  BY SentOutside
<1>2. ASSUME NEW i \in InQueue(new.next)
      PROVE  /\ i \in InQueue(buffers.next)
             /\ new.next[i].rob_id = buffers.next[i].rob_id
             /\ new.next[i].op = buffers.next[i].op
  BY SentOutside
<1>3. k \in InQueue(buffers.next) /\ buffers.next[k].op = buffers.current[k].op
  BY SentOutside
<1>4. ASSUME NEW i \in Outside(new.next) PROVE new.next[i].op \notin StoreOp
  BY <1>1, <1>3 DEF LoadsBehind
<1>5. ASSUME NEW i \in Outside(new.next), NEW l \in InQueue(new.next), new.next[l].op \in StoreOp
      PROVE  AgeOf(r, new.next[i].rob_id) < AgeOf(r, new.next[l].rob_id)
  <2>1. l \in InQueue(buffers.next) /\ buffers.next[l].op \in StoreOp
    BY <1>2, <1>5
  <2>2. CASE i \in Outside(buffers.next)
    BY <1>1, <1>2, <2>1, <2>2 DEF LoadsBehind
  <2>3. CASE i = k /\ buffers.current[k].op \notin StoreOp
    <3>1. buffers.next[k].queue_pos < buffers.next[l].queue_pos
      BY <2>1, <2>3, LoadLeavesLast
    <3> QED
      BY <1>1, <1>2, <1>3, <2>1, <2>3, <3>1 DEF ByAge
  <2> QED
    BY <1>1, <2>2, <2>3
<1> QED
  BY <1>4, <1>5 DEF LoadsBehind

\* A unit that takes a store takes it before every load that has been sent for; one that takes a
\* load takes it after every store that comes before.
LEMMA UnitStarts ==
    ASSUME NEW n \in Nat, NEW buffers, IsBuffers(buffers, n), NEW new, IsBuffers(new, n),
           NEW r, IsRob(r), BuffersInStep(buffers, r), BuffersFly(buffers.next, r),
           NEW k, QueueLeft(new, buffers, n, k), QueueSound(buffers), LoadsBehind(buffers.next, r),
           NEW m, NEW units, IsAddressUnits(units, m), NEW j \in Nat, j + 1 \in 1 .. m,
           units[j + 1].relative_cycle = 0,
           StoresFirst(units, buffers.next, r, "address", j),
           NEW u, IsAddressUnit(u), u.relative_cycle = 1,
           u.is_store => buffers.current[k].op \in StoreOp /\ u.dest_id = buffers.current[k].rob_id,
           ~u.is_store => buffers.current[k].op \notin StoreOp /\ u.dest_id = k
    PROVE  StoresFirst(Put(units, j + 1, u), new.next, r, "address", j + 1)
<1> DEFINE i == j + 1
           now == Put(units, i, u)
<1>1. ASSUME NEW b \in Outside(new.next)
      PROVE  /\ new.next[b].rob_id = buffers.next[b].rob_id
             /\ \/ b \in Outside(buffers.next)
                \/ b = k /\ buffers.current[k].op \notin StoreOp
  BY <1>1, SentOutside
<1>2. /\ k \in InQueue(buffers.next)
      /\ buffers.next[k].rob_id = buffers.current[k].rob_id
      /\ buffers.next[k].op = buffers.current[k].op
  BY SentOutside
<1>3. /\ DOMAIN units = 1 .. m /\ DOMAIN now = 1 .. m /\ now[i] = u
      /\ \A w \in 1 .. m : w # i => now[w] = units[w]
      /\ \A w : w # i => (w \in LoadUnits(now) <=> w \in LoadUnits(units))
      /\ i \in LoadUnits(now) <=> u.relative_cycle > 0 /\ ~u.is_store
  BY LoadsAfterPut
<1>4. /\ \A w : w # i => (w \in StoreUnits(now) <=> w \in StoreUnits(units))
      /\ i \in StoreUnits(now) <=> u.relative_cycle > 0 /\ u.is_store
      /\ IsAddressUnits(now, m)
  BY StoresAfterPut
<1> HIDE DEF now
<1>5. ASSUME NEW w \in 1 .. m, w # i
      PROVE  Cycles(now, w, "address", i) = Cycles(units, w, "address", j)
  <2>1. j < w <=> i < w
    BY <1>5
  <2> QED
    BY <1>3, <1>5, <2>1 DEF Cycles
<1>6. i \notin LoadUnits(units)
  BY DEF LoadUnits
<1>7. Cycles(now, i, "address", i) = 1
  BY <1>3 DEF Cycles
<1>8. ASSUME NEW v \in StoreUnits(now), NEW b \in Outside(new.next),
             AgeOf(r, now[v].dest_id) < AgeOf(r, new.next[b].rob_id)
      PROVE  \/ Cycles(now, v, "address", i) >= CYCLES_ADDRESS
             \/ \E w \in LoadUnits(now) :
                   /\ now[w].dest_id = b
                   /\ Cycles(now, w, "address", i) <= Cycles(now, v, "address", i)
  <2>1. v \in 1 .. m
    BY <1>3 DEF StoreUnits
  <2>2. CASE v = i
    <3>1. u.is_store
      BY <1>4, <2>2
    <3>2. now[v].dest_id = buffers.next[k].rob_id /\ buffers.next[k].op \in StoreOp
      BY <1>2, <1>3, <2>2, <3>1
    <3>3. b \in Outside(buffers.next) /\ new.next[b].rob_id = buffers.next[b].rob_id
      BY <1>1, <1>2, <3>2
    <3>4. AgeOf(r, buffers.next[b].rob_id) < AgeOf(r, buffers.next[k].rob_id)
      BY <1>2, <3>2, <3>3 DEF LoadsBehind
    <3>5. buffers.next[b].rob_id \in RobIds /\ buffers.next[k].rob_id \in RobIds
      BY <1>2, <3>3 DEF BuffersFly, Outside, InQueue, Flying
    <3>6. AgeOf(r, buffers.next[b].rob_id) \in Int /\ AgeOf(r, buffers.next[k].rob_id) \in Int
      BY <3>5, AgeType
    <3> QED
      BY <1>8, <3>2, <3>3, <3>4, <3>6
  <2>3. CASE v # i
    <3>1. v \in StoreUnits(units) /\ now[v] = units[v]
      BY <1>3, <1>4, <2>1, <2>3
    <3>2. Cycles(now, v, "address", i) = Cycles(units, v, "address", j)
      BY <1>5, <2>1, <2>3
    <3>3. CASE b \in Outside(buffers.next)
      <4>1. AgeOf(r, units[v].dest_id) < AgeOf(r, buffers.next[b].rob_id)
        BY <1>1, <1>8, <3>1
      <4>2. \/ Cycles(units, v, "address", j) >= CYCLES_ADDRESS
            \/ \E w \in LoadUnits(units) :
                  /\ units[w].dest_id = b
                  /\ Cycles(units, w, "address", j) <= Cycles(units, v, "address", j)
        BY <3>1, <3>3, <4>1 DEF StoresFirst
      <4>3. ASSUME NEW w \in LoadUnits(units)
            PROVE  /\ w \in LoadUnits(now) /\ now[w] = units[w]
                   /\ Cycles(now, w, "address", i) = Cycles(units, w, "address", j)
        <5>1. w # i /\ w \in 1 .. m
          BY <1>3, <1>6 DEF LoadUnits
        <5> QED
          BY <1>3, <1>5, <5>1
      <4> QED
        BY <3>2, <4>2, <4>3
    <3>4. CASE b = k /\ buffers.current[k].op \notin StoreOp
      <4>1. ~u.is_store /\ u.dest_id = k
        BY <3>4
      <4>2. i \in LoadUnits(now) /\ now[i].dest_id = b
        BY <1>3, <3>4, <4>1
      <4>3. now[v].relative_cycle > 0 /\ now[v].relative_cycle \in Nat
        <5>1. now[v].relative_cycle > 0
          BY DEF StoreUnits
        <5>2. now[v].relative_cycle \in Nat
          BY <1>4, <2>1, UnitCycles
        <5> QED
          BY <5>1, <5>2
      <4>4. 1 <= Cycles(now, v, "address", i)
        BY <4>3 DEF Cycles
      <4> QED
        BY <1>7, <4>2, <4>4
    <3> QED
      BY <1>1, <3>3, <3>4
  <2> QED
    BY <2>2, <2>3
<1>9. StoresFirst(now, new.next, r, "address", i)
  BY <1>8 DEF StoresFirst
<1> QED
  BY <1>9 DEF now

\* Entry e waits for buffer b.
HeldInBuffer(b, e) ==
    /\ ~e.ready
    /\ b.op \in LoadOp \cup StoreOp
    /\ b.op \in LoadOp => e.op_type = "LOAD"
    /\ b.op \in StoreOp => IsStore(e.op_type)
    /\ IsStore(e.op_type) => e.dest = 0

\* Whoever is in a buffer has not finished.
LEMMA BufferIsHeld ==
    ASSUME Inv, NEW i \in DOMAIN mb.next, mb.next[i].busy
    PROVE  HeldInBuffer(mb.next[i], rob.queue_next[mb.next[i].rob_id - 1])
<1> DEFINE h == Holder("mb", i, mb.next[i].rob_id, mb.next[i].op)
<1>1. h \in InPool("mb", mb.next)
  BY PoolMember
<1>2. h[1] = "mb" /\ h[3] = mb.next[i].rob_id /\ h[4] = mb.next[i].op
  BY HolderParts
<1> HIDE DEF h
<1>3. h \in Held /\ Settled(Held, rob)
  BY <1>1, HeldMember DEF Inv
<1>4. ~rob.queue_next[h[3] - 1].ready /\ Fits(h, rob.queue_next[h[3] - 1])
  BY <1>3, SettledMember
<1> QED
  BY <1>2, <1>4 DEF Fits, HeldInBuffer

\* The turn of an address unit.
LEMMA AddressStepLoads == Inv /\ Inv' /\ QueueInv /\ LoadsInOrder /\ AddressStep => LoadsInOrder'
<1> SUFFICES ASSUME Inv, Inv', QueueInv, LoadsInOrder, AddressStep PROVE LoadsInOrder'
  OBVIOUS
<1> DEFINE i == index + 1
           unit == address_units[i]
           n == NUM_ADDRESS_UNITS
           m == NUM_MEMORY_BUFFERS
<1>1. phase = "address" /\ Advance(n, "capture")
  BY DEF AddressStep
<1>2. /\ index \in Nat /\ index < n /\ n \in Nat \ {0} /\ m \in Nat
      /\ IsAddressUnits(address_units, n) /\ IsRob(rob)
      /\ IsBuffers(mb, m) /\ BuffersInStep(mb, rob)
  <2>1. phase \in UnitPhases
    BY <1>1 DEF UnitPhases
  <2> QED
    BY <1>1, <2>1, UnitsBefore, Sizes
<1>3. i \in 1 .. n /\ DOMAIN address_units = 1 .. n
  BY <1>2 DEF IsAddressUnits
<1>4. /\ unit.relative_cycle \in Nat /\ IsAddressUnit(count(unit))
      /\ count(unit).relative_cycle = unit.relative_cycle + 1
      /\ count(unit).dest_id = unit.dest_id
      /\ count(unit).is_store = unit.is_store
  BY <1>2, <1>3, AddressUnitFields
<1>5. QueueSound(mb) /\ AddressesToCome(address_units, mb) /\ ByAge(mb.next, rob)
  BY <1>1 DEF QueueInv, QueueSound
<1>6. /\ LoadsBehind(mb.next, rob) /\ StoresFirst(address_units, mb.next, rob, "address", index)
      /\ \A w \in DOMAIN address_units : address_units[w].relative_cycle < CYCLES_ADDRESS
  BY <1>1 DEF LoadsInOrder
<1>7. BuffersFly(mb.next, rob)
  BY BuffersAreInFlight
<1>8. ASSUME NEW k \in address_candidate(mb), NEW address, NEW id,
             unit.relative_cycle = 0,
             id = IF mb.current[k].op \in StoreOp THEN mb.current[k].rob_id ELSE k,
             Deliver([relative_cycle |-> 1, is_store |-> mb.current[k].op \in StoreOp,
                      address |-> address, dest_id |-> id],
                     memory_buffers_dequeue_address(mb, k))
      PROVE  LoadsInOrder'
  <2> DEFINE is_store == mb.current[k].op \in StoreOp
             u == [relative_cycle |-> 1, is_store |-> is_store,
                   address |-> address, dest_id |-> id]
             buffers == memory_buffers_dequeue_address(mb, k)
  <2>1. Deliver(u, buffers)
    BY <1>8
  <2>2. IsBuffers(buffers, m)
    <3>1. AddressLeaves(buffers, mb, m, rob, "mb", k)
      BY <1>2, <1>8, LeaveForAddress
    <3> QED
      BY <3>1 DEF AddressLeaves, BuffersAfter
  <2>3. QueueLeft(buffers, mb, m, k)
    BY <1>2, <1>8, DequeueAddressLeaves
  <2>4. /\ u.relative_cycle = 1 /\ u.is_store = is_store /\ u.dest_id = id
    OBVIOUS
  <2>5. IsAddressUnit(u)
    <3>1. u \in AddressUnitOf({address, id})
      BY DEF AddressUnitOf
    <3> QED
      BY <3>1 DEF IsAddressUnit
  <2> HIDE DEF u, buffers
  <2>6. /\ k \in 1 .. m /\ mb.current[k].busy
        /\ k \in InQueue(mb.current) /\ k \in InQueue(mb.next)
    BY <1>2, <1>5, <2>3, LeavesFromQueue
  <2>7. QueueShape(mb, m)
    BY <1>2, QueueShaped
  <2>8. mb.current[k].op \in LoadOp \cup StoreOp
    <3>1. mb.next[k].op \in LoadOp \cup StoreOp
      BY <2>6, BufferIsHeld DEF InQueue, HeldInBuffer
    <3> QED
      BY <1>2, <2>6, <2>7, <3>1 DEF BuffersInStep, QueueShape
  <2>9. LoadsBehind(buffers.next, rob)
    BY <1>2, <1>5, <1>6, <2>2, <2>3, <2>8, SentBehind
  <2>10. /\ u.is_store => mb.current[k].op \in StoreOp /\ u.dest_id = mb.current[k].rob_id
         /\ ~u.is_store => mb.current[k].op \notin StoreOp /\ u.dest_id = k
    BY <1>8, <2>4
  <2>11. StoresFirst(Put(address_units, i, u), buffers.next, rob, "address", i)
    BY <1>2, <1>3, <1>5, <1>6, <1>7, <1>8, <2>2, <2>3, <2>4, <2>5, <2>10, UnitStarts
  <2>12. ASSUME ~u.is_store PROVE AwaitsAddress(buffers, u.dest_id)
    <3>1. mb.current[k].op \notin StoreOp /\ u.dest_id = k
      BY <2>10, <2>12
    <3>2. /\ buffers.next[k].busy = mb.next[k].busy
          /\ buffers.next[k].op = mb.next[k].op
          /\ buffers.next[k].a = 0 /\ buffers.next[k].queue_pos = 0
          /\ buffers.current = mb.current
      BY <2>3, <3>1 DEF QueueLeft
    <3>3. mb.next[k].busy /\ mb.current[k].queue_pos # 0
      BY <2>6 DEF InQueue
    <3>4. mb.next[k].op = mb.current[k].op
      BY <1>2, <2>6, <2>7 DEF BuffersInStep, QueueShape
    <3>5. AwaitsAddress(buffers, k)
      BY <2>6, <2>7, <3>1, <3>2, <3>3, <3>4 DEF AwaitsAddress, QueueShape
    <3> QED
      BY <3>1, <3>5
  <2>13. u.relative_cycle \in 1 .. CYCLES_ADDRESS
    BY <2>4, Sizes
  <2> QED
    BY <1>1, <2>1, <2>2, <2>5, <2>9, <2>11, <2>12, <2>13, DeliverLoads
<1>9. CASE unit.relative_cycle > 0 /\ Deliver(count(unit), mb)
  <2> DEFINE u == count(unit)
  <2>1. StoresFirst(Put(address_units, i, u), mb.next, rob, "address", i)
    BY <1>2, <1>3, <1>6, <1>9, WorkCounts
  <2>2. u.relative_cycle \in 1 .. CYCLES_ADDRESS
    <3>1. unit.relative_cycle < CYCLES_ADDRESS
      BY <1>3, <1>6
    <3> QED
      BY <1>4, <3>1, Sizes
  <2>3. ASSUME ~u.is_store PROVE AwaitsAddress(mb, u.dest_id)
    <3>1. i \in LoadUnits(address_units)
      BY <1>3, <1>4, <1>9, <2>3 DEF LoadUnits
    <3>2. AwaitsAddress(mb, unit.dest_id)
      BY <1>5, <3>1 DEF AddressesToCome
    <3> QED
      BY <1>4, <3>2
  <2> QED
    BY <1>1, <1>2, <1>4, <1>6, <1>9, <2>1, <2>2, <2>3, DeliverLoads
<1>10. CASE unit.relative_cycle = 0 /\ mb' = mb /\ rob' = rob /\ address_units' = address_units
  <2>1. ASSUME NEW w \in StoreUnits(address_units) \cup LoadUnits(address_units)
        PROVE  Cycles(address_units, w, "address", i) = Cycles(address_units, w, "address", index)
    <3>1. w # i /\ w \in 1 .. n
      BY <1>3, <1>10 DEF StoreUnits, LoadUnits
    <3>2. index < w <=> i < w
      BY <1>2, <3>1
    <3> QED
      BY <3>2 DEF Cycles
  <2>2. StoresFirst(address_units, mb.next, rob, "address", i)
    BY <1>6, <2>1 DEF StoresFirst
  <2>3. StoresFirst(address_units, mb.next, rob, phase', index')
    BY <1>1, <1>2, <2>2, TurnEnds
  <2> QED
    BY <1>6, <1>10, <2>3 DEF LoadsInOrder
<1>11. \/ unit.relative_cycle = 0 /\ \E k \in address_candidate(mb) : \E address, id :
            /\ id = IF mb.current[k].op \in StoreOp THEN mb.current[k].rob_id ELSE k
            /\ Deliver([relative_cycle |-> 1, is_store |-> mb.current[k].op \in StoreOp,
                        address |-> address, dest_id |-> id],
                       memory_buffers_dequeue_address(mb, k))
       \/ unit.relative_cycle = 0 /\ mb' = mb /\ rob' = rob /\ address_units' = address_units
       \/ unit.relative_cycle > 0 /\ Deliver(count(unit), mb)
  BY DEF AddressStep
<1> QED
  BY <1>8, <1>9, <1>10, <1>11

-----------------------------------------------------------------------------

\* What AgesStay says of the steps that leave the front alone.
LEMMA FrontStays ==
    /\ \A id, address : IsRob(rob) => SameAges(rob_add_address(rob, id, address), rob)
    /\ \A id, npc : IsRob(rob) => SameAges(rob_add_npc_actual(rob, id, npc), rob)
    /\ \A bus : IsRob(rob) => SameAges(rob_step(rob, bus), rob)
<1> SUFFICES ASSUME IsRob(rob)
             PROVE  /\ \A id, address : SameAges(rob_add_address(rob, id, address), rob)
                    /\ \A id, npc : SameAges(rob_add_npc_actual(rob, id, npc), rob)
                    /\ \A bus : SameAges(rob_step(rob, bus), rob)
  OBVIOUS
<1>1. PICK V : rob \in RobState(V)
  BY DEF IsRob
<1>2. /\ \A id, address : rob_add_address(rob, id, address).front_next = rob.front_next
      /\ \A id, npc : rob_add_npc_actual(rob, id, npc).front_next = rob.front_next
      /\ \A bus : rob_step(rob, bus).front_next = rob.front_next
  BY <1>1 DEF rob_add_address, rob_add_npc_actual, rob_step, RobState
<1> QED
  BY <1>2, AgesStay

\* The front end, and a commit that finds nothing.
LEMMA FrontLoads ==
    Inv /\ Inv' /\ LoadsInOrder
        /\ (Fetch \/ DecodeLatch \/ DecodeStalls \/ DecodeFails \/ EndIssue \/ CommitNothing)
        => LoadsInOrder'
<1> SUFFICES ASSUME Inv, Inv', LoadsInOrder,
                    \/ Fetch \/ DecodeLatch \/ DecodeStalls \/ DecodeFails \/ EndIssue
                    \/ CommitNothing
             PROVE  LoadsInOrder'
  OBVIOUS
<1>1. /\ phase \in {"fetch", "decode", "issue", "commit"} /\ phase' # "address"
      /\ mb' = mb /\ address_units' = address_units /\ rob' = rob
  BY DEF Fetch, DecodeLatch, DecodeStalls, DecodeFails, EndIssue, CommitNothing, Advance,
         issueVars, unitVars
<1>2. SameAges(rob', rob)
  BY <1>1, AgesStay DEF Inv, Shapes
<1> QED
  BY <1>1, <1>2, LoadsUntouched

\* An instruction that does not go to the buffers.
LEMMA IssueOthersLoads == Inv /\ Inv' /\ LoadsInOrder /\ (IssueAl \/ IssueBranch) => LoadsInOrder'
<1> SUFFICES ASSUME Inv, Inv', LoadsInOrder, IssueAl \/ IssueBranch PROVE LoadsInOrder'
  OBVIOUS
<1> DEFINE inst == inst_queue_front(iq, index)
           op_type == op_type_of(inst.op)
<1>1. PICK npc_pred, inst_pc :
        /\ phase = "issue" /\ phase' = phase /\ index < batch_size
        /\ op_type \in {"AL", "JUMP", "BRANCH"}
        /\ mb' = mb /\ address_units' = address_units
        /\ rob' = rob_enqueue(rob, op_type, inst.rd, NA, NA, npc_pred, inst_pc)
  BY DEF IssueAl, IssueBranch, Issuing, unitVars
<1>2. op_type \in OpType /\ NA \in {0} \cup RobIds
  BY <1>1 DEF OpType, NA
<1>3. Entered(rob, rob', rob_enqueue_id(rob), op_type, inst.rd)
  BY <1>1, <1>2, BatchEnters
<1>4. SameAges(rob', rob)
  BY <1>3, AgesStay DEF Inv, Shapes
<1> HIDE DEF inst, op_type
<1> QED
  BY <1>1, <1>4, LoadsUntouched

\* The ALUs and the branch units leave the buffers alone.
LEMMA AluBranchLoads == Inv /\ Inv' /\ LoadsInOrder /\ (AluStep \/ BranchStep) => LoadsInOrder'
<1> SUFFICES ASSUME Inv, Inv', LoadsInOrder, AluStep \/ BranchStep PROVE LoadsInOrder'
  OBVIOUS
<1>1. /\ phase \in {"alu", "branch"} /\ phase' # "address"
      /\ mb' = mb /\ address_units' = address_units
      /\ rob' = rob \/ \E id, npc_actual : rob' = rob_add_npc_actual(rob, id, npc_actual)
  BY DEF AluStep, BranchStep, Advance
<1>2. SameAges(rob', rob)
  BY <1>1, AgesStay, FrontStays DEF Inv, Shapes
<1> QED
  BY <1>1, <1>2, LoadsUntouched

\* A load that is read from memory goes; the others are where they were.
LEMMA MemoryStepLoads == Inv /\ Inv' /\ LoadsInOrder /\ MemoryStep => LoadsInOrder'
<1> SUFFICES ASSUME Inv, Inv', LoadsInOrder, MemoryStep PROVE LoadsInOrder'
  OBVIOUS
<1> DEFINE n == NUM_MEMORY_BUFFERS
<1>1. /\ phase = "memory" /\ (phase' = "address" => index' = 0)
      /\ \/ mb' = mb
         \/ \E i \in memory_candidate(mb, rob) : mb' = memory_buffers_dequeue_memory(mb, i)
      /\ rob' = rob /\ address_units' = address_units
  BY DEF MemoryStep, Advance
<1>2. SameAges(rob', rob)
  BY <1>1, AgesStay DEF Inv, Shapes
<1>3. CASE mb' = mb
  BY <1>1, <1>2, <1>3, LoadsUntouched
<1>4. ASSUME NEW i \in memory_candidate(mb, rob), mb' = memory_buffers_dequeue_memory(mb, i)
      PROVE  LoadsInOrder'
  <2>1. IsBuffers(mb, n) /\ IsBuffers(mb', n) /\ n \in Nat
    BY Sizes DEF Inv, Shapes
  <2>2. DOMAIN mb.next = 1 .. n /\ DOMAIN mb'.next = 1 .. n
    BY <2>1, BufferFields
  <2>3. QueueSpared(mb', mb, n, i)
    BY <1>4, <2>1, DequeueMemorySpares
  <2>4. ASSUME NEW k \in DOMAIN mb'.next, mb'.next[k].busy
        PROVE  SameInQueue(mb'.next[k], mb.next[k])
    <3>1. mb'.next[k] = mb.next[k]
      BY <2>2, <2>3, <2>4 DEF QueueSpared
    <3> QED
      BY <3>1, SameLoads
  <2>5. Fewer(mb'.next, mb.next)
    BY <2>2, <2>4, FewerStay
  <2> QED
    BY <1>1, <1>2, <2>5, LoadsRest
<1> QED
  BY <1>1, <1>3, <1>4

\* What is heard on the bus neither sends nor drops a buffer.
LEMMA CaptureLoads == Inv /\ Inv' /\ LoadsInOrder /\ Capture => LoadsInOrder'
<1> SUFFICES ASSUME Inv, Inv', LoadsInOrder, Capture PROVE LoadsInOrder'
  OBVIOUS
<1> DEFINE n == NUM_MEMORY_BUFFERS
<1>1. /\ phase = "capture" /\ phase' = "commit" /\ address_units' = address_units
      /\ mb' = memory_buffers_step(mb, cdb) /\ rob' = rob_step(rob, cdb)
  BY DEF Capture, unitVars
<1>2. IsRob(rob) /\ IsBuffers(mb, n) /\ IsBuffers(mb', n) /\ n \in Nat
  BY Sizes DEF Inv, Shapes
<1>3. SameAges(rob', rob)
  BY <1>1, <1>2, FrontStays
<1>4. DOMAIN mb.next = 1 .. n /\ DOMAIN mb'.next = 1 .. n
  BY <1>2, BufferFields
<1>5. QueueKept(mb', mb, n)
  BY <1>1, <1>2, StepKeepsQueue
<1>6. Fewer(mb'.next, mb.next)
  BY <1>4, <1>5, FewerStay DEF QueueKept
<1> QED
  BY <1>1, <1>3, <1>6, LoadsRest

\* Who leaves the reorder buffer makes all others younger by one.
LEMMA GoOnLoads ==
    ASSUME Inv, Inv', LoadsInOrder, phase = "commit", rob_ready(rob, index), GoOn
    PROVE  LoadsInOrder'
<1>1. /\ phase' # "address" /\ rob' = Dequeued
      /\ mb' = mb /\ address_units' = address_units
  BY DEF GoOn, Advance, unitVars
<1>2. Left(rob, rob', Entry.rob_id)
  BY <1>1, Retires
<1>3. SameAges(rob', rob)
  BY <1>2, AgesStay DEF Inv, Shapes
<1> QED
  BY <1>1, <1>3, LoadsUntouched

\* After a flush there is no load.
LEMMA FlushLoads ==
    ASSUME Inv, phase = "commit", NEW file, NEW target, Flush(file, target)
    PROVE  LoadsInOrder'
<1> DEFINE n == NUM_MEMORY_BUFFERS
<1>1. /\ mb' = memory_buffers_clear(mb)
      /\ address_units' = [i \in DOMAIN address_units |-> free(address_units[i])]
  BY DEF Flush
<1>2. IsBuffers(mb, n) /\ IsAddressUnits(address_units, NUM_ADDRESS_UNITS)
  BY DEF Inv, Shapes
<1>3. DOMAIN mb'.next = 1 .. n /\ \A k \in 1 .. n : ~mb'.next[k].busy
  BY <1>1, <1>2, ClearAndUpdateQueue
<1>4. Outside(mb'.next) = {}
  BY <1>3 DEF Outside
<1>5. ASSUME NEW u \in DOMAIN address_units PROVE free(address_units[u]).relative_cycle = 0
  <2>1. u \in 1 .. NUM_ADDRESS_UNITS
    BY <1>2 DEF IsAddressUnits
  <2> QED
    BY <1>2, <2>1, AddressUnitFields
<1>6. \A u \in DOMAIN address_units' : address_units'[u].relative_cycle < CYCLES_ADDRESS
  BY <1>1, <1>5, Sizes
<1> QED
  BY <1>4, <1>6 DEF LoadsInOrder, LoadsBehind, StoresFirst

\* Either way of a commit.
LEMMA CommitLoads == Inv /\ Inv' /\ LoadsInOrder /\ Commit => LoadsInOrder'
<1> SUFFICES ASSUME Inv, Inv', LoadsInOrder, Commit PROVE LoadsInOrder'
  OBVIOUS
<1>1. /\ phase = "commit" /\ rob_ready(rob, index)
      /\ GoOn \/ \E file, target : Flush(file, target)
  BY DEF Commit, CommitJump, CommitBranch, CommitResult, CommitStore, Committing, CommitTransfer
<1> QED
  BY <1>1, GoOnLoads, FlushLoads

\* The next cycle starts with the buffers of this one.
LEMMA UpdateCurrentLoads == Inv /\ Inv' /\ LoadsInOrder /\ UpdateCurrent => LoadsInOrder'
<1> SUFFICES ASSUME Inv, Inv', LoadsInOrder, UpdateCurrent PROVE LoadsInOrder'
  OBVIOUS
<1> DEFINE n == NUM_MEMORY_BUFFERS
<1>1. /\ phase = "update" /\ phase' \in {"fetch", "halted"}
      /\ rob' = rob_update_current(rob) /\ mb' = memory_buffers_update_current(mb)
      /\ address_units' = address_units
  BY DEF UpdateCurrent, unitVars
<1>2. /\ IsRob(rob) /\ IsBuffers(mb, n) /\ EntriesInPlace(rob) /\ Windows(rob, "update", index)
  BY <1>1 DEF Inv, Shapes
<1>3. rob'.front_next = rob.front_next
  BY <1>1, <1>2, UpdateRob
<1>4. SameAges(rob', rob)
  BY <1>2, <1>3, AgesStay
<1>5. mb'.next = mb.next
  BY <1>1, <1>2, ClearAndUpdateQueue
<1>6. Fewer(mb'.next, mb.next)
  BY <1>5, SameBuffers
<1> QED
  BY <1>1, <1>4, <1>6, LoadsRest

\* At the start there is no load.
LEMMA InitLoads == Init => LoadsInOrder
<1> SUFFICES ASSUME Init PROVE LoadsInOrder
  OBVIOUS
<1>1. /\ mb = memory_buffers_init(NUM_MEMORY_BUFFERS)
      /\ address_units = [i \in 1 .. NUM_ADDRESS_UNITS |-> idle_address_unit]
  BY DEF Init
<1>2. Outside(mb.next) = {}
  BY <1>1 DEF memory_buffers_init, Outside
<1>3. \A u \in DOMAIN address_units : address_units[u].relative_cycle < CYCLES_ADDRESS
  BY <1>1, Sizes DEF idle_address_unit
<1> QED
  BY <1>2, <1>3 DEF LoadsInOrder, LoadsBehind, StoresFirst

\* A step that changes nothing.
LEMMA LoadsStutter == LoadsInOrder /\ UNCHANGED vars => LoadsInOrder'
<1> SUFFICES ASSUME LoadsInOrder, UNCHANGED vars PROVE LoadsInOrder'
  OBVIOUS
<1>1. /\ mb' = mb /\ rob' = rob /\ phase' = phase /\ address_units' = address_units
      /\ index' = index
  BY DEF vars, issueVars, unitVars, controlVars
<1> QED
  BY <1>1 DEF LoadsInOrder

\* With the queue, the order of the loads is inductive.
LEMMA LoadsKeep == Inv /\ Inv' /\ QueueInv /\ LoadsInOrder /\ [Next]_vars => LoadsInOrder'
  BY FrontLoads, IssueOthersLoads, IssueMemoryLoads, AluBranchLoads, MemoryStepLoads,
     AddressStepLoads, CaptureLoads, CommitLoads, UpdateCurrentLoads, LoadsStutter
  DEF Next

-----------------------------------------------------------------------------

(* A load goes to memory. *)

\* memory_buffers_dequeue_memory reads of a load what the next copy says too.
LEMMA LoadAsRead ==
    ASSUME Inv, QueueInv, LoadsCompare, phase = "memory",
           NEW i, MayLoad(mb, rob, NUM_MEMORY_BUFFERS, i), mb.next[i].busy
    PROVE  /\ i \in Outside(mb.next)
           /\ mb.next[i].a = mb.current[i].a /\ mb.next[i].rob_id = mb.current[i].rob_id
           /\ InWindow(rob.front_current, rob.rear_current, mb.next[i].rob_id - 1)
<1> DEFINE n == NUM_MEMORY_BUFFERS
<1>1. /\ i \in 1 .. n /\ mb.current[i].busy /\ mb.current[i].queue_pos = 0
  BY DEF MayLoad
<1>2. /\ IsBuffers(mb, n) /\ BuffersInStep(mb, rob) /\ QueueInStep(mb)
      /\ BuffersInWindow(mb, rob) /\ AddressesAgree(mb)
  BY DEF Inv, Shapes, PoolsInStep, QueueInv, LoadsCompare
<1>3. DOMAIN mb.current = 1 .. n /\ DOMAIN mb.next = 1 .. n
  BY <1>2, BufferFields
<1>4. i \notin InQueue(mb.next)
  BY <1>1, <1>2, <1>3 DEF QueueInStep, InQueue
<1>5. i \in Outside(mb.next)
  BY <1>1, <1>3, <1>4 DEF InQueue, Outside
<1>6. mb.next[i].a = mb.current[i].a
  BY <1>1, <1>2, <1>3 DEF AddressesAgree
<1>7. mb.next[i].rob_id = mb.current[i].rob_id
  BY <1>1, <1>2, <1>3 DEF BuffersInStep
<1>8. InWindow(rob.front_current, rob.rear_current, mb.current[i].rob_id - 1)
  BY <1>1, <1>2, <1>3 DEF BuffersInWindow
<1> QED
  BY <1>5, <1>6, <1>7, <1>8

\* Whoever works for a store before it is not ahead of the load, which has its address.
LEMMA StoreHasAddress ==
    ASSUME Inv, QueueInv, LoadsInOrder, StoresKnown(rob), Found(FALSE), phase = "memory",
           NEW i \in Outside(mb.next), mb.current[i].queue_pos = 0, mb.current[i].a # 0,
           NEW id \in Flying(rob), IsStore(rob.queue_next[id - 1].op_type),
           AgeOf(rob, id) < AgeOf(rob, mb.next[i].rob_id)
    PROVE  rob.queue_next[id - 1].dest # 0
<1> DEFINE e == rob.queue_next[id - 1]
           n == NUM_ADDRESS_UNITS
<1> SUFFICES ASSUME e.dest = 0 PROVE FALSE
  OBVIOUS
<1>1. ~e.ready /\ ~Answered(e, FALSE)
  BY DEF StoresKnown, Answered
<1>2. PICK h \in Held : h[3] = id
  BY <1>1 DEF Found, FoundIn
<1>3. Settled(Held, rob)
  BY DEF Inv
<1>4. Fits(h, e)
  BY <1>2, <1>3, SettledMember
<1>5. ~HasResult(e.op_type) /\ e.op_type \notin {"AL", "LOAD", "JUMP", "BRANCH"}
  BY DEF IsStore, StoreType, HasResult
<1> HIDE DEF e
<1>6. h[1] \notin {"alu_rs", "alu", "branch_rs", "branch", "memory", "cdb"}
  BY <1>4, <1>5 DEF Fits
<1>7. h \in InPool("mb", mb.next) \/ h \in InAddressUnits(address_units)
  BY <1>2, <1>6, HeldMember, PlaceOf
<1>8. /\ IsRob(rob) /\ IsAddressUnits(address_units, n) /\ BuffersFly(mb.next, rob)
      /\ LoadsBehind(mb.next, rob)
      /\ StoresFirst(address_units, mb.next, rob, phase, index)
      /\ \A u \in DOMAIN address_units : address_units[u].relative_cycle < CYCLES_ADDRESS
      /\ AddressesToCome(address_units, mb)
  BY BuffersAreInFlight DEF Inv, Shapes, LoadsInOrder, QueueInv
<1>9. AgeOf(rob, id) \in Int /\ AgeOf(rob, mb.next[i].rob_id) \in Int
  <2>1. id \in RobIds /\ mb.next[i].rob_id \in RobIds
    BY <1>8 DEF BuffersFly, Outside, Flying
  <2> QED
    BY <1>8, <2>1, AgeType
<1>10. CASE h \in InPool("mb", mb.next)
  <2>1. PICK k \in DOMAIN mb.next :
            mb.next[k].busy /\ h = Holder("mb", k, mb.next[k].rob_id, mb.next[k].op)
    BY <1>10, PoolMember
  <2>2. h[1] = "mb" /\ h[3] = mb.next[k].rob_id /\ h[4] = mb.next[k].op
    BY <2>1, HolderParts
  <2>3. mb.next[k].op \in StoreOp
    BY <1>4, <1>5, <2>2 DEF Fits
  <2>4. CASE k \in InQueue(mb.next)
    BY <1>2, <1>8, <1>9, <2>2, <2>3, <2>4 DEF LoadsBehind
  <2>5. CASE k \notin InQueue(mb.next)
    <3>1. k \in Outside(mb.next)
      BY <2>1, <2>5 DEF InQueue, Outside
    <3> QED
      BY <1>8, <2>3, <3>1 DEF LoadsBehind
  <2> QED
    BY <2>4, <2>5
<1>11. CASE h \in InAddressUnits(address_units)
  <2>1. PICK u \in DOMAIN address_units :
            /\ StoreCycles(address_units[u]) > 0
            /\ h = Holder("address", u, address_units[u].dest_id, NA)
    BY <1>8, <1>11, AddressUnitMember
  <2>2. h[3] = address_units[u].dest_id
    BY <2>1, HolderParts
  <2>3. u \in StoreUnits(address_units)
    BY <2>1 DEF StoreCycles, StoreUnits
  <2>4. /\ Cycles(address_units, u, phase, index) = address_units[u].relative_cycle
        /\ address_units[u].relative_cycle \in Nat
    <3>1. u \in 1 .. n
      BY <1>8, <2>1, UnitCycles
    <3>2. address_units[u].relative_cycle \in Nat
      BY <1>8, <3>1, UnitCycles
    <3> QED
      BY <3>2 DEF Cycles
  <2>5. ~(Cycles(address_units, u, phase, index) >= CYCLES_ADDRESS)
    BY <1>8, <2>1, <2>4, Sizes
  <2>6. AgeOf(rob, address_units[u].dest_id) < AgeOf(rob, mb.next[i].rob_id)
    BY <1>2, <2>2
  <2>7. PICK w \in LoadUnits(address_units) : address_units[w].dest_id = i
    BY <1>8, <2>3, <2>5, <2>6 DEF StoresFirst
  <2>8. AwaitsAddress(mb, i)
    BY <1>8, <2>7 DEF AddressesToCome
  <2> QED
    BY <2>8 DEF AwaitsAddress
<1> QED
  BY <1>7, <1>10, <1>11

\* What LoadsFollowStores says of a step.
FollowStores ==
    \A i \in Busy(mb.next) :
        phase = "memory" /\ ~mb'.next[i].busy
            => \A id \in InFlight :
                   IsStore(entry(id).op_type) /\ Age(id) < Age(mb.next[i].rob_id)
                       => entry(id).dest \notin {0, mb.next[i].a}

\* memory_step takes no load that a store before it may yet change.
LEMMA MemoryStepFollows ==
    Inv /\ QueueInv /\ LoadInv /\ StoresKnown(rob) /\ Found(FALSE) /\ MemoryStep => FollowStores
<1> SUFFICES ASSUME Inv, QueueInv, LoadInv, StoresKnown(rob), Found(FALSE), MemoryStep,
                    NEW i \in Busy(mb.next), ~mb'.next[i].busy,
                    NEW id \in InFlight, IsStore(entry(id).op_type),
                    Age(id) < Age(mb.next[i].rob_id)
             PROVE  entry(id).dest \notin {0, mb.next[i].a}
  BY DEF FollowStores
<1> DEFINE n == NUM_MEMORY_BUFFERS
           k == mb.next[i].rob_id
<1>1. /\ phase = "memory"
      /\ \/ mb' = mb
         \/ \E j \in memory_candidate(mb, rob) : mb' = memory_buffers_dequeue_memory(mb, j)
  BY DEF MemoryStep
<1>2. /\ LoadsInOrder /\ LoadsCompare /\ IsRob(rob) /\ IsBuffers(mb, n) /\ n \in Nat
  BY Sizes DEF LoadInv, Inv, Shapes
<1>3. DOMAIN mb.next = 1 .. n /\ i \in 1 .. n /\ mb.next[i].busy
  BY <1>2, BufferFields DEF Busy
<1>4. PICK j \in memory_candidate(mb, rob) : mb' = memory_buffers_dequeue_memory(mb, j)
  BY <1>1, <1>3
<1>5. MayLoad(mb, rob, n, j) /\ QueueSpared(mb', mb, n, j)
  BY <1>2, <1>4, DequeueMemorySpares
<1>6. MayLoad(mb, rob, n, i)
  BY <1>3, <1>5 DEF QueueSpared
<1>7. /\ i \in Outside(mb.next)
      /\ mb.next[i].a = mb.current[i].a /\ k = mb.current[i].rob_id
      /\ InWindow(rob.front_current, rob.rear_current, k - 1)
  BY <1>1, <1>2, <1>3, <1>6, LoadAsRead
<1>8. k \in Flying(rob)
  BY <1>3, BuffersAreInFlight DEF BuffersFly
<1>9. id \in Flying(rob)
  BY DEF InFlight, Flying
<1>10. Age(id) = AgeOf(rob, id) /\ Age(k) = AgeOf(rob, k)
  BY <1>2, <1>8, <1>9, AgesAgree
<1>11. AgeOf(rob, id) < AgeOf(rob, k)
  BY <1>10
<1>12. IsStore(rob.queue_next[id - 1].op_type) /\ entry(id) = rob.queue_next[id - 1]
  BY DEF entry
<1>13. mb.current[i].queue_pos = 0 /\ mb.current[i].a # 0
  BY <1>6 DEF MayLoad
<1>14. rob.queue_next[id - 1].dest # 0
  BY <1>1, <1>2, <1>7, <1>9, <1>11, <1>12, <1>13, StoreHasAddress
<1>15. ~rob_earlier_stores(rob, k, mb.next[i].a)
  BY <1>6, <1>7 DEF MayLoad
<1>16. InWindow(rob.front_current, rob.rear_current, k - 1)
  BY <1>7
<1> HIDE DEF k
<1>17. rob.queue_next[id - 1].dest # mb.next[i].a
  BY <1>1, <1>2, <1>8, <1>9, <1>11, <1>12, <1>15, <1>16, StoreElsewhere
<1> QED
  BY <1>12, <1>14, <1>17

\* Only memory_step frees a buffer while the memory units work.
LEMMA StepFollows ==
    Inv /\ QueueInv /\ LoadInv /\ StoresKnown(rob) /\ Found(FALSE) /\ [Next]_vars => FollowStores
<1>1. phase # "memory" => FollowStores
  BY DEF FollowStores
<1>2. UNCHANGED vars => FollowStores
  <2> SUFFICES ASSUME UNCHANGED vars PROVE FollowStores
    OBVIOUS
  <2>1. mb' = mb
    BY DEF vars, issueVars
  <2> QED
    BY <2>1 DEF FollowStores, Busy
<1>3. Next => MemoryStep \/ phase # "memory"
  <2>1. Fetch \/ DecodeLatch \/ DecodeStalls \/ DecodeFails => phase # "memory"
    BY DEF Fetch, DecodeLatch, DecodeStalls, DecodeFails
  <2>2. IssueAl \/ IssueBranch \/ IssueMemory \/ EndIssue => phase # "memory"
    BY DEF IssueAl, IssueBranch, IssueMemory, EndIssue, Issuing
  <2>3. AluStep \/ BranchStep \/ AddressStep \/ Capture => phase # "memory"
    BY DEF AluStep, BranchStep, AddressStep, Capture
  <2>4. Commit \/ CommitNothing \/ UpdateCurrent => phase # "memory"
    BY DEF Commit, CommitJump, CommitBranch, CommitResult, CommitStore, Committing,
           CommitNothing, UpdateCurrent
  <2> QED
    BY <2>1, <2>2, <2>3, <2>4 DEF Next
<1> QED
  BY <1>1, <1>2, <1>3, MemoryStepFollows

-----------------------------------------------------------------------------

\* The stores before a load are sent for their addresses first, arrive first, and are the same in the
\* copies memory_candidate and rob_earlier_stores read, in every state of every program
\* (memory_buffers.c, address_unit.c, rob.c).
THEOREM LoadInvariance == Spec => [](Inv /\ QueueInv /\ LoadInv)
<1> DEFINE Full == Inv /\ QueueInv /\ LoadInv
<1>1. Init => Full
  BY InitKeeps, InitQueue, InitLoads, InitCompares DEF LoadInv
<1>2. Full /\ [Next]_vars => Full'
  <2> SUFFICES ASSUME Full, [Next]_vars PROVE Full'
    OBVIOUS
  <2>1. Inv' /\ QueueInv'
    BY InvKept, QueueKeeps
  <2>2. LoadsInOrder'
    BY <2>1, LoadsKeep DEF LoadInv
  <2>3. LoadsCompare'
    BY ComparesKeep DEF LoadInv
  <2> QED
    BY <2>1, <2>2, <2>3 DEF LoadInv
<1> QED
  BY <1>1, <1>2, PTL DEF Spec

\* While no store goes to address 0, a load reads memory only when each store before it that has not
\* been committed has its address, and another one (memory_buffers_dequeue_memory with
\* rob_earlier_stores, which compares addresses and cannot tell an address that has yet to come).
THEOREM LoadsWaitForStores == Spec /\ []StoresMissZero => LoadsFollowStores
<1> DEFINE Full == Inv /\ QueueInv /\ LoadInv /\ FoundInv /\ Found(FALSE) /\ StoresKnown(rob)
<1>1. Init => Inv /\ FoundInv /\ Found(FALSE) /\ StoresKnown(rob)
  BY InitKeeps, InitFound, InitKnown
<1>2. /\ Inv /\ FoundInv /\ Found(FALSE) /\ StoresKnown(rob) /\ StoresMissZero' /\ [Next]_vars
      => (Inv /\ FoundInv /\ Found(FALSE) /\ StoresKnown(rob))'
  <2> SUFFICES ASSUME Inv, FoundInv, Found(FALSE), StoresKnown(rob), StoresMissZero', [Next]_vars
               PROVE  (Inv /\ FoundInv /\ Found(FALSE) /\ StoresKnown(rob))'
    OBVIOUS
  <2>1. BusRoom /\ HeardAreDone
    BY DEF FoundInv
  <2>2. Found(FALSE)'
    BY <2>1, FoundKept
  <2>3. StoresKnown(rob')
    BY KnownKept
  <2> QED
    BY <2>2, <2>3, InvKept, FoundInvKept
<1>3. Full /\ [Next]_vars => FollowStores
  BY StepFollows
<1>4. Full /\ [Next]_vars
        => [\A i \in Busy(mb.next) :
               phase = "memory" /\ ~mb'.next[i].busy
                  => \A id \in InFlight :
                        IsStore(entry(id).op_type) /\ Age(id) < Age(mb.next[i].rob_id)
                           => entry(id).dest \notin {0, mb.next[i].a}]_vars
  BY <1>3 DEF FollowStores
<1> QED
  BY <1>1, <1>2, <1>4, LoadInvariance, PTL DEF Spec, LoadsFollowStores

-----------------------------------------------------------------------------

\* All of what the runs check of the invariant holds in every state: nobody is held twice, finished
\* or unknown to the reorder buffer, no pool overflows, the two copies agree where it matters.
THEOREM CoreIsInvariant == Spec => []CoreInv
<1>1. Inv /\ WaitInv /\ QueueInv /\ FoundInv /\ LoadInv => CoreInv
  BY NamedAliases DEF Inv, WaitInv, DataWaits, CoreInv, Shapes
<1> QED
  BY <1>1, WaitInvariance, QueueInvariance, FoundInvariance, LoadInvariance, PTL
===============================================================================
