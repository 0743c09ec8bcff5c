---------------------------- MODULE PipelineProofs ----------------------------
(***************************************************************************)
(* The invariant of the superscalar core is inductive: one lemma for each  *)
(* action of Pipeline, in the order of a cycle; then, in the same order,   *)
(* that nobody waits in vain; what the copies that are read say; then the  *)
(* theorems.                                                               *)
(***************************************************************************)
EXTENDS HeldLemmas

(***************************************************************************)
(* The inductive invariant: the shapes of the structs, whatever the values *)
(* in them, and CoreInv, with the alias table in the form of Named.        *)
(***************************************************************************)
Shapes ==
    /\ program \in Programs
    /\ IsQueue(iq) /\ IsRegister(reg_insts)
    /\ IsRob(rob) /\ IsBus(cdb) /\ IsFile(regs)
    /\ IsStations(alu_rs, NUM_ALU_RES_STATIONS)
    /\ IsStations(branch_rs, NUM_BRANCH_RES_STATIONS)
    /\ IsBuffers(mb, NUM_MEMORY_BUFFERS)
    /\ IsUnits(alus, NUM_ALU_UNITS) /\ IsBranchUnits(branch_units, NUM_BRANCH_UNITS)
    /\ IsUnits(memory_units, NUM_MEMORY_UNITS)
    /\ IsAddressUnits(address_units, NUM_ADDRESS_UNITS)
    /\ index \in Nat
    /\ dependencies \in [Regs -> {0} \cup RobIds]

Inv ==
    /\ Shapes
    /\ Settled(Held, rob)
    /\ Windows(rob, phase, index)
    /\ CopiesAgree(rob, phase \in UntilUnitsWork)
    /\ EntriesInPlace(rob)
    /\ PoolsInStep
    /\ IndexInRange
    /\ BatchSeesItself
    /\ Named(rob, regs)

\* How the two strengths of CopiesAgree compare.
LEMMA Agreement ==
    ASSUME NEW r, NEW x \in BOOLEAN
    PROVE  /\ CopiesAgree(r, x) => CopiesAgree(r, FALSE)
           /\ CopiesAgree(r, x) /\ x => CopiesAgree(r, TRUE)
           /\ CopiesAgree(r, TRUE) => CopiesAgree(r, x)
           /\ CopiesAgree(r, FALSE) /\ ~x => CopiesAgree(r, x)
  BY DEF CopiesAgree

\* The numbers of units and the widths of config.h.
LEMMA Sizes ==
    /\ NUM_ALU_RES_STATIONS \in Nat /\ NUM_BRANCH_RES_STATIONS \in Nat
    /\ NUM_MEMORY_BUFFERS \in Nat
    /\ NUM_ALU_UNITS \in Nat \ {0} /\ NUM_BRANCH_UNITS \in Nat \ {0}
    /\ NUM_MEMORY_UNITS \in Nat \ {0} /\ NUM_ADDRESS_UNITS \in Nat \ {0}
    /\ COMMIT_WIDTH \in Nat \ {0} /\ ISSUE_WIDTH \in Nat \ {0}
    /\ CYCLES_ADDRESS \in Nat \ {0}
  BY ConfigAssumption, InstQueueAssumption

\* Held, place by place.
LEMMA HeldMember ==
    ASSUME NEW h
    PROVE  h \in Held <=>
              \/ h \in InPool("alu_rs", alu_rs.next) \/ h \in InPool("branch_rs", branch_rs.next)
              \/ h \in InPool("mb", mb.next)
              \/ h \in InUnits("alu", alus) \/ h \in InBranchUnits(branch_units)
              \/ h \in InUnits("memory", memory_units) \/ h \in InAddressUnits(address_units)
              \/ phase \notin {"commit", "update"} /\ h \in InBus(cdb)
  BY DEF Held

\* A holder names its place.
LEMMA PlaceOf ==
    ASSUME NEW h
    PROVE  /\ \A name, pool : h \in InPool(name, pool) => h[1] = name
           /\ \A name, units : h \in InUnits(name, units) => h[1] = name
           /\ \A units : h \in InBranchUnits(units) => h[1] = "branch"
           /\ \A units : h \in InAddressUnits(units) => h[1] = "address"
           /\ \A bus : h \in InBus(bus) => h[1] = "cdb"
<1>1. ASSUME NEW name, NEW pool, h \in InPool(name, pool) PROVE h[1] = name
  BY <1>1, PoolMember, HolderParts
<1>2. ASSUME NEW name, NEW units, h \in InUnits(name, units) PROVE h[1] = name
  BY <1>2, UnitMember, HolderParts
<1>3. ASSUME NEW units, h \in InBranchUnits(units) PROVE h[1] = "branch"
  BY <1>3, BranchUnitMember, HolderParts
<1>4. ASSUME NEW units, h \in InAddressUnits(units) PROVE h[1] = "address"
  BY <1>4, HolderParts DEF InAddressUnits
<1>5. ASSUME NEW bus, h \in InBus(bus) PROVE h[1] = "cdb"
  BY <1>5, BusMember, HolderParts
<1> QED
  BY <1>1, <1>2, <1>3, <1>4, <1>5

-----------------------------------------------------------------------------

(* Fetch, decode and the end of issue hold nothing and change no copy. *)

\* A step of the front end keeps the invariant of the rest.
LEMMA QuietStep ==
    ASSUME Inv,
           UNCHANGED program, UNCHANGED issueVars, UNCHANGED unitVars, UNCHANGED cdb,
           \/ phase \in {"fetch", "decode"} /\ phase' \in {"decode", "failed", "issue"}
           \/ phase = "issue" /\ phase' = "alu",
           phase' = "issue" => index' = 0,
           IsQueue(iq'), IsRegister(reg_insts'), index' \in Nat, IndexInRange',
           \/ phase # "issue" /\ dependencies' = dependencies
           \/ dependencies' = None
    PROVE  Inv'
<1> USE DEF issueVars, unitVars
<1>1. Shapes'
  <2>1. None \in [Regs -> {0} \cup RobIds]
    BY DEF None
  <2> QED
    BY <2>1 DEF Inv, Shapes
<1>2. Settled(Held, rob)'
  <2>1. Held' = Held
    BY DEF Held
  <2> QED
    BY <2>1 DEF Inv
<1>3. Windows(rob, phase, index)'
  BY DEF Inv, Windows
<1>4. CopiesAgree(rob, phase \in UntilUnitsWork)'
  <2>1. phase \in UntilUnitsWork
    BY DEF UntilUnitsWork
  <2>2. CopiesAgree(rob, TRUE)
    BY <2>1, Agreement DEF Inv
  <2> QED
    BY <2>2 DEF CopiesAgree
<1>5. EntriesInPlace(rob)'
  BY DEF Inv
<1>6. PoolsInStep'
  <2>1. phase' \in {"decode", "issue"} =>
           alu_rs.added = 0 /\ branch_rs.added = 0 /\ mb.count_enqueue = 0
    BY DEF Inv, PoolsInStep
  <2>2. phase # "update" /\ phase' # "update"
    OBVIOUS
  <2> QED
    BY <2>1, <2>2 DEF Inv, PoolsInStep
<1>7. BatchSeesItself'
  <2>1. dependencies' = None
    <3>1. CASE dependencies' = dependencies /\ phase # "issue"
      <4>1. dependencies \in [Regs -> {0} \cup RobIds] /\ \A r \in Regs : dependencies[r] = 0
        BY <3>1 DEF Inv, Shapes, BatchSeesItself
      <4> QED
        BY <3>1, <4>1 DEF None
    <3> QED
      BY <3>1
  <2> QED
    BY <2>1 DEF BatchSeesItself, None
<1>8. Named(rob, regs)'
  BY DEF Inv
<1> QED
  BY <1>1, <1>2, <1>3, <1>4, <1>5, <1>6, <1>7, <1>8 DEF Inv

\* fetch_step keeps the invariant.
LEMMA FetchKeeps == Inv /\ Fetch => Inv'
<1> SUFFICES ASSUME Inv, Fetch PROVE Inv'
  OBVIOUS
<1>1. UNCHANGED program /\ UNCHANGED issueVars /\ UNCHANGED unitVars /\ UNCHANGED cdb
      /\ phase = "fetch" /\ phase' = "decode"
      /\ index' = index /\ index = 0 /\ dependencies' = dependencies /\ iq' = iq
  BY DEF Fetch, Inv, IndexInRange
<1>2. IsRegister(reg_insts')
  <2>1. CASE reg_insts' = reg_insts
    BY <2>1 DEF Inv, Shapes
  <2>2. ASSUME NEW pc, reg_insts' = [reg_insts EXCEPT !.next = Fetched(pc)]
        PROVE  IsRegister(reg_insts')
    <3>1. PICK c, n : reg_insts = [current |-> c, next |-> n] /\ AreLatches(c)
      BY DEF Inv, Shapes, IsRegister
    <3>2. reg_insts' = [current |-> c, next |-> Fetched(pc)]
      BY <2>2, <3>1
    <3>3. AreLatches(Fetched(pc))
      BY FetchedAreLatches DEF Inv, Shapes
    <3> QED
      BY <3>1, <3>2, <3>3 DEF IsRegister
  <2> QED
    BY <2>1, <2>2 DEF Fetch
<1>3. IndexInRange'
  BY <1>1, Sizes DEF IndexInRange
<1>9. IsQueue(iq) /\ IsRegister(reg_insts) /\ index \in Nat
  BY DEF Inv, Shapes
<1> QED
  BY <1>1, <1>2, <1>3, <1>9, QuietStep

\* The exit of decode_step keeps the invariant.
LEMMA DecodeFailsKeeps == Inv /\ DecodeFails => Inv'
<1> SUFFICES ASSUME Inv, DecodeFails PROVE Inv'
  OBVIOUS
<1>1. UNCHANGED program /\ UNCHANGED issueVars /\ UNCHANGED unitVars /\ UNCHANGED cdb
      /\ phase = "decode" /\ phase' = "failed"
      /\ index' = index /\ dependencies' = dependencies /\ iq' = iq /\ reg_insts' = reg_insts
  BY DEF DecodeFails, frontVars
<1>2. IndexInRange'
  BY <1>1 DEF IndexInRange, Inv
<1>9. IsQueue(iq) /\ IsRegister(reg_insts) /\ index \in Nat
  BY DEF Inv, Shapes
<1> QED
  BY <1>1, <1>2, <1>9, QuietStep

\* A full instruction queue keeps the invariant.
LEMMA DecodeStallsKeeps == Inv /\ DecodeStalls => Inv'
<1> SUFFICES ASSUME Inv, DecodeStalls PROVE Inv'
  OBVIOUS
<1>1. UNCHANGED program /\ UNCHANGED issueVars /\ UNCHANGED unitVars /\ UNCHANGED cdb
      /\ phase = "decode" /\ phase' = "issue"
      /\ index' = index /\ dependencies' = dependencies /\ iq' = iq /\ reg_insts' = reg_insts
      /\ index = 0
  BY DEF DecodeStalls, frontVars, Inv, IndexInRange
<1>2. IndexInRange'
  BY <1>1 DEF IndexInRange, Inv
<1>9. IsQueue(iq) /\ IsRegister(reg_insts) /\ index \in Nat
  BY DEF Inv, Shapes
<1> QED
  BY <1>1, <1>2, <1>9, QuietStep

\* decode_step keeps the invariant.
LEMMA DecodeLatchKeeps == Inv /\ DecodeLatch => Inv'
<1> SUFFICES ASSUME Inv, DecodeLatch PROVE Inv'
  OBVIOUS
<1>1. /\ UNCHANGED program /\ UNCHANGED issueVars /\ UNCHANGED unitVars /\ UNCHANGED cdb
      /\ phase = "decode"
      /\ dependencies' = dependencies /\ reg_insts' = reg_insts
      /\ \/ index + 1 < ISSUE_WIDTH /\ index' = index + 1 /\ phase' = "decode"
         \/ index' = 0 /\ phase' = "issue"
  BY DEF DecodeLatch, Advance
<1>2. IsQueue(iq') /\ inst_queue_free_slots(iq')
  <2> DEFINE latch == reg_insts.current[index + 1]
  <2>1. IsInst(latch.inst)
    <3>1. PICK c, n : reg_insts = [current |-> c, next |-> n] /\ AreLatches(c)
      BY DEF Inv, Shapes, IsRegister
    <3>2. index + 1 \in 1 .. W
      BY <1>1, Sizes DEF Inv, Shapes, IndexInRange, W
    <3>3. IsLatch(latch)
      BY <3>1, <3>2 DEF AreLatches
    <3> QED
      BY <3>3 DEF IsLatch
  <2>2. IsInst(decoded(latch))
    BY <2>1 DEF decoded, IsInst
  <2> HIDE DEF latch
  <2>3. IsQueue(iq) /\ inst_queue_free_slots(iq)
    BY DEF Inv, Shapes, DecodeLatch
  <2>4. /\ IsQueue(inst_queue_enqueue(iq, decoded(latch)))
        /\ inst_queue_free_slots(inst_queue_enqueue(iq, decoded(latch)))
    BY <2>2, <2>3, QueueEnqueues
  <2> QED
    BY <2>3, <2>4 DEF DecodeLatch, latch
<1>3. index \in Nat /\ index' \in Nat /\ IndexInRange'
  <2>1. index \in Nat
    BY DEF Inv, Shapes
  <2> QED
    BY <1>1, <1>2, <2>1 DEF IndexInRange
<1>4. phase' = "issue" => index' = 0
  BY <1>1
<1>9. IsQueue(iq) /\ IsRegister(reg_insts) /\ index \in Nat
  BY DEF Inv, Shapes
<1> QED
  BY <1>1, <1>2, <1>3, <1>4, <1>9, QuietStep

\* The end of the issue loop keeps the invariant.
LEMMA EndIssueKeeps == Inv /\ EndIssue => Inv'
<1> SUFFICES ASSUME Inv, EndIssue PROVE Inv'
  OBVIOUS
<1>1. UNCHANGED program /\ UNCHANGED issueVars /\ UNCHANGED unitVars /\ UNCHANGED cdb
      /\ phase = "issue" /\ phase' = "alu"
      /\ index' = 0 /\ dependencies' = None /\ iq' = iq /\ reg_insts' = reg_insts
  BY DEF EndIssue, frontVars
<1>2. IndexInRange'
  BY <1>1, Sizes DEF IndexInRange
<1>9. IsQueue(iq) /\ IsRegister(reg_insts) /\ index \in Nat
  BY DEF Inv, Shapes
<1> QED
  BY <1>1, <1>2, <1>9, QuietStep

-----------------------------------------------------------------------------

(* Issue. *)

\* What the op of an instruction says of its kind.
LEMMA OpTypes ==
    ASSUME NEW op
    PROVE  /\ op \in {"JAL", "JALR"} <=> op_type_of(op) = "JUMP"
           /\ op \in LoadOp => op_type_of(op) = "LOAD"
           /\ op \in StoreOp => IsStore(op_type_of(op))
           /\ op_type_of(op) \in {"LOAD"} \cup StoreType => op \in LoadOp \cup StoreOp
<1> DEFINE jump == {"JAL", "JALR"}
<1>1. CASE op \in jump
  BY <1>1 DEF op_type_of, ImmOp, RegOp, BranchOp, LoadOp, StoreOp, StoreType
<1>2. CASE op \in LoadOp
  BY <1>2 DEF op_type_of, ImmOp, RegOp, BranchOp, LoadOp, StoreOp
<1>3. CASE op \in StoreOp
  BY <1>3 DEF op_type_of, ImmOp, RegOp, BranchOp, LoadOp, StoreOp, IsStore, StoreType
<1>4. CASE op \in BranchOp
  BY <1>4 DEF op_type_of, ImmOp, RegOp, BranchOp, LoadOp, StoreOp, StoreType
<1>5. CASE op \in ImmOp \cup RegOp \cup {"LUI", "AUIPC"}
  BY <1>5 DEF op_type_of, ImmOp, RegOp, BranchOp, LoadOp, StoreOp, StoreType
<1>6. ASSUME op \notin jump, op \notin LoadOp, op \notin StoreOp, op \notin BranchOp,
             op \notin ImmOp \cup RegOp \cup {"LUI", "AUIPC"}
      PROVE  op_type_of(op) = "none"
  BY <1>6, Zenon DEF op_type_of, StoreOp
<1>7. "none" # "JUMP" /\ "none" \notin {"LOAD"} \cup StoreType
  BY DEF StoreType
<1> QED
  BY <1>1, <1>2, <1>3, <1>4, <1>5, <1>6, <1>7

\* Each operation goes to a place that can answer for it.
IsRoute(place, op_type) ==
    \/ place = "alu_rs" /\ op_type = "AL"
    \/ place = "branch_rs" /\ op_type \in {"JUMP", "BRANCH"}
    \/ place = "mb" /\ op_type \in {"LOAD"} \cup StoreType

\* An instruction is sent where it can be answered.
LEMMA IssuedFits ==
    ASSUME NEW place, NEW i, NEW id, NEW inst, IsInst(inst), NEW held,
           held.op_type = op_type_of(inst.op), held.dest = inst.rd,
           IsRoute(place, op_type_of(inst.op))
    PROVE  Fits(Holder(place, i, id, inst.op), held)
<1> DEFINE h == Holder(place, i, id, inst.op)
<1>1. h[1] = place /\ h[4] = inst.op
  BY HolderParts
<1> HIDE DEF h
<1>2. IsStore(held.op_type) => held.dest = 0
  BY DEF IsInst, HasResult, IsStore, StoreType
<1> QED
  BY <1>1, <1>2, OpTypes DEF Fits, IsRoute, StoreType, IsStore, h

\* The registers of the batch, after an instruction more.
LEMMA RenameKeeps ==
    ASSUME IsFile(regs), dependencies \in [Regs -> {0} \cup RobIds], NEW id \in RobIds, NEW rd \in Regs,
           Rename(rd, id), phase = "issue", phase' = "issue", BatchSeesItself,
           rd # 0 => regs'[rd].busy /\ regs'[rd].rob_id = id,
           \A reg \in Regs : reg # rd => regs'[reg] = regs[reg]
    PROVE  dependencies' \in [Regs -> {0} \cup RobIds] /\ BatchSeesItself'
<1>1. CASE rd = 0
  <2>1. dependencies' = dependencies
    BY <1>1 DEF Rename
  <2>2. regs' = regs
    BY <1>1 DEF Rename, reg_file_set_rob_id
  <2> QED
    BY <2>1, <2>2 DEF BatchSeesItself
<1>2. CASE rd # 0
  <2>1. dependencies' = [dependencies EXCEPT ![rd] = id]
    BY <1>2 DEF Rename
  <2>2. \A reg \in Regs : dependencies'[reg] = IF reg = rd THEN id ELSE dependencies[reg]
    BY <2>1
  <2>3. ASSUME NEW reg \in Regs, dependencies'[reg] # 0
        PROVE  reg # 0 /\ regs'[reg].busy /\ regs'[reg].rob_id = dependencies'[reg]
    BY <1>2, <2>2, <2>3 DEF BatchSeesItself
  <2> QED
    BY <2>1, <2>3 DEF BatchSeesItself
<1> QED
  BY <1>1, <1>2

\* What the pools are, whoever of them has taken the instruction.
PoolsAre(alu, branch, buffers, r, n) ==
    /\ IsStations(alu, NUM_ALU_RES_STATIONS) /\ StationsInStep(alu) /\ alu.added <= n
    /\ IsStations(branch, NUM_BRANCH_RES_STATIONS) /\ StationsInStep(branch) /\ branch.added <= n
    /\ IsBuffers(buffers, NUM_MEMORY_BUFFERS) /\ BuffersInStep(buffers, r)
    /\ buffers.count_enqueue <= n

\* What issue_step finds for each instruction of its batch.
LEMMA IssueMeets ==
    ASSUME Inv, phase = "issue", index < batch_size
    PROVE  /\ IsInst(inst_queue_front(iq, index))
           /\ index < rob_num_free_slots(rob)
           /\ rob_enqueue_id(rob) \in RobIds
           /\ PoolsAre(alu_rs, branch_rs, mb, rob, index)
           /\ alu_rs.added < res_stations_num_free(alu_rs)
           /\ branch_rs.added < res_stations_num_free(branch_rs)
           /\ mb.count_enqueue < memory_buffers_num_free(mb)
<1>1. /\ IsQueue(iq) /\ IsRob(rob) /\ index \in Nat
      /\ IsStations(alu_rs, NUM_ALU_RES_STATIONS)
      /\ IsStations(branch_rs, NUM_BRANCH_RES_STATIONS)
      /\ IsBuffers(mb, NUM_MEMORY_BUFFERS)
  BY DEF Inv, Shapes
<1>2. /\ Windows(rob, "issue", index) /\ EntriesInPlace(rob)
      /\ CopiesAgree(rob, phase \in UntilUnitsWork)
  BY DEF Inv
<1>3. CopiesAgree(rob, TRUE)
  BY <1>2, Agreement DEF UntilUnitsWork
<1>4. rob.front_current = -1 <=> rob.rear_current = -1
  BY <1>2 DEF Windows, InStep
<1>5. /\ index < inst_queue_cur_entries(iq) /\ index < rob_num_free_slots(rob)
      /\ index < res_stations_num_free(alu_rs)
      /\ index < res_stations_num_free(branch_rs)
      /\ index < memory_buffers_num_free(mb)
  BY <1>1, <1>4, BatchFits
<1>6. IsInst(inst_queue_front(iq, index))
  BY <1>1, <1>5, QueueHead
<1>7. rob_enqueue_id(rob) \in RobIds
  <2>1. "AL" \in OpType /\ 0 \in {0} \cup RobIds
    BY DEF OpType
  <2> QED
    BY <1>1, <1>2, <1>3, <1>5, <2>1, EnqueueRob
<1>8. PoolsAre(alu_rs, branch_rs, mb, rob, index)
  BY <1>1 DEF Inv, PoolsInStep, PoolsAre
<1>9. /\ alu_rs.added \in Nat /\ branch_rs.added \in Nat /\ mb.count_enqueue \in Nat
      /\ res_stations_num_free(alu_rs) \in Nat /\ res_stations_num_free(branch_rs) \in Nat
      /\ memory_buffers_num_free(mb) \in Nat
  <2>1. /\ FreeStations(alu_rs) \in SUBSET (1 .. NUM_ALU_RES_STATIONS)
        /\ FreeStations(branch_rs) \in SUBSET (1 .. NUM_BRANCH_RES_STATIONS)
    BY <1>1, StationFields DEF FreeStations
  <2>2. FreeBuffers(mb) \in SUBSET (1 .. NUM_MEMORY_BUFFERS)
    BY <1>1, BufferFields DEF FreeBuffers
  <2>3. alu_rs.added \in Nat /\ branch_rs.added \in Nat /\ mb.count_enqueue \in Nat
    BY <1>1, StationFields, BufferFields
  <2> QED
    BY <2>1, <2>2, <2>3, RankType, Sizes DEF res_stations_num_free, memory_buffers_num_free
<1> QED
  BY <1>1, <1>5, <1>6, <1>7, <1>8, <1>9 DEF PoolsAre

\* The three kinds of issue have this in common: an entry, an alias and one new holder.
LEMMA IssueStep ==
    ASSUME Inv, phase = "issue", index < batch_size,
           NEW inst, inst = inst_queue_front(iq, index), op_type_of(inst.op) \in OpType,
           NEW value_, NEW q \in {0} \cup RobIds, NEW npc_pred, NEW inst_pc,
           rob' = rob_enqueue(rob, op_type_of(inst.op), inst.rd, value_, q, npc_pred, inst_pc),
           Rename(inst.rd, rob_enqueue_id(rob)),
           iq' = inst_queue_dequeue(iq), reg_insts' = reg_insts,
           program' = program, UNCHANGED unitVars, cdb' = cdb, phase' = phase, index' = index + 1,
           PoolsAre(alu_rs', branch_rs', mb', rob, index + 1),
           NEW place, IsRoute(place, op_type_of(inst.op)), NEW i,
           \A h \in Held' : h \in Held \/ h = Holder(place, i, rob_enqueue_id(rob), inst.op)
    PROVE  Inv'
<1> DEFINE id == rob_enqueue_id(rob)
<1>1. /\ IsQueue(iq) /\ IsRob(rob) /\ index \in Nat /\ IsFile(regs)
      /\ dependencies \in [Regs -> {0} \cup RobIds]
  BY DEF Inv, Shapes
<1>2. /\ Windows(rob, "issue", index) /\ EntriesInPlace(rob) /\ Settled(Held, rob)
      /\ CopiesAgree(rob, phase \in UntilUnitsWork) /\ Named(rob, regs) /\ BatchSeesItself
  BY DEF Inv
<1>3. CopiesAgree(rob, TRUE)
  BY <1>2, Agreement DEF UntilUnitsWork
<1>4. index < rob_num_free_slots(rob) /\ IsInst(inst)
  BY IssueMeets
<1>5. IsInst(inst)
  BY <1>4
<1>6. /\ IsRob(rob') /\ id \in RobIds
      /\ Windows(rob', "issue", index + 1)
      /\ CopiesAgree(rob', TRUE) /\ EntriesInPlace(rob')
  BY <1>1, <1>2, <1>3, <1>4, EnqueueRob
<1>0. Entered(rob, rob', id, op_type_of(inst.op), inst.rd)
  BY <1>1, <1>2, <1>3, <1>4, EnqueueRob
<1>7. /\ rob'.queue_current = rob.queue_current
      /\ rob'.front_current = rob.front_current
      /\ id \notin Flying(rob)
      /\ \A k : k \in Flying(rob') <=> k \in Flying(rob) \/ k = id
      /\ \A k \in Flying(rob) : /\ rob'.queue_next[k - 1] = rob.queue_next[k - 1]
                                /\ AgeOf(rob', k) = AgeOf(rob, k)
                                /\ AgeOf(rob', k) < AgeOf(rob', id)
      /\ rob'.queue_next[id - 1].op_type = op_type_of(inst.op)
      /\ rob'.queue_next[id - 1].dest = inst.rd
      /\ ~rob'.queue_next[id - 1].ready
  BY <1>0 DEF Entered
<1> HIDE DEF id
<1>8. inst.rd \in Regs /\ (~HasResult(op_type_of(inst.op)) => inst.rd = 0)
  BY <1>5 DEF IsInst
<1>9. regs' = reg_file_set_rob_id(regs, inst.rd, id)
  BY DEF Rename, id
<1>10. /\ IsFile(regs') /\ Named(rob', regs')
       /\ inst.rd # 0 => regs'[inst.rd].busy /\ regs'[inst.rd].rob_id = id
       /\ \A reg \in Regs : reg # inst.rd => regs'[reg] = regs[reg]
  <2>1. ~HasResult(rob'.queue_next[id - 1].op_type) => inst.rd = 0
    BY <1>7, <1>8
  <2> QED
    BY <1>1, <1>2, <1>6, <1>7, <1>8, <1>9, <2>1, NamedEnters
<1>11. dependencies' \in [Regs -> {0} \cup RobIds] /\ BatchSeesItself'
  BY <1>1, <1>2, <1>6, <1>8, <1>10, RenameKeeps DEF id
<1>12. IsQueue(iq')
  BY <1>1, QueueDequeues
<1>13. Shapes'
  <2>1. index' \in Nat
    BY <1>1
  <2>2. /\ program' \in Programs /\ IsRegister(reg_insts') /\ IsBus(cdb')
        /\ IsUnits(alus', NUM_ALU_UNITS) /\ IsBranchUnits(branch_units', NUM_BRANCH_UNITS)
        /\ IsUnits(memory_units', NUM_MEMORY_UNITS)
        /\ IsAddressUnits(address_units', NUM_ADDRESS_UNITS)
    BY DEF Inv, Shapes, unitVars
  <2> QED
    BY <1>6, <1>10, <1>11, <1>12, <2>1, <2>2 DEF Shapes, PoolsAre
<1>14. Settled(Held, rob)'
  <2> DEFINE h == Holder(place, i, id, inst.op)
  <2>1. h[3] = id
    BY HolderParts
  <2>2. Fits(h, rob'.queue_next[id - 1])
    BY <1>5, <1>7, IssuedFits
  <2>3. \A g \in Held' : g \in Held \/ g = h
    BY DEF id
  <2> HIDE DEF h
  <2>4. h[3] \notin Flying(rob) /\ h[3] \in Flying(rob')
    BY <1>7, <2>1
  <2>5. ~rob'.queue_next[h[3] - 1].ready /\ Fits(h, rob'.queue_next[h[3] - 1])
    BY <1>7, <2>1, <2>2
  <2>6. \A k \in Flying(rob) :
            k \in Flying(rob') /\ rob'.queue_next[k - 1] = rob.queue_next[k - 1]
    BY <1>7
  <2> QED
    BY <1>2, <2>3, <2>4, <2>5, <2>6, SettledEnters
<1>15. Windows(rob, phase, index)'
  BY <1>6
<1>16. CopiesAgree(rob, phase \in UntilUnitsWork)'
  <2>1. (phase' \in UntilUnitsWork) \in BOOLEAN
    OBVIOUS
  <2> QED
    BY <1>6, <2>1, Agreement
<1>17. PoolsInStep'
  <2>1. BuffersInStep(mb', rob')
    BY <1>7, SameReaders DEF PoolsAre
  <2> QED
    BY <2>1 DEF PoolsAre, PoolsInStep
<1>18. IndexInRange'
  BY DEF IndexInRange
<1> QED
  BY <1>6, <1>10, <1>11, <1>13, <1>14, <1>15, <1>16, <1>17, <1>18 DEF Inv

\* handle_al_operation keeps the invariant.
LEMMA IssueAlKeeps == Inv /\ IssueAl => Inv'
<1> SUFFICES ASSUME Inv, IssueAl PROVE Inv'
  OBVIOUS
<1> DEFINE inst == inst_queue_front(iq, index)
           j == IF inst.op \in ImmOp \cup RegOp THEN set_q_v(inst.rs1) ELSE value(inst.imm)
           k == IF inst.op \in RegOp THEN set_q_v(inst.rs2)
                ELSE value(IF inst.op \in ImmOp THEN inst.imm ELSE NA)
           id == rob_enqueue_id(rob)
<1>1. /\ phase = "issue" /\ index < batch_size /\ op_type_of(inst.op) = "AL"
      /\ iq' = inst_queue_dequeue(iq) /\ reg_insts' = reg_insts
      /\ program' = program /\ UNCHANGED unitVars /\ cdb' = cdb /\ phase' = phase
      /\ index' = index + 1
      /\ branch_rs' = branch_rs /\ mb' = mb
      /\ Rename(inst.rd, id)
  BY DEF IssueAl, Issuing
<1>2. /\ rob' = rob_enqueue(rob, "AL", inst.rd, NA, NA, NA, NA)
      /\ alu_rs' = res_stations_add(alu_rs, inst.op, j.q, k.q, j.v, k.v, NA, id, inst.inst_pc)
  BY DEF IssueAl
<1>3. /\ IsInst(inst) /\ id \in RobIds
      /\ PoolsAre(alu_rs, branch_rs, mb, rob, index)
      /\ alu_rs.added < res_stations_num_free(alu_rs)
  BY <1>1, IssueMeets
<1>4. j.q \in {0} \cup RobIds /\ k.q \in {0} \cup RobIds
  <2>1. inst.rs1 \in Regs /\ inst.rs2 \in Regs
    BY <1>3 DEF IsInst
  <2>2. IsFile(regs) /\ dependencies \in [Regs -> {0} \cup RobIds]
    BY DEF Inv, Shapes
  <2> QED
    BY <2>1, <2>2, OperandIsId
<1> HIDE DEF inst, j, k, id
<1>5. StationEnters(alu_rs', alu_rs, NUM_ALU_RES_STATIONS, id, inst.op)
  <2>1. IsStations(alu_rs, NUM_ALU_RES_STATIONS) /\ StationsInStep(alu_rs)
        /\ NUM_ALU_RES_STATIONS \in Nat
        /\ id \in RobIds /\ alu_rs.added < res_stations_num_free(alu_rs)
    BY <1>3, Sizes DEF PoolsAre
  <2> QED
    BY <1>2, <1>4, <2>1, EnterStations
<1>6. PICK i : Gains(InPool("alu_rs", alu_rs'.next), InPool("alu_rs", alu_rs.next),
                     Holder("alu_rs", i, id, inst.op))
  BY <1>5 DEF StationEnters, Joins
<1>7. \A h \in Held' : h \in Held \/ h = Holder("alu_rs", i, id, inst.op)
  BY <1>1, <1>6 DEF Held, Gains, unitVars
<1>8. PoolsAre(alu_rs', branch_rs', mb', rob, index + 1)
  <2>1. alu_rs.added \in Nat /\ branch_rs.added \in Nat /\ mb.count_enqueue \in Nat
    BY <1>3, StationFields, BufferFields DEF PoolsAre
  <2>2. index \in Nat
    BY DEF Inv, Shapes
  <2> QED
    BY <1>1, <1>3, <1>5, <2>1, <2>2 DEF PoolsAre, StationEnters
<1>9. IsRoute("alu_rs", op_type_of(inst.op)) /\ op_type_of(inst.op) \in OpType
      /\ NA \in {0} \cup RobIds
  BY <1>1 DEF IsRoute, OpType, NA
<1> QED
  BY <1>1, <1>2, <1>7, <1>8, <1>9, IssueStep DEF inst, id
\* handle_branch_operation keeps the invariant.
LEMMA IssueBranchKeeps == Inv /\ IssueBranch => Inv'
<1> SUFFICES ASSUME Inv, IssueBranch PROVE Inv'
  OBVIOUS
<1> DEFINE inst == inst_queue_front(iq, index)
           j == IF inst.op \in BranchOp \cup {"JALR"} THEN set_q_v(inst.rs1) ELSE value(NA)
           k == IF inst.op \in BranchOp THEN set_q_v(inst.rs2) ELSE value(NA)
           id == rob_enqueue_id(rob)
<1>1. /\ phase = "issue" /\ index < batch_size /\ op_type_of(inst.op) \in {"JUMP", "BRANCH"}
      /\ iq' = inst_queue_dequeue(iq) /\ reg_insts' = reg_insts
      /\ program' = program /\ UNCHANGED unitVars /\ cdb' = cdb /\ phase' = phase
      /\ index' = index + 1
      /\ alu_rs' = alu_rs /\ mb' = mb
      /\ Rename(inst.rd, id)
  BY DEF IssueBranch, Issuing
<1>2. /\ rob' = rob_enqueue(rob, op_type_of(inst.op), inst.rd, NA, NA,
                             inst.npc_pred, inst.inst_pc)
      /\ branch_rs' = res_stations_add(branch_rs, inst.op, j.q, k.q, j.v, k.v,
                                       inst.imm, id, inst.inst_pc)
  BY DEF IssueBranch
<1>3. /\ IsInst(inst) /\ id \in RobIds
      /\ PoolsAre(alu_rs, branch_rs, mb, rob, index)
      /\ branch_rs.added < res_stations_num_free(branch_rs)
  BY <1>1, IssueMeets
<1>4. j.q \in {0} \cup RobIds /\ k.q \in {0} \cup RobIds
  <2>1. inst.rs1 \in Regs /\ inst.rs2 \in Regs
    BY <1>3 DEF IsInst
  <2>2. IsFile(regs) /\ dependencies \in [Regs -> {0} \cup RobIds]
    BY DEF Inv, Shapes
  <2> QED
    BY <2>1, <2>2, OperandIsId
<1> HIDE DEF inst, j, k, id
<1>5. StationEnters(branch_rs', branch_rs, NUM_BRANCH_RES_STATIONS, id, inst.op)
  <2>1. IsStations(branch_rs, NUM_BRANCH_RES_STATIONS) /\ StationsInStep(branch_rs)
        /\ NUM_BRANCH_RES_STATIONS \in Nat
        /\ id \in RobIds /\ branch_rs.added < res_stations_num_free(branch_rs)
    BY <1>3, Sizes DEF PoolsAre
  <2> QED
    BY <1>2, <1>4, <2>1, EnterStations
<1>6. PICK i : Gains(InPool("branch_rs", branch_rs'.next), InPool("branch_rs", branch_rs.next),
                     Holder("branch_rs", i, id, inst.op))
  BY <1>5 DEF StationEnters, Joins
<1>7. \A h \in Held' : h \in Held \/ h = Holder("branch_rs", i, id, inst.op)
  BY <1>1, <1>6 DEF Held, Gains, unitVars
<1>8. PoolsAre(alu_rs', branch_rs', mb', rob, index + 1)
  <2>1. alu_rs.added \in Nat /\ branch_rs.added \in Nat /\ mb.count_enqueue \in Nat
    BY <1>3, StationFields, BufferFields DEF PoolsAre
  <2>2. index \in Nat
    BY DEF Inv, Shapes
  <2> QED
    BY <1>1, <1>3, <1>5, <2>1, <2>2 DEF PoolsAre, StationEnters
<1>9. IsRoute("branch_rs", op_type_of(inst.op)) /\ op_type_of(inst.op) \in OpType
      /\ NA \in {0} \cup RobIds
  BY <1>1 DEF IsRoute, OpType, NA
<1> QED
  BY <1>1, <1>2, <1>7, <1>8, <1>9, IssueStep DEF inst, id
\* handle_mem_operation keeps the invariant.
LEMMA IssueMemoryKeeps == Inv /\ IssueMemory => Inv'
<1> SUFFICES ASSUME Inv, IssueMemory PROVE Inv'
  OBVIOUS
<1> DEFINE inst == inst_queue_front(iq, index)
           j == set_q_v(inst.rs1)
           k == IF inst.op \in StoreOp THEN set_q_v(inst.rs2) ELSE value(NA)
           id == rob_enqueue_id(rob)
<1>1. /\ phase = "issue" /\ index < batch_size /\ op_type_of(inst.op) \in {"LOAD"} \cup StoreType
      /\ iq' = inst_queue_dequeue(iq) /\ reg_insts' = reg_insts
      /\ program' = program /\ UNCHANGED unitVars /\ cdb' = cdb /\ phase' = phase
      /\ index' = index + 1
      /\ alu_rs' = alu_rs /\ branch_rs' = branch_rs
      /\ Rename(inst.rd, id)
  BY DEF IssueMemory, Issuing
<1>2. /\ rob' = rob_enqueue(rob, op_type_of(inst.op), inst.rd, k.v, k.q, NA, NA)
      /\ mb' = memory_buffers_enqueue(mb, inst.op, j.q, k.q, j.v, k.v, inst.imm, id)
  BY DEF IssueMemory
<1>3. /\ IsInst(inst) /\ id \in RobIds
      /\ PoolsAre(alu_rs, branch_rs, mb, rob, index)
      /\ mb.count_enqueue < memory_buffers_num_free(mb)
  BY <1>1, IssueMeets
<1>4. j.q \in {0} \cup RobIds /\ k.q \in {0} \cup RobIds
  <2>1. inst.rs1 \in Regs /\ inst.rs2 \in Regs
    BY <1>3 DEF IsInst
  <2>2. IsFile(regs) /\ dependencies \in [Regs -> {0} \cup RobIds]
    BY DEF Inv, Shapes
  <2> QED
    BY <2>1, <2>2, OperandIsId
<1> HIDE DEF inst, j, k, id
<1>5. BufferEnters(mb', mb, NUM_MEMORY_BUFFERS, rob, id, inst.op)
  <2>1. IsBuffers(mb, NUM_MEMORY_BUFFERS) /\ BuffersInStep(mb, rob)
        /\ NUM_MEMORY_BUFFERS \in Nat
        /\ id \in RobIds /\ mb.count_enqueue < memory_buffers_num_free(mb)
    BY <1>3, Sizes DEF PoolsAre
  <2> QED
    BY <1>2, <1>4, <2>1, EnterBuffers
<1>6. PICK i : Gains(InPool("mb", mb'.next), InPool("mb", mb.next), Holder("mb", i, id, inst.op))
  BY <1>5 DEF BufferEnters, Joins
<1>7. \A h \in Held' : h \in Held \/ h = Holder("mb", i, id, inst.op)
  BY <1>1, <1>6 DEF Held, Gains, unitVars
<1>8. PoolsAre(alu_rs', branch_rs', mb', rob, index + 1)
  <2>1. alu_rs.added \in Nat /\ branch_rs.added \in Nat /\ mb.count_enqueue \in Nat
    BY <1>3, StationFields, BufferFields DEF PoolsAre
  <2>2. index \in Nat
    BY DEF Inv, Shapes
  <2> QED
    BY <1>1, <1>3, <1>5, <2>1, <2>2 DEF PoolsAre, BufferEnters
<1>9. IsRoute("mb", op_type_of(inst.op)) /\ op_type_of(inst.op) \in OpType
      /\ NA \in {0} \cup RobIds
  BY <1>1 DEF IsRoute, OpType, StoreType, NA
<1> QED
  BY <1>1, <1>2, <1>4, <1>7, <1>8, <1>9, IssueStep DEF inst, id

-----------------------------------------------------------------------------

(* The functional units. *)

\* A step that leaves the reorder buffer alone answers nobody.
LEMMA AnswersNothing == \A r : Answers(r, r, {})
  BY DEF Answers

UnitPhases == {"alu", "branch", "memory", "address"}

\* The loop of step() over the units of one kind.
LEMMA UnitAdvances ==
    ASSUME index \in Nat, NEW n \in Nat \ {0}, NEW next, index < n, Advance(n, next)
    PROVE  /\ index' \in Nat /\ dependencies' = dependencies
           /\ \/ index' < n /\ phase' = phase
              \/ index' = 0 /\ phase' = next
  BY DEF Advance

\* What is left to show of a step that answers for the instructions A.
LEMMA UnitStep ==
    ASSUME Inv, phase \in UnitPhases, phase' \in UnitPhases \cup {"capture"},
           index' \in Nat, IndexInRange', dependencies' = dependencies,
           program' = program, iq' = iq, reg_insts' = reg_insts, regs' = regs,
           IsUnits(alus', NUM_ALU_UNITS), IsBranchUnits(branch_units', NUM_BRANCH_UNITS),
           IsUnits(memory_units', NUM_MEMORY_UNITS),
           IsAddressUnits(address_units', NUM_ADDRESS_UNITS),
           IsBus(cdb'), IsRob(rob'), NEW A, Answers(rob, rob', A),
           IsStations(alu_rs', NUM_ALU_RES_STATIONS), StationsInStep(alu_rs'),
           IsStations(branch_rs', NUM_BRANCH_RES_STATIONS), StationsInStep(branch_rs'),
           IsBuffers(mb', NUM_MEMORY_BUFFERS), BuffersInStep(mb', rob),
           Settled(Held', rob')
    PROVE  Inv'
<1>1. /\ Windows(rob, phase, index) /\ EntriesInPlace(rob) /\ Named(rob, regs)
      /\ CopiesAgree(rob, phase \in UntilUnitsWork) /\ BatchSeesItself
  BY DEF Inv
<1>2. Shapes'
  <2>1. /\ program \in Programs /\ IsQueue(iq) /\ IsRegister(reg_insts) /\ IsFile(regs)
        /\ dependencies \in [Regs -> {0} \cup RobIds]
    BY DEF Inv, Shapes
  <2> QED
    BY <2>1 DEF Shapes
<1>3. CopiesAgree(rob, FALSE)
  <2>1. (phase \in UntilUnitsWork) \in BOOLEAN
    OBVIOUS
  <2> QED
    BY <1>1, <2>1, Agreement
<1>4. /\ EntriesInPlace(rob') /\ CopiesAgree(rob', FALSE)
      /\ \A now, n : Windows(rob, now, n) /\ now # "commit" => Windows(rob', now, n)
  BY <1>1, <1>3, AnswersKeep
<1>5. Windows(rob', phase', index')
  <2>1. Windows(rob, phase', index')
    BY <1>1 DEF Windows, UnitPhases
  <2>2. phase' # "commit"
    BY DEF UnitPhases
  <2> QED
    BY <1>4, <2>1, <2>2
<1>6. CopiesAgree(rob', phase' \in UntilUnitsWork)
  <2>1. phase' \notin UntilUnitsWork
    BY DEF UnitPhases, UntilUnitsWork
  <2>2. CopiesAgree(rob', FALSE) => CopiesAgree(rob', phase' \in UntilUnitsWork)
    BY <2>1 DEF CopiesAgree
  <2> QED
    BY <1>4, <2>2
<1>7. PoolsInStep'
  <2>1. rob'.queue_current = rob.queue_current /\ rob'.front_current = rob.front_current
    BY DEF Answers
  <2>2. BuffersInStep(mb', rob')
    BY <2>1, SameReaders
  <2> QED
    BY <2>2 DEF PoolsInStep, UnitPhases
<1>8. BatchSeesItself'
  BY <1>1 DEF BatchSeesItself, UnitPhases
<1>9. Named(rob', regs')
  BY <1>1, NamedAnswers
<1> QED
  BY <1>2, <1>4, <1>5, <1>6, <1>7, <1>8, <1>9 DEF Inv

\* Which units there are, and what the pools are before a unit works.
LEMMA UnitsBefore ==
    ASSUME Inv, phase \in UnitPhases
    PROVE  /\ index \in Nat
           /\ IsUnits(alus, NUM_ALU_UNITS) /\ IsBranchUnits(branch_units, NUM_BRANCH_UNITS)
           /\ IsUnits(memory_units, NUM_MEMORY_UNITS)
           /\ IsAddressUnits(address_units, NUM_ADDRESS_UNITS)
           /\ IsBus(cdb) /\ IsRob(rob)
           /\ IsStations(alu_rs, NUM_ALU_RES_STATIONS) /\ StationsInStep(alu_rs)
           /\ IsStations(branch_rs, NUM_BRANCH_RES_STATIONS) /\ StationsInStep(branch_rs)
           /\ IsBuffers(mb, NUM_MEMORY_BUFFERS) /\ BuffersInStep(mb, rob)
           /\ Settled(Held, rob)
           /\ phase = "alu" => index < NUM_ALU_UNITS
           /\ phase = "branch" => index < NUM_BRANCH_UNITS
           /\ phase = "memory" => index < NUM_MEMORY_UNITS
           /\ phase = "address" => index < NUM_ADDRESS_UNITS
  BY DEF Inv, Shapes, PoolsInStep, IndexInRange, UnitPhases

\* What a step of the units leaves as it is, for those it does not work on.
UnitStepShapes ==
    /\ IsUnits(alus', NUM_ALU_UNITS) /\ IsBranchUnits(branch_units', NUM_BRANCH_UNITS)
    /\ IsUnits(memory_units', NUM_MEMORY_UNITS)
    /\ IsAddressUnits(address_units', NUM_ADDRESS_UNITS)
    /\ IsBus(cdb') /\ IsRob(rob')
    /\ IsStations(alu_rs', NUM_ALU_RES_STATIONS) /\ StationsInStep(alu_rs')
    /\ IsStations(branch_rs', NUM_BRANCH_RES_STATIONS) /\ StationsInStep(branch_rs')
    /\ IsBuffers(mb', NUM_MEMORY_BUFFERS) /\ BuffersInStep(mb', rob)

\* What BusWrites says, in a form the steps can cite.
BusTakes(new, bus, id) ==
    /\ IsBus(new)
    /\ \E i : \A h \in InBus(new) : h \in InBus(bus) \/ h = Holder("cdb", i, id, NA)

\* A result on the bus speaks for its instruction only.
LEMMA ResultGoesOut ==
    ASSUME NEW bus, IsBus(bus), NEW id \in RobIds, NEW val
    PROVE  BusTakes(cdb_write(bus, id, val), bus, id)
<1>1. IsBus(cdb_write(bus, id, val))
  BY BusWrites
<1>2. \E i : \A h \in InBus(cdb_write(bus, id, val)) :
                h \in InBus(bus) \/ h = Holder("cdb", i, id, NA)
  BY BusWrites, Zenon
<1> QED
  BY <1>1, <1>2 DEF BusTakes

-----------------------------------------------------------------------------

\* alu_step keeps the invariant.
LEMMA AluStepKeeps == Inv /\ AluStep => Inv'
<1> SUFFICES ASSUME Inv, AluStep PROVE Inv'
  OBVIOUS
<1> DEFINE i == index + 1
           unit == alus[i]
           station == res_stations_ready(alu_rs)
           n == NUM_ALU_UNITS
<1>1. /\ phase = "alu" /\ Advance(n, "branch")
      /\ program' = program /\ iq' = iq /\ reg_insts' = reg_insts /\ regs' = regs
      /\ branch_rs' = branch_rs /\ mb' = mb /\ rob' = rob
      /\ branch_units' = branch_units /\ memory_units' = memory_units
      /\ address_units' = address_units
  BY DEF AluStep, frontVars
<1>2. phase \in UnitPhases
  BY <1>1 DEF UnitPhases
<1>3. /\ index \in Nat /\ index < n /\ n \in Nat \ {0}
      /\ IsUnits(alus, n) /\ IsBus(cdb) /\ IsRob(rob) /\ Settled(Held, rob)
      /\ IsStations(alu_rs, NUM_ALU_RES_STATIONS) /\ StationsInStep(alu_rs)
  BY <1>1, <1>2, UnitsBefore, Sizes
<1>4. i \in 1 .. n
  BY <1>3
<1>5. /\ index' \in Nat /\ dependencies' = dependencies
      /\ phase' \in {"alu", "branch"}
      /\ phase' = "alu" => index' < n
      /\ phase' = "branch" => index' = 0
  BY <1>1, <1>3, UnitAdvances
<1>6. phase' \in UnitPhases \cup {"capture"} /\ IndexInRange'
  BY <1>5, Sizes DEF UnitPhases, IndexInRange
<1> HIDE DEF i, n, unit, station
<1>7. /\ unit.relative_cycle \in Nat
      /\ IsUnit(count(unit)) /\ IsUnit(free(unit))
      /\ count(unit).relative_cycle = unit.relative_cycle + 1
      /\ count(unit).entry_rob_id = unit.entry_rob_id
      /\ free(unit).relative_cycle = 0
      /\ free(unit).entry_rob_id = unit.entry_rob_id
  BY <1>3, <1>4, UnitFields DEF unit
<1>8. \A new : IsUnit(new) /\ (unit.relative_cycle > 0 => new.entry_rob_id = unit.entry_rob_id)
                  => UnitPut(alus, i, new, n, "alu")
  BY <1>3, <1>4, PutUnit DEF unit
<1>9. Answers(rob, rob', {})
  BY <1>1, AnswersNothing
\* It is enough that all stay where they are, but one who may move on.
<1>10. ASSUME IsUnits(alus', n), IsBus(cdb'),
              IsStations(alu_rs', NUM_ALU_RES_STATIONS), StationsInStep(alu_rs'),
              Settled(Held', rob)
       PROVE  Inv'
  <2>1. Settled(Held', rob')
    BY <1>1, <1>10
  <2>2. UnitStepShapes
    BY <1>1, <1>2, <1>10, UnitsBefore DEF UnitStepShapes, n
  <2> QED
    BY <1>1, <1>2, <1>5, <1>6, <1>9, <2>1, <2>2, UnitStep DEF UnitStepShapes
<1>11. CASE /\ unit.relative_cycle = 0
            /\ res_stations_has_ready(alu_rs)
            /\ alu_rs' = res_stations_remove(alu_rs)
            /\ cdb' = cdb
            /\ \E out : alus' = Put(alus, i,
                    [relative_cycle |-> 1, num_cycles |-> CYCLES_AL,
                     entry_rob_id |-> station.rob_id, out |-> out])
  <2>1. PICK out : alus' = Put(alus, i,
                    [relative_cycle |-> 1, num_cycles |-> CYCLES_AL,
                     entry_rob_id |-> station.rob_id, out |-> out])
    BY <1>11
  <2> DEFINE new == [relative_cycle |-> 1, num_cycles |-> CYCLES_AL,
                     entry_rob_id |-> station.rob_id, out |-> out]
             later == Holder("alu", i, station.rob_id, NA)
  <2>2. IsUnit(new)
    <3>1. new \in UnitOf({CYCLES_AL, station.rob_id, out})
      BY DEF UnitOf
    <3> QED
      BY <3>1 DEF IsUnit
  <2>3. new.relative_cycle = 1 /\ new.entry_rob_id = station.rob_id
    OBVIOUS
  <2>4. alus' = Put(alus, i, new)
    BY <2>1
  <2> HIDE DEF new
  <2>5. UnitPut(alus, i, new, n, "alu")
    BY <1>8, <1>11, <2>2
  <2>6. IsUnits(alus', n) /\ Gains(InUnits("alu", alus'), InUnits("alu", alus), later)
    BY <1>11, <2>3, <2>4, <2>5 DEF UnitPut, Turns, unit
  <2>7. StationLeaves(alu_rs', alu_rs, NUM_ALU_RES_STATIONS, station.rob_id, station.op)
    BY <1>3, <1>11, Sizes, LeaveStations DEF station
  <2>8. PICK k : Loses(InPool("alu_rs", alu_rs'.next), InPool("alu_rs", alu_rs.next),
                       Holder("alu_rs", k, station.rob_id, station.op))
    BY <2>7 DEF StationLeaves, Departs
  <2> DEFINE earlier == Holder("alu_rs", k, station.rob_id, station.op)
  <2>9. /\ earlier[1] = "alu_rs" /\ earlier[3] = station.rob_id
        /\ later[1] = "alu" /\ later[3] = station.rob_id
    BY HolderParts
  <2> HIDE DEF earlier, later
  <2>10. earlier \in Held
    BY <2>8, HeldMember DEF Loses, earlier
  <2>11. \A h \in Held' : h = later \/ (h \in Held /\ h # earlier)
    BY <1>1, <1>11, <2>6, <2>8, <2>9, HeldMember, PlaceOf DEF Held, Gains, Loses, earlier
  <2>12. Fits(later, rob.queue_next[later[3] - 1])
    <3>1. Fits(earlier, rob.queue_next[earlier[3] - 1])
      BY <1>3, <2>10, SettledMember
    <3> QED
      BY <2>9, <3>1 DEF Fits, HasResult, IsStore, StoreType
  <2>13. Settled(Held', rob)
    BY <1>3, <2>9, <2>10, <2>11, <2>12, SettledMoves
  <2> QED
    BY <1>3, <1>10, <1>11, <2>6, <2>7, <2>13 DEF StationLeaves
<1>12. CASE alus' = alus /\ alu_rs' = alu_rs /\ cdb' = cdb
  <2>1. Held' = Held
    BY <1>1, <1>5, <1>12 DEF Held
  <2> QED
    BY <1>3, <1>10, <1>12, <2>1
<1>13. CASE AtWork(unit) /\ alus' = Put(alus, i, count(unit)) /\ alu_rs' = alu_rs /\ cdb' = cdb
  <2>1. UnitPut(alus, i, count(unit), n, "alu")
    BY <1>7, <1>8
  <2>2. unit.relative_cycle > 0 /\ count(unit).relative_cycle > 0
    BY <1>7, <1>13 DEF AtWork
  <2>3. IsUnits(alus', n) /\ InUnits("alu", alus') = InUnits("alu", alus)
    BY <1>13, <2>1, <2>2 DEF UnitPut, Turns, unit
  <2>4. Held' = Held
    BY <1>1, <1>5, <1>13, <2>3 DEF Held
  <2> QED
    BY <1>3, <1>10, <1>13, <2>3, <2>4
<1>14. CASE /\ Finished(unit) /\ alus' = Put(alus, i, free(unit)) /\ alu_rs' = alu_rs
            /\ cdb' = cdb_write(cdb, unit.entry_rob_id, unit.out)
  <2> DEFINE id == unit.entry_rob_id
             earlier == Holder("alu", i, id, NA)
  <2>1. UnitPut(alus, i, free(unit), n, "alu")
    BY <1>7, <1>8
  <2>2. unit.relative_cycle > 0 /\ free(unit).relative_cycle = 0
    BY <1>7, <1>14 DEF Finished
  <2>3. free(unit).entry_rob_id = id
    BY <1>7
  <2>4. IsUnits(alus', n) /\ Loses(InUnits("alu", alus'), InUnits("alu", alus), earlier)
    BY <1>14, <2>1, <2>2, <2>3 DEF UnitPut, Turns, unit
  <2>5. earlier \in Held
    BY <2>4, HeldMember DEF Loses
  <2>6. earlier[1] = "alu" /\ earlier[3] = id
    BY HolderParts
  <2>7. id \in RobIds
    BY <1>3, <2>5, <2>6, SettledMember
  <2>8. BusTakes(cdb', cdb, id)
    BY <1>3, <1>14, <2>7, ResultGoesOut
  <2>9. PICK k : \A h \in InBus(cdb') : h \in InBus(cdb) \/ h = Holder("cdb", k, id, NA)
    BY <2>8 DEF BusTakes
  <2> DEFINE later == Holder("cdb", k, id, NA)
  <2>10. later[1] = "cdb" /\ later[3] = id
    BY HolderParts
  <2> HIDE DEF id, earlier, later
  <2>11. \A h \in Held' : h = later \/ (h \in Held /\ h # earlier)
    BY <1>1, <1>14, <2>4, <2>6, <2>9, HeldMember, PlaceOf DEF Held, Loses, later
  <2>12. Fits(later, rob.queue_next[later[3] - 1])
    <3>1. Fits(earlier, rob.queue_next[earlier[3] - 1])
      BY <1>3, <2>5, SettledMember
    <3> QED
      BY <2>6, <2>10, <3>1 DEF Fits, HasResult, IsStore, StoreType
  <2>13. Settled(Held', rob)
    BY <1>3, <2>5, <2>6, <2>10, <2>11, <2>12, SettledMoves
  <2> QED
    BY <1>3, <1>10, <1>14, <2>4, <2>8, <2>13 DEF BusTakes
<1>15. \/ /\ unit.relative_cycle = 0
          /\ res_stations_has_ready(alu_rs)
          /\ alu_rs' = res_stations_remove(alu_rs)
          /\ cdb' = cdb
          /\ \E out : alus' = Put(alus, i,
                    [relative_cycle |-> 1, num_cycles |-> CYCLES_AL,
                     entry_rob_id |-> station.rob_id, out |-> out])
       \/ alus' = alus /\ alu_rs' = alu_rs /\ cdb' = cdb
       \/ AtWork(unit) /\ alus' = Put(alus, i, count(unit)) /\ alu_rs' = alu_rs /\ cdb' = cdb
       \/ /\ Finished(unit) /\ alus' = Put(alus, i, free(unit)) /\ alu_rs' = alu_rs
          /\ cdb' = cdb_write(cdb, unit.entry_rob_id, unit.out)
  BY DEF AluStep, Put, unit, station, i
<1> QED
  BY <1>11, <1>12, <1>13, <1>14, <1>15

-----------------------------------------------------------------------------

\* memory_step keeps the invariant.
LEMMA MemoryStepKeeps == Inv /\ MemoryStep => Inv'
<1> SUFFICES ASSUME Inv, MemoryStep PROVE Inv'
  OBVIOUS
<1> DEFINE i == index + 1
           unit == memory_units[i]
           loads == memory_candidate(mb, rob)
           n == NUM_MEMORY_UNITS
<1>1. /\ phase = "memory" /\ Advance(n, "address")
      /\ program' = program /\ iq' = iq /\ reg_insts' = reg_insts /\ regs' = regs
      /\ branch_rs' = branch_rs /\ alu_rs' = alu_rs /\ rob' = rob
      /\ branch_units' = branch_units /\ alus' = alus
      /\ address_units' = address_units
  BY DEF MemoryStep, frontVars
<1>2. phase \in UnitPhases
  BY <1>1 DEF UnitPhases
<1>3. /\ index \in Nat /\ index < n /\ n \in Nat \ {0}
      /\ IsUnits(memory_units, n) /\ IsBus(cdb) /\ IsRob(rob) /\ Settled(Held, rob)
      /\ IsBuffers(mb, NUM_MEMORY_BUFFERS) /\ BuffersInStep(mb, rob)
  BY <1>1, <1>2, UnitsBefore, Sizes
<1>4. i \in 1 .. n
  BY <1>3
<1>5. /\ index' \in Nat /\ dependencies' = dependencies
      /\ phase' \in {"memory", "address"}
      /\ phase' = "memory" => index' < n
      /\ phase' = "address" => index' = 0
  BY <1>1, <1>3, UnitAdvances
<1>6. phase' \in UnitPhases \cup {"capture"} /\ IndexInRange'
  BY <1>5, Sizes DEF UnitPhases, IndexInRange
<1> HIDE DEF i, n, unit, loads
<1>7. /\ unit.relative_cycle \in Nat
      /\ IsUnit(count(unit)) /\ IsUnit(free(unit))
      /\ count(unit).relative_cycle = unit.relative_cycle + 1
      /\ count(unit).entry_rob_id = unit.entry_rob_id
      /\ free(unit).relative_cycle = 0
      /\ free(unit).entry_rob_id = unit.entry_rob_id
  BY <1>3, <1>4, UnitFields DEF unit
<1>8. \A new : IsUnit(new) /\ (unit.relative_cycle > 0 => new.entry_rob_id = unit.entry_rob_id)
                  => UnitPut(memory_units, i, new, n, "memory")
  BY <1>3, <1>4, PutUnit DEF unit
<1>9. Answers(rob, rob', {})
  BY <1>1, AnswersNothing
\* It is enough that all stay where they are, but one who may move on.
<1>10. ASSUME IsUnits(memory_units', n), IsBus(cdb'),
              IsBuffers(mb', NUM_MEMORY_BUFFERS), BuffersInStep(mb', rob),
              Settled(Held', rob)
       PROVE  Inv'
  <2>1. Settled(Held', rob')
    BY <1>1, <1>10
  <2>2. UnitStepShapes
    BY <1>1, <1>2, <1>10, UnitsBefore DEF UnitStepShapes, n
  <2> QED
    BY <1>1, <1>2, <1>5, <1>6, <1>9, <2>1, <2>2, UnitStep DEF UnitStepShapes
<1>11. ASSUME unit.relative_cycle = 0,
              NEW k \in loads,
              mb' = memory_buffers_dequeue_memory(mb, k),
              cdb' = cdb,
              NEW out,
              memory_units' = Put(memory_units, i,
                    [relative_cycle |-> 1, num_cycles |-> CYCLES_MEMORY,
                     entry_rob_id |-> mb.current[k].rob_id, out |-> out])
       PROVE  Inv'
  <2> DEFINE id == mb.current[k].rob_id
             new == [relative_cycle |-> 1, num_cycles |-> CYCLES_MEMORY,
                     entry_rob_id |-> id, out |-> out]
             later == Holder("memory", i, id, NA)
             earlier == Holder("mb", k, id, mb.current[k].op)
  <2>2. IsUnit(new)
    <3>1. new \in UnitOf({CYCLES_MEMORY, id, out})
      BY DEF UnitOf
    <3> QED
      BY <3>1 DEF IsUnit
  <2>3. new.relative_cycle = 1 /\ new.entry_rob_id = id
    OBVIOUS
  <2>4. memory_units' = Put(memory_units, i, new)
    BY <1>11
  <2> HIDE DEF new
  <2>5. UnitPut(memory_units, i, new, n, "memory")
    BY <1>8, <1>11, <2>2
  <2>6. IsUnits(memory_units', n) /\ Gains(InUnits("memory", memory_units'), InUnits("memory", memory_units), later)
    BY <1>11, <2>3, <2>4, <2>5 DEF UnitPut, Turns, unit
  <2>7. LoadLeaves(mb', mb, NUM_MEMORY_BUFFERS, rob, "mb", k)
    BY <1>3, <1>11, Sizes, LeaveForMemory DEF loads
  <2>8. /\ Loses(InPool("mb", mb'.next), InPool("mb", mb.next), earlier)
        /\ mb.current[k].op \in LoadOp
    BY <2>7 DEF LoadLeaves, HolderOf
  <2>9. /\ earlier[1] = "mb" /\ earlier[3] = id /\ earlier[4] \in LoadOp
        /\ later[1] = "memory" /\ later[3] = id
    BY <2>8, HolderParts
  <2> HIDE DEF earlier, later
  <2>10. earlier \in Held
    BY <2>8, HeldMember DEF Loses, earlier
  <2>11. \A h \in Held' : h = later \/ (h \in Held /\ h # earlier)
    BY <1>1, <1>11, <2>6, <2>8, <2>9, HeldMember, PlaceOf DEF Held, Gains, Loses, earlier
  <2>12. Fits(later, rob.queue_next[later[3] - 1])
    <3>1. Fits(earlier, rob.queue_next[earlier[3] - 1])
      BY <1>3, <2>10, SettledMember
    <3> QED
      BY <2>9, <3>1 DEF Fits, HasResult, IsStore, StoreType
  <2>13. Settled(Held', rob)
    BY <1>3, <2>9, <2>10, <2>11, <2>12, SettledMoves
  <2> QED
    BY <1>3, <1>10, <1>11, <2>6, <2>7, <2>13 DEF LoadLeaves, BuffersAfter
<1>12. CASE memory_units' = memory_units /\ mb' = mb /\ cdb' = cdb
  <2>1. Held' = Held
    BY <1>1, <1>5, <1>12 DEF Held
  <2> QED
    BY <1>3, <1>10, <1>12, <2>1
<1>13. CASE AtWork(unit) /\ memory_units' = Put(memory_units, i, count(unit)) /\ mb' = mb /\ cdb' = cdb
  <2>1. UnitPut(memory_units, i, count(unit), n, "memory")
    BY <1>7, <1>8
  <2>2. unit.relative_cycle > 0 /\ count(unit).relative_cycle > 0
    BY <1>7, <1>13 DEF AtWork
  <2>3. IsUnits(memory_units', n) /\ InUnits("memory", memory_units') = InUnits("memory", memory_units)
    BY <1>13, <2>1, <2>2 DEF UnitPut, Turns, unit
  <2>4. Held' = Held
    BY <1>1, <1>5, <1>13, <2>3 DEF Held
  <2> QED
    BY <1>3, <1>10, <1>13, <2>3, <2>4
<1>14. CASE /\ Finished(unit) /\ memory_units' = Put(memory_units, i, free(unit)) /\ mb' = mb
            /\ cdb' = cdb_write(cdb, unit.entry_rob_id, unit.out)
  <2> DEFINE id == unit.entry_rob_id
             earlier == Holder("memory", i, id, NA)
  <2>1. UnitPut(memory_units, i, free(unit), n, "memory")
    BY <1>7, <1>8
  <2>2. unit.relative_cycle > 0 /\ free(unit).relative_cycle = 0
    BY <1>7, <1>14 DEF Finished
  <2>3. free(unit).entry_rob_id = id
    BY <1>7
  <2>4. IsUnits(memory_units', n) /\ Loses(InUnits("memory", memory_units'), InUnits("memory", memory_units), earlier)
    BY <1>14, <2>1, <2>2, <2>3 DEF UnitPut, Turns, unit
  <2>5. earlier \in Held
    BY <2>4, HeldMember DEF Loses
  <2>6. earlier[1] = "memory" /\ earlier[3] = id
    BY HolderParts
  <2>7. id \in RobIds
    BY <1>3, <2>5, <2>6, SettledMember
  <2>8. BusTakes(cdb', cdb, id)
    BY <1>3, <1>14, <2>7, ResultGoesOut
  <2>9. PICK k : \A h \in InBus(cdb') : h \in InBus(cdb) \/ h = Holder("cdb", k, id, NA)
    BY <2>8 DEF BusTakes
  <2> DEFINE later == Holder("cdb", k, id, NA)
  <2>10. later[1] = "cdb" /\ later[3] = id
    BY HolderParts
  <2> HIDE DEF id, earlier, later
  <2>11. \A h \in Held' : h = later \/ (h \in Held /\ h # earlier)
    BY <1>1, <1>14, <2>4, <2>6, <2>9, HeldMember, PlaceOf DEF Held, Loses, later
  <2>12. Fits(later, rob.queue_next[later[3] - 1])
    <3>1. Fits(earlier, rob.queue_next[earlier[3] - 1])
      BY <1>3, <2>5, SettledMember
    <3> QED
      BY <2>6, <2>10, <3>1 DEF Fits, HasResult, IsStore, StoreType
  <2>13. Settled(Held', rob)
    BY <1>3, <2>5, <2>6, <2>10, <2>11, <2>12, SettledMoves
  <2> QED
    BY <1>3, <1>10, <1>14, <2>4, <2>8, <2>13 DEF BusTakes
<1>15. \/ /\ unit.relative_cycle = 0
          /\ \E k \in loads :
               /\ mb' = memory_buffers_dequeue_memory(mb, k)
               /\ \E out : memory_units' = Put(memory_units, i,
                     [relative_cycle |-> 1, num_cycles |-> CYCLES_MEMORY,
                      entry_rob_id |-> mb.current[k].rob_id, out |-> out])
          /\ cdb' = cdb
       \/ memory_units' = memory_units /\ mb' = mb /\ cdb' = cdb
       \/ AtWork(unit) /\ memory_units' = Put(memory_units, i, count(unit)) /\ mb' = mb /\ cdb' = cdb
       \/ /\ Finished(unit) /\ memory_units' = Put(memory_units, i, free(unit)) /\ mb' = mb
          /\ cdb' = cdb_write(cdb, unit.entry_rob_id, unit.out)
  BY DEF MemoryStep, Put, unit, loads, i
<1> QED
  BY <1>11, <1>12, <1>13, <1>14, <1>15

-----------------------------------------------------------------------------

\* branch_step keeps the invariant.
LEMMA BranchStepKeeps == Inv /\ BranchStep => Inv'
<1> SUFFICES ASSUME Inv, BranchStep PROVE Inv'
  OBVIOUS
<1> DEFINE i == index + 1
           unit == branch_units[i]
           station == res_stations_ready(branch_rs)
           is_jump == station.op \in {"JAL", "JALR"}
           n == NUM_BRANCH_UNITS
<1>1. /\ phase = "branch" /\ Advance(n, "memory")
      /\ program' = program /\ iq' = iq /\ reg_insts' = reg_insts /\ regs' = regs
      /\ alu_rs' = alu_rs /\ mb' = mb
      /\ alus' = alus /\ memory_units' = memory_units
      /\ address_units' = address_units
  BY DEF BranchStep, frontVars
<1>2. phase \in UnitPhases
  BY <1>1 DEF UnitPhases
<1>3. /\ index \in Nat /\ index < n /\ n \in Nat \ {0}
      /\ IsBranchUnits(branch_units, n) /\ IsBus(cdb) /\ IsRob(rob) /\ Settled(Held, rob)
      /\ IsStations(branch_rs, NUM_BRANCH_RES_STATIONS) /\ StationsInStep(branch_rs)
  BY <1>1, <1>2, UnitsBefore, Sizes
<1>4. i \in 1 .. n
  BY <1>3
<1>5. /\ index' \in Nat /\ dependencies' = dependencies
      /\ phase' \in {"branch", "memory"}
      /\ phase' = "branch" => index' < n
      /\ phase' = "memory" => index' = 0
  BY <1>1, <1>3, UnitAdvances
<1>6. phase' \in UnitPhases \cup {"capture"} /\ IndexInRange'
  BY <1>5, Sizes DEF UnitPhases, IndexInRange
<1> HIDE DEF i, n, unit, station, is_jump
<1>7. /\ unit.relative_cycle \in Nat
      /\ IsBranchUnit(count(unit)) /\ IsBranchUnit(free(unit))
      /\ count(unit).relative_cycle = unit.relative_cycle + 1
      /\ count(unit).entry_rob_id = unit.entry_rob_id
      /\ KindOf(count(unit)) = KindOf(unit)
      /\ free(unit).relative_cycle = 0
      /\ free(unit).entry_rob_id = unit.entry_rob_id
      /\ KindOf(free(unit)) = KindOf(unit)
  BY <1>3, <1>4, BranchUnitFields DEF unit, KindOf
<1>8. \A new : /\ IsBranchUnit(new)
               /\ unit.relative_cycle > 0 =>
                      new.entry_rob_id = unit.entry_rob_id /\ KindOf(new) = KindOf(unit)
               => BranchUnitPut(branch_units, i, new, n)
  BY <1>3, <1>4, PutBranchUnit DEF unit
\* It is enough that all stay where they are, but one who may move on.
<1>10. ASSUME IsBranchUnits(branch_units', n), IsBus(cdb'),
              IsStations(branch_rs', NUM_BRANCH_RES_STATIONS), StationsInStep(branch_rs'),
              IsRob(rob'), NEW A, Answers(rob, rob', A), Settled(Held', rob')
       PROVE  Inv'
  <2>1. UnitStepShapes
    BY <1>1, <1>2, <1>10, UnitsBefore DEF UnitStepShapes, n
  <2> QED
    BY <1>1, <1>2, <1>5, <1>6, <1>10, <2>1, UnitStep DEF UnitStepShapes
<1>11. ASSUME unit.relative_cycle = 0,
              res_stations_has_ready(branch_rs),
              branch_rs' = res_stations_remove(branch_rs),
              cdb' = cdb, rob' = rob,
              NEW cycles, NEW out_cdb, NEW out_npc,
              branch_units' = Put(branch_units, i,
                    [relative_cycle |-> 1, num_cycles |-> cycles,
                     entry_rob_id |-> station.rob_id, out_cdb |-> out_cdb,
                     out_npc_actual |-> out_npc, entry_is_jump |-> is_jump])
       PROVE  Inv'
  <2> DEFINE new == [relative_cycle |-> 1, num_cycles |-> cycles,
                     entry_rob_id |-> station.rob_id, out_cdb |-> out_cdb,
                     out_npc_actual |-> out_npc, entry_is_jump |-> is_jump]
             later == Holder("branch", i, station.rob_id, KindOf(new))
  <2>1. is_jump \in BOOLEAN
    BY DEF is_jump
  <2>2. IsBranchUnit(new)
    <3>1. new \in BranchUnitOf({cycles, station.rob_id, out_cdb, out_npc})
      BY <2>1 DEF BranchUnitOf
    <3> QED
      BY <3>1 DEF IsBranchUnit
  <2>3. new.relative_cycle = 1 /\ new.entry_rob_id = station.rob_id
    OBVIOUS
  <2>4. branch_units' = Put(branch_units, i, new)
    BY <1>11
  <2>5. KindOf(new) = IF is_jump THEN "JUMP" ELSE "BRANCH"
    BY <2>1 DEF KindOf
  <2> HIDE DEF new
  <2>6. BranchUnitPut(branch_units, i, new, n)
    BY <1>8, <1>11, <2>2
  <2>7. /\ IsBranchUnits(branch_units', n)
        /\ Gains(InBranchUnits(branch_units'), InBranchUnits(branch_units), later)
    BY <1>11, <2>3, <2>4, <2>6 DEF BranchUnitPut, Turns, unit
  <2>8. StationLeaves(branch_rs', branch_rs, NUM_BRANCH_RES_STATIONS, station.rob_id, station.op)
    BY <1>3, <1>11, Sizes, LeaveStations DEF station
  <2>9. PICK k : Loses(InPool("branch_rs", branch_rs'.next), InPool("branch_rs", branch_rs.next),
                       Holder("branch_rs", k, station.rob_id, station.op))
    BY <2>8 DEF StationLeaves, Departs
  <2> DEFINE earlier == Holder("branch_rs", k, station.rob_id, station.op)
  <2>10. /\ earlier[1] = "branch_rs" /\ earlier[3] = station.rob_id /\ earlier[4] = station.op
         /\ later[1] = "branch" /\ later[3] = station.rob_id /\ later[4] = KindOf(new)
    BY HolderParts
  <2> HIDE DEF earlier, later
  <2>11. earlier \in Held
    BY <2>9, HeldMember DEF Loses, earlier
  <2>12. \A h \in Held' : h = later \/ (h \in Held /\ h # earlier)
    BY <1>1, <1>11, <2>7, <2>9, <2>10, HeldMember, PlaceOf DEF Held, Gains, Loses, earlier
  <2>13. Fits(later, rob.queue_next[later[3] - 1])
    <3>1. Fits(earlier, rob.queue_next[earlier[3] - 1])
      BY <1>3, <2>11, SettledMember
    <3> QED
      BY <2>5, <2>10, <3>1 DEF Fits, HasResult, IsStore, StoreType, is_jump
  <2>14. Settled(Held', rob)
    BY <1>3, <2>10, <2>11, <2>12, <2>13, SettledMoves
  <2> QED
    BY <1>3, <1>10, <1>11, <2>7, <2>8, <2>14, AnswersNothing DEF StationLeaves
<1>12. CASE branch_units' = branch_units /\ branch_rs' = branch_rs /\ cdb' = cdb /\ rob' = rob
  <2>1. Held' = Held
    BY <1>1, <1>5, <1>12 DEF Held
  <2> QED
    BY <1>3, <1>10, <1>12, <2>1, AnswersNothing
<1>13. CASE /\ AtWork(unit) /\ branch_units' = Put(branch_units, i, count(unit))
            /\ branch_rs' = branch_rs /\ cdb' = cdb /\ rob' = rob
  <2>1. BranchUnitPut(branch_units, i, count(unit), n)
    BY <1>7, <1>8
  <2>2. unit.relative_cycle > 0 /\ count(unit).relative_cycle > 0
    BY <1>7, <1>13 DEF AtWork
  <2>3. IsBranchUnits(branch_units', n) /\ InBranchUnits(branch_units') = InBranchUnits(branch_units)
    BY <1>13, <2>1, <2>2 DEF BranchUnitPut, Turns, unit
  <2>4. Held' = Held
    BY <1>1, <1>5, <1>13, <2>3 DEF Held
  <2> QED
    BY <1>3, <1>10, <1>13, <2>3, <2>4, AnswersNothing
<1>14. CASE /\ Finished(unit) /\ branch_units' = Put(branch_units, i, free(unit))
            /\ branch_rs' = branch_rs
            /\ rob' = rob_add_npc_actual(rob, unit.entry_rob_id, unit.out_npc_actual)
            /\ cdb' = IF unit.entry_is_jump
                      THEN cdb_write(cdb, unit.entry_rob_id, unit.out_cdb) ELSE cdb
  <2> DEFINE id == unit.entry_rob_id
             earlier == Holder("branch", i, id, KindOf(unit))
  <2>1. BranchUnitPut(branch_units, i, free(unit), n)
    BY <1>7, <1>8
  <2>2. unit.relative_cycle > 0 /\ free(unit).relative_cycle = 0
    BY <1>7, <1>14 DEF Finished
  <2>3. free(unit).entry_rob_id = id /\ KindOf(free(unit)) = KindOf(unit)
    BY <1>7
  <2>4. /\ IsBranchUnits(branch_units', n)
        /\ Loses(InBranchUnits(branch_units'), InBranchUnits(branch_units), earlier)
    BY <1>14, <2>1, <2>2, <2>3 DEF BranchUnitPut, Turns, unit
  <2>5. earlier \in Held
    BY <2>4, HeldMember DEF Loses
  <2>6. earlier[1] = "branch" /\ earlier[3] = id /\ earlier[4] = KindOf(unit)
    BY HolderParts
  <2>7. id \in RobIds /\ ~rob.queue_next[id - 1].ready /\ Fits(earlier, rob.queue_next[id - 1])
    BY <1>3, <2>5, <2>6, SettledMember
  <2>8. IsRob(rob')
    BY <1>3, <1>14, <2>7, TransferAnswers
  <2>9. Answers(rob, rob', {id})
    BY <1>3, <1>14, <2>7, TransferAnswers
  <2>10. CASE unit.entry_is_jump
    <3>1. Answers(rob, rob', {})
      <4>1. rob.queue_next[id - 1].op_type # "BRANCH"
        BY <2>6, <2>7, <2>10 DEF Fits, KindOf
      <4> QED
        BY <1>3, <1>14, <2>7, <4>1, TransferAnswers
    <3>2. BusTakes(cdb', cdb, id)
      BY <1>3, <1>14, <2>7, <2>10, ResultGoesOut
    <3>3. PICK k : \A h \in InBus(cdb') : h \in InBus(cdb) \/ h = Holder("cdb", k, id, NA)
      BY <3>2 DEF BusTakes
    <3> DEFINE later == Holder("cdb", k, id, NA)
    <3>4. later[1] = "cdb" /\ later[3] = id
      BY HolderParts
    <3> HIDE DEF earlier, later, id
    <3>5. \A h \in Held' : h = later \/ (h \in Held /\ h # earlier)
      BY <1>1, <1>14, <2>4, <2>6, <3>3, HeldMember, PlaceOf DEF Held, Loses, later
    <3>6. Fits(later, rob.queue_next[later[3] - 1])
      BY <2>6, <2>7, <2>10, <3>4 DEF Fits, HasResult, IsStore, StoreType, KindOf
    <3>7. Settled(Held', rob)
      BY <1>3, <2>5, <2>6, <3>4, <3>5, <3>6, SettledMoves
    <3>8. Settled(Held', rob')
      BY <3>1, <3>7, SettledAnswers
    <3>9. IsBus(cdb')
      BY <3>2 DEF BusTakes
    <3> QED
      BY <1>3, <1>10, <1>14, <2>4, <2>8, <3>1, <3>8, <3>9
  <2>11. CASE ~unit.entry_is_jump
    <3>1. cdb' = cdb
      BY <1>14, <2>11
    <3> HIDE DEF earlier, id
    <3>2. \A h \in Held' : h \in Held /\ h # earlier
      BY <1>1, <1>14, <2>4, <2>6, <3>1, HeldMember, PlaceOf DEF Held, Loses
    <3>3. \A h \in Held' : h \in Held /\ h[3] \notin {id}
      BY <1>3, <2>5, <2>6, <3>2 DEF Settled
    <3>4. Settled(Held', rob')
      BY <1>3, <2>9, <3>3, SettledAnswers
    <3> QED
      BY <1>3, <1>10, <1>14, <2>4, <2>8, <2>9, <3>1, <3>4
  <2> QED
    BY <2>10, <2>11
<1>15. \/ /\ unit.relative_cycle = 0
          /\ res_stations_has_ready(branch_rs)
          /\ branch_rs' = res_stations_remove(branch_rs)
          /\ cdb' = cdb /\ rob' = rob
          /\ \E cycles, out_cdb, out_npc : branch_units' = Put(branch_units, i,
                [relative_cycle |-> 1, num_cycles |-> cycles,
                 entry_rob_id |-> station.rob_id, out_cdb |-> out_cdb,
                 out_npc_actual |-> out_npc, entry_is_jump |-> is_jump])
       \/ branch_units' = branch_units /\ branch_rs' = branch_rs /\ cdb' = cdb /\ rob' = rob
       \/ /\ AtWork(unit) /\ branch_units' = Put(branch_units, i, count(unit))
          /\ branch_rs' = branch_rs /\ cdb' = cdb /\ rob' = rob
       \/ /\ Finished(unit) /\ branch_units' = Put(branch_units, i, free(unit))
          /\ branch_rs' = branch_rs
          /\ rob' = rob_add_npc_actual(rob, unit.entry_rob_id, unit.out_npc_actual)
          /\ cdb' = IF unit.entry_is_jump
                    THEN cdb_write(cdb, unit.entry_rob_id, unit.out_cdb) ELSE cdb
  BY DEF BranchStep, Put, unit, station, is_jump, i
<1> QED
  BY <1>11, <1>12, <1>13, <1>14, <1>15

-----------------------------------------------------------------------------

\* Of two writes to a unit the second counts.
LEMMA PutTwice ==
    ASSUME NEW n, NEW units, DOMAIN units = 1 .. n, NEW i \in 1 .. n, NEW x, NEW y
    PROVE  Put(Put(units, i, x), i, y) = Put(units, i, y) /\ Put(units, i, x)[i] = x
  BY DEF Put

\* Held, with these buffers and these address units in the place of mb and address_units.
HeldWith(pool, units) ==
    {h \in Held : h[1] \notin {"mb", "address"}} \cup InPool("mb", pool) \cup InAddressUnits(units)

\* Who is held, by place.
LEMMA HeldWithMember ==
    ASSUME NEW pool, NEW units, NEW h
    PROVE  h \in HeldWith(pool, units) <=> \/ h \in Held /\ h[1] \notin {"mb", "address"}
                                           \/ h \in InPool("mb", pool)
                                           \/ h \in InAddressUnits(units)
  BY DEF HeldWith

\* Held, with the buffers and address units of the moment.
LEMMA HeldNow ==
    ASSUME NEW h
    PROVE  h \in Held <=> h \in HeldWith(mb.next, address_units)
  BY HeldWithMember, HeldMember, PlaceOf

\* A step of the address units changes no other place.
LEMMA HeldThen ==
    ASSUME alu_rs' = alu_rs, branch_rs' = branch_rs, alus' = alus, branch_units' = branch_units,
           memory_units' = memory_units, cdb' = cdb,
           phase \in UnitPhases, phase' \in UnitPhases \cup {"capture"}, NEW h
    PROVE  h \in Held' <=> h \in HeldWith(mb'.next, address_units')
<1>1. phase \notin {"commit", "update"} /\ phase' \notin {"commit", "update"}
  BY DEF UnitPhases
<1>2. h \in Held' <=>
              \/ h \in InPool("alu_rs", alu_rs.next) \/ h \in InPool("branch_rs", branch_rs.next)
              \/ h \in InPool("mb", mb'.next)
              \/ h \in InUnits("alu", alus) \/ h \in InBranchUnits(branch_units)
              \/ h \in InUnits("memory", memory_units) \/ h \in InAddressUnits(address_units')
              \/ h \in InBus(cdb)
  BY <1>1 DEF Held
<1> QED
  BY <1>1, <1>2, HeldWithMember, HeldMember, PlaceOf

\* What is left to show of a step of the address units.
LEMMA AddressUnitStep ==
    ASSUME Inv, phase = "address", Advance(NUM_ADDRESS_UNITS, "capture"),
           program' = program, iq' = iq, reg_insts' = reg_insts, regs' = regs,
           alu_rs' = alu_rs, branch_rs' = branch_rs, alus' = alus,
           branch_units' = branch_units, memory_units' = memory_units, cdb' = cdb,
           IsAddressUnits(address_units', NUM_ADDRESS_UNITS),
           IsBuffers(mb', NUM_MEMORY_BUFFERS), BuffersInStep(mb', rob),
           IsRob(rob'), NEW A, Answers(rob, rob', A),
           Settled(HeldWith(mb'.next, address_units'), rob')
    PROVE  Inv'
<1>1. phase \in UnitPhases
  BY DEF UnitPhases
<1>2. index \in Nat /\ index < NUM_ADDRESS_UNITS /\ NUM_ADDRESS_UNITS \in Nat \ {0}
  BY <1>1, UnitsBefore, Sizes
<1>3. /\ index' \in Nat /\ dependencies' = dependencies
      /\ phase' \in {"address", "capture"}
      /\ phase' = "address" => index' < NUM_ADDRESS_UNITS
      /\ phase' = "capture" => index' = 0
  BY <1>2, UnitAdvances
<1>4. phase' \in UnitPhases \cup {"capture"} /\ IndexInRange'
  BY <1>3, Sizes DEF UnitPhases, IndexInRange
<1>5. Settled(Held', rob')
  <2>1. \A h \in Held' : h \in HeldWith(mb'.next, address_units')
    BY <1>1, <1>4, HeldThen
  <2> QED
    BY <2>1, SettledShrinks
<1>6. UnitStepShapes
  BY <1>1, UnitsBefore DEF UnitStepShapes
<1> QED
  BY <1>1, <1>3, <1>4, <1>5, <1>6, UnitStep DEF UnitStepShapes

\* The unit at the index, busy, hands its address on in its last cycle.
LEMMA DeliverKeeps ==
    ASSUME Inv, phase = "address", Advance(NUM_ADDRESS_UNITS, "capture"),
           program' = program, iq' = iq, reg_insts' = reg_insts, regs' = regs,
           alu_rs' = alu_rs, branch_rs' = branch_rs, alus' = alus,
           branch_units' = branch_units, memory_units' = memory_units, cdb' = cdb,
           NEW u, IsAddressUnit(u), u.relative_cycle > 0,
           StoreCycles(address_units[index + 1]) > 0
               => u.dest_id = address_units[index + 1].dest_id,
           NEW buffers, IsBuffers(buffers, NUM_MEMORY_BUFFERS), BuffersInStep(buffers, rob),
           Settled(HeldWith(buffers.next, Put(address_units, index + 1, u)), rob),
           Deliver(u, buffers)
    PROVE  Inv'
<1> DEFINE i == index + 1
           n == NUM_ADDRESS_UNITS
           units == Put(address_units, i, u)
           mine == Holder("address", i, u.dest_id, NA)
<1>1. /\ index \in Nat /\ index < n /\ n \in Nat \ {0}
      /\ IsAddressUnits(address_units, n) /\ IsRob(rob)
  <2>1. phase \in UnitPhases
    BY DEF UnitPhases
  <2> QED
    BY <2>1, UnitsBefore, Sizes
<1>2. i \in 1 .. n
  BY <1>1
<1>3. AddressUnitPut(address_units, i, u, n)
  BY <1>1, <1>2, PutAddressUnit
<1>4. IsAddressUnits(units, n)
  BY <1>3 DEF AddressUnitPut
<1>5. DOMAIN address_units = 1 .. n
  BY <1>1 DEF IsAddressUnits
<1>6. units[i] = u /\ \A y : Put(units, i, y) = Put(address_units, i, y)
  BY <1>2, <1>5, PutTwice
<1>7. /\ IsAddressUnit(free(u)) /\ StoreCycles(free(u)) = 0 /\ free(u).dest_id = u.dest_id
  BY <1>2, <1>4, <1>6, AddressUnitFields
<1>8. AddressUnitPut(units, i, free(u), n)
  BY <1>2, <1>4, <1>6, <1>7, PutAddressUnit
<1>9. \/ mb' = buffers /\ rob' = rob /\ address_units' = units
      \/ /\ u.is_store /\ mb' = buffers /\ rob' = rob_add_address(rob, u.dest_id, u.address)
         /\ address_units' = Put(units, i, free(u))
      \/ /\ ~u.is_store /\ mb' = memory_buffers_add_address(buffers, u.dest_id, u.address)
         /\ rob' = rob /\ address_units' = Put(units, i, free(u))
  <2>1. address_units' = Put(address_units, i, u) \/ address_units' = Put(address_units, i, free(u))
    BY DEF Deliver, Put
  <2> QED
    BY <1>6 DEF Deliver, Put
<1> HIDE DEF i, n, units
<1>10. CASE mb' = buffers /\ rob' = rob /\ address_units' = units
  <2>1. Answers(rob, rob', {})
    BY <1>10, AnswersNothing
  <2>2. Settled(HeldWith(mb'.next, address_units'), rob')
    BY <1>10 DEF units, i
  <2> QED
    BY <1>1, <1>4, <1>10, <2>1, <2>2, AddressUnitStep DEF n
<1>11. CASE /\ u.is_store /\ mb' = buffers
            /\ rob' = rob_add_address(rob, u.dest_id, u.address)
            /\ address_units' = Put(units, i, free(u))
  <2> DEFINE id == u.dest_id
  <2>1. StoreCycles(u) > 0
    BY <1>11 DEF StoreCycles
  <2>2. /\ IsAddressUnits(address_units', n)
        /\ Loses(InAddressUnits(address_units'), InAddressUnits(units), mine)
    BY <1>6, <1>7, <1>8, <1>11, <2>1 DEF AddressUnitPut, Turns
  <2>3. mine[1] = "address" /\ mine[3] = id
    BY HolderParts
  <2> HIDE DEF mine
  <2>4. mine \in HeldWith(buffers.next, units)
    BY <2>2, HeldWithMember DEF Loses
  <2>5. Settled(HeldWith(buffers.next, units), rob)
    BY DEF units, i
  <2>6. /\ id \in RobIds /\ ~rob.queue_next[id - 1].ready
        /\ Fits(mine, rob.queue_next[id - 1])
    BY <2>3, <2>4, <2>5, SettledMember
  <2>7. IsStore(rob.queue_next[id - 1].op_type)
    BY <2>3, <2>6 DEF Fits
  <2>8. IsRob(rob') /\ Answers(rob, rob', {id})
    BY <1>1, <1>11, <2>6, <2>7, AddressAnswers
  <2>9. \A h \in HeldWith(mb'.next, address_units') : h \in HeldWith(buffers.next, units) /\ h # mine
    BY <1>11, <2>2, <2>3, HeldWithMember, PlaceOf DEF Loses
  <2>10. \A h \in HeldWith(mb'.next, address_units') :
            h \in HeldWith(buffers.next, units) /\ h[3] \notin {id}
    BY <2>3, <2>4, <2>5, <2>9 DEF Settled
  <2>11. Settled(HeldWith(mb'.next, address_units'), rob')
    BY <2>5, <2>8, <2>10, SettledAnswers
  <2>12. IsBuffers(mb', NUM_MEMORY_BUFFERS) /\ BuffersInStep(mb', rob)
    BY <1>11
  <2> QED
    BY <2>2, <2>8, <2>11, <2>12, AddressUnitStep DEF n
<1>12. CASE /\ ~u.is_store /\ mb' = memory_buffers_add_address(buffers, u.dest_id, u.address)
            /\ rob' = rob /\ address_units' = Put(units, i, free(u))
  <2>1. StoreCycles(u) = 0
    BY <1>12 DEF StoreCycles
  <2>2. IsAddressUnits(address_units', n) /\ InAddressUnits(address_units') = InAddressUnits(units)
    BY <1>6, <1>7, <1>8, <1>12, <2>1 DEF AddressUnitPut, Turns
  <2>3. BuffersAfter(mb', buffers, NUM_MEMORY_BUFFERS, rob)
        /\ InPool("mb", mb'.next) = InPool("mb", buffers.next)
    BY <1>12, Sizes, TakeAddress
  <2>4. Settled(HeldWith(mb'.next, address_units'), rob')
    <3>1. Settled(HeldWith(buffers.next, units), rob)
      BY DEF units, i
    <3>2. \A h \in HeldWith(mb'.next, address_units') : h \in HeldWith(buffers.next, units)
      BY <2>2, <2>3, HeldWithMember
    <3> QED
      BY <1>12, <3>1, <3>2, SettledShrinks
  <2>5. IsBuffers(mb', NUM_MEMORY_BUFFERS) /\ BuffersInStep(mb', rob)
    BY <2>3 DEF BuffersAfter
  <2>6. IsRob(rob') /\ Answers(rob, rob', {})
    BY <1>1, <1>12, AnswersNothing
  <2> QED
    BY <2>2, <2>4, <2>5, <2>6, AddressUnitStep DEF n
<1> QED
  BY <1>9, <1>10, <1>11, <1>12

-----------------------------------------------------------------------------

\* address_step keeps the invariant.
LEMMA AddressStepKeeps == Inv /\ AddressStep => Inv'
<1> SUFFICES ASSUME Inv, AddressStep PROVE Inv'
  OBVIOUS
<1> DEFINE i == index + 1
           unit == address_units[i]
           n == NUM_ADDRESS_UNITS
           m == NUM_MEMORY_BUFFERS
<1>1. /\ phase = "address" /\ Advance(n, "capture")
      /\ program' = program /\ iq' = iq /\ reg_insts' = reg_insts /\ regs' = regs
      /\ alu_rs' = alu_rs /\ branch_rs' = branch_rs /\ alus' = alus
      /\ branch_units' = branch_units /\ memory_units' = memory_units /\ cdb' = cdb
  BY DEF AddressStep, frontVars
<1>2. /\ index \in Nat /\ index < n /\ n \in Nat \ {0} /\ m \in Nat
      /\ IsAddressUnits(address_units, n) /\ IsRob(rob) /\ Settled(Held, rob)
      /\ IsBuffers(mb, m) /\ BuffersInStep(mb, rob)
  <2>1. phase \in UnitPhases
    BY <1>1 DEF UnitPhases
  <2> QED
    BY <1>1, <2>1, UnitsBefore, Sizes
<1>3. i \in 1 .. n
  BY <1>2
<1>4. /\ unit.relative_cycle \in Nat
      /\ IsAddressUnit(count(unit))
      /\ count(unit).relative_cycle = unit.relative_cycle + 1
      /\ count(unit).dest_id = unit.dest_id
      /\ count(unit).is_store = unit.is_store
  BY <1>2, <1>3, AddressUnitFields
<1>5. \A new : /\ IsAddressUnit(new)
               /\ StoreCycles(unit) > 0 => new.dest_id = unit.dest_id
               => AddressUnitPut(address_units, i, new, n)
  BY <1>2, <1>3, PutAddressUnit
<1>6. Settled(HeldWith(mb.next, address_units), rob)
  <2>1. \A h \in HeldWith(mb.next, address_units) : h \in Held
    BY HeldNow
  <2> QED
    BY <1>2, <2>1, SettledShrinks
<1>7. ASSUME NEW u, IsAddressUnit(u), u.relative_cycle > 0,
             StoreCycles(unit) > 0 => u.dest_id = unit.dest_id,
             NEW buffers, IsBuffers(buffers, m), BuffersInStep(buffers, rob),
             Settled(HeldWith(buffers.next, Put(address_units, i, u)), rob),
             Deliver(u, buffers)
      PROVE  Inv'
  BY <1>1, <1>7, DeliverKeeps
<1> HIDE DEF i, n, m, unit
<1>8. ASSUME unit.relative_cycle = 0, NEW k \in address_candidate(mb), NEW address, NEW id,
             id = IF mb.current[k].op \in StoreOp THEN mb.current[k].rob_id ELSE k,
             Deliver([relative_cycle |-> 1, is_store |-> mb.current[k].op \in StoreOp,
                      address |-> address, dest_id |-> id],
                     memory_buffers_dequeue_address(mb, k))
      PROVE  Inv'
  <2> DEFINE is_store == mb.current[k].op \in StoreOp
             u == [relative_cycle |-> 1, is_store |-> is_store,
                   address |-> address, dest_id |-> id]
             buffers == memory_buffers_dequeue_address(mb, k)
             units == Put(address_units, i, u)
             later == Holder("address", i, id, NA)
             earlier == HolderOf("mb", k, mb)
  <2>1. Deliver(u, buffers)
    BY <1>8
  <2>2. is_store \in BOOLEAN
    OBVIOUS
  <2>3. AddressLeaves(buffers, mb, m, rob, "mb", k)
    BY <1>2, <1>8, LeaveForAddress
  <2>4. earlier[1] = "mb" /\ earlier[3] = mb.current[k].rob_id /\ earlier[4] = mb.current[k].op
        /\ later[1] = "address" /\ later[3] = id
    BY HolderParts DEF HolderOf
  <2> HIDE DEF later, earlier, is_store, buffers
  <2>5. IsAddressUnit(u)
    <3>1. u \in AddressUnitOf({address, id})
      BY <2>2 DEF AddressUnitOf
    <3> QED
      BY <3>1 DEF IsAddressUnit
  <2>6. u.relative_cycle = 1 /\ u.is_store = is_store /\ u.dest_id = id
    OBVIOUS
  <2> HIDE DEF u
  <2>7. StoreCycles(unit) = 0
    BY <1>8 DEF StoreCycles
  <2>8. AddressUnitPut(address_units, i, u, n)
    BY <1>5, <2>5, <2>7
  <2>9. IsBuffers(buffers, m) /\ BuffersInStep(buffers, rob)
    BY <2>3 DEF AddressLeaves, BuffersAfter
  <2>10. earlier \in InPool("mb", mb.next)
    BY <2>3 DEF AddressLeaves, earlier
  <2>11. earlier \in HeldWith(mb.next, address_units)
    BY <2>10, HeldWithMember
  <2>12. CASE is_store
    <3>1. Loses(InPool("mb", buffers.next), InPool("mb", mb.next), earlier)
      BY <2>3, <2>12 DEF AddressLeaves, earlier, is_store
    <3>2. StoreCycles(u) = 1
      BY <2>6, <2>12 DEF StoreCycles
    <3>3. Gains(InAddressUnits(units), InAddressUnits(address_units), later)
      BY <2>6, <2>7, <2>8, <3>2 DEF AddressUnitPut, Turns, unit, later
    <3>4. later[3] = earlier[3]
      BY <1>8, <2>4, <2>12 DEF is_store
    <3>5. \A h \in HeldWith(buffers.next, units) :
             h = later \/ (h \in HeldWith(mb.next, address_units) /\ h # earlier)
      BY <2>4, <3>1, <3>3, HeldWithMember, PlaceOf DEF Loses, Gains
    <3>6. Fits(later, rob.queue_next[later[3] - 1])
      <4>1. Fits(earlier, rob.queue_next[earlier[3] - 1])
        BY <1>6, <2>11, SettledMember
      <4> QED
        BY <2>4, <2>12, <3>4, <4>1 DEF Fits, is_store
    <3>7. Settled(HeldWith(buffers.next, units), rob)
      BY <1>6, <2>11, <3>4, <3>5, <3>6, SettledMoves
    <3> QED
      BY <1>7, <2>1, <2>5, <2>6, <2>7, <2>9, <3>7
  <2>13. CASE ~is_store
    <3>1. InPool("mb", buffers.next) = InPool("mb", mb.next)
      BY <2>3, <2>13 DEF AddressLeaves, is_store
    <3>2. StoreCycles(u) = 0
      BY <2>6, <2>13 DEF StoreCycles
    <3>3. InAddressUnits(units) = InAddressUnits(address_units)
      BY <2>7, <2>8, <3>2 DEF AddressUnitPut, Turns, unit
    <3>4. \A h \in HeldWith(buffers.next, units) : h \in HeldWith(mb.next, address_units)
      BY <3>1, <3>3, HeldWithMember
    <3>5. Settled(HeldWith(buffers.next, units), rob)
      BY <1>6, <3>4, SettledShrinks
    <3> QED
      BY <1>7, <2>1, <2>5, <2>6, <2>7, <2>9, <3>5
  <2> QED
    BY <2>2, <2>12, <2>13
<1>9. CASE unit.relative_cycle > 0 /\ Deliver(count(unit), mb)
  <2> DEFINE units == Put(address_units, i, count(unit))
  <2>1. AddressUnitPut(address_units, i, count(unit), n)
    BY <1>4, <1>5
  <2>2. /\ StoreCycles(unit) > 0 => StoreCycles(count(unit)) > 0
        /\ StoreCycles(unit) = 0 => StoreCycles(count(unit)) = 0
        /\ StoreCycles(unit) > 0 \/ StoreCycles(unit) = 0
    BY <1>4, <1>9 DEF StoreCycles
  <2>3. InAddressUnits(units) = InAddressUnits(address_units)
    BY <2>1, <2>2 DEF AddressUnitPut, Turns, unit
  <2>4. \A h \in HeldWith(mb.next, units) : h \in HeldWith(mb.next, address_units)
    BY <2>3, HeldWithMember
  <2>5. Settled(HeldWith(mb.next, units), rob)
    BY <1>6, <2>4, SettledShrinks
  <2>6. count(unit).relative_cycle > 0
    BY <1>4
  <2> QED
    BY <1>2, <1>4, <1>7, <1>9, <2>5, <2>6
<1>10. CASE mb' = mb /\ rob' = rob /\ address_units' = address_units
  <2>1. Answers(rob, rob', {})
    BY <1>10, AnswersNothing
  <2>2. Settled(HeldWith(mb'.next, address_units'), rob')
    BY <1>6, <1>10
  <2> QED
    BY <1>1, <1>2, <1>10, <2>1, <2>2, AddressUnitStep DEF n, m
<1>11. \/ /\ unit.relative_cycle = 0
          /\ \E k \in address_candidate(mb) : \E address, id :
                /\ id = IF mb.current[k].op \in StoreOp THEN mb.current[k].rob_id ELSE k
                /\ Deliver([relative_cycle |-> 1, is_store |-> mb.current[k].op \in StoreOp,
                            address |-> address, dest_id |-> id],
                           memory_buffers_dequeue_address(mb, k))
       \/ mb' = mb /\ rob' = rob /\ address_units' = address_units
       \/ unit.relative_cycle > 0 /\ Deliver(count(unit), mb)
  BY DEF AddressStep, unit, i
<1> QED
  BY <1>8, <1>9, <1>10, <1>11

-----------------------------------------------------------------------------

\* The steps of the pools and of the reorder buffer keep the invariant.
LEMMA CaptureKeeps == Inv /\ Capture => Inv'
<1> SUFFICES ASSUME Inv, Capture PROVE Inv'
  OBVIOUS
<1>1. /\ phase = "capture" /\ phase' = "commit"
      /\ alu_rs' = res_stations_step(alu_rs, cdb)
      /\ branch_rs' = res_stations_step(branch_rs, cdb)
      /\ mb' = memory_buffers_step(mb, cdb)
      /\ rob' = rob_step(rob, cdb)
      /\ program' = program /\ iq' = iq /\ reg_insts' = reg_insts /\ regs' = regs
      /\ alus' = alus /\ branch_units' = branch_units /\ memory_units' = memory_units
      /\ address_units' = address_units
      /\ index' = index /\ dependencies' = dependencies /\ cdb' = cdb
  BY DEF Capture, frontVars, unitVars
<1>2. /\ IsRob(rob) /\ IsBus(cdb) /\ Settled(Held, rob) /\ EntriesInPlace(rob)
      /\ Windows(rob, phase, index) /\ index = 0 /\ BatchSeesItself /\ Named(rob, regs)
      /\ CopiesAgree(rob, phase \in UntilUnitsWork)
      /\ IsStations(alu_rs, NUM_ALU_RES_STATIONS) /\ StationsInStep(alu_rs)
      /\ IsStations(branch_rs, NUM_BRANCH_RES_STATIONS) /\ StationsInStep(branch_rs)
      /\ IsBuffers(mb, NUM_MEMORY_BUFFERS) /\ BuffersInStep(mb, rob)
  BY <1>1 DEF Inv, Shapes, PoolsInStep, IndexInRange
<1>3. IsRob(rob') /\ Answers(rob, rob', Heard(cdb))
  BY <1>1, <1>2, BusAnswers
<1>4. /\ StationsStay(alu_rs', alu_rs, NUM_ALU_RES_STATIONS)
      /\ StationsStay(branch_rs', branch_rs, NUM_BRANCH_RES_STATIONS)
      /\ BuffersStay(mb', mb, NUM_MEMORY_BUFFERS, rob)
  BY <1>1, <1>2, Sizes, StayInStations, StayInBuffers
<1>5. /\ IsStations(alu_rs', NUM_ALU_RES_STATIONS) /\ StationsInStep(alu_rs')
      /\ IsStations(branch_rs', NUM_BRANCH_RES_STATIONS) /\ StationsInStep(branch_rs')
      /\ IsBuffers(mb', NUM_MEMORY_BUFFERS) /\ BuffersInStep(mb', rob)
      /\ \A name : /\ InPool(name, alu_rs'.next) = InPool(name, alu_rs.next)
                   /\ InPool(name, branch_rs'.next) = InPool(name, branch_rs.next)
                   /\ InPool(name, mb'.next) = InPool(name, mb.next)
  BY <1>2, <1>4 DEF StationsStay, BuffersStay
<1>6. Shapes'
  <2>1. /\ program \in Programs /\ IsQueue(iq) /\ IsRegister(reg_insts) /\ IsFile(regs)
        /\ IsUnits(alus, NUM_ALU_UNITS) /\ IsBranchUnits(branch_units, NUM_BRANCH_UNITS)
        /\ IsUnits(memory_units, NUM_MEMORY_UNITS)
        /\ IsAddressUnits(address_units, NUM_ADDRESS_UNITS)
        /\ dependencies \in [Regs -> {0} \cup RobIds]
    BY DEF Inv, Shapes
  <2> QED
    BY <1>1, <1>2, <1>3, <1>5, <2>1 DEF Shapes
\* Whoever has been on the bus is held nowhere else, and the bus holds nobody from now on.
<1>7. Settled(Held', rob')
  <2>1. ASSUME NEW h \in Held' PROVE h \in Held /\ h[3] \notin Heard(cdb)
    <3>1. h \in Held /\ h[1] # "cdb"
      <4>1. \/ h \in InPool("alu_rs", alu_rs.next) \/ h \in InPool("branch_rs", branch_rs.next)
            \/ h \in InPool("mb", mb.next)
            \/ h \in InUnits("alu", alus) \/ h \in InBranchUnits(branch_units)
            \/ h \in InUnits("memory", memory_units) \/ h \in InAddressUnits(address_units)
        BY <1>1, <1>5, <2>1 DEF Held
      <4> QED
        BY <4>1, HeldMember, PlaceOf
    <3>2. ASSUME h[3] \in Heard(cdb) PROVE FALSE
      <4>1. PICK k : Holder("cdb", k, h[3], NA) \in InBus(cdb)
        BY <3>2, HeardOnBus
      <4> DEFINE g == Holder("cdb", k, h[3], NA)
      <4>2. g[1] = "cdb" /\ g[3] = h[3]
        BY HolderParts
      <4> HIDE DEF g
      <4>3. g \in Held
        BY <1>1, <4>1, HeldMember DEF g
      <4>4. g = h
        BY <1>2, <3>1, <4>2, <4>3 DEF Settled
      <4> QED
        BY <3>1, <4>2, <4>4
    <3> QED
      BY <3>1, <3>2
  <2> QED
    BY <1>2, <1>3, <2>1, SettledAnswers
<1>8. CopiesAgree(rob, FALSE)
  <2>1. (phase \in UntilUnitsWork) \in BOOLEAN
    OBVIOUS
  <2> QED
    BY <1>2, <2>1, Agreement
<1>9. /\ EntriesInPlace(rob') /\ CopiesAgree(rob', FALSE)
      /\ \A now, n : Windows(rob, now, n) /\ now # "commit" => Windows(rob', now, n)
  BY <1>2, <1>3, <1>8, AnswersKeep
<1>10. Windows(rob', phase', index')
  <2>1. Windows(rob', "capture", 0)
    BY <1>1, <1>2, <1>9
  <2>2. Windows(rob', "commit", 0)
    BY <2>1 DEF Windows
  <2> QED
    BY <1>1, <1>2, <2>2
<1>11. CopiesAgree(rob', phase' \in UntilUnitsWork)
  <2>1. phase' \notin UntilUnitsWork
    BY <1>1 DEF UntilUnitsWork
  <2> QED
    BY <1>9, <2>1 DEF CopiesAgree
<1>12. PoolsInStep'
  <2>1. rob'.queue_current = rob.queue_current /\ rob'.front_current = rob.front_current
    BY <1>3 DEF Answers
  <2>2. BuffersInStep(mb', rob')
    BY <1>5, <2>1, SameReaders
  <2> QED
    BY <1>1, <1>5, <2>2 DEF PoolsInStep
<1>13. IndexInRange'
  BY <1>1, <1>2, Sizes DEF IndexInRange
<1>14. BatchSeesItself'
  BY <1>1, <1>2 DEF BatchSeesItself
<1>15. Named(rob', regs')
  BY <1>1, <1>2, <1>3, NamedAnswers
<1> QED
  BY <1>6, <1>7, <1>9, <1>10, <1>11, <1>12, <1>13, <1>14, <1>15 DEF Inv

-----------------------------------------------------------------------------

\* The entry single_commit takes is the oldest, has finished and is the same in both copies.
LEMMA Retires ==
    ASSUME Inv, phase = "commit", rob_ready(rob, index)
    PROVE  /\ IsRob(Dequeued) /\ EntriesInPlace(Dequeued) /\ CopiesAgree(Dequeued, FALSE)
           /\ Windows(Dequeued, "commit", index + 1) /\ Windows(Dequeued, "update", 0)
           /\ Left(rob, Dequeued, Entry.rob_id)
           /\ Entry = rob.queue_next[Entry.rob_id - 1]
<1>1. /\ IsRob(rob) /\ index \in Nat /\ Windows(rob, "commit", index)
      /\ EntriesInPlace(rob) /\ CopiesAgree(rob, phase \in UntilUnitsWork)
  BY DEF Inv, Shapes
<1>2. CopiesAgree(rob, FALSE)
  <2>1. (phase \in UntilUnitsWork) \in BOOLEAN
    OBVIOUS
  <2> QED
    BY <1>1, <2>1, Agreement
<1> QED
  BY <1>1, <1>2, DequeueRob DEF Entry, Dequeued

\* A commit that does not flush only takes the oldest instruction away.
LEMMA GoOnKeeps ==
    ASSUME Inv, phase = "commit", rob_ready(rob, index), GoOn,
           program' = program, dependencies' = dependencies, cdb' = cdb,
           IsFile(regs'), Named(Dequeued, regs')
    PROVE  Inv'
<1>1. /\ Advance(COMMIT_WIDTH, "update") /\ rob' = Dequeued
      /\ iq' = iq /\ reg_insts' = reg_insts
      /\ alu_rs' = alu_rs /\ branch_rs' = branch_rs /\ mb' = mb
      /\ alus' = alus /\ branch_units' = branch_units /\ memory_units' = memory_units
      /\ address_units' = address_units
  BY DEF GoOn, frontVars, unitVars
<1>2. /\ IsRob(rob') /\ EntriesInPlace(rob') /\ CopiesAgree(rob', FALSE)
      /\ Windows(rob', "commit", index + 1) /\ Windows(rob', "update", 0)
      /\ Left(rob, rob', Entry.rob_id)
  BY <1>1, Retires
<1>3. /\ index \in Nat /\ index < COMMIT_WIDTH /\ BatchSeesItself /\ Settled(Held, rob)
      /\ StationsInStep(alu_rs) /\ StationsInStep(branch_rs) /\ BuffersInStep(mb, rob)
  BY DEF Inv, Shapes, IndexInRange, PoolsInStep
<1>4. \/ phase' = "commit" /\ index' = index + 1 /\ index' < COMMIT_WIDTH
      \/ phase' = "update" /\ index' = 0
  BY <1>1 DEF Advance
<1>5. Shapes'
  <2>1. /\ program \in Programs /\ IsQueue(iq) /\ IsRegister(reg_insts) /\ IsBus(cdb)
        /\ IsStations(alu_rs, NUM_ALU_RES_STATIONS)
        /\ IsStations(branch_rs, NUM_BRANCH_RES_STATIONS)
        /\ IsBuffers(mb, NUM_MEMORY_BUFFERS)
        /\ IsUnits(alus, NUM_ALU_UNITS) /\ IsBranchUnits(branch_units, NUM_BRANCH_UNITS)
        /\ IsUnits(memory_units, NUM_MEMORY_UNITS)
        /\ IsAddressUnits(address_units, NUM_ADDRESS_UNITS)
        /\ dependencies \in [Regs -> {0} \cup RobIds]
    BY DEF Inv, Shapes
  <2>2. index' \in Nat
    BY <1>3, <1>4
  <2> QED
    BY <1>1, <1>2, <2>1, <2>2 DEF Shapes
<1>6. Settled(Held', rob')
  <2>1. Held' = Held
    BY <1>1, <1>4 DEF Held
  <2> QED
    BY <1>2, <1>3, <2>1, SettledLeaves DEF Left
<1>7. Windows(rob', phase', index')
  BY <1>2, <1>4
<1>8. CopiesAgree(rob', phase' \in UntilUnitsWork)
  <2>1. phase' \notin UntilUnitsWork
    BY <1>4 DEF UntilUnitsWork
  <2> QED
    BY <1>2, <2>1 DEF CopiesAgree
<1>9. PoolsInStep'
  <2>1. rob'.queue_current = rob.queue_current /\ rob'.front_current = rob.front_current
    BY <1>2 DEF Left
  <2>2. BuffersInStep(mb', rob')
    BY <1>1, <1>3, <2>1, SameReaders
  <2> QED
    BY <1>1, <1>3, <1>4, <2>2 DEF PoolsInStep
<1>10. IndexInRange'
  BY <1>4 DEF IndexInRange
<1>11. BatchSeesItself'
  BY <1>3 DEF BatchSeesItself
<1>12. Named(rob', regs')
  BY <1>1
<1> QED
  BY <1>2, <1>5, <1>6, <1>7, <1>8, <1>9, <1>10, <1>11, <1>12 DEF Inv

-----------------------------------------------------------------------------

\* reg_file_clear leaves no alias.
LEMMA ClearedFile ==
    ASSUME NEW file, IsFile(file)
    PROVE  IsFile(reg_file_clear(file)) /\ \A r \in Regs : ~reg_file_clear(file)[r].busy
<1>1. PICK V : file \in FilesOf(V)
  BY DEF IsFile
<1>2. \A r \in Regs : LET new == [file[r] EXCEPT !.busy = FALSE]
                      IN  new \in [val : V, busy : BOOLEAN, rob_id : {0} \cup RobIds] /\ ~new.busy
  BY <1>1 DEF FilesOf
<1>3. reg_file_clear(file) \in FilesOf(V) /\ \A r \in Regs : ~reg_file_clear(file)[r].busy
  BY <1>2 DEF FilesOf, reg_file_clear
<1> QED
  BY <1>3 DEF IsFile

\* A misprediction leaves nobody in flight and nobody held, whatever the units were doing.
LEMMA FlushKeeps ==
    ASSUME Inv, phase = "commit", rob_ready(rob, index),
           program' = program, dependencies' = dependencies, cdb' = cdb,
           NEW file, IsFile(file), NEW target, Flush(file, target)
    PROVE  Inv'
<1>1. /\ phase' = "update" /\ index' = 0
      /\ rob' = rob_clear(Dequeued)
      /\ regs' = reg_file_clear(file)
      /\ alu_rs' = res_stations_clear(alu_rs)
      /\ branch_rs' = res_stations_clear(branch_rs)
      /\ mb' = memory_buffers_clear(mb)
      /\ alus' = [i \in DOMAIN alus |->
                      [alus[i] EXCEPT !.num_cycles = -1, !.relative_cycle = 0]]
      /\ branch_units' = [i \in DOMAIN branch_units |->
                      [branch_units[i] EXCEPT !.num_cycles = -1, !.relative_cycle = 0]]
      /\ memory_units' = [i \in DOMAIN memory_units |->
                      [memory_units[i] EXCEPT !.num_cycles = -1, !.relative_cycle = 0]]
      /\ address_units' = [i \in DOMAIN address_units |-> free(address_units[i])]
      /\ iq' = inst_queue_clear(iq)
      /\ reg_insts' = [reg_insts EXCEPT !.next =
                          [i \in DOMAIN reg_insts.next |->
                              [reg_insts.next[i] EXCEPT !.inst = NoInst]]]
  BY DEF Flush
<1>2. /\ program \in Programs /\ IsQueue(iq) /\ IsRegister(reg_insts) /\ IsBus(cdb)
      /\ IsStations(alu_rs, NUM_ALU_RES_STATIONS)
      /\ IsStations(branch_rs, NUM_BRANCH_RES_STATIONS)
      /\ IsBuffers(mb, NUM_MEMORY_BUFFERS)
      /\ IsUnits(alus, NUM_ALU_UNITS) /\ IsBranchUnits(branch_units, NUM_BRANCH_UNITS)
      /\ IsUnits(memory_units, NUM_MEMORY_UNITS)
      /\ IsAddressUnits(address_units, NUM_ADDRESS_UNITS)
      /\ dependencies \in [Regs -> {0} \cup RobIds] /\ BatchSeesItself
  BY DEF Inv, Shapes
<1>3. /\ IsRob(rob') /\ EntriesInPlace(rob') /\ CopiesAgree(rob', FALSE)
      /\ Windows(rob', "update", 0) /\ Flying(rob') = {}
  <2>1. IsRob(Dequeued) /\ EntriesInPlace(Dequeued)
    BY Retires
  <2> QED
    BY <1>1, <2>1, ClearRob
<1>4. /\ StationsEmptied(alu_rs', NUM_ALU_RES_STATIONS)
      /\ StationsEmptied(branch_rs', NUM_BRANCH_RES_STATIONS)
      /\ BuffersEmptied(mb', NUM_MEMORY_BUFFERS)
  BY <1>1, <1>2, Sizes, StayInStations, StayInBuffers
<1>5. IsUnits(alus', NUM_ALU_UNITS) /\ InUnits("alu", alus') = {}
  BY <1>1, <1>2, ClearUnits
<1>6. IsUnits(memory_units', NUM_MEMORY_UNITS) /\ InUnits("memory", memory_units') = {}
  BY <1>1, <1>2, ClearUnits
<1>7. IsBranchUnits(branch_units', NUM_BRANCH_UNITS) /\ InBranchUnits(branch_units') = {}
  BY <1>1, <1>2, ClearBranchUnits
<1>8. IsAddressUnits(address_units', NUM_ADDRESS_UNITS) /\ InAddressUnits(address_units') = {}
  BY <1>1, <1>2, ClearAddressUnits
<1>9. IsFile(regs') /\ \A r \in Regs : ~regs'[r].busy
  BY <1>1, ClearedFile
<1>10. IsRegister(reg_insts')
  <2>1. PICK c, n : reg_insts = [current |-> c, next |-> n] /\ AreLatches(c) /\ AreLatches(n)
    BY <1>2 DEF IsRegister
  <2> DEFINE new == [i \in DOMAIN n |-> [n[i] EXCEPT !.inst = NoInst]]
  <2>2. reg_insts.next = n
    BY <2>1
  <2>3. AreLatches(new)
    BY <2>1, EmptiedAreLatches
  <2>4. reg_insts' = [reg_insts EXCEPT !.next = new]
    BY <1>1, <2>2
  <2> HIDE DEF new
  <2>5. reg_insts' = [current |-> c, next |-> new]
    BY <2>1, <2>4
  <2> QED
    BY <2>1, <2>3, <2>5 DEF IsRegister
<1>11. IsQueue(iq')
  BY <1>1, <1>2, QueueClears
<1>12. Shapes'
  BY <1>1, <1>2, <1>3, <1>4, <1>5, <1>6, <1>7, <1>8, <1>9, <1>10, <1>11
  DEF Shapes, StationsEmptied, BuffersEmptied
<1>13. Settled(Held', rob')
  <2>1. /\ InPool("alu_rs", alu_rs'.next) = {} /\ InPool("branch_rs", branch_rs'.next) = {}
        /\ InPool("mb", mb'.next) = {}
    BY <1>4 DEF StationsEmptied, BuffersEmptied
  <2>2. Held' = {}
    BY <1>1, <1>5, <1>6, <1>7, <1>8, <2>1 DEF Held
  <2> QED
    BY <2>2 DEF Settled
<1>14. CopiesAgree(rob', phase' \in UntilUnitsWork)
  <2>1. phase' \notin UntilUnitsWork
    BY <1>1 DEF UntilUnitsWork
  <2> QED
    BY <1>3, <2>1 DEF CopiesAgree
<1>15. PoolsInStep' /\ IndexInRange' /\ BatchSeesItself'
  BY <1>1, <1>2 DEF PoolsInStep, IndexInRange, BatchSeesItself
<1>16. Named(rob', regs')
  BY <1>3, <1>9 DEF Named, Writes
<1>17. Windows(rob', phase', index')
  BY <1>1, <1>3
<1> QED
  BY <1>3, <1>12, <1>13, <1>14, <1>15, <1>16, <1>17 DEF Inv

-----------------------------------------------------------------------------

\* The register file after a commit that wrote its result.
Written == reg_file_reg_commit(regs, Entry.dest, Entry.value, Entry.rob_id)

\* A commit frees its register exactly if no younger instruction has renamed it.
LEMMA CommitNames ==
    ASSUME Inv, phase = "commit", rob_ready(rob, index)
    PROVE  /\ IsFile(regs)
           /\ Entry.op_type \in {"JUMP", "LOAD", "AL"} => IsFile(Written) /\ Named(Dequeued, Written)
           /\ Entry.op_type \notin {"JUMP", "LOAD", "AL"} => Named(Dequeued, regs)
<1> DEFINE id == Entry.rob_id
           held == rob.queue_next[id - 1]
<1>1. IsRob(rob) /\ IsFile(regs) /\ Named(rob, regs)
  BY DEF Inv, Shapes
<1>2. Left(rob, Dequeued, id) /\ Entry = held
  BY Retires
<1>3. /\ id \in Flying(rob)
      /\ \A k : k \in Flying(Dequeued) <=> k \in Flying(rob) /\ k # id
      /\ \A k \in Flying(Dequeued) : /\ Dequeued.queue_next[k - 1] = rob.queue_next[k - 1]
                                     /\ AgeOf(Dequeued, k) = AgeOf(rob, k) - 1
                                     /\ AgeOf(rob, id) < AgeOf(rob, k)
  BY <1>2 DEF Left
<1>4. Written = reg_file_reg_commit(regs, held.dest, Entry.value, id)
  BY <1>2 DEF Written
<1> HIDE DEF id
<1>5. HasResult(held.op_type) => IsFile(Written) /\ Named(Dequeued, Written)
  BY <1>1, <1>3, <1>4, NamedLeaves
<1>6. ~HasResult(held.op_type) => Named(Dequeued, regs)
  BY <1>1, <1>3, NamedLeaves
<1> QED
  BY <1>1, <1>2, <1>5, <1>6 DEF HasResult

\* Committing a result keeps the invariant.
LEMMA CommitResultKeeps == Inv /\ CommitResult => Inv'
<1> SUFFICES ASSUME Inv, CommitResult PROVE Inv'
  OBVIOUS
<1>1. /\ phase = "commit" /\ rob_ready(rob, index) /\ Entry.op_type \in {"JUMP", "LOAD", "AL"}
      /\ program' = program /\ dependencies' = dependencies /\ cdb' = cdb
      /\ regs' = Written /\ GoOn
  BY DEF CommitResult, Committing, Written
<1> QED
  BY <1>1, CommitNames, GoOnKeeps

\* Committing a store keeps the invariant.
LEMMA CommitStoreKeeps == Inv /\ CommitStore => Inv'
<1> SUFFICES ASSUME Inv, CommitStore PROVE Inv'
  OBVIOUS
<1>1. /\ phase = "commit" /\ rob_ready(rob, index) /\ Entry.op_type \notin {"JUMP", "LOAD", "AL"}
      /\ program' = program /\ dependencies' = dependencies /\ cdb' = cdb
      /\ regs' = regs /\ GoOn
  BY DEF CommitStore, Committing, StoreType
<1> QED
  BY <1>1, CommitNames, GoOnKeeps

\* Jumps and branches flush when they were mispredicted.
LEMMA CommitTransferKeeps ==
    ASSUME Inv, phase = "commit", rob_ready(rob, index),
           program' = program, dependencies' = dependencies, cdb' = cdb,
           NEW file, IsFile(file), Named(Dequeued, file), CommitTransfer(file)
    PROVE  Inv'
<1>1. CASE Flush(file, Entry.npc_actual)
  BY <1>1, FlushKeeps
<1>2. CASE GoOn /\ regs' = file
  BY <1>2, GoOnKeeps
<1> QED
  BY <1>1, <1>2 DEF CommitTransfer

\* Committing a jump keeps the invariant, with or without a flush.
LEMMA CommitJumpKeeps == Inv /\ CommitJump => Inv'
<1> SUFFICES ASSUME Inv, CommitJump PROVE Inv'
  OBVIOUS
<1>1. /\ phase = "commit" /\ rob_ready(rob, index) /\ Entry.op_type \in {"JUMP", "LOAD", "AL"}
      /\ program' = program /\ dependencies' = dependencies /\ cdb' = cdb
      /\ CommitTransfer(Written)
  BY DEF CommitJump, Committing, Written
<1> QED
  BY <1>1, CommitNames, CommitTransferKeeps

\* Committing a branch keeps the invariant, with or without a flush.
LEMMA CommitBranchKeeps == Inv /\ CommitBranch => Inv'
<1> SUFFICES ASSUME Inv, CommitBranch PROVE Inv'
  OBVIOUS
<1>1. /\ phase = "commit" /\ rob_ready(rob, index) /\ Entry.op_type \notin {"JUMP", "LOAD", "AL"}
      /\ program' = program /\ dependencies' = dependencies /\ cdb' = cdb
      /\ CommitTransfer(regs)
  BY DEF CommitBranch, Committing
<1> QED
  BY <1>1, CommitNames, CommitTransferKeeps

\* The end of the commit loop keeps the invariant.
LEMMA CommitNothingKeeps == Inv /\ CommitNothing => Inv'
<1> SUFFICES ASSUME Inv, CommitNothing PROVE Inv'
  OBVIOUS
<1>1. /\ phase = "commit" /\ ~rob_ready(rob, index) /\ Advance(COMMIT_WIDTH, "update")
      /\ program' = program /\ cdb' = cdb /\ iq' = iq /\ reg_insts' = reg_insts
      /\ alu_rs' = alu_rs /\ branch_rs' = branch_rs /\ mb' = mb /\ rob' = rob /\ regs' = regs
      /\ alus' = alus /\ branch_units' = branch_units /\ memory_units' = memory_units
      /\ address_units' = address_units
  BY DEF CommitNothing, frontVars, issueVars, unitVars
<1>2. /\ dependencies' = dependencies
      /\ \/ phase' = "commit" /\ index' = index + 1 /\ index' < COMMIT_WIDTH
         \/ phase' = "update" /\ index' = 0
  BY <1>1 DEF Advance
<1>3. index \in Nat /\ Windows(rob, phase, index)
  BY DEF Inv, Shapes
<1>4. Shapes'
  <2>1. index' \in Nat
    BY <1>2, <1>3
  <2> QED
    BY <1>1, <1>2, <2>1 DEF Inv, Shapes
<1>5. Settled(Held', rob')
  <2>1. Held' = Held
    BY <1>1, <1>2 DEF Held
  <2> QED
    BY <1>1, <2>1 DEF Inv
\* The window waits at the entry that was not ready.
<1>6. Windows(rob', phase', index')
  <2>1. PICK added, removed \in 0 .. REORDER_BUFFER_SIZE :
           /\ InStep(rob.front_current, rob.rear_current, rob.front_next, rob.rear_next,
                     added, removed)
           /\ removed <= index /\ (removed < index => ~rob_ready(rob, removed))
    BY <1>1, <1>3 DEF Windows
  <2>2. removed <= index + 1 /\ (removed < index + 1 => ~rob_ready(rob, removed))
    <3>1. removed \in Nat /\ (removed < index + 1 => removed < index \/ removed = index)
      BY <1>3, <2>1
    <3> QED
      BY <1>1, <1>3, <2>1, <3>1
  <2>3. Windows(rob, "commit", index + 1)
    BY <2>1, <2>2 DEF Windows
  <2>4. Windows(rob, "update", 0)
    BY <2>1 DEF Windows
  <2> QED
    BY <1>1, <1>2, <2>3, <2>4
<1>7. CopiesAgree(rob', phase' \in UntilUnitsWork)
  <2>1. CopiesAgree(rob, phase \in UntilUnitsWork)
    BY DEF Inv
  <2>2. phase' \notin UntilUnitsWork
    BY <1>2 DEF UntilUnitsWork
  <2> QED
    BY <1>1, <2>1, <2>2 DEF CopiesAgree
<1>8. PoolsInStep'
  BY <1>1, <1>2 DEF PoolsInStep, Inv
<1>9. IndexInRange'
  BY <1>2 DEF IndexInRange
<1>10. BatchSeesItself'
  BY <1>1, <1>2 DEF BatchSeesItself, Inv
<1>11. EntriesInPlace(rob') /\ Named(rob', regs')
  BY <1>1 DEF Inv
<1> QED
  BY <1>4, <1>5, <1>6, <1>7, <1>8, <1>9, <1>10, <1>11 DEF Inv

-----------------------------------------------------------------------------

\* update_current keeps the invariant.
LEMMA UpdateCurrentKeeps == Inv /\ UpdateCurrent => Inv'
<1> SUFFICES ASSUME Inv, UpdateCurrent PROVE Inv'
  OBVIOUS
<1>1. /\ phase = "update" /\ phase' \in {"fetch", "halted"}
      /\ cdb' = cdb_clear(cdb)
      /\ reg_insts' = latched(reg_insts)
      /\ iq' = inst_queue_update_current(iq)
      /\ rob' = rob_update_current(rob)
      /\ alu_rs' = res_stations_update_current(alu_rs)
      /\ branch_rs' = res_stations_update_current(branch_rs)
      /\ mb' = memory_buffers_update_current(mb)
      /\ program' = program /\ regs' = regs
      /\ alus' = alus /\ branch_units' = branch_units /\ memory_units' = memory_units
      /\ address_units' = address_units
      /\ index' = index /\ dependencies' = dependencies
  BY DEF UpdateCurrent, unitVars
<1>2. /\ program \in Programs /\ IsQueue(iq) /\ IsRegister(reg_insts) /\ IsRob(rob)
      /\ IsFile(regs)
      /\ IsStations(alu_rs, NUM_ALU_RES_STATIONS)
      /\ IsStations(branch_rs, NUM_BRANCH_RES_STATIONS)
      /\ IsBuffers(mb, NUM_MEMORY_BUFFERS)
      /\ IsUnits(alus, NUM_ALU_UNITS) /\ IsBranchUnits(branch_units, NUM_BRANCH_UNITS)
      /\ IsUnits(memory_units, NUM_MEMORY_UNITS)
      /\ IsAddressUnits(address_units, NUM_ADDRESS_UNITS)
      /\ dependencies \in [Regs -> {0} \cup RobIds]
      /\ index = 0 /\ Windows(rob, "update", index) /\ EntriesInPlace(rob)
      /\ Settled(Held, rob) /\ BatchSeesItself /\ Named(rob, regs)
  BY <1>1 DEF Inv, Shapes, IndexInRange
<1>3. /\ IsRob(rob') /\ EntriesInPlace(rob') /\ CopiesAgree(rob', TRUE)
      /\ Windows(rob', "fetch", 0) /\ Windows(rob', "halted", 0)
      /\ rob'.queue_next = rob.queue_next
      /\ rob'.front_next = rob.front_next /\ rob'.rear_next = rob.rear_next
  BY <1>1, <1>2, UpdateRob
<1>4. /\ StationsTurned(alu_rs', alu_rs, NUM_ALU_RES_STATIONS)
      /\ StationsTurned(branch_rs', branch_rs, NUM_BRANCH_RES_STATIONS)
      /\ BuffersTurned(mb', mb, NUM_MEMORY_BUFFERS, rob')
  BY <1>1, <1>2, Sizes, StayInStations, StayInBuffers
<1>5. IsBus(cdb') /\ InBus(cdb') = {}
  BY <1>1, ClearBus
<1>6. IsQueue(iq')
  BY <1>1, <1>2, QueueClears
<1>7. IsRegister(reg_insts')
  <2>1. PICK c, n : reg_insts = [current |-> c, next |-> n] /\ AreLatches(c) /\ AreLatches(n)
    BY <1>2 DEF IsRegister
  <2>2. reg_insts' = [current |-> n, next |-> n]
    BY <1>1, <2>1 DEF latched
  <2> QED
    BY <2>1, <2>2 DEF IsRegister
<1>8. Shapes'
  <2>1. index' \in Nat
    BY <1>1, <1>2
  <2> QED
    BY <1>1, <1>2, <1>3, <1>4, <1>5, <1>6, <1>7, <2>1 DEF Shapes, StationsTurned, BuffersTurned
<1>9. Flying(rob') = Flying(rob)
  BY <1>3 DEF Flying
<1>10. Settled(Held', rob')
  <2>1. /\ InPool("alu_rs", alu_rs'.next) = InPool("alu_rs", alu_rs.next)
        /\ InPool("branch_rs", branch_rs'.next) = InPool("branch_rs", branch_rs.next)
        /\ InPool("mb", mb'.next) = InPool("mb", mb.next)
    BY <1>4 DEF StationsTurned, BuffersTurned
  <2>2. Held' = Held
    BY <1>1, <1>5, <2>1 DEF Held
  <2> QED
    BY <1>2, <1>3, <1>9, <2>2 DEF Settled
<1>11. Windows(rob', phase', index')
  BY <1>1, <1>2, <1>3
<1>12. CopiesAgree(rob', phase' \in UntilUnitsWork)
  BY <1>3 DEF CopiesAgree
<1>13. PoolsInStep'
  <2>1. /\ alu_rs'.added = 0 /\ branch_rs'.added = 0 /\ mb'.count_enqueue = 0
        /\ StationsInStep(alu_rs') /\ StationsInStep(branch_rs') /\ BuffersInStep(mb', rob')
    BY <1>4 DEF StationsTurned, BuffersTurned
  <2> QED
    BY <1>1, <1>2, <2>1 DEF PoolsInStep
<1>14. IndexInRange'
  BY <1>1, <1>2 DEF IndexInRange
<1>15. BatchSeesItself'
  BY <1>1, <1>2 DEF BatchSeesItself
<1>16. Named(rob', regs')
  <2>1. \A k, reg : Writes(rob', k, reg) <=> Writes(rob, k, reg)
    BY <1>3, <1>9 DEF Writes
  <2>2. \A k : AgeOf(rob', k) = AgeOf(rob, k)
    BY <1>3 DEF AgeOf
  <2> QED
    BY <1>1, <1>2, <2>1, <2>2 DEF Named
<1> QED
  BY <1>3, <1>8, <1>10, <1>11, <1>12, <1>13, <1>14, <1>15, <1>16 DEF Inv

-----------------------------------------------------------------------------

(* Nobody is in flight at the start. *)

\* The reorder buffer at the start.
LEMMA InitRob ==
    /\ IsRob(rob_init) /\ EntriesInPlace(rob_init) /\ CopiesAgree(rob_init, TRUE)
    /\ Windows(rob_init, "fetch", 0) /\ Flying(rob_init) = {}
<1>1. rob_init \in RobState({0})
  BY InitType
<1>2. /\ rob_init.front_current = -1 /\ rob_init.rear_current = -1
      /\ rob_init.front_next = -1 /\ rob_init.rear_next = -1
      /\ \A i \in Slots : rob_init.queue_next[i].rob_id = i + 1
  BY DEF rob_init
<1>3. \A i : ~InWindow(rob_init.front_next, rob_init.rear_next, i)
  BY <1>2 DEF InWindow
<1>4. EntriesInPlace(rob_init) /\ CopiesAgree(rob_init, TRUE) /\ Flying(rob_init) = {}
  BY <1>2, <1>3 DEF EntriesInPlace, CopiesAgree, Flying
<1>5. InStep(-1, -1, -1, -1, 0, 0)
  BY UpdateWindow, SizeIsPositive DEF Cursor
<1>6. Windows(rob_init, "fetch", 0)
  <2>1. 0 \in 0 .. S
    BY SizeIsPositive
  <2> QED
    BY <1>2, <1>5, <2>1 DEF Windows, S
<1> QED
  BY <1>1, <1>4, <1>6 DEF IsRob

\* The units at the start.
LEMMA InitUnits ==
    /\ \A n, name : /\ IsUnits([i \in 1 .. n |-> idle_unit], n)
                    /\ InUnits(name, [i \in 1 .. n |-> idle_unit]) = {}
    /\ \A n : /\ IsBranchUnits([i \in 1 .. n |-> idle_branch_unit], n)
              /\ InBranchUnits([i \in 1 .. n |-> idle_branch_unit]) = {}
              /\ IsAddressUnits([i \in 1 .. n |-> idle_address_unit], n)
              /\ InAddressUnits([i \in 1 .. n |-> idle_address_unit]) = {}
<1> DEFINE V == {0, -1}
<1>1. idle_unit \in UnitOf(V) /\ idle_unit.relative_cycle = 0
  BY DEF idle_unit, UnitOf
<1>2. idle_branch_unit \in BranchUnitOf(V) /\ idle_branch_unit.relative_cycle = 0
  BY DEF idle_branch_unit, BranchUnitOf
<1>3. idle_address_unit \in AddressUnitOf(V) /\ idle_address_unit.relative_cycle = 0
  BY DEF idle_address_unit, AddressUnitOf
<1>4. ASSUME NEW n, NEW unit, unit.relative_cycle = 0
      PROVE  Active([i \in 1 .. n |-> unit]) = {}
  BY <1>4 DEF Active
<1> HIDE DEF V
<1>5. ASSUME NEW n, NEW name
      PROVE  /\ IsUnits([i \in 1 .. n |-> idle_unit], n)
             /\ InUnits(name, [i \in 1 .. n |-> idle_unit]) = {}
  BY <1>1, <1>4 DEF IsUnits, InUnits
<1>6. ASSUME NEW n
      PROVE  /\ IsBranchUnits([i \in 1 .. n |-> idle_branch_unit], n)
             /\ InBranchUnits([i \in 1 .. n |-> idle_branch_unit]) = {}
  BY <1>2, <1>4 DEF IsBranchUnits, InBranchUnits
<1>7. ASSUME NEW n
      PROVE  /\ IsAddressUnits([i \in 1 .. n |-> idle_address_unit], n)
             /\ InAddressUnits([i \in 1 .. n |-> idle_address_unit]) = {}
  BY <1>3, <1>4 DEF IsAddressUnits, InAddressUnits
<1> QED
  BY <1>5, <1>6, <1>7

\* cpu_init establishes the invariant.
LEMMA InitKeeps == Init => Inv
<1> SUFFICES ASSUME Init PROVE Inv
  OBVIOUS
<1> DEFINE latch == [inst |-> NoInst, inst_pc |-> 0, npc_pred |-> 0]
           latches == [i \in 1 .. ISSUE_WIDTH |-> latch]
<1>1. /\ program \in Programs /\ reg_insts = [current |-> latches, next |-> latches]
      /\ iq = inst_queue_init(NoInst) /\ rob = rob_init /\ cdb = cdb_init
      /\ regs = reg_file_init
      /\ alu_rs = res_stations_init(NUM_ALU_RES_STATIONS)
      /\ branch_rs = res_stations_init(NUM_BRANCH_RES_STATIONS)
      /\ mb = memory_buffers_init(NUM_MEMORY_BUFFERS)
      /\ alus = [i \in 1 .. NUM_ALU_UNITS |-> idle_unit]
      /\ branch_units = [i \in 1 .. NUM_BRANCH_UNITS |-> idle_branch_unit]
      /\ memory_units = [i \in 1 .. NUM_MEMORY_UNITS |-> idle_unit]
      /\ address_units = [i \in 1 .. NUM_ADDRESS_UNITS |-> idle_address_unit]
      /\ phase = "fetch" /\ index = 0 /\ dependencies = None
  BY DEF Init
<1>2. IsRegister(reg_insts)
  <2>1. IsLatch(latch)
    BY NoInstIsInst DEF IsLatch
  <2> HIDE DEF latch
  <2>2. AreLatches(latches)
    BY <2>1 DEF AreLatches, W
  <2> HIDE DEF latches
  <2> QED
    BY <1>1, <2>2 DEF IsRegister
<1> HIDE DEF latches, latch
<1>3. IsFile(regs) /\ \A r \in Regs : ~regs[r].busy
  <2> DEFINE V == {STACK_TOP, 0}
  <2>1. regs \in FilesOf(V) /\ \A r \in Regs : ~regs[r].busy
    BY <1>1 DEF reg_file_init, FilesOf
  <2> QED
    BY <2>1 DEF IsFile
<1>4. /\ IsRob(rob) /\ EntriesInPlace(rob) /\ CopiesAgree(rob, TRUE)
      /\ Windows(rob, "fetch", 0) /\ Flying(rob) = {}
  BY <1>1, InitRob
<1>5. /\ IsStations(alu_rs, NUM_ALU_RES_STATIONS) /\ alu_rs.current = alu_rs.next
      /\ alu_rs.added = 0 /\ InPool("alu_rs", alu_rs.next) = {}
  BY <1>1, Sizes, InitStations
<1>6. /\ IsStations(branch_rs, NUM_BRANCH_RES_STATIONS) /\ branch_rs.current = branch_rs.next
      /\ branch_rs.added = 0 /\ InPool("branch_rs", branch_rs.next) = {}
  BY <1>1, Sizes, InitStations
<1>7. /\ IsBuffers(mb, NUM_MEMORY_BUFFERS) /\ BuffersInStep(mb, rob)
      /\ mb.count_enqueue = 0 /\ InPool("mb", mb.next) = {}
  BY <1>1, Sizes, InitBuffers
<1>8. /\ IsUnits(alus, NUM_ALU_UNITS) /\ InUnits("alu", alus) = {}
      /\ IsUnits(memory_units, NUM_MEMORY_UNITS) /\ InUnits("memory", memory_units) = {}
      /\ IsBranchUnits(branch_units, NUM_BRANCH_UNITS) /\ InBranchUnits(branch_units) = {}
      /\ IsAddressUnits(address_units, NUM_ADDRESS_UNITS) /\ InAddressUnits(address_units) = {}
  BY <1>1, InitUnits
<1>9. IsBus(cdb) /\ InBus(cdb) = {}
  BY <1>1, ClearBus
<1>10. Shapes
  <2>1. IsQueue(iq)
    BY <1>1, QueueInit
  <2>2. dependencies \in [Regs -> {0} \cup RobIds] /\ index \in Nat
    BY <1>1 DEF None
  <2> QED
    BY <1>1, <1>2, <1>3, <1>4, <1>5, <1>6, <1>7, <1>8, <1>9, <2>1, <2>2 DEF Shapes
<1>11. Settled(Held, rob)
  <2>1. Held = {}
    BY <1>5, <1>6, <1>7, <1>8, <1>9 DEF Held
  <2> QED
    BY <2>1 DEF Settled
<1>12. PoolsInStep
  <2>1. StationsInStep(alu_rs) /\ StationsInStep(branch_rs)
    BY <1>5, <1>6 DEF StationsInStep
  <2> QED
    BY <1>1, <1>5, <1>6, <1>7, <2>1 DEF PoolsInStep
<1>13. IndexInRange /\ BatchSeesItself
  BY <1>1 DEF IndexInRange, BatchSeesItself, None
<1>14. Named(rob, regs)
  BY <1>3, <1>4 DEF Named, Writes
<1>15. CopiesAgree(rob, phase \in UntilUnitsWork)
  BY <1>4 DEF CopiesAgree
<1>16. Windows(rob, phase, index)
  BY <1>1, <1>4
<1> QED
  BY <1>4, <1>10, <1>11, <1>12, <1>13, <1>14, <1>15, <1>16 DEF Inv

-----------------------------------------------------------------------------

\* A step that changes nothing keeps the invariant.
LEMMA InvStutters == Inv /\ UNCHANGED vars => Inv'
<1> SUFFICES ASSUME Inv, UNCHANGED vars PROVE Inv'
  OBVIOUS
<1>1. Held' = Held /\ PoolsInStep' = PoolsInStep /\ IndexInRange' = IndexInRange
      /\ BatchSeesItself' = BatchSeesItself /\ Shapes' = Shapes
  BY DEF vars, frontVars, issueVars, unitVars, commitVars, controlVars,
         Held, PoolsInStep, IndexInRange, BatchSeesItself, Shapes
<1>2. rob' = rob /\ regs' = regs /\ phase' = phase /\ index' = index
  BY DEF vars, issueVars, controlVars
<1> QED
  BY <1>1, <1>2 DEF Inv

\* The invariant is inductive: every step of every phase of a cycle keeps it.
LEMMA InvKept == Inv /\ [Next]_vars => Inv'
  BY FetchKeeps, DecodeLatchKeeps, DecodeStallsKeeps, DecodeFailsKeeps,
     IssueAlKeeps, IssueBranchKeeps, IssueMemoryKeeps, EndIssueKeeps,
     AluStepKeeps, BranchStepKeeps, MemoryStepKeeps, AddressStepKeeps, CaptureKeeps,
     CommitJumpKeeps, CommitBranchKeeps, CommitResultKeeps, CommitStoreKeeps,
     CommitNothingKeeps, UpdateCurrentKeeps, InvStutters
  DEF Next, Commit

\* The invariant of the superscalar core: the shapes of its structs, the window of the reorder
\* buffer and its two copies, who is held where, and the aliases, in every state of every
\* program.
THEOREM Invariance == Spec => []Inv
<1>1. Init => Inv
  BY InitKeeps
<1>2. Inv /\ [Next]_vars => Inv'
  BY InvKept
<1> QED
  BY <1>1, <1>2, PTL DEF Spec

-----------------------------------------------------------------------------

(***************************************************************************)
(* Who waits for whom, over the steps: no result that an instruction waits *)
(* for has gone by, whatever has finished, left or been flushed meanwhile. *)
(***************************************************************************)
WaitInv ==
    /\ PoolWaits(alu_rs.next, rob)
    /\ PoolWaits(branch_rs.next, rob)
    /\ PoolWaits(mb.next, rob)
    /\ DataWaits(rob)
    /\ ReadersFindWriters

\* A step in which nobody enters and nobody leaves the reorder buffer.
LEMMA NobodyComesOrGoes ==
    ASSUME WaitInv, ReadersFindWriters', NEW heard, Spares(rob, rob', heard),
           StillWaiting(alu_rs'.next, alu_rs.next, heard),
           StillWaiting(branch_rs'.next, branch_rs.next, heard),
           StillWaiting(mb'.next, mb.next, heard)
    PROVE  WaitInv'
<1>1. /\ PoolWaits(alu_rs.next, rob) /\ PoolWaits(branch_rs.next, rob)
      /\ PoolWaits(mb.next, rob) /\ DataWaits(rob)
  BY DEF WaitInv
<1>2. PoolWaits(alu_rs'.next, rob')
  BY <1>1, PoolWaitsOn
<1>3. PoolWaits(branch_rs'.next, rob')
  BY <1>1, PoolWaitsOn
<1>4. PoolWaits(mb'.next, rob')
  BY <1>1, PoolWaitsOn
<1>5. DataWaits(rob')
  BY <1>1, DataWaitsOn
<1> QED
  BY <1>2, <1>3, <1>4, <1>5 DEF WaitInv

\* Readers ask for their writers only while a batch is issued.
LEMMA ReadersRest ==
    ASSUME WaitInv, regs' = regs, phase' # "issue"
    PROVE  ReadersFindWriters'
  BY DEF WaitInv, ReadersFindWriters

\* Before a batch the two copies hold the same instructions.
LEMMA QuietWaits ==
    ASSUME Inv, WaitInv, UNCHANGED issueVars,
           \/ phase' # "issue"
           \/ phase = "decode" /\ dependencies' = dependencies
    PROVE  WaitInv'
<1>1. /\ alu_rs' = alu_rs /\ branch_rs' = branch_rs /\ mb' = mb /\ rob' = rob /\ regs' = regs
  BY DEF issueVars
<1>2. Spares(rob, rob', {})
  BY <1>1, SparesAll
<1>3. /\ StillWaiting(alu_rs'.next, alu_rs.next, {})
      /\ StillWaiting(branch_rs'.next, branch_rs.next, {})
      /\ StillWaiting(mb'.next, mb.next, {})
  BY <1>1, StillWaitingHere
<1>4. CASE phase' # "issue"
  BY <1>1, <1>2, <1>3, <1>4, ReadersRest, NobodyComesOrGoes
<1>5. CASE phase = "decode" /\ dependencies' = dependencies
  <2>1. /\ IsRob(rob) /\ Windows(rob, "decode", index) /\ Named(rob, regs) /\ ~regs[0].busy
    BY <1>5 DEF Inv, Shapes, WaitInv, ReadersFindWriters
  <2>2. ASSUME NEW r \in Regs, regs[r].busy
        PROVE  /\ dependencies[r] = 0
               /\ InWindow(rob.front_current, rob.rear_current, regs[r].rob_id - 1)
    <3>1. dependencies[r] = 0
      BY <1>5 DEF Inv, BatchSeesItself
    <3>2. Writes(rob, regs[r].rob_id, r)
      BY <2>1, <2>2 DEF Named
    <3> DEFINE slot == regs[r].rob_id - 1
    <3>3. slot \in Slots /\ InWindow(rob.front_next, rob.rear_next, slot)
      BY <3>2, IdsAreSlots DEF Writes, Flying
    <3> HIDE DEF slot
    <3>4. InWindow(rob.front_current, rob.rear_current, slot)
      BY <2>1, <3>3, WindowsAgree
    <3> QED
      BY <3>1, <3>4 DEF slot
  <2>3. ReadersFindWriters'
    BY <1>1, <1>5, <2>1, <2>2 DEF ReadersFindWriters
  <2> QED
    BY <1>2, <1>3, <2>3, NobodyComesOrGoes
<1> QED
  BY <1>4, <1>5

\* The front end lets nobody in.
LEMMA FrontWaits ==
    Inv /\ WaitInv /\ (Fetch \/ DecodeLatch \/ DecodeStalls \/ DecodeFails \/ EndIssue) => WaitInv'
<1> SUFFICES ASSUME Inv, WaitInv,
                    Fetch \/ DecodeLatch \/ DecodeStalls \/ DecodeFails \/ EndIssue
             PROVE  WaitInv'
  OBVIOUS
<1>1. UNCHANGED issueVars
  BY DEF Fetch, DecodeLatch, DecodeStalls, DecodeFails, EndIssue, issueVars
<1>2. phase' # "issue" \/ (phase = "decode" /\ dependencies' = dependencies)
  BY DEF Fetch, DecodeLatch, DecodeStalls, DecodeFails, EndIssue, Advance
<1> QED
  BY <1>1, <1>2, QuietWaits

-----------------------------------------------------------------------------

(* Issue. *)

\* Whatever an instruction of the batch is given to wait for will come.
LEMMA OperandsOfBatch ==
    ASSUME Inv, WaitInv, phase = "issue", NEW rs \in Regs
    PROVE  set_q_v(rs).q = 0 \/ Awaited(rob, set_q_v(rs).q)
<1>1. /\ IsRob(rob) /\ IsFile(regs) /\ Named(rob, regs) /\ BatchSeesItself
      /\ dependencies \in [Regs -> {0} \cup RobIds]
      /\ CopiesAgree(rob, phase \in UntilUnitsWork)
  BY DEF Inv, Shapes
<1>2. CopiesAgree(rob, TRUE)
  BY <1>1, Agreement DEF UntilUnitsWork
<1>3. ReadersFindWriters
  BY DEF WaitInv
<1> QED
  BY <1>1, <1>2, <1>3, OperandAwaited

\* After an instruction more, who reads its register finds it, and it has not finished.
LEMMA BatchIsRead ==
    ASSUME ReadersFindWriters, BatchSeesItself, Named(rob, regs), IsFile(regs), phase = "issue",
           dependencies \in [Regs -> {0} \cup RobIds],
           NEW id \in RobIds, NEW rd \in Regs, NEW op_type,
           Entered(rob, rob', id, op_type, rd), rob'.rear_current = rob.rear_current,
           Rename(rd, id)
    PROVE  ReadersFindWriters'
<1>1. /\ rob'.front_current = rob.front_current /\ ~rob'.queue_next[id - 1].ready
      /\ \A k \in Flying(rob) : rob'.queue_next[k - 1] = rob.queue_next[k - 1]
  BY DEF Entered
<1>2. /\ ~regs[0].busy
      /\ \A r \in Regs : regs[r].busy =>
               IF dependencies[r] = 0
               THEN InWindow(rob.front_current, rob.rear_current, regs[r].rob_id - 1)
               ELSE ~rob.queue_next[dependencies[r] - 1].ready
  BY DEF ReadersFindWriters
<1>3. /\ rd = 0 => regs' = regs /\ dependencies' = dependencies
      /\ rd # 0 => /\ dependencies'[rd] = id
                   /\ \A r \in Regs \ {rd} : /\ regs'[r] = regs[r]
                                             /\ dependencies'[r] = dependencies[r]
  <2>1. CASE rd = 0
    BY <2>1 DEF Rename, reg_file_set_rob_id
  <2>2. CASE rd # 0
    <3>1. dependencies' = [dependencies EXCEPT ![rd] = id]
      BY <2>2 DEF Rename
    <3>2. PICK named : regs' = [regs EXCEPT ![rd] = named]
      BY <2>2 DEF Rename, reg_file_set_rob_id
    <3>3. \A r \in Regs \ {rd} : regs'[r] = regs[r]
      BY <3>2 DEF IsFile, FilesOf
    <3> QED
      BY <2>2, <3>1, <3>3
  <2> QED
    BY <2>1, <2>2
<1>4. ~regs'[0].busy
  BY <1>2, <1>3, NoInstIsInst
<1>5. ASSUME NEW r \in Regs, regs'[r].busy
      PROVE  IF dependencies'[r] = 0
             THEN InWindow(rob'.front_current, rob'.rear_current, regs'[r].rob_id - 1)
             ELSE ~rob'.queue_next[dependencies'[r] - 1].ready
  <2>1. CASE rd # 0 /\ r = rd
    <3>1. id # 0
      BY SizeIsPositive
    <3> QED
      BY <1>1, <1>3, <2>1, <3>1
  <2>2. CASE rd = 0 \/ r # rd
    <3>1. regs'[r] = regs[r] /\ dependencies'[r] = dependencies[r]
      BY <1>3, <2>2
    <3>2. CASE dependencies[r] = 0
      BY <1>1, <1>2, <1>5, <3>1, <3>2
    <3>3. CASE dependencies[r] # 0
      <4>1. r # 0 /\ regs[r].busy /\ regs[r].rob_id = dependencies[r]
        BY <3>3 DEF BatchSeesItself
      <4>2. dependencies[r] \in Flying(rob)
        BY <4>1 DEF Named, Writes
      <4> QED
        BY <1>1, <1>2, <3>1, <3>3, <4>1, <4>2
    <3> QED
      BY <3>2, <3>3
  <2> QED
    BY <2>1, <2>2
<1> QED
  BY <1>4, <1>5 DEF ReadersFindWriters

\* The three kinds of issue have this in common: the new entry, and what waits with it, waits
\* for
\* results that will come.
LEMMA IssueWaits ==
    ASSUME Inv, WaitInv, phase = "issue", index < batch_size, phase' = phase,
           NEW inst, inst = inst_queue_front(iq, index), op_type_of(inst.op) \in OpType,
           NEW value_, NEW q \in {0} \cup RobIds, NEW npc_pred, NEW inst_pc,
           rob' = rob_enqueue(rob, op_type_of(inst.op), inst.rd, value_, q, npc_pred, inst_pc),
           Rename(inst.rd, rob_enqueue_id(rob)),
           q = 0 \/ Awaited(rob, q),
           NEW operands, \A o \in operands : o = 0 \/ Awaited(rob, o),
           WaitsToo(alu_rs'.next, alu_rs.next, rob_enqueue_id(rob), operands),
           WaitsToo(branch_rs'.next, branch_rs.next, rob_enqueue_id(rob), operands),
           WaitsToo(mb'.next, mb.next, rob_enqueue_id(rob), operands)
    PROVE  WaitInv'
<1> DEFINE id == rob_enqueue_id(rob)
           op_type == op_type_of(inst.op)
<1>1. /\ IsRob(rob) /\ index \in Nat /\ IsFile(regs)
      /\ dependencies \in [Regs -> {0} \cup RobIds]
      /\ Windows(rob, "issue", index) /\ EntriesInPlace(rob) /\ Named(rob, regs)
      /\ CopiesAgree(rob, phase \in UntilUnitsWork) /\ BatchSeesItself
  BY DEF Inv, Shapes
<1>2. CopiesAgree(rob, TRUE)
  BY <1>1, Agreement DEF UntilUnitsWork
<1>3. index < rob_num_free_slots(rob) /\ IsInst(inst)
  BY IssueMeets
<1>4. Entered(rob, rob', id, op_type, inst.rd)
  BY <1>1, <1>2, <1>3, EnqueueRob
<1>5. EnteredWith(rob, rob', id, q)
  BY <1>1, EnqueuedOperand
<1>6. /\ rob'.queue_next[id - 1].q = q /\ rob'.rear_current = rob.rear_current
      /\ id \in RobIds
  BY <1>5, IssueMeets DEF EnteredWith
<1>7. inst.rd \in Regs
  BY <1>3 DEF IsInst
<1> HIDE DEF id, op_type
<1>8. /\ PoolWaits(alu_rs.next, rob) /\ PoolWaits(branch_rs.next, rob)
      /\ PoolWaits(mb.next, rob) /\ DataWaits(rob) /\ ReadersFindWriters
  BY DEF WaitInv
<1>9. PoolWaits(alu_rs'.next, rob')
  BY <1>4, <1>8, PoolWaitsEnters DEF id
<1>10. PoolWaits(branch_rs'.next, rob')
  BY <1>4, <1>8, PoolWaitsEnters DEF id
<1>11. PoolWaits(mb'.next, rob')
  BY <1>4, <1>8, PoolWaitsEnters DEF id
<1>12. DataWaits(rob')
  BY <1>4, <1>6, <1>8, DataWaitsEnters
<1>13. ReadersFindWriters'
  BY <1>1, <1>4, <1>6, <1>7, <1>8, BatchIsRead DEF id
<1> QED
  BY <1>9, <1>10, <1>11, <1>12, <1>13 DEF WaitInv

-----------------------------------------------------------------------------

\* Nobody waits in vain after handle_al_operation.
LEMMA IssueAlWaits == Inv /\ WaitInv /\ IssueAl => WaitInv'
<1> SUFFICES ASSUME Inv, WaitInv, IssueAl PROVE WaitInv'
  OBVIOUS
<1> DEFINE inst == inst_queue_front(iq, index)
           j == IF inst.op \in ImmOp \cup RegOp THEN set_q_v(inst.rs1) ELSE value(inst.imm)
           k == IF inst.op \in RegOp THEN set_q_v(inst.rs2)
                ELSE value(IF inst.op \in ImmOp THEN inst.imm ELSE NA)
           id == rob_enqueue_id(rob)
<1>1. /\ phase = "issue" /\ index < batch_size /\ op_type_of(inst.op) = "AL"
      /\ phase' = phase /\ branch_rs' = branch_rs /\ mb' = mb
      /\ Rename(inst.rd, id)
      /\ rob' = rob_enqueue(rob, "AL", inst.rd, NA, NA, NA, NA)
      /\ alu_rs' = res_stations_add(alu_rs, inst.op, j.q, k.q, j.v, k.v, NA, id, inst.inst_pc)
  BY DEF IssueAl, Issuing
<1>2. inst.rs1 \in Regs /\ inst.rs2 \in Regs
  BY <1>1, IssueMeets DEF IsInst
<1>3. \A o \in {j.q, k.q} : o = 0 \/ Awaited(rob, o)
  <2>1. \A v : value(v).q = 0
    BY DEF value, NA
  <2> QED
    BY <1>1, <1>2, <2>1, OperandsOfBatch
<1> HIDE DEF inst, j, k, id
<1>4. WaitsToo(alu_rs'.next, alu_rs.next, id, {j.q, k.q})
  <2>1. IsStations(alu_rs, NUM_ALU_RES_STATIONS)
    BY DEF Inv, Shapes
  <2> QED
    BY <1>1, <2>1, WaitAfterAdd
<1>5. /\ WaitsToo(branch_rs'.next, branch_rs.next, id, {j.q, k.q})
      /\ WaitsToo(mb'.next, mb.next, id, {j.q, k.q})
  BY <1>1, StillWaitingHere
<1>6. op_type_of(inst.op) \in OpType /\ NA \in {0} \cup RobIds /\ NA = 0
  BY <1>1 DEF OpType, NA
<1> QED
  BY <1>1, <1>3, <1>4, <1>5, <1>6, IssueWaits DEF inst, id

\* Nor after handle_branch_operation.
LEMMA IssueBranchWaits == Inv /\ WaitInv /\ IssueBranch => WaitInv'
<1> SUFFICES ASSUME Inv, WaitInv, IssueBranch PROVE WaitInv'
  OBVIOUS
<1> DEFINE inst == inst_queue_front(iq, index)
           j == IF inst.op \in BranchOp \cup {"JALR"} THEN set_q_v(inst.rs1) ELSE value(NA)
           k == IF inst.op \in BranchOp THEN set_q_v(inst.rs2) ELSE value(NA)
           id == rob_enqueue_id(rob)
<1>1. /\ phase = "issue" /\ index < batch_size /\ op_type_of(inst.op) \in {"JUMP", "BRANCH"}
      /\ phase' = phase /\ alu_rs' = alu_rs /\ mb' = mb
      /\ Rename(inst.rd, id)
      /\ rob' = rob_enqueue(rob, op_type_of(inst.op), inst.rd, NA, NA,
                             inst.npc_pred, inst.inst_pc)
      /\ branch_rs' = res_stations_add(branch_rs, inst.op, j.q, k.q, j.v, k.v,
                                       inst.imm, id, inst.inst_pc)
  BY DEF IssueBranch, Issuing
<1>2. inst.rs1 \in Regs /\ inst.rs2 \in Regs
  BY <1>1, IssueMeets DEF IsInst
<1>3. \A o \in {j.q, k.q} : o = 0 \/ Awaited(rob, o)
  <2>1. \A v : value(v).q = 0
    BY DEF value, NA
  <2> QED
    BY <1>1, <1>2, <2>1, OperandsOfBatch
<1> HIDE DEF inst, j, k, id
<1>4. WaitsToo(branch_rs'.next, branch_rs.next, id, {j.q, k.q})
  <2>1. IsStations(branch_rs, NUM_BRANCH_RES_STATIONS)
    BY DEF Inv, Shapes
  <2> QED
    BY <1>1, <2>1, WaitAfterAdd
<1>5. /\ WaitsToo(alu_rs'.next, alu_rs.next, id, {j.q, k.q})
      /\ WaitsToo(mb'.next, mb.next, id, {j.q, k.q})
  BY <1>1, StillWaitingHere
<1>6. op_type_of(inst.op) \in OpType /\ NA \in {0} \cup RobIds /\ NA = 0
  BY <1>1 DEF OpType, NA
<1> QED
  BY <1>1, <1>3, <1>4, <1>5, <1>6, IssueWaits DEF inst, id

\* Nor after handle_mem_operation.
LEMMA IssueMemoryWaits == Inv /\ WaitInv /\ IssueMemory => WaitInv'
<1> SUFFICES ASSUME Inv, WaitInv, IssueMemory PROVE WaitInv'
  OBVIOUS
<1> DEFINE inst == inst_queue_front(iq, index)
           j == set_q_v(inst.rs1)
           k == IF inst.op \in StoreOp THEN set_q_v(inst.rs2) ELSE value(NA)
           id == rob_enqueue_id(rob)
<1>1. /\ phase = "issue" /\ index < batch_size
      /\ op_type_of(inst.op) \in {"LOAD"} \cup StoreType
      /\ phase' = phase /\ alu_rs' = alu_rs /\ branch_rs' = branch_rs
      /\ Rename(inst.rd, id)
      /\ rob' = rob_enqueue(rob, op_type_of(inst.op), inst.rd, k.v, k.q, NA, NA)
      /\ mb' = memory_buffers_enqueue(mb, inst.op, j.q, k.q, j.v, k.v, inst.imm, id)
  BY DEF IssueMemory, Issuing
<1>2. inst.rs1 \in Regs /\ inst.rs2 \in Regs
  BY <1>1, IssueMeets DEF IsInst
<1>3. \A o \in {j.q, k.q} : o = 0 \/ Awaited(rob, o)
  <2>1. \A v : value(v).q = 0
    BY DEF value, NA
  <2> QED
    BY <1>1, <1>2, <2>1, OperandsOfBatch
<1>4. k.q \in {0} \cup RobIds
  <2>1. IsFile(regs) /\ dependencies \in [Regs -> {0} \cup RobIds]
    BY DEF Inv, Shapes
  <2> QED
    BY <1>2, <2>1, OperandIsId
<1> HIDE DEF inst, j, k, id
<1>5. WaitsToo(mb'.next, mb.next, id, {j.q, k.q})
  <2>1. IsBuffers(mb, NUM_MEMORY_BUFFERS)
    BY DEF Inv, Shapes
  <2> QED
    BY <1>1, <2>1, BufferWaitAfterEnqueue
<1>6. /\ WaitsToo(alu_rs'.next, alu_rs.next, id, {j.q, k.q})
      /\ WaitsToo(branch_rs'.next, branch_rs.next, id, {j.q, k.q})
  BY <1>1, StillWaitingHere
<1>7. op_type_of(inst.op) \in OpType
  BY <1>1 DEF OpType, StoreType
<1> DEFINE q == k.q
           operands == {j.q, k.q}
<1>8. q \in {0} \cup RobIds /\ (q = 0 \/ Awaited(rob, q))
      /\ rob' = rob_enqueue(rob, op_type_of(inst.op), inst.rd, k.v, q, NA, NA)
  BY <1>1, <1>3, <1>4
<1>9. /\ \A o \in operands : o = 0 \/ Awaited(rob, o)
      /\ WaitsToo(alu_rs'.next, alu_rs.next, id, operands)
      /\ WaitsToo(branch_rs'.next, branch_rs.next, id, operands)
      /\ WaitsToo(mb'.next, mb.next, id, operands)
  BY <1>3, <1>5, <1>6
<1> HIDE DEF q, operands
<1> QED
  BY <1>1, <1>7, <1>8, <1>9, IssueWaits DEF inst, id

-----------------------------------------------------------------------------

(* The functional units. *)

\* The phases after a unit's step.
LEMMA UnitsMoveOn ==
    ASSUME phase \in UnitPhases, NEW n, NEW next, next # "issue", Advance(n, next)
    PROVE  phase' # "issue"
  BY DEF UnitPhases, Advance

\* Nor while alu_step takes and finishes instructions: it is the capture of a result that ends
\* the waiting.
LEMMA AluStepWaits == Inv /\ WaitInv /\ AluStep => WaitInv'
<1> SUFFICES ASSUME Inv, WaitInv, AluStep PROVE WaitInv'
  OBVIOUS
<1>1. /\ phase = "alu" /\ Advance(NUM_ALU_UNITS, "branch")
      /\ alu_rs' = res_stations_remove(alu_rs) \/ alu_rs' = alu_rs
      /\ branch_rs' = branch_rs /\ mb' = mb /\ rob' = rob /\ regs' = regs
  BY DEF AluStep
<1>2. ReadersFindWriters'
  BY <1>1, UnitsMoveOn, ReadersRest DEF UnitPhases
<1>3. Spares(rob, rob', {})
  BY <1>1, SparesAll
<1>4. IsStations(alu_rs, NUM_ALU_RES_STATIONS)
  BY DEF Inv, Shapes
<1>5. /\ StillWaiting(alu_rs'.next, alu_rs.next, {})
      /\ StillWaiting(branch_rs'.next, branch_rs.next, {})
      /\ StillWaiting(mb'.next, mb.next, {})
  BY <1>1, <1>4, WaitAfterRemove, StillWaitingHere
<1> QED
  BY <1>2, <1>3, <1>5, NobodyComesOrGoes

\* The same of memory_step.
LEMMA MemoryStepWaits == Inv /\ WaitInv /\ MemoryStep => WaitInv'
<1> SUFFICES ASSUME Inv, WaitInv, MemoryStep PROVE WaitInv'
  OBVIOUS
<1>1. /\ phase = "memory" /\ Advance(NUM_MEMORY_UNITS, "address")
      /\ mb' = mb \/ \E i : mb' = memory_buffers_dequeue_memory(mb, i)
      /\ alu_rs' = alu_rs /\ branch_rs' = branch_rs /\ rob' = rob /\ regs' = regs
  BY DEF MemoryStep
<1>2. ReadersFindWriters'
  BY <1>1, UnitsMoveOn, ReadersRest DEF UnitPhases
<1>3. Spares(rob, rob', {})
  BY <1>1, SparesAll
<1>4. IsBuffers(mb, NUM_MEMORY_BUFFERS)
  BY DEF Inv, Shapes
<1>5. /\ StillWaiting(alu_rs'.next, alu_rs.next, {})
      /\ StillWaiting(branch_rs'.next, branch_rs.next, {})
      /\ StillWaiting(mb'.next, mb.next, {})
  BY <1>1, <1>4, BufferWaitAfterMemory, StillWaitingHere
<1> QED
  BY <1>2, <1>3, <1>5, NobodyComesOrGoes

\* The same of branch_step, which finishes branches, and nobody waits for a branch.
LEMMA BranchStepWaits == Inv /\ WaitInv /\ BranchStep => WaitInv'
<1> SUFFICES ASSUME Inv, WaitInv, BranchStep PROVE WaitInv'
  OBVIOUS
<1> DEFINE i == index + 1
           unit == branch_units[i]
<1>1. /\ phase = "branch" /\ Advance(NUM_BRANCH_UNITS, "memory")
      /\ branch_rs' = res_stations_remove(branch_rs) \/ branch_rs' = branch_rs
      /\ \/ rob' = rob
         \/ /\ Finished(unit)
            /\ rob' = rob_add_npc_actual(rob, unit.entry_rob_id, unit.out_npc_actual)
      /\ alu_rs' = alu_rs /\ mb' = mb /\ regs' = regs
  BY DEF BranchStep
<1>2. ReadersFindWriters'
  BY <1>1, UnitsMoveOn, ReadersRest DEF UnitPhases
<1>3. Spares(rob, rob', {})
  <2>1. CASE rob' = rob
    BY <2>1, SparesAll
  <2>2. CASE /\ Finished(unit)
             /\ rob' = rob_add_npc_actual(rob, unit.entry_rob_id, unit.out_npc_actual)
    <3>1. /\ index \in Nat /\ index < NUM_BRANCH_UNITS
          /\ IsBranchUnits(branch_units, NUM_BRANCH_UNITS)
          /\ IsRob(rob) /\ Settled(Held, rob)
      BY <1>1, UnitsBefore DEF UnitPhases
    <3>2. i \in 1 .. NUM_BRANCH_UNITS /\ DOMAIN branch_units = 1 .. NUM_BRANCH_UNITS
      BY <3>1, Sizes DEF IsBranchUnits
    <3> DEFINE h == Holder("branch", i, unit.entry_rob_id, KindOf(unit))
    <3>3. unit.relative_cycle > 0
      <4>1. unit.relative_cycle \in Nat
        BY <3>1, <3>2, BranchUnitFields
      <4> QED
        BY <2>2, <4>1 DEF Finished
    <3>4. h \in InBranchUnits(branch_units)
      BY <3>2, <3>3, BranchUnitMember
    <3>5. h[3] = unit.entry_rob_id
      BY HolderParts
    <3> HIDE DEF h
    <3>6. h \in Held
      BY <3>4, HeldMember
    <3>7. unit.entry_rob_id \in RobIds
      BY <3>1, <3>5, <3>6, SettledMember
    <3> QED
      BY <2>2, <3>1, <3>7, TransferSpares
  <2> QED
    BY <1>1, <2>1, <2>2
<1>4. IsStations(branch_rs, NUM_BRANCH_RES_STATIONS)
  BY DEF Inv, Shapes
<1>5. /\ StillWaiting(alu_rs'.next, alu_rs.next, {})
      /\ StillWaiting(branch_rs'.next, branch_rs.next, {})
      /\ StillWaiting(mb'.next, mb.next, {})
  BY <1>1, <1>4, WaitAfterRemove, StillWaitingHere
<1> QED
  BY <1>2, <1>3, <1>5, NobodyComesOrGoes

-----------------------------------------------------------------------------

\* Whatever an address unit hands on, the data of its store are waited for as before.
LEMMA DeliverWaits ==
    ASSUME Inv, WaitInv, phase = "address", Advance(NUM_ADDRESS_UNITS, "capture"),
           regs' = regs, alu_rs' = alu_rs, branch_rs' = branch_rs,
           NEW u, u.is_store => /\ u.dest_id \in RobIds
                                /\ IsStore(rob.queue_next[u.dest_id - 1].op_type),
           NEW buffers, IsBuffers(buffers, NUM_MEMORY_BUFFERS),
           StillWaiting(buffers.next, mb.next, {}),
           Deliver(u, buffers)
    PROVE  WaitInv'
<1>1. ReadersFindWriters'
  BY UnitsMoveOn, ReadersRest DEF UnitPhases
<1>2. IsRob(rob)
  BY DEF Inv, Shapes
<1>3. CASE mb' = buffers /\ rob' = rob
  <2>1. Spares(rob, rob', {})
    BY <1>3, SparesAll
  <2>2. /\ StillWaiting(alu_rs'.next, alu_rs.next, {})
        /\ StillWaiting(branch_rs'.next, branch_rs.next, {})
        /\ StillWaiting(mb'.next, mb.next, {})
    BY <1>3, StillWaitingHere
  <2> QED
    BY <1>1, <2>1, <2>2, NobodyComesOrGoes
<1>4. CASE u.is_store /\ rob' = rob_add_address(rob, u.dest_id, u.address) /\ mb' = buffers
  <2>1. Spares(rob, rob', {})
    BY <1>2, <1>4, AddressSpares
  <2>2. /\ StillWaiting(alu_rs'.next, alu_rs.next, {})
        /\ StillWaiting(branch_rs'.next, branch_rs.next, {})
        /\ StillWaiting(mb'.next, mb.next, {})
    BY <1>4, StillWaitingHere
  <2> QED
    BY <1>1, <2>1, <2>2, NobodyComesOrGoes
<1>5. CASE mb' = memory_buffers_add_address(buffers, u.dest_id, u.address) /\ rob' = rob
  <2>1. Spares(rob, rob', {})
    BY <1>5, SparesAll
  <2>2. StillWaiting(mb'.next, buffers.next, {})
    BY <1>5, BufferWaitAfterAdd
  <2>3. StillWaiting(mb'.next, mb.next, {})
    BY <2>2, StillWaitingOn
  <2>4. /\ StillWaiting(alu_rs'.next, alu_rs.next, {})
        /\ StillWaiting(branch_rs'.next, branch_rs.next, {})
    BY StillWaitingHere
  <2> QED
    BY <1>1, <2>1, <2>3, <2>4, NobodyComesOrGoes
<1> QED
  BY <1>3, <1>4, <1>5 DEF Deliver

\* The same of address_step, which finishes only stores that have their data.
LEMMA AddressStepWaits == Inv /\ WaitInv /\ AddressStep => WaitInv'
<1> SUFFICES ASSUME Inv, WaitInv, AddressStep PROVE WaitInv'
  OBVIOUS
<1> DEFINE i == index + 1
           unit == address_units[i]
           n == NUM_ADDRESS_UNITS
           m == NUM_MEMORY_BUFFERS
<1>1. /\ phase = "address" /\ Advance(n, "capture")
      /\ regs' = regs /\ alu_rs' = alu_rs /\ branch_rs' = branch_rs
  BY DEF AddressStep
<1>2. /\ index \in Nat /\ index < n /\ n \in Nat \ {0} /\ m \in Nat
      /\ IsAddressUnits(address_units, n) /\ IsRob(rob) /\ Settled(Held, rob)
      /\ IsBuffers(mb, m) /\ BuffersInStep(mb, rob)
  <2>1. phase \in UnitPhases
    BY <1>1 DEF UnitPhases
  <2> QED
    BY <1>1, <2>1, UnitsBefore, Sizes
<1>3. i \in 1 .. n /\ DOMAIN address_units = 1 .. n
  BY <1>2 DEF IsAddressUnits
<1>4. /\ unit.relative_cycle \in Nat
      /\ count(unit).dest_id = unit.dest_id
      /\ count(unit).is_store = unit.is_store
  BY <1>2, <1>3, AddressUnitFields
<1>5. ASSUME NEW u, u.is_store => /\ u.dest_id \in RobIds
                                  /\ IsStore(rob.queue_next[u.dest_id - 1].op_type),
             NEW buffers, IsBuffers(buffers, m), StillWaiting(buffers.next, mb.next, {}),
             Deliver(u, buffers)
      PROVE  WaitInv'
  BY <1>1, <1>5, DeliverWaits
<1>6. ASSUME NEW k \in address_candidate(mb), NEW address, NEW id,
             id = IF mb.current[k].op \in StoreOp THEN mb.current[k].rob_id ELSE k,
             Deliver([relative_cycle |-> 1, is_store |-> mb.current[k].op \in StoreOp,
                      address |-> address, dest_id |-> id],
                     memory_buffers_dequeue_address(mb, k))
      PROVE  WaitInv'
  <2> DEFINE is_store == mb.current[k].op \in StoreOp
             u == [relative_cycle |-> 1, is_store |-> is_store,
                   address |-> address, dest_id |-> id]
             buffers == memory_buffers_dequeue_address(mb, k)
             earlier == HolderOf("mb", k, mb)
  <2>1. Deliver(u, buffers)
    BY <1>6
  <2>2. AddressLeaves(buffers, mb, m, rob, "mb", k)
    BY <1>2, <1>6, LeaveForAddress
  <2>3. StillWaiting(buffers.next, mb.next, {})
    BY <1>2, BufferWaitAfterAddress
  <2>4. earlier[1] = "mb" /\ earlier[3] = mb.current[k].rob_id /\ earlier[4] = mb.current[k].op
    BY HolderParts DEF HolderOf
  <2> HIDE DEF earlier, is_store, buffers
  <2>5. u.is_store = is_store /\ u.dest_id = id
    OBVIOUS
  <2> HIDE DEF u
  <2>6. IsBuffers(buffers, m) /\ earlier \in InPool("mb", mb.next)
    BY <2>2 DEF AddressLeaves, BuffersAfter, earlier
  <2>7. earlier \in Held
    BY <2>6, HeldMember
  <2>8. earlier[3] \in RobIds /\ Fits(earlier, rob.queue_next[earlier[3] - 1])
    BY <1>2, <2>7, SettledMember
  <2>9. ASSUME is_store PROVE id \in RobIds /\ IsStore(rob.queue_next[id - 1].op_type)
    <3>1. id = earlier[3]
      BY <1>6, <2>4, <2>9 DEF is_store
    <3>2. earlier[4] \in StoreOp
      BY <2>4, <2>9 DEF is_store
    <3> QED
      BY <2>4, <2>8, <3>1, <3>2 DEF Fits
  <2> QED
    BY <1>5, <2>1, <2>3, <2>5, <2>6, <2>9
<1>7. CASE unit.relative_cycle > 0 /\ Deliver(count(unit), mb)
  <2>1. ASSUME unit.is_store
        PROVE  unit.dest_id \in RobIds /\ IsStore(rob.queue_next[unit.dest_id - 1].op_type)
    <3> DEFINE h == Holder("address", i, unit.dest_id, NA)
    <3>1. StoreCycles(unit) > 0
      BY <1>7, <2>1 DEF StoreCycles
    <3>2. h \in InAddressUnits(address_units)
      BY <1>2, <1>3, <3>1, AddressUnitMember
    <3>3. h[1] = "address" /\ h[3] = unit.dest_id
      BY HolderParts
    <3> HIDE DEF h, unit
    <3>4. h \in Held
      BY <3>2, HeldMember
    <3> QED
      BY <1>2, <3>3, <3>4, SettledMember DEF Fits
  <2>2. StillWaiting(mb.next, mb.next, {})
    BY StillWaitingHere
  <2> HIDE DEF unit
  <2> QED
    BY <1>2, <1>4, <1>5, <1>7, <2>1, <2>2
<1>8. CASE mb' = mb /\ rob' = rob
  <2>1. ReadersFindWriters'
    BY <1>1, UnitsMoveOn, ReadersRest DEF UnitPhases
  <2>2. Spares(rob, rob', {})
    BY <1>8, SparesAll
  <2>3. /\ StillWaiting(alu_rs'.next, alu_rs.next, {})
        /\ StillWaiting(branch_rs'.next, branch_rs.next, {})
        /\ StillWaiting(mb'.next, mb.next, {})
    BY <1>1, <1>8, StillWaitingHere
  <2> QED
    BY <2>1, <2>2, <2>3, NobodyComesOrGoes
<1>9. \/ \E k \in address_candidate(mb) : \E address, id :
            /\ id = IF mb.current[k].op \in StoreOp THEN mb.current[k].rob_id ELSE k
            /\ Deliver([relative_cycle |-> 1, is_store |-> mb.current[k].op \in StoreOp,
                        address |-> address, dest_id |-> id],
                       memory_buffers_dequeue_address(mb, k))
      \/ mb' = mb /\ rob' = rob
      \/ unit.relative_cycle > 0 /\ Deliver(count(unit), mb)
  BY DEF AddressStep
<1> QED
  BY <1>6, <1>7, <1>8, <1>9

-----------------------------------------------------------------------------

\* Whoever is heard had a result to give, and whoever waits for it hears it.
LEMMA CaptureWaits == Inv /\ WaitInv /\ Capture => WaitInv'
<1> SUFFICES ASSUME Inv, WaitInv, Capture PROVE WaitInv'
  OBVIOUS
<1>1. /\ phase = "capture" /\ phase' = "commit" /\ regs' = regs
      /\ alu_rs' = res_stations_step(alu_rs, cdb)
      /\ branch_rs' = res_stations_step(branch_rs, cdb)
      /\ mb' = memory_buffers_step(mb, cdb)
      /\ rob' = rob_step(rob, cdb)
  BY DEF Capture
<1>2. /\ IsRob(rob) /\ IsBus(cdb) /\ Settled(Held, rob) /\ EntriesInPlace(rob)
      /\ IsStations(alu_rs, NUM_ALU_RES_STATIONS)
      /\ IsStations(branch_rs, NUM_BRANCH_RES_STATIONS)
      /\ IsBuffers(mb, NUM_MEMORY_BUFFERS)
  BY DEF Inv, Shapes
<1>3. ReadersFindWriters'
  BY <1>1, ReadersRest
<1>4. ASSUME NEW id \in Heard(cdb) PROVE HasResult(rob.queue_next[id - 1].op_type)
  <2>1. PICK k : Holder("cdb", k, id, NA) \in InBus(cdb)
    BY HeardOnBus
  <2> DEFINE g == Holder("cdb", k, id, NA)
  <2>2. g[1] = "cdb" /\ g[3] = id
    BY HolderParts
  <2> HIDE DEF g
  <2>3. g \in Held
    BY <1>1, <2>1, HeldMember DEF g
  <2> QED
    BY <1>2, <2>2, <2>3, SettledMember DEF Fits
<1>5. Spares(rob, rob', Heard(cdb))
  BY <1>1, <1>2, <1>4, BusSpares
<1>6. /\ StillWaiting(alu_rs'.next, alu_rs.next, Heard(cdb))
      /\ StillWaiting(branch_rs'.next, branch_rs.next, Heard(cdb))
      /\ StillWaiting(mb'.next, mb.next, Heard(cdb))
  BY <1>1, <1>2, Sizes, WaitAfterStep, BufferWaitAfterStep
<1> QED
  BY <1>3, <1>5, <1>6, NobodyComesOrGoes

-----------------------------------------------------------------------------

\* Register 0 is never renamed, so a commit leaves it alone.
LEMMA ZeroStays ==
    ASSUME NEW file, IsFile(file), NEW dest, NEW val, NEW id
    PROVE  reg_file_reg_commit(file, dest, val, id)[0].busy = file[0].busy
<1> DEFINE freed == reg_file_reg_commit(file, dest, val, id)
<1>1. PICK V : file \in FilesOf(V)
  BY DEF IsFile
<1>2. 0 \in Regs
  BY NoInstIsInst
<1>3. CASE dest = 0
  BY <1>3 DEF reg_file_reg_commit
<1>4. CASE dest # 0
  <2>1. freed = [file EXCEPT ![dest].val = val,
                             ![dest].busy = @ /\ file[dest].rob_id # id]
    BY <1>4 DEF reg_file_reg_commit
  <2> HIDE DEF freed
  <2>2. freed[0] = file[0]
    BY <1>1, <1>2, <1>4, <2>1 DEF FilesOf
  <2> QED
    BY <2>2 DEF freed
<1> QED
  BY <1>3, <1>4

\* Who goes has delivered, and was waited for by nobody.
LEMMA GoOnWaits ==
    ASSUME Inv, WaitInv, phase = "commit", rob_ready(rob, index), GoOn, ~regs'[0].busy
    PROVE  WaitInv'
<1>1. /\ Advance(COMMIT_WIDTH, "update") /\ rob' = Dequeued
      /\ alu_rs' = alu_rs /\ branch_rs' = branch_rs /\ mb' = mb
  BY DEF GoOn
<1>2. Left(rob, rob', Entry.rob_id) /\ IsRob(rob) /\ Settled(Held, rob)
  BY <1>1, Retires DEF Inv, Shapes
<1>3. /\ \A h \in InPool("alu_rs", alu_rs.next) : h \in Held
      /\ \A h \in InPool("branch_rs", branch_rs.next) : h \in Held
      /\ \A h \in InPool("mb", mb.next) : h \in Held
  BY HeldMember
<1>4. /\ PoolWaits(alu_rs.next, rob) /\ PoolWaits(branch_rs.next, rob) /\ PoolWaits(mb.next, rob)
      /\ DataWaits(rob)
  BY DEF WaitInv
<1>5. PoolWaits(alu_rs.next, rob')
  BY <1>2, <1>3, <1>4, PoolWaitsLeaves
<1>6. PoolWaits(branch_rs.next, rob')
  BY <1>2, <1>3, <1>4, PoolWaitsLeaves
<1>7. PoolWaits(mb.next, rob')
  BY <1>2, <1>3, <1>4, PoolWaitsLeaves
<1>8. DataWaits(rob')
  BY <1>2, <1>4, DataWaitsLeaves
<1>9. phase' # "issue"
  BY <1>1 DEF Advance
<1>10. ReadersFindWriters'
  BY <1>9 DEF ReadersFindWriters
<1> QED
  BY <1>1, <1>5, <1>6, <1>7, <1>8, <1>10 DEF WaitInv

\* Nobody who waits survives a flush.
LEMMA FlushWaits ==
    ASSUME Inv, WaitInv, phase = "commit", rob_ready(rob, index),
           NEW file, IsFile(file), NEW target, Flush(file, target)
    PROVE  WaitInv'
<1>1. /\ phase' = "update"
      /\ rob' = rob_clear(Dequeued)
      /\ regs' = reg_file_clear(file)
      /\ alu_rs' = res_stations_clear(alu_rs)
      /\ branch_rs' = res_stations_clear(branch_rs)
      /\ mb' = memory_buffers_clear(mb)
  BY DEF Flush
<1>2. /\ IsStations(alu_rs, NUM_ALU_RES_STATIONS)
      /\ IsStations(branch_rs, NUM_BRANCH_RES_STATIONS)
      /\ IsBuffers(mb, NUM_MEMORY_BUFFERS)
  BY DEF Inv, Shapes
<1>3. Flying(rob') = {}
  <2>1. IsRob(Dequeued) /\ EntriesInPlace(Dequeued)
    BY Retires
  <2> QED
    BY <1>1, <2>1, ClearRob
<1>4. /\ StationsEmptied(alu_rs', NUM_ALU_RES_STATIONS)
      /\ StationsEmptied(branch_rs', NUM_BRANCH_RES_STATIONS)
      /\ BuffersEmptied(mb', NUM_MEMORY_BUFFERS)
  BY <1>1, <1>2, Sizes, StayInStations, StayInBuffers
<1>5. /\ InPool("alu_rs", alu_rs'.next) = {} /\ InPool("branch_rs", branch_rs'.next) = {}
      /\ InPool("mb", mb'.next) = {}
  BY <1>4 DEF StationsEmptied, BuffersEmptied
<1>6. ~regs'[0].busy
  BY <1>1, ClearedFile, NoInstIsInst
<1>7. ReadersFindWriters'
  BY <1>1, <1>6 DEF ReadersFindWriters
<1>8. /\ PoolWaits(alu_rs'.next, rob') /\ PoolWaits(branch_rs'.next, rob')
      /\ PoolWaits(mb'.next, rob') /\ DataWaits(rob')
  BY <1>3, <1>5, NobodyInFlightWaits
<1> QED
  BY <1>7, <1>8 DEF WaitInv

\* Either way of a jump or a branch.
LEMMA CommitTransferWaits ==
    ASSUME Inv, WaitInv, phase = "commit", rob_ready(rob, index),
           NEW file, IsFile(file), ~file[0].busy, CommitTransfer(file)
    PROVE  WaitInv'
<1>1. CASE Flush(file, Entry.npc_actual)
  BY <1>1, FlushWaits
<1>2. CASE GoOn /\ regs' = file
  BY <1>2, GoOnWaits
<1> QED
  BY <1>1, <1>2 DEF CommitTransfer

\* A commit, with or without a flush, leaves nobody waiting for who is gone.
LEMMA CommitWaits == Inv /\ WaitInv /\ Commit => WaitInv'
<1> SUFFICES ASSUME Inv, WaitInv, Commit PROVE WaitInv'
  OBVIOUS
<1>1. IsFile(regs) /\ ~regs[0].busy
  BY DEF Inv, Shapes, WaitInv, ReadersFindWriters
<1>2. ~Written[0].busy
  BY <1>1, ZeroStays DEF Written
<1>3. CASE CommitJump
  <2>1. /\ phase = "commit" /\ rob_ready(rob, index) /\ Entry.op_type \in {"JUMP", "LOAD", "AL"}
        /\ CommitTransfer(Written)
    BY <1>3 DEF CommitJump, Committing, Written
  <2>2. IsFile(Written)
    BY <2>1, CommitNames
  <2> QED
    BY <1>2, <2>1, <2>2, CommitTransferWaits
<1>4. CASE CommitBranch
  <2>1. phase = "commit" /\ rob_ready(rob, index) /\ CommitTransfer(regs)
    BY <1>4 DEF CommitBranch, Committing
  <2> QED
    BY <1>1, <2>1, CommitTransferWaits
<1>5. CASE CommitResult
  <2>1. phase = "commit" /\ rob_ready(rob, index) /\ regs' = Written /\ GoOn
    BY <1>5 DEF CommitResult, Committing, Written
  <2> QED
    BY <1>2, <2>1, GoOnWaits
<1>6. CASE CommitStore
  <2>1. phase = "commit" /\ rob_ready(rob, index) /\ regs' = regs /\ GoOn
    BY <1>6 DEF CommitStore, Committing
  <2> QED
    BY <1>1, <2>1, GoOnWaits
<1> QED
  BY <1>3, <1>4, <1>5, <1>6 DEF Commit

\* The end of the commit loop moves nobody.
LEMMA CommitNothingWaits == Inv /\ WaitInv /\ CommitNothing => WaitInv'
<1> SUFFICES ASSUME Inv, WaitInv, CommitNothing PROVE WaitInv'
  OBVIOUS
<1>1. Advance(COMMIT_WIDTH, "update") /\ UNCHANGED issueVars /\ phase = "commit"
  BY DEF CommitNothing
<1>2. phase' # "issue"
  BY <1>1 DEF Advance
<1> QED
  BY <1>1, <1>2, QuietWaits

\* The next cycle starts with those who waited in this one.
LEMMA UpdateCurrentWaits == Inv /\ WaitInv /\ UpdateCurrent => WaitInv'
<1> SUFFICES ASSUME Inv, WaitInv, UpdateCurrent PROVE WaitInv'
  OBVIOUS
<1>1. /\ phase = "update" /\ phase' \in {"fetch", "halted"} /\ regs' = regs
      /\ rob' = rob_update_current(rob)
      /\ alu_rs' = res_stations_update_current(alu_rs)
      /\ branch_rs' = res_stations_update_current(branch_rs)
      /\ mb' = memory_buffers_update_current(mb)
  BY DEF UpdateCurrent
<1>2. /\ IsRob(rob) /\ EntriesInPlace(rob) /\ Windows(rob, "update", index)
      /\ IsStations(alu_rs, NUM_ALU_RES_STATIONS)
      /\ IsStations(branch_rs, NUM_BRANCH_RES_STATIONS)
      /\ IsBuffers(mb, NUM_MEMORY_BUFFERS)
  BY <1>1 DEF Inv, Shapes
<1>3. /\ rob'.queue_next = rob.queue_next
      /\ rob'.front_next = rob.front_next /\ rob'.rear_next = rob.rear_next
  BY <1>1, <1>2, UpdateRob
<1>4. Spares(rob, rob', {})
  BY <1>3, SparesAll
<1>5. alu_rs'.next = alu_rs.next /\ branch_rs'.next = branch_rs.next /\ mb'.next = mb.next
  BY <1>1, <1>2, WaitAfterUpdate, BufferWaitAfterUpdate
<1>6. /\ StillWaiting(alu_rs'.next, alu_rs.next, {})
      /\ StillWaiting(branch_rs'.next, branch_rs.next, {})
      /\ StillWaiting(mb'.next, mb.next, {})
  BY <1>5, StillWaitingHere
<1>7. ReadersFindWriters'
  BY <1>1, ReadersRest
<1> QED
  BY <1>4, <1>6, <1>7, NobodyComesOrGoes

\* Nobody waits at the start.
LEMMA InitWaits == Init => WaitInv
<1> SUFFICES ASSUME Init PROVE WaitInv
  OBVIOUS
<1>1. /\ rob = rob_init /\ regs = reg_file_init /\ phase = "fetch"
      /\ alu_rs = res_stations_init(NUM_ALU_RES_STATIONS)
      /\ branch_rs = res_stations_init(NUM_BRANCH_RES_STATIONS)
      /\ mb = memory_buffers_init(NUM_MEMORY_BUFFERS)
  BY DEF Init
<1>2. Flying(rob) = {}
  BY <1>1, InitRob
<1>3. InPool("alu_rs", alu_rs.next) = {} /\ InPool("branch_rs", branch_rs.next) = {}
  BY <1>1, Sizes, InitStations
<1>4. InPool("mb", mb.next) = {}
  BY <1>1, Sizes, InitBuffers
<1>5. ~regs[0].busy
  BY <1>1, NoInstIsInst DEF reg_file_init
<1>6. ReadersFindWriters
  BY <1>1, <1>5 DEF ReadersFindWriters
<1>7. /\ PoolWaits(alu_rs.next, rob) /\ PoolWaits(branch_rs.next, rob)
      /\ PoolWaits(mb.next, rob) /\ DataWaits(rob)
  BY <1>2, <1>3, <1>4, NobodyInFlightWaits
<1> QED
  BY <1>6, <1>7 DEF WaitInv

\* A step that changes nothing.
LEMMA WaitStutters == WaitInv /\ UNCHANGED vars => WaitInv'
<1> SUFFICES ASSUME WaitInv, UNCHANGED vars PROVE WaitInv'
  OBVIOUS
<1>1. /\ rob' = rob /\ regs' = regs /\ phase' = phase /\ dependencies' = dependencies
      /\ alu_rs' = alu_rs /\ branch_rs' = branch_rs /\ mb' = mb
  BY DEF vars, issueVars, controlVars
<1>2. ReadersFindWriters' = ReadersFindWriters
  BY <1>1 DEF ReadersFindWriters
<1> QED
  BY <1>1, <1>2 DEF WaitInv

\* Together with the invariant of the core, the waiting is inductive.
LEMMA WaitKept == Inv /\ WaitInv /\ [Next]_vars => WaitInv'
  BY FrontWaits, IssueAlWaits, IssueBranchWaits, IssueMemoryWaits,
     AluStepWaits, BranchStepWaits, MemoryStepWaits, AddressStepWaits, CaptureWaits,
     CommitWaits, CommitNothingWaits, UpdateCurrentWaits, WaitStutters
  DEF Next

-----------------------------------------------------------------------------

\* What WaitInv says of the pools and of the stores is what the runs check.
LEMMA WhoWaitsIsAnswered == IsRob(rob) /\ WaitInv => OperandsWillCome
<1> SUFFICES ASSUME IsRob(rob), WaitInv PROVE OperandsWillCome
  OBVIOUS
<1> DEFINE waits(pool) ==
               UNION {{<<pool[i].rob_id, pool[i].qj>>, <<pool[i].rob_id, pool[i].qk>>} :
                          i \in Busy(pool)}
           data == {<<id, entry(id).q>> : id \in {i \in InFlight : IsStore(entry(i).op_type)}}
<1>1. InFlight = Flying(rob) /\ \A id : entry(id) = rob.queue_next[id - 1]
  BY DEF InFlight, Flying, entry
<1>2. ASSUME NEW pool, PoolWaits(pool, rob), NEW w \in waits(pool), w[2] # 0
      PROVE  Delivers(rob, w[1], w[2])
  <2>1. PICK i \in Busy(pool) : \/ w = <<pool[i].rob_id, pool[i].qj>>
                                \/ w = <<pool[i].rob_id, pool[i].qk>>
    OBVIOUS
  <2>2. i \in DOMAIN pool /\ pool[i].busy
    BY DEF Busy
  <2>3. w[1] = pool[i].rob_id /\ w[2] \in {pool[i].qj, pool[i].qk}
    BY <2>1
  <2>4. Waiting(pool, w[1], w[2])
    BY <1>2, <2>2, <2>3 DEF Waiting
  <2> QED
    BY <1>2, <2>4 DEF PoolWaits
<1>3. ASSUME NEW w \in data, w[2] # 0 PROVE Delivers(rob, w[1], w[2])
  <2>1. PICK id \in InFlight : IsStore(entry(id).op_type) /\ w = <<id, entry(id).q>>
    OBVIOUS
  <2>2. w[1] = id /\ w[2] = entry(id).q
    BY <2>1
  <2> QED
    BY <1>1, <1>3, <2>1, <2>2 DEF WaitInv, DataWaits
<1>4. ASSUME NEW w \in Waits PROVE Delivers(rob, w[1], w[2])
  <2>1. /\ w[2] # 0
        /\ \/ w \in waits(alu_rs.next) \/ w \in waits(branch_rs.next) \/ w \in waits(mb.next)
           \/ w \in data
    BY <1>4 DEF Waits
  <2> HIDE DEF waits, data
  <2> QED
    BY <1>2, <1>3, <2>1 DEF WaitInv
<1> HIDE DEF waits, data
<1>5. ASSUME NEW w \in Waits
      PROVE  /\ {w[1], w[2]} \subseteq InFlight
             /\ Age(w[2]) < Age(w[1])
             /\ HasResult(entry(w[2]).op_type)
             /\ ~entry(w[2]).ready
  <2>1. Delivers(rob, w[1], w[2])
    BY <1>4
  <2>2. w[1] \in Flying(rob) /\ w[2] \in Flying(rob)
    BY <2>1 DEF Delivers, Awaited
  <2>3. Age(w[1]) = AgeOf(rob, w[1]) /\ Age(w[2]) = AgeOf(rob, w[2])
    BY <2>2, AgesAgree
  <2> QED
    BY <1>1, <2>1, <2>2, <2>3 DEF Delivers, Awaited
<1> QED
  BY <1>5 DEF OperandsWillCome

-----------------------------------------------------------------------------

(***************************************************************************)
(* The copies that are read: what memory_candidate and rob_earlier_stores  *)
(* know of the stores before a load.                                       *)
(***************************************************************************)

\* Whoever is in a buffer is in flight.
BuffersFly(copy, r) == \A i \in DOMAIN copy : copy[i].busy => copy[i].rob_id \in Flying(r)

\* The buffers hold nobody else.
LEMMA BuffersAreInFlight == Inv => BuffersFly(mb.next, rob)
<1> SUFFICES ASSUME Inv, NEW i \in DOMAIN mb.next, mb.next[i].busy
             PROVE  mb.next[i].rob_id \in Flying(rob)
  BY DEF BuffersFly
<1> DEFINE h == Holder("mb", i, mb.next[i].rob_id, mb.next[i].op)
<1>1. h \in InPool("mb", mb.next)
  BY PoolMember
<1>2. h[3] = mb.next[i].rob_id
  BY HolderParts
<1> HIDE DEF h
<1>3. h \in Held /\ Settled(Held, rob)
  BY <1>1, HeldMember DEF Inv
<1>4. h[3] \in Flying(rob)
  BY <1>3, SettledMember
<1> QED
  BY <1>2, <1>4

\* Only the end of a cycle moves the window that is read.
WindowKept(new, r) == new.front_current = r.front_current /\ new.rear_current = r.rear_current

\* Whatever else is done to the reorder buffer.
LEMMA WindowStays ==
    ASSUME NEW r, IsRob(r)
    PROVE  /\ \A op_type, dest, val, q, npc_pred, inst_pc :
                  WindowKept(rob_enqueue(r, op_type, dest, val, q, npc_pred, inst_pc), r)
           /\ \A n : WindowKept(rob_dequeue(r, n), r) /\ WindowKept(rob_clear(rob_dequeue(r, n)), r)
           /\ \A bus : WindowKept(rob_step(r, bus), r)
           /\ \A id, address : WindowKept(rob_add_address(r, id, address), r)
           /\ \A id, npc : WindowKept(rob_add_npc_actual(r, id, npc), r)
           /\ WindowKept(r, r)
<1>1. PICK V : r \in RobState(V)
  BY DEF IsRob
<1> USE <1>1 DEF RobState, WindowKept
<1>2. \A op_type, dest, val, q, npc_pred, inst_pc :
          WindowKept(rob_enqueue(r, op_type, dest, val, q, npc_pred, inst_pc), r)
  BY DEF rob_enqueue
<1>3. \A n : WindowKept(rob_dequeue(r, n), r) /\ WindowKept(rob_clear(rob_dequeue(r, n)), r)
  BY DEF rob_dequeue, rob_clear
<1>4. \A bus : WindowKept(rob_step(r, bus), r)
  BY DEF rob_step
<1>5. \A id, address : WindowKept(rob_add_address(r, id, address), r)
  BY DEF rob_add_address
<1>6. \A id, npc : WindowKept(rob_add_npc_actual(r, id, npc), r)
  BY DEF rob_add_npc_actual
<1> QED
  BY <1>2, <1>3, <1>4, <1>5, <1>6

\* What the steps within a cycle have in common.
LEMMA CompareStep ==
    ASSUME LoadsCompare, mb'.current = mb.current, WindowKept(rob', rob),
           phase' \in UntilUnitsWork \cup {"alu", "branch", "memory"} => AddressesAgree(mb'),
           phase' \in {"alu", "branch", "memory"} => StoresAgree(rob')
    PROVE  LoadsCompare'
<1>1. BuffersInWindow(mb', rob')
  BY DEF LoadsCompare, BuffersInWindow, WindowKept
<1> QED
  BY <1>1 DEF LoadsCompare

\* The front end.
LEMMA FrontCompares ==
    Inv /\ LoadsCompare /\ (Fetch \/ DecodeLatch \/ DecodeStalls \/ DecodeFails \/ EndIssue)
        => LoadsCompare'
<1> SUFFICES ASSUME Inv, LoadsCompare,
                    Fetch \/ DecodeLatch \/ DecodeStalls \/ DecodeFails \/ EndIssue
             PROVE  LoadsCompare'
  OBVIOUS
<1>1. /\ phase \in {"fetch", "decode", "issue"}
      /\ mb' = mb /\ rob' = rob
      /\ phase' \in {"alu", "branch", "memory"} => phase = "issue"
  BY DEF Fetch, DecodeLatch, DecodeStalls, DecodeFails, EndIssue, Advance, issueVars, unitVars
<1>2. WindowKept(rob', rob)
  BY <1>1 DEF WindowKept
<1>3. AddressesAgree(mb)
  BY <1>1 DEF LoadsCompare, UntilUnitsWork
<1>4. CopiesAgree(rob, phase \in UntilUnitsWork)
  BY DEF Inv
<1>5. phase \in UntilUnitsWork
  BY <1>1 DEF UntilUnitsWork
<1>6. CopiesAgree(rob, TRUE)
  BY <1>4, <1>5, Agreement
<1>7. StoresAgree(rob)
  BY <1>6 DEF CopiesAgree, StoresAgree
<1> QED
  BY <1>1, <1>2, <1>3, <1>7, CompareStep

\* What enters is in neither copy that is read.
LEMMA IssueCompares ==
    Inv /\ LoadsCompare /\ (IssueAl \/ IssueBranch \/ IssueMemory) => LoadsCompare'
<1> SUFFICES ASSUME Inv, LoadsCompare, IssueAl \/ IssueBranch \/ IssueMemory
             PROVE  LoadsCompare'
  OBVIOUS
<1> DEFINE n == NUM_MEMORY_BUFFERS
<1>1. /\ phase = "issue" /\ phase' = phase
      /\ \E op_type, dest, val, q, npc_pred, inst_pc :
             rob' = rob_enqueue(rob, op_type, dest, val, q, npc_pred, inst_pc)
      /\ \/ mb' = mb
         \/ IssueMemory /\ \E op, qj, qk, vj, vk, a, id :
                mb' = memory_buffers_enqueue(mb, op, qj, qk, vj, vk, a, id)
  BY DEF IssueAl, IssueBranch, IssueMemory, Issuing, unitVars
<1>2. WindowKept(rob', rob)
  <2>1. IsRob(rob)
    BY DEF Inv, Shapes
  <2> QED
    BY <1>1, <2>1, WindowStays
<1>3. AddressesAgree(mb)
  BY <1>1 DEF LoadsCompare, UntilUnitsWork
<1>4. CASE mb' = mb
  BY <1>1, <1>2, <1>3, <1>4, CompareStep
<1>5. ASSUME NEW op, NEW qj, NEW qk, NEW vj, NEW vk, NEW a, NEW id, IssueMemory,
             mb' = memory_buffers_enqueue(mb, op, qj, qk, vj, vk, a, id)
      PROVE  LoadsCompare'
  <2>1. IsBuffers(mb, n) /\ n \in Nat /\ BuffersInStep(mb, rob)
        /\ mb.count_enqueue < memory_buffers_num_free(mb)
    BY <1>5, Sizes, IssueMeets DEF PoolsAre, IssueMemory, Issuing
  <2>2. QueueJoins(mb', mb, n, id, op)
    BY <1>5, <2>1, EnqueueJoins
  <2>3. PICK i : QueueJoined(mb', mb, n, i, id, op)
    BY <2>2 DEF QueueJoins
  <2>4. mb'.current = mb.current /\ DOMAIN mb.current = 1 .. n
    BY <2>1, <2>3, BufferFields DEF QueueJoined
  <2>5. ASSUME NEW b \in DOMAIN mb'.current, mb'.current[b].busy, mb'.next[b].busy,
               mb'.current[b].queue_pos = 0
        PROVE  mb'.next[b].a = mb'.current[b].a
    <3>1. b \in 1 .. n /\ b # i
      BY <2>3, <2>4, <2>5 DEF QueueJoined
    <3>2. mb'.next[b] = mb.next[b]
      BY <2>3, <3>1 DEF QueueJoined
    <3> QED
      BY <1>3, <2>4, <2>5, <3>1, <3>2 DEF AddressesAgree
  <2>6. AddressesAgree(mb')
    BY <2>5 DEF AddressesAgree
  <2> QED
    BY <1>1, <1>2, <2>4, <2>6, CompareStep
<1> QED
  BY <1>1, <1>4, <1>5

\* The ALUs, and the branch units, which give an entry nothing but where it goes.
LEMMA AluBranchCompares ==
    Inv /\ LoadsCompare /\ (AluStep \/ BranchStep) => LoadsCompare'
<1> SUFFICES ASSUME Inv, LoadsCompare, AluStep \/ BranchStep PROVE LoadsCompare'
  OBVIOUS
<1>1. /\ phase \in {"alu", "branch"} /\ mb' = mb
      /\ rob' = rob \/ \E id, npc_actual : rob' = rob_add_npc_actual(rob, id, npc_actual)
  BY DEF AluStep, BranchStep
<1>2. IsRob(rob) /\ AddressesAgree(mb) /\ StoresAgree(rob)
  BY <1>1 DEF Inv, Shapes, LoadsCompare
<1>3. WindowKept(rob', rob)
  BY <1>1, <1>2, WindowStays
<1>4. ASSUME NEW id, NEW npc_actual, rob' = rob_add_npc_actual(rob, id, npc_actual)
      PROVE  StoresAgree(rob')
  <2>1. PICK V : rob \in RobState(V)
    BY <1>2 DEF IsRob
  <2>2. /\ rob'.queue_current = rob.queue_current
        /\ rob'.front_next = rob.front_next /\ rob'.rear_next = rob.rear_next
        /\ \A i \in Slots : /\ rob'.queue_next[i].op_type = rob.queue_next[i].op_type
                            /\ rob'.queue_next[i].dest = rob.queue_next[i].dest
                            /\ rob'.queue_next[i].busy = rob.queue_next[i].busy
    BY <1>4, <2>1 DEF rob_add_npc_actual, RobState, RobEntry
  <2> QED
    BY <1>2, <1>3, <2>2 DEF StoresAgree, WindowKept
<1>5. StoresAgree(rob')
  BY <1>1, <1>2, <1>4
<1> QED
  BY <1>1, <1>2, <1>3, <1>5, CompareStep

\* A load that goes leaves the addresses of the others.
LEMMA MemoryCompares == Inv /\ LoadsCompare /\ MemoryStep => LoadsCompare'
<1> SUFFICES ASSUME Inv, LoadsCompare, MemoryStep PROVE LoadsCompare'
  OBVIOUS
<1> DEFINE n == NUM_MEMORY_BUFFERS
<1>1. /\ phase = "memory" /\ rob' = rob
      /\ \/ mb' = mb
         \/ \E i \in memory_candidate(mb, rob) : mb' = memory_buffers_dequeue_memory(mb, i)
  BY DEF MemoryStep
<1>2. AddressesAgree(mb) /\ StoresAgree(rob) /\ IsBuffers(mb, n) /\ n \in Nat
  BY <1>1, Sizes DEF LoadsCompare, Inv, Shapes
<1>3. WindowKept(rob', rob)
  BY <1>1 DEF WindowKept
<1>4. CASE mb' = mb
  BY <1>1, <1>2, <1>3, <1>4, CompareStep
<1>5. ASSUME NEW i \in memory_candidate(mb, rob), mb' = memory_buffers_dequeue_memory(mb, i)
      PROVE  LoadsCompare'
  <2>1. QueueSpared(mb', mb, n, i)
    BY <1>2, <1>5, DequeueMemorySpares
  <2>2. mb'.current = mb.current /\ DOMAIN mb.current = 1 .. n
    BY <1>2, <2>1, BufferFields DEF QueueSpared, SameCounts
  <2>3. ASSUME NEW b \in 1 .. n, mb'.next[b].busy PROVE mb'.next[b] = mb.next[b]
    BY <2>1, <2>3 DEF QueueSpared
  <2>4. AddressesAgree(mb')
    BY <1>2, <2>2, <2>3 DEF AddressesAgree
  <2> QED
    BY <1>1, <1>2, <1>3, <2>2, <2>4, CompareStep
<1> QED
  BY <1>1, <1>4, <1>5

\* From here on nobody compares in this cycle.
LEMMA LaterCompares ==
    Inv /\ LoadsCompare /\ (AddressStep \/ Capture \/ Commit \/ CommitNothing) => LoadsCompare'
<1> SUFFICES ASSUME Inv, LoadsCompare, AddressStep \/ Capture \/ Commit \/ CommitNothing
             PROVE  LoadsCompare'
  OBVIOUS
<1> DEFINE n == NUM_MEMORY_BUFFERS
<1>1. IsRob(rob) /\ IsBuffers(mb, n) /\ n \in Nat
  BY Sizes DEF Inv, Shapes
<1>2. phase' \in {"address", "capture", "commit", "update"}
  BY DEF AddressStep, Capture, Commit, CommitJump, CommitBranch, CommitResult, CommitStore,
         Committing, CommitTransfer, CommitNothing, GoOn, Flush, Advance
<1>3. WindowKept(rob', rob)
  <2>1. \/ rob' = rob
        \/ \E id, address : rob' = rob_add_address(rob, id, address)
        \/ \E bus : rob' = rob_step(rob, bus)
        \/ \E k : rob' = rob_dequeue(rob, k) \/ rob' = rob_clear(rob_dequeue(rob, k))
    <3>1. CASE AddressStep
      <4>1. ASSUME NEW unit, NEW buffers, Deliver(unit, buffers)
            PROVE  rob' = rob \/ rob' = rob_add_address(rob, unit.dest_id, unit.address)
        BY <4>1 DEF Deliver
      <4>2. rob' = rob \/ \E unit, buffers : Deliver(unit, buffers)
        BY <3>1 DEF AddressStep
      <4> QED
        BY <4>1, <4>2
    <3>2. CASE Capture \/ Commit \/ CommitNothing
      BY <3>2 DEF Capture, Commit, CommitJump, CommitBranch, CommitResult, CommitStore,
                  CommitTransfer, CommitNothing, GoOn, Flush, Dequeued, unitVars, issueVars
    <3> QED
      BY <3>1, <3>2
  <2> QED
    BY <1>1, <2>1, WindowStays
<1>4. mb'.current = mb.current
  <2>1. \/ mb' = mb
        \/ \E k \in address_candidate(mb) : mb' = memory_buffers_dequeue_address(mb, k)
        \/ \E k \in address_candidate(mb) : \E b, address :
               mb' = memory_buffers_add_address(memory_buffers_dequeue_address(mb, k), b, address)
        \/ \E b, address : mb' = memory_buffers_add_address(mb, b, address)
        \/ \E bus : mb' = memory_buffers_step(mb, bus)
        \/ mb' = memory_buffers_clear(mb)
    <3>1. CASE AddressStep
      <4>1. CASE Deliver(count(address_units[index + 1]), mb)
        BY <4>1 DEF Deliver
      <4>2. ASSUME NEW k \in address_candidate(mb), NEW unit,
                   Deliver(unit, memory_buffers_dequeue_address(mb, k))
            PROVE  \/ mb' = memory_buffers_dequeue_address(mb, k)
                   \/ mb' = memory_buffers_add_address(memory_buffers_dequeue_address(mb, k),
                                                       unit.dest_id, unit.address)
        BY <4>2 DEF Deliver
      <4>3. \/ mb' = mb \/ Deliver(count(address_units[index + 1]), mb)
            \/ \E k \in address_candidate(mb) : \E unit :
                   Deliver(unit, memory_buffers_dequeue_address(mb, k))
        BY <3>1 DEF AddressStep
      <4> QED
        BY <4>1, <4>2, <4>3
    <3>2. CASE Capture \/ Commit \/ CommitNothing
      BY <3>2 DEF Capture, Commit, CommitJump, CommitBranch, CommitResult, CommitStore,
                  CommitTransfer, CommitNothing, GoOn, Flush, unitVars, issueVars
    <3> QED
      BY <3>1, <3>2
  <2>2. PICK V : mb \in BuffersOf(V, n)
    BY <1>1 DEF IsBuffers
  <2>3. \A k : /\ memory_buffers_dequeue_address(mb, k).current = mb.current
               /\ \A b, address :
                      memory_buffers_add_address(memory_buffers_dequeue_address(mb, k), b,
                                                 address).current = mb.current
    BY <2>2 DEF BuffersOf, memory_buffers_dequeue_address, shift_queue, memory_buffers_add_address
  <2>4. /\ \A b, address : memory_buffers_add_address(mb, b, address).current = mb.current
        /\ \A bus : memory_buffers_step(mb, bus).current = mb.current
        /\ memory_buffers_clear(mb).current = mb.current
    BY <2>2 DEF BuffersOf, memory_buffers_step, memory_buffers_clear, memory_buffers_add_address
  <2> QED
    BY <2>1, <2>3, <2>4
<1>5. phase' \notin UntilUnitsWork \cup {"alu", "branch", "memory"}
  BY <1>2 DEF UntilUnitsWork
<1> QED
  BY <1>3, <1>4, <1>5, CompareStep

\* The copies that are read are those that have been written.
LEMMA UpdateCompares == Inv /\ LoadsCompare /\ UpdateCurrent => LoadsCompare'
<1> SUFFICES ASSUME Inv, LoadsCompare, UpdateCurrent PROVE LoadsCompare'
  OBVIOUS
<1> DEFINE n == NUM_MEMORY_BUFFERS
<1>1. /\ phase = "update" /\ phase' \in {"fetch", "halted"}
      /\ rob' = rob_update_current(rob) /\ mb' = memory_buffers_update_current(mb)
  BY DEF UpdateCurrent
<1>2. IsRob(rob) /\ IsBuffers(mb, n)
  BY DEF Inv, Shapes
<1>3. mb'.current = mb.next /\ mb'.next = mb.next
  BY <1>1, <1>2, ClearAndUpdateQueue
<1>4. rob'.front_current = rob.front_next /\ rob'.rear_current = rob.rear_next
  <2>1. PICK V : rob \in RobState(V)
    BY <1>2 DEF IsRob
  <2> QED
    BY <1>1, <2>1 DEF rob_update_current, RobState
<1>5. BuffersFly(mb.next, rob)
  BY BuffersAreInFlight
<1>6. BuffersInWindow(mb', rob')
  BY <1>3, <1>4, <1>5 DEF BuffersInWindow, BuffersFly, Flying
<1>7. AddressesAgree(mb')
  BY <1>3 DEF AddressesAgree
<1> QED
  BY <1>1, <1>6, <1>7 DEF LoadsCompare

\* At the start there is nothing to compare.
LEMMA InitCompares == Init => LoadsCompare
<1> SUFFICES ASSUME Init PROVE LoadsCompare
  OBVIOUS
<1>1. mb = memory_buffers_init(NUM_MEMORY_BUFFERS) /\ phase = "fetch"
  BY DEF Init
<1>2. \A i \in DOMAIN mb.current : ~mb.current[i].busy
  BY <1>1 DEF memory_buffers_init
<1> QED
  BY <1>1, <1>2 DEF LoadsCompare, BuffersInWindow, AddressesAgree

\* A step that changes nothing.
LEMMA CompareStutters == LoadsCompare /\ UNCHANGED vars => LoadsCompare'
<1> SUFFICES ASSUME LoadsCompare, UNCHANGED vars PROVE LoadsCompare'
  OBVIOUS
<1>1. mb' = mb /\ rob' = rob /\ phase' = phase
  BY DEF vars, issueVars, unitVars, controlVars
<1> QED
  BY <1>1 DEF LoadsCompare

\* That the copies agree on who comes before a load is inductive.
LEMMA ComparesKeep == Inv /\ LoadsCompare /\ [Next]_vars => LoadsCompare'
  BY FrontCompares, IssueCompares, AluBranchCompares, MemoryCompares, LaterCompares,
     UpdateCompares, CompareStutters
  DEF Next

-----------------------------------------------------------------------------

(* The addresses of the stores. *)

\* A store that has finished has its address, as long as that is not 0.
StoresKnown(r) ==
    \A id \in Flying(r) :
        IsStore(r.queue_next[id - 1].op_type) /\ r.queue_next[id - 1].ready
            => r.queue_next[id - 1].dest # 0

\* Whoever else is in flight now has not finished.
LEMMA KnownStays ==
    ASSUME NEW r, StoresKnown(r), NEW new,
           \A id \in Flying(new) : \/ ~new.queue_next[id - 1].ready
                                   \/ /\ id \in Flying(r)
                                      /\ new.queue_next[id - 1] = r.queue_next[id - 1]
    PROVE  StoresKnown(new)
  BY DEF StoresKnown

\* Of those who enter none has finished, and those who leave are asked no more.
LEMMA KnownMoves ==
    ASSUME NEW r, StoresKnown(r), NEW new
    PROVE  /\ \A id, op_type, dest : Entered(r, new, id, op_type, dest) => StoresKnown(new)
           /\ \A id : Left(r, new, id) => StoresKnown(new)
<1>1. ASSUME NEW id, NEW op_type, NEW dest, Entered(r, new, id, op_type, dest)
      PROVE  StoresKnown(new)
  BY <1>1, KnownStays DEF Entered
<1>2. ASSUME NEW id, Left(r, new, id) PROVE StoresKnown(new)
  BY <1>2, KnownStays DEF Left
<1> QED
  BY <1>1, <1>2

\* Answers for others finish only the stores that have their address.
LEMMA KnownAnswers ==
    ASSUME NEW r, StoresKnown(r), NEW new, NEW A, Answers(r, new, A),
           \A id \in A \cap Flying(r) : ~IsStore(r.queue_next[id - 1].op_type)
    PROVE  StoresKnown(new)
<1> SUFFICES ASSUME NEW id \in Flying(new), IsStore(new.queue_next[id - 1].op_type),
                    new.queue_next[id - 1].ready
             PROVE  new.queue_next[id - 1].dest # 0
  BY DEF StoresKnown
<1>1. id \in Flying(r)
  BY DEF Flying, Answers
<1>2. id - 1 \in Slots /\ (id - 1) + 1 = id
  BY <1>1, IdsAreSlots DEF Flying
<1>3. /\ new.queue_next[id - 1].op_type = r.queue_next[id - 1].op_type
      /\ new.queue_next[id - 1].dest = r.queue_next[id - 1].dest \/ id \in A
      /\ \/ r.queue_next[id - 1].ready \/ id \in A
         \/ r.queue_next[id - 1].dest # 0
  BY <1>2 DEF Answers
<1>4. id \notin A
  BY <1>1, <1>3
<1> QED
  BY <1>1, <1>3, <1>4 DEF StoresKnown

\* Where a branch goes finishes no store.
LEMMA KnownTransfer ==
    ASSUME NEW r, IsRob(r), StoresKnown(r), NEW id, NEW npc
    PROVE  StoresKnown(rob_add_npc_actual(r, id, npc))
<1> DEFINE new == rob_add_npc_actual(r, id, npc)
<1>1. PICK V : r \in RobState(V)
  BY DEF IsRob
<1>2. new.front_next = r.front_next /\ new.rear_next = r.rear_next
  BY <1>1 DEF rob_add_npc_actual, RobState
<1>3. \A i \in Slots : /\ new.queue_next[i].op_type = r.queue_next[i].op_type
                       /\ new.queue_next[i].dest = r.queue_next[i].dest
                       /\ new.queue_next[i].ready =>
                              r.queue_next[i].ready \/ r.queue_next[i].op_type = "BRANCH"
  BY <1>1 DEF rob_add_npc_actual, RobState, RobEntry
<1> HIDE DEF new
<1>4. Flying(new) = Flying(r) /\ \A k \in Flying(r) : k - 1 \in Slots
  BY <1>2, IdsAreSlots DEF Flying
<1>5. StoresKnown(new)
  BY <1>3, <1>4 DEF StoresKnown, IsStore, StoreType
<1> QED
  BY <1>5 DEF new

\* An address that is not 0.
LEMMA KnownAddress ==
    ASSUME NEW r, IsRob(r), StoresKnown(r), NEW id, NEW address, address # 0
    PROVE  StoresKnown(rob_add_address(r, id, address))
<1> DEFINE new == rob_add_address(r, id, address)
<1>1. PICK V : r \in RobState(V)
  BY DEF IsRob
<1>2. new.front_next = r.front_next /\ new.rear_next = r.rear_next
  BY <1>1 DEF rob_add_address, RobState
<1>3. \A i \in Slots : \/ new.queue_next[i].dest = address
                       \/ new.queue_next[i] = r.queue_next[i]
  BY <1>1 DEF rob_add_address, RobState, RobEntry
<1> HIDE DEF new
<1>4. Flying(new) = Flying(r) /\ \A k \in Flying(r) : k - 1 \in Slots
  BY <1>2, IdsAreSlots DEF Flying
<1>5. StoresKnown(new)
  BY <1>3, <1>4 DEF StoresKnown
<1> QED
  BY <1>5 DEF new

\* Whatever enters the reorder buffer is younger than all.
LEMMA BatchEnters ==
    ASSUME Inv, phase = "issue", index < batch_size,
           NEW inst, inst = inst_queue_front(iq, index), op_type_of(inst.op) \in OpType,
           NEW value_, NEW q \in {0} \cup RobIds, NEW npc_pred, NEW inst_pc,
           rob' = rob_enqueue(rob, op_type_of(inst.op), inst.rd, value_, q, npc_pred, inst_pc)
    PROVE  Entered(rob, rob', rob_enqueue_id(rob), op_type_of(inst.op), inst.rd)
<1>1. /\ IsRob(rob) /\ index \in Nat /\ Windows(rob, "issue", index) /\ EntriesInPlace(rob)
      /\ CopiesAgree(rob, phase \in UntilUnitsWork)
  BY DEF Inv, Shapes
<1>2. CopiesAgree(rob, TRUE)
  BY <1>1, Agreement DEF UntilUnitsWork
<1>3. index < rob_num_free_slots(rob)
  BY IssueMeets
<1> QED
  BY <1>1, <1>2, <1>3, EnqueueRob

\* What is on the bus is no store's.
LEMMA HeardHaveResult ==
    ASSUME Inv, phase = "capture", NEW id \in Heard(cdb)
    PROVE  ~IsStore(rob.queue_next[id - 1].op_type)
<1>1. PICK k \in DOMAIN cdb : cdb[k].rob_id = id
  BY DEF Heard, cdb_is_val_ready
<1> DEFINE h == Holder("cdb", k, cdb[k].rob_id, NA)
<1>2. h[1] = "cdb" /\ h[3] = id
  BY <1>1, HolderParts
<1>3. h \in InBus(cdb)
  BY <1>1, BusMember
<1> HIDE DEF h
<1>4. h \in Held /\ Settled(Held, rob)
  BY <1>3, HeldMember DEF Inv
<1>5. Fits(h, rob.queue_next[id - 1])
  BY <1>2, <1>4, SettledMember
<1> QED
  BY <1>2, <1>5 DEF Fits, HasResult, IsStore, StoreType

\* As long as no address is 0, a store that has finished has its own.
LEMMA KnownKept == Inv /\ StoresKnown(rob) /\ StoresMissZero' /\ [Next]_vars => StoresKnown(rob')
<1> SUFFICES ASSUME Inv, StoresKnown(rob), StoresMissZero', [Next]_vars PROVE StoresKnown(rob')
  OBVIOUS
<1>1. IsRob(rob) /\ EntriesInPlace(rob)
  BY DEF Inv, Shapes
<1>2. CASE rob' = rob
  BY <1>2
<1>3. CASE IssueAl \/ IssueBranch \/ IssueMemory
  <2> DEFINE inst == inst_queue_front(iq, index)
             op_type == op_type_of(inst.op)
             k == IF inst.op \in StoreOp THEN set_q_v(inst.rs2) ELSE value(NA)
  <2>1. /\ phase = "issue" /\ index < batch_size /\ op_type \in OpType
        /\ \E val, q, npc_pred, inst_pc :
              /\ rob' = rob_enqueue(rob, op_type, inst.rd, val, q, npc_pred, inst_pc)
              /\ (IssueMemory /\ q = k.q) \/ q = NA
    BY <1>3 DEF IssueAl, IssueBranch, IssueMemory, Issuing, OpType, StoreType
  <2>2. ASSUME IssueMemory PROVE k.q \in {0} \cup RobIds
    <3>1. IsFile(regs) /\ dependencies \in [Regs -> {0} \cup RobIds]
      BY DEF Inv, Shapes
    <3>2. inst.rs1 \in Regs /\ inst.rs2 \in Regs
      BY <2>1, IssueMeets DEF IsInst
    <3> QED
      BY <3>1, <3>2, OperandIsId
  <2>3. NA \in {0} \cup RobIds
    BY DEF NA
  <2> HIDE DEF k
  <2>4. PICK val, q, npc_pred, inst_pc :
            /\ q \in {0} \cup RobIds
            /\ rob' = rob_enqueue(rob, op_type, inst.rd, val, q, npc_pred, inst_pc)
    BY <2>1, <2>2, <2>3
  <2>5. Entered(rob, rob', rob_enqueue_id(rob), op_type, inst.rd)
    BY <2>1, <2>4, BatchEnters
  <2> QED
    BY <2>5, KnownMoves
<1>4. CASE BranchStep
  <2>1. rob' = rob \/ \E id, npc : rob' = rob_add_npc_actual(rob, id, npc)
    BY <1>4 DEF BranchStep
  <2> QED
    BY <1>1, <1>2, <2>1, KnownTransfer
<1>5. CASE AddressStep
  <2> DEFINE i == index + 1
  <2>0. /\ index \in Nat /\ index < NUM_ADDRESS_UNITS
        /\ IsAddressUnits(address_units, NUM_ADDRESS_UNITS)
    <3>1. phase = "address" /\ phase \in UnitPhases
      BY <1>5 DEF AddressStep, UnitPhases
    <3> QED
      BY <3>1, UnitsBefore
  <2>1. i \in DOMAIN address_units
    BY <2>0, Sizes DEF IsAddressUnits
  <2>2. ASSUME NEW u, NEW buffers, IsAddressUnit(u), Deliver(u, buffers), rob' # rob
        PROVE  StoresKnown(rob')
    <3>1. /\ u.is_store /\ rob' = rob_add_address(rob, u.dest_id, u.address)
          /\ address_units' = Put(address_units, i, free(u))
      BY <2>2 DEF Deliver, Put
    <3>2. free(u).is_store = u.is_store /\ free(u).address = u.address
      BY <2>2 DEF free, IsAddressUnit, AddressUnitOf
    <3>3. i \in DOMAIN address_units' /\ address_units'[i] = free(u)
      BY <2>1, <3>1 DEF Put
    <3>4. u.address # 0
      BY <3>1, <3>2, <3>3 DEF StoresMissZero
    <3> QED
      BY <1>1, <3>1, <3>4, KnownAddress
  <2>3. IsAddressUnit(count(address_units[i]))
    BY <2>0, <2>1, AddressUnitFields DEF IsAddressUnits
  <2>4. ASSUME NEW k \in address_candidate(mb), NEW address, NEW id,
               Deliver([relative_cycle |-> 1, is_store |-> mb.current[k].op \in StoreOp,
                        address |-> address, dest_id |-> id],
                       memory_buffers_dequeue_address(mb, k))
        PROVE  rob' = rob \/ StoresKnown(rob')
    <3> DEFINE u == [relative_cycle |-> 1, is_store |-> mb.current[k].op \in StoreOp,
                     address |-> address, dest_id |-> id]
               buffers == memory_buffers_dequeue_address(mb, k)
    <3>1. u \in AddressUnitOf({address, id})
      BY DEF AddressUnitOf
    <3>2. IsAddressUnit(u) /\ Deliver(u, buffers)
      BY <2>4, <3>1 DEF IsAddressUnit
    <3> HIDE DEF u, buffers
    <3> QED
      BY <2>2, <3>2
  <2>5. \/ rob' = rob
        \/ Deliver(count(address_units[i]), mb)
        \/ \E k \in address_candidate(mb) : \E address, id :
              Deliver([relative_cycle |-> 1, is_store |-> mb.current[k].op \in StoreOp,
                       address |-> address, dest_id |-> id],
                      memory_buffers_dequeue_address(mb, k))
    BY <1>5 DEF AddressStep
  <2> QED
    BY <1>2, <2>2, <2>3, <2>4, <2>5
<1>6. CASE Capture
  <2>1. rob' = rob_step(rob, cdb) /\ phase = "capture" /\ IsBus(cdb)
    BY <1>6 DEF Capture, Inv, Shapes
  <2>2. Answers(rob, rob', Heard(cdb))
    BY <1>1, <2>1, BusAnswers
  <2> QED
    BY <2>1, <2>2, HeardHaveResult, KnownAnswers
<1>7. CASE Commit
  <2>1. /\ phase = "commit" /\ rob_ready(rob, index)
        /\ GoOn \/ \E file, target : Flush(file, target)
    BY <1>7 DEF Commit, CommitJump, CommitBranch, CommitResult, CommitStore, Committing,
                CommitTransfer
  <2>2. CASE GoOn
    <3>1. rob' = Dequeued
      BY <2>2 DEF GoOn
    <3>2. Left(rob, rob', Entry.rob_id)
      BY <2>1, <3>1, Retires
    <3> QED
      BY <3>2, KnownMoves
  <2>3. CASE \E file, target : Flush(file, target)
    <3>1. rob' = rob_clear(Dequeued)
      BY <2>3 DEF Flush
    <3>2. IsRob(Dequeued) /\ EntriesInPlace(Dequeued)
      BY <2>1, Retires
    <3>3. Flying(rob') = {}
      BY <3>1, <3>2, ClearRob
    <3> QED
      BY <3>3 DEF StoresKnown
  <2> QED
    BY <2>1, <2>2, <2>3
<1>8. CASE UpdateCurrent
  <2>1. phase = "update" /\ rob' = rob_update_current(rob) /\ Windows(rob, "update", index)
    BY <1>8 DEF UpdateCurrent, Inv
  <2>2. /\ rob'.queue_next = rob.queue_next
        /\ rob'.front_next = rob.front_next /\ rob'.rear_next = rob.rear_next
    BY <1>1, <2>1, UpdateRob
  <2> QED
    BY <2>2 DEF StoresKnown, Flying
<1>9. \/ rob' = rob \/ IssueAl \/ IssueBranch \/ IssueMemory \/ BranchStep \/ AddressStep
      \/ Capture \/ Commit \/ UpdateCurrent
  BY DEF Next, vars, issueVars, unitVars, Fetch, DecodeLatch, DecodeStalls, DecodeFails, EndIssue,
         AluStep, MemoryStep, CommitNothing
<1> QED
  BY <1>2, <1>3, <1>4, <1>5, <1>6, <1>7, <1>8, <1>9

\* At the start nobody is in flight.
LEMMA InitKnown == Init => StoresKnown(rob)
<1> SUFFICES ASSUME Init PROVE StoresKnown(rob)
  OBVIOUS
<1>1. rob = rob_init
  BY DEF Init
<1>2. \A id \in RobIds : id - 1 \in Slots
  BY IdsAreSlots
<1> QED
  BY <1>1, <1>2 DEF StoresKnown, Flying, rob_init

\* The entries rob_earlier_stores looks at are those of the window up to its own.
LEMMA EarlierStores ==
    ASSUME NEW r, NEW f \in Slots, r.front_current = f, NEW id \in RobIds, NEW k \in RobIds, NEW addr,
           AgeFrom(f, id - 1) < AgeFrom(f, k - 1),
           IsStore(r.queue_current[id - 1].op_type), r.queue_current[id - 1].busy,
           r.queue_current[id - 1].dest = addr
    PROVE  rob_earlier_stores(r, k, addr)
<1> DEFINE x == AgeFrom(f, id - 1)
           y == (k - 1 - f) + S
           age == y % S
<1>1. /\ id - 1 \in 0 .. S - 1 /\ k - 1 \in 0 .. S - 1 /\ f \in 0 .. S - 1 /\ S \in Nat \ {0}
      /\ id \in Int /\ k \in Int
  BY SizeIsPositive
<1>2. y \in 0 .. (2 * S) - 1
  BY <1>1
<1>3. age = IF y < S THEN y ELSE y - S
  BY <1>1, <1>2, Wrap
<1>4. age = AgeFrom(f, k - 1)
  BY <1>1, <1>3 DEF AgeFrom
<1>5. x \in 0 .. age
  BY <1>1, <1>4 DEF AgeFrom
<1>6. f + x \in 0 .. (2 * S) - 1 /\ (IF f + x < S THEN f + x ELSE (f + x) - S) = id - 1
  BY <1>1 DEF AgeFrom
<1>7. (f + x) % S = id - 1
  BY <1>1, <1>6, Wrap
<1> HIDE DEF x
<1>8. \E j \in 0 .. age : /\ IsStore(r.queue_current[(f + j) % S].op_type)
                          /\ r.queue_current[(f + j) % S].dest = addr
                          /\ r.queue_current[(f + j) % S].busy
  BY <1>5, <1>7
<1> QED
  BY <1>8 DEF rob_earlier_stores, S

\* Without commits, whoever comes before one of the window that is read is in it too.
LEMMA EarlierInWindow ==
    ASSUME NEW fc \in Cursor, NEW rc \in Cursor, NEW fn \in Cursor, NEW rn \in Cursor,
           NEW added \in Nat, InStep(fc, rc, fn, rn, added, 0),
           NEW i \in Slots, NEW k \in Slots,
           InWindow(fc, rc, k), InWindow(fn, rn, i), AgeFrom(fn, i) < AgeFrom(fn, k)
    PROVE  fn = fc /\ fc \in Slots /\ InWindow(fc, rc, i)
  BY SizeIsPositive DEF InStep, QueueSize, InWindow, AfterLap, Cursor, S, AgeFrom

\* rob_earlier_stores finds each store before the load that has its address.
LEMMA StoreElsewhere ==
    ASSUME Inv, LoadsCompare, phase = "memory", NEW k \in Flying(rob), NEW addr,
           InWindow(rob.front_current, rob.rear_current, k - 1),
           ~rob_earlier_stores(rob, k, addr),
           NEW id \in Flying(rob), IsStore(rob.queue_next[id - 1].op_type),
           AgeOf(rob, id) < AgeOf(rob, k)
    PROVE  rob.queue_next[id - 1].dest # addr
<1> DEFINE fc == rob.front_current
           rc == rob.rear_current
           fn == rob.front_next
           rn == rob.rear_next
<1> SUFFICES ASSUME rob.queue_next[id - 1].dest = addr PROVE FALSE
  OBVIOUS
<1>1. /\ IsRob(rob) /\ Windows(rob, "memory", index) /\ EntriesInPlace(rob) /\ StoresAgree(rob)
  BY DEF Inv, Shapes, LoadsCompare
<1>2. fc \in Cursor /\ rc \in Cursor /\ fn \in Cursor /\ rn \in Cursor
  BY <1>1, RobShape
<1>3. /\ k \in RobIds /\ id \in RobIds /\ k - 1 \in Slots /\ id - 1 \in Slots
      /\ InWindow(fn, rn, id - 1)
  BY IdsAreSlots DEF Flying
<1>4. PICK added \in 0 .. REORDER_BUFFER_SIZE : InStep(fc, rc, fn, rn, added, 0)
  BY <1>1 DEF Windows
<1>5. AgeFrom(fn, id - 1) < AgeFrom(fn, k - 1)
  BY DEF AgeOf
<1>6. fn = fc /\ fc \in Slots /\ InWindow(fc, rc, id - 1)
  <2>1. added \in Nat
    BY SizeIsPositive DEF S
  <2> HIDE DEF fc, rc, fn, rn
  <2>2. InWindow(fc, rc, k - 1)
    BY DEF fc, rc
  <2> QED
    BY <1>2, <1>3, <1>4, <1>5, <2>1, <2>2, EarlierInWindow
<1>7. /\ rob.queue_next[id - 1].op_type = rob.queue_current[id - 1].op_type
      /\ rob.queue_next[id - 1].dest = rob.queue_current[id - 1].dest
      /\ rob.queue_next[id - 1].busy = rob.queue_current[id - 1].busy
  BY <1>1, <1>3, <1>6 DEF StoresAgree
<1>8. rob.queue_current[id - 1].busy
  BY <1>1, <1>3, <1>7 DEF EntriesInPlace
<1>9. AgeFrom(fc, id - 1) < AgeFrom(fc, k - 1)
  BY <1>5, <1>6
<1>10. IsStore(rob.queue_current[id - 1].op_type) /\ rob.queue_current[id - 1].dest = addr
  BY <1>7
<1> HIDE DEF fc
<1>11. rob.front_current = fc /\ fc \in Slots
  BY <1>6 DEF fc
<1>12. rob_earlier_stores(rob, k, addr)
  BY <1>3, <1>8, <1>9, <1>10, <1>11, EarlierStores
<1> QED
  BY <1>12

-----------------------------------------------------------------------------

\* In every state of every program whoever waits, waits for an older instruction in flight whose
\* result has not gone by.
THEOREM WaitInvariance == Spec => [](Inv /\ WaitInv)
<1>1. Init => Inv /\ WaitInv
  BY InitKeeps, InitWaits
<1>2. (Inv /\ WaitInv) /\ [Next]_vars => (Inv /\ WaitInv)'
  BY InvKept, WaitKept
<1> QED
  BY <1>1, <1>2, PTL DEF Spec

\* A busy register names the youngest instruction in flight that writes it, and a register some
\* instruction in flight writes is busy, through renaming, commits and flushes (issue.c, commit.c).
THEOREM AliasesAreYoungest == Spec => []AliasesNameTheYoungestWriter
<1>1. Inv => AliasesNameTheYoungestWriter
  BY NamedAliases DEF Inv, Shapes
<1> QED
  BY <1>1, Invariance, PTL

\* No lost wakeup: every operand that a station, a buffer or a store waits for will be broadcast by
\* an older instruction in flight that has not delivered it yet, whatever was renamed, finished,
\* committed or flushed meanwhile (issue.c, reservation_stations.c, memory_buffers.c, rob.c).
THEOREM OperandsCome == Spec => []OperandsWillCome
<1>1. Inv /\ WaitInv => OperandsWillCome
  BY WhoWaitsIsAnswered DEF Inv, Shapes
<1> QED
  BY <1>1, WaitInvariance, PTL
===============================================================================
