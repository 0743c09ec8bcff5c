------------------------------- MODULE Pipeline -------------------------------
(***************************************************************************)
(* The superscalar simulator (cpu.c): each turn of main's loop is a cycle  *)
(* in which every part takes its step, in the order of step(), reading the *)
(* current copies and writing the next ones.  The parts' data structures   *)
(* are those of the modules extended here.                                 *)
(***************************************************************************)
EXTENDS MemoryBuffers, InstQueue, Btb, Alu, Program, RegFile, SequencesExt

CONSTANTS COMMIT_WIDTH,
          NUM_ALU_UNITS, NUM_BRANCH_UNITS, NUM_MEMORY_UNITS, NUM_ADDRESS_UNITS,
          NUM_ALU_RES_STATIONS, NUM_BRANCH_RES_STATIONS, NUM_MEMORY_BUFFERS,
          \* EXEC_CYCLES_*, MEMORY_CYCLES_*: one number for each kind of operation
          CYCLES_AL, CYCLES_JUMP, CYCLES_BRANCH, CYCLES_ADDRESS, CYCLES_MEMORY

ASSUME ConfigAssumption ==
    /\ {COMMIT_WIDTH, NUM_ALU_UNITS, NUM_BRANCH_UNITS, NUM_MEMORY_UNITS, NUM_ADDRESS_UNITS,
        NUM_ALU_RES_STATIONS, NUM_BRANCH_RES_STATIONS, NUM_MEMORY_BUFFERS,
        CYCLES_AL, CYCLES_JUMP, CYCLES_BRANCH, CYCLES_ADDRESS, CYCLES_MEMORY} \subseteq Nat \ {0}
    /\ CDB_SIZE = NUM_ALU_UNITS + NUM_BRANCH_UNITS + NUM_MEMORY_UNITS

\* decode.c gives branches and stores, which have no rd, the register 0.
ASSUME ProgramsAssumption ==
    LET Op == ImmOp \cup RegOp \cup BranchOp \cup LoadOp \cup StoreOp
                 \cup {"LUI", "AUIPC", "JAL", "JALR"}
        Inst == [op : Op, rd : Regs, rs1 : Regs, rs2 : Regs, imm : Words]
    IN  \A p \in Programs : \A slot \in DOMAIN p :
            \/ p[slot] \in {NoInst, Illegal}
            \/ p[slot] \in {inst \in Inst : inst.op \in BranchOp \cup StoreOp => inst.rd = 0}

VARIABLES program,               \* what the memory file holds
          fetch_unit,            \* reg_pc and reg_npc
          pc_src, reg_pc_target, \* the redirection commit asks fetch for, both copies
          reg_insts,             \* the latches from fetch to decode, both copies
          btb, iq,
          rob, cdb, regs,
          alu_rs, branch_rs, mb, \* reservation stations and memory buffers
          alus, branch_units, memory_units, address_units,
          mm, jump_zero,
          phase, index,          \* the part of step() that runs, and its loop's counter
          dependencies,          \* for each register the id of its writer in this batch, or 0
          arch_pc                \* history: where the oldest uncommitted instruction is

frontVars == <<fetch_unit, pc_src, reg_pc_target, reg_insts, iq>>
issueVars == <<alu_rs, branch_rs, mb, rob, regs>>
unitVars == <<alus, branch_units, memory_units, address_units>>
commitVars == <<btb, mm, jump_zero, arch_pc>>
controlVars == <<phase, index, dependencies>>

vars == <<program, frontVars, issueVars, unitVars, commitVars, controlVars, cdb>>

None == [r \in Regs |-> 0]

\* The next iteration of a loop of n, or the next part.
Advance(n, next) ==
    /\ IF index + 1 < n THEN index' = index + 1 /\ phase' = phase
                        ELSE index' = 0 /\ phase' = next
    /\ UNCHANGED dependencies

idle_unit == [relative_cycle |-> 0, num_cycles |-> -1, entry_rob_id |-> 0, out |-> 0]
idle_branch_unit ==
    [relative_cycle |-> 0, num_cycles |-> -1, entry_rob_id |-> 0, out_cdb |-> 0,
     out_npc_actual |-> 0, entry_is_jump |-> FALSE]
idle_address_unit == [relative_cycle |-> 0, is_store |-> FALSE, address |-> 0, dest_id |-> 0]

\* Latches, and pc_src's next copy, are as a fresh heap leaves them: zero.
Init ==
    /\ program \in Programs
    /\ fetch_unit = [reg_pc |-> 0, reg_npc |-> 0]
    /\ pc_src = [current |-> "NORMAL", next |-> "NORMAL"]
    /\ reg_pc_target = [current |-> 0, next |-> 0]
    /\ LET latches == [i \in 1 .. ISSUE_WIDTH |-> [inst |-> NoInst, inst_pc |-> 0, npc_pred |-> 0]]
       IN  reg_insts = [current |-> latches, next |-> latches]
    /\ btb = btb_init
    /\ iq = inst_queue_init(NoInst)
    /\ rob = rob_init
    /\ cdb = cdb_init
    /\ regs = reg_file_init
    /\ alu_rs = res_stations_init(NUM_ALU_RES_STATIONS)
    /\ branch_rs = res_stations_init(NUM_BRANCH_RES_STATIONS)
    /\ mb = memory_buffers_init(NUM_MEMORY_BUFFERS)
    /\ alus = [i \in 1 .. NUM_ALU_UNITS |-> idle_unit]
    /\ branch_units = [i \in 1 .. NUM_BRANCH_UNITS |-> idle_branch_unit]
    /\ memory_units = [i \in 1 .. NUM_MEMORY_UNITS |-> idle_unit]
    /\ address_units = [i \in 1 .. NUM_ADDRESS_UNITS |-> idle_address_unit]
    /\ mm = Image
    /\ jump_zero = FALSE
    /\ phase = "fetch"
    /\ index = 0
    /\ dependencies = None
    /\ arch_pc = 0

-----------------------------------------------------------------------------

(* fetch_step and decode_step, both held back by the same queue. *)

\* What the latches get: the words from reg_pc on, up to the first predicted elsewhere.
Fetched(reg_pc) ==
    LET pc(i) == plus(reg_pc, 4 * (i - 1))
        taken == {i \in 1 .. ISSUE_WIDTH : btb_lookup(btb, pc(i)) # plus(pc(i), 4)}
        before(i) == {k \in taken : k < i}
        npc(i) == btb_lookup(btb, pc(IF before(i) = {} THEN i ELSE Nth(taken, 0)))
    IN  [i \in 1 .. ISSUE_WIDTH |->
            [inst |-> IF before(i) = {} THEN inst_at(program, pc(i)) ELSE NoInst,
             inst_pc |-> pc(i), npc_pred |-> npc(i)]]

Fetch ==
    /\ phase = "fetch"
    /\ phase' = "decode"
    /\ IF inst_queue_free_slots(iq)
       THEN LET reg_pc == IF pc_src.current = "NORMAL" THEN fetch_unit.reg_npc
                          ELSE reg_pc_target.current
                fetched == Fetched(reg_pc)
            IN  /\ fetch_unit' = [reg_pc |-> reg_pc, reg_npc |-> fetched[ISSUE_WIDTH].npc_pred]
                /\ reg_insts' = [reg_insts EXCEPT !.next = fetched]
                /\ pc_src' = IF pc_src.current = "NORMAL" THEN pc_src
                             ELSE [pc_src EXCEPT !.next = "NORMAL"]
       ELSE UNCHANGED <<fetch_unit, reg_insts, pc_src>>
    /\ UNCHANGED <<program, reg_pc_target, iq, issueVars, unitVars, commitVars,
                   index, dependencies, cdb>>

\* The decoded_inst a handler of decode.c creates, with NA where it has no use for the pc.
decoded(latch) ==
    LET inst == latch.inst
        jumps == op_type_of(inst.op) \in {"JUMP", "BRANCH"}
    IN  [op |-> inst.op, rd |-> inst.rd, rs1 |-> inst.rs1, rs2 |-> inst.rs2, imm |-> inst.imm,
         inst_pc |-> IF jumps \/ inst.op = "AUIPC" THEN latch.inst_pc ELSE NA,
         npc_pred |-> IF jumps THEN latch.npc_pred ELSE NA]

\* A word that is no instruction, on whatever path it was fetched, exits the simulator.
DecodeFails ==
    /\ phase = "decode"
    /\ inst_queue_free_slots(iq)
    /\ reg_insts.current[index + 1].inst = Illegal
    /\ phase' = "failed"
    /\ UNCHANGED <<program, frontVars, issueVars, unitVars, commitVars, index, dependencies, cdb>>

\* One iteration of the loop over the latches.
DecodeLatch ==
    LET latch == reg_insts.current[index + 1]
    IN  /\ phase = "decode"
        /\ inst_queue_free_slots(iq)
        /\ latch.inst # Illegal
        /\ iq' = IF latch.inst = NoInst THEN iq ELSE inst_queue_enqueue(iq, decoded(latch))
        /\ Advance(ISSUE_WIDTH, "issue")
        /\ UNCHANGED <<program, fetch_unit, pc_src, reg_pc_target, reg_insts, issueVars, unitVars,
                       commitVars, cdb>>

DecodeStalls ==
    /\ phase = "decode"
    /\ ~inst_queue_free_slots(iq)
    /\ phase' = "issue"
    /\ UNCHANGED <<program, frontVars, issueVars, unitVars, commitVars, index, dependencies, cdb>>

-----------------------------------------------------------------------------

(* issue_step: a batch that fits whatever its instructions are. *)

\* It reads current copies only, so it stays the same while the batch is issued.
batch_size ==
    LET least(S) == CHOOSE n \in S : \A m \in S : n <= m
    IN  least({inst_queue_cur_entries(iq), rob_num_free_slots(rob),
               res_stations_num_free(alu_rs), res_stations_num_free(branch_rs),
               memory_buffers_num_free(mb), ISSUE_WIDTH})

value(v) == [q |-> NA, v |-> v]

\* Seeded fault: instructions of one batch do not see each other.
set_q_v_no_dependency(rs) ==
    IF ~regs[rs].busy THEN value(regs[rs].val)
    ELSE IF rob_is_entry_ready(rob, regs[rs].rob_id)
         THEN value(rob_get_entry_value(rob, regs[rs].rob_id))
         ELSE [q |-> regs[rs].rob_id, v |-> NA]

\* Seeded fault: a result that has gone by is waited for.
set_q_v_not_ready(rs) ==
    IF dependencies[rs] # 0 THEN [q |-> dependencies[rs], v |-> NA]
    ELSE IF ~regs[rs].busy THEN value(regs[rs].val)
    ELSE [q |-> regs[rs].rob_id, v |-> NA]

\* An operand: its value, or the id of the instruction that will broadcast it.
set_q_v(rs) ==
    IF dependencies[rs] # 0 THEN [q |-> dependencies[rs], v |-> NA]
    ELSE IF ~regs[rs].busy THEN value(regs[rs].val)
    ELSE IF rob_is_entry_ready(rob, regs[rs].rob_id)
         THEN value(rob_get_entry_value(rob, regs[rs].rob_id))
         ELSE [q |-> regs[rs].rob_id, v |-> NA]

\* The next instruction of the batch, if it has one of the types.
Issuing(inst, op_types) ==
    /\ phase = "issue"
    /\ index < batch_size
    /\ op_type_of(inst.op) \in op_types
    /\ iq' = inst_queue_dequeue(iq)
    /\ index' = index + 1
    /\ UNCHANGED <<program, fetch_unit, pc_src, reg_pc_target, reg_insts, unitVars, commitVars,
                   phase, cdb>>

\* The writer of rd: the youngest, for this batch and for those to come.
Rename(rd, rob_id) ==
    /\ dependencies' = IF rd = 0 THEN dependencies ELSE [dependencies EXCEPT ![rd] = rob_id]
    /\ regs' = reg_file_set_rob_id(regs, rd, rob_id)

\* handle_al_operation
IssueAl ==
    LET inst == inst_queue_front(iq, index)
        j == IF inst.op \in ImmOp \cup RegOp THEN set_q_v(inst.rs1) ELSE value(inst.imm)
        k == IF inst.op \in RegOp THEN set_q_v(inst.rs2)
             ELSE value(IF inst.op \in ImmOp THEN inst.imm ELSE NA)
        id == rob_enqueue_id(rob)
    IN  /\ Issuing(inst, {"AL"})
        /\ rob' = rob_enqueue(rob, "AL", inst.rd, NA, NA, NA, NA)
        /\ alu_rs' = res_stations_add(alu_rs, inst.op, j.q, k.q, j.v, k.v, NA, id, inst.inst_pc)
        /\ Rename(inst.rd, id)
        /\ UNCHANGED <<branch_rs, mb>>

\* handle_branch_operation
IssueBranch ==
    LET inst == inst_queue_front(iq, index)
        j == IF inst.op \in BranchOp \cup {"JALR"} THEN set_q_v(inst.rs1) ELSE value(NA)
        k == IF inst.op \in BranchOp THEN set_q_v(inst.rs2) ELSE value(NA)
        id == rob_enqueue_id(rob)
    IN  /\ Issuing(inst, {"JUMP", "BRANCH"})
        /\ rob' = rob_enqueue(rob, op_type_of(inst.op), inst.rd, NA, NA,
                              inst.npc_pred, inst.inst_pc)
        /\ branch_rs' = res_stations_add(branch_rs, inst.op, j.q, k.q, j.v, k.v,
                                         inst.imm, id, inst.inst_pc)
        /\ Rename(inst.rd, id)
        /\ UNCHANGED <<alu_rs, mb>>

\* handle_mem_operation: a store's data waits in the reorder buffer, its address in the buffers.
IssueMemory ==
    LET inst == inst_queue_front(iq, index)
        j == set_q_v(inst.rs1)
        k == IF inst.op \in StoreOp THEN set_q_v(inst.rs2) ELSE value(NA)
        id == rob_enqueue_id(rob)
    IN  /\ Issuing(inst, {"LOAD"} \cup StoreType)
        /\ rob' = rob_enqueue(rob, op_type_of(inst.op), inst.rd, k.v, k.q, NA, NA)
        /\ mb' = memory_buffers_enqueue(mb, inst.op, j.q, k.q, j.v, k.v, inst.imm, id)
        /\ Rename(inst.rd, id)
        /\ UNCHANGED <<alu_rs, branch_rs>>

EndIssue ==
    /\ phase = "issue"
    /\ index >= batch_size
    /\ phase' = "alu"
    /\ index' = 0
    /\ dependencies' = None
    /\ UNCHANGED <<program, frontVars, issueVars, unitVars, commitVars, cdb>>

-----------------------------------------------------------------------------

(***************************************************************************)
(* The functional units.  A unit takes an entry in one cycle, counts its   *)
(* cycles, and delivers in the cycle after the last; an address unit       *)
(* delivers in the last.                                                   *)
(***************************************************************************)

AtWork(unit) == 0 < unit.relative_cycle /\ unit.relative_cycle < unit.num_cycles
Finished(unit) == 0 < unit.relative_cycle /\ unit.relative_cycle = unit.num_cycles
count(unit) == [unit EXCEPT !.relative_cycle = @ + 1]
free(unit) == [unit EXCEPT !.relative_cycle = 0]

AluStep ==
    LET unit == alus[index + 1]
        station == res_stations_ready(alu_rs)
    IN  /\ phase = "alu"
        /\ \/ /\ unit.relative_cycle = 0
              /\ res_stations_has_ready(alu_rs)
              /\ alu_rs' = res_stations_remove(alu_rs)
              /\ alus' = [alus EXCEPT ![index + 1] =
                    [relative_cycle |-> 1, num_cycles |-> CYCLES_AL,
                     entry_rob_id |-> station.rob_id,
                     out |-> alu_out(station.op, station.vj, station.vk, station.inst_pc)]]
              /\ UNCHANGED cdb
           \/ /\ unit.relative_cycle = 0
              /\ ~res_stations_has_ready(alu_rs)
              /\ UNCHANGED <<alus, alu_rs, cdb>>
           \/ /\ AtWork(unit)
              /\ alus' = [alus EXCEPT ![index + 1] = count(@)]
              /\ UNCHANGED <<alu_rs, cdb>>
           \/ /\ Finished(unit)
              /\ cdb' = cdb_write(cdb, unit.entry_rob_id, unit.out)
              /\ alus' = [alus EXCEPT ![index + 1] = free(@)]
              /\ UNCHANGED alu_rs
        /\ Advance(NUM_ALU_UNITS, "branch")
        /\ UNCHANGED <<program, frontVars, commitVars, branch_rs, mb, rob, regs,
                       branch_units, memory_units, address_units>>

\* A jump's result is its return address.
BranchStep ==
    LET unit == branch_units[index + 1]
        station == res_stations_ready(branch_rs)
        is_jump == station.op \in {"JAL", "JALR"}
    IN  /\ phase = "branch"
        /\ \/ /\ unit.relative_cycle = 0
              /\ res_stations_has_ready(branch_rs)
              /\ branch_rs' = res_stations_remove(branch_rs)
              /\ branch_units' = [branch_units EXCEPT ![index + 1] =
                    [relative_cycle |-> 1,
                     num_cycles |-> IF is_jump THEN CYCLES_JUMP ELSE CYCLES_BRANCH,
                     entry_rob_id |-> station.rob_id,
                     out_cdb |-> IF is_jump THEN plus(station.inst_pc, 4) ELSE @.out_cdb,
                     out_npc_actual |-> npc_actual_of(station.op, station.vj, station.vk,
                                                      station.a, station.inst_pc),
                     entry_is_jump |-> is_jump]]
              /\ UNCHANGED <<cdb, rob>>
           \/ /\ unit.relative_cycle = 0
              /\ ~res_stations_has_ready(branch_rs)
              /\ UNCHANGED <<branch_units, branch_rs, cdb, rob>>
           \/ /\ AtWork(unit)
              /\ branch_units' = [branch_units EXCEPT ![index + 1] = count(@)]
              /\ UNCHANGED <<branch_rs, cdb, rob>>
           \/ /\ Finished(unit)
              /\ cdb' = IF unit.entry_is_jump
                        THEN cdb_write(cdb, unit.entry_rob_id, unit.out_cdb) ELSE cdb
              /\ rob' = rob_add_npc_actual(rob, unit.entry_rob_id, unit.out_npc_actual)
              /\ branch_units' = [branch_units EXCEPT ![index + 1] = free(@)]
              /\ UNCHANGED branch_rs
        /\ Advance(NUM_BRANCH_UNITS, "memory")
        /\ UNCHANGED <<program, frontVars, commitVars, alu_rs, mb, regs,
                       alus, memory_units, address_units>>

\* A load reads memory in its first cycle.
MemoryStep ==
    LET unit == memory_units[index + 1]
        loads == memory_candidate(mb, rob)
    IN  /\ phase = "memory"
        /\ \/ /\ unit.relative_cycle = 0
              /\ \E i \in loads :
                    LET buffer == mb.current[i]
                    IN  /\ mb' = memory_buffers_dequeue_memory(mb, i)
                        /\ memory_units' = [memory_units EXCEPT ![index + 1] =
                              [relative_cycle |-> 1, num_cycles |-> CYCLES_MEMORY,
                               entry_rob_id |-> buffer.rob_id,
                               out |-> load(mm, buffer.op, buffer.a)]]
              /\ UNCHANGED cdb
           \/ /\ unit.relative_cycle = 0
              /\ loads = {}
              /\ UNCHANGED <<memory_units, mb, cdb>>
           \/ /\ AtWork(unit)
              /\ memory_units' = [memory_units EXCEPT ![index + 1] = count(@)]
              /\ UNCHANGED <<mb, cdb>>
           \/ /\ Finished(unit)
              /\ cdb' = cdb_write(cdb, unit.entry_rob_id, unit.out)
              /\ memory_units' = [memory_units EXCEPT ![index + 1] = free(@)]
              /\ UNCHANGED mb
        /\ Advance(NUM_MEMORY_UNITS, "address")
        /\ UNCHANGED <<program, frontVars, commitVars, alu_rs, branch_rs, rob, regs,
                       alus, branch_units, address_units>>

\* The unit in the last cycle of its work hands the address to the store or the load.
Deliver(unit, buffers) ==
    IF unit.relative_cycle = CYCLES_ADDRESS
    THEN /\ IF unit.is_store
            THEN rob' = rob_add_address(rob, unit.dest_id, unit.address) /\ mb' = buffers
            ELSE mb' = memory_buffers_add_address(buffers, unit.dest_id, unit.address)
                 /\ rob' = rob
         /\ address_units' = [address_units EXCEPT ![index + 1] = free(unit)]
    ELSE /\ mb' = buffers
         /\ rob' = rob
         /\ address_units' = [address_units EXCEPT ![index + 1] = unit]

AddressStep ==
    LET unit == address_units[index + 1]
    IN  /\ phase = "address"
        /\ \/ /\ unit.relative_cycle = 0
              /\ \E i \in address_candidate(mb) :
                    LET buffer == mb.current[i]
                        is_store == buffer.op \in StoreOp
                    IN  Deliver([relative_cycle |-> 1, is_store |-> is_store,
                                 address |-> plus(buffer.vj, buffer.a),
                                 dest_id |-> IF is_store THEN buffer.rob_id ELSE i],
                                memory_buffers_dequeue_address(mb, i))
           \/ /\ unit.relative_cycle = 0
              /\ address_candidate(mb) = {}
              /\ UNCHANGED <<mb, rob, address_units>>
           \/ /\ unit.relative_cycle > 0
              /\ Deliver(count(unit), mb)
        /\ Advance(NUM_ADDRESS_UNITS, "capture")
        /\ UNCHANGED <<program, frontVars, commitVars, alu_rs, branch_rs, regs,
                       alus, branch_units, memory_units, cdb>>

\* The stations, the buffers and the reorder buffer take what they wait for from the bus.
Capture ==
    /\ phase = "capture"
    /\ phase' = "commit"
    /\ alu_rs' = res_stations_step(alu_rs, cdb)
    /\ branch_rs' = res_stations_step(branch_rs, cdb)
    /\ mb' = memory_buffers_step(mb, cdb)
    /\ rob' = rob_step(rob, cdb)
    /\ UNCHANGED <<program, frontVars, regs, unitVars, commitVars, index, dependencies, cdb>>

-----------------------------------------------------------------------------

(* commit_step: single_commit for each index below COMMIT_WIDTH. *)

(***************************************************************************)
(* What the stray write of rob_dequeue may leave of the BTB.  At an index  *)
(* beyond REORDER_BUFFER_SIZE it falls behind struct rob, on whose heels   *)
(* glibc's malloc puts struct btb: for an even size on the second byte of  *)
(* a tag, otherwise, and under another malloc, on nothing that is read.    *)
(***************************************************************************)
AfterStrayWrite(rob_index) ==
    LET i == 3 * (rob_index - REORDER_BUFFER_SIZE - 1) + 1
    IN  IF rob_index <= REORDER_BUFFER_SIZE \/ i \notin DOMAIN btb THEN {btb}
        ELSE {btb, [btb EXCEPT ![i].addr = @ - BYTE * byte_of(@, 1)]}

update_btb(buffer, inst_pc, npc_actual) ==
    IF npc_actual # plus(inst_pc, 4) THEN btb_taken(buffer, inst_pc, npc_actual)
    ELSE btb_not_taken(buffer, inst_pc)

Entry == rob_dequeue_entry(rob, index)
Dequeued == rob_dequeue(rob, index)

Committing(op_types) ==
    /\ phase = "commit"
    /\ rob_ready(rob, index)
    /\ Entry.op_type \in op_types
    /\ UNCHANGED <<program, dependencies, cdb>>

\* A stray write cannot disturb an instruction that does not use the BTB, but the next fetches.
GoOn == Advance(COMMIT_WIDTH, "update") /\ rob' = Dequeued
        /\ UNCHANGED <<frontVars, alu_rs, branch_rs, mb, unitVars>>

\* commit_clear, after which commit_step stops.
Flush(cleared_regs, target) ==
    /\ phase' = "update"
    /\ index' = 0
    /\ rob' = rob_clear(Dequeued)
    /\ regs' = reg_file_clear(cleared_regs)
    /\ alu_rs' = res_stations_clear(alu_rs)
    /\ branch_rs' = res_stations_clear(branch_rs)
    /\ mb' = memory_buffers_clear(mb)
    /\ alus' = [i \in DOMAIN alus |->
                    [alus[i] EXCEPT !.num_cycles = -1, !.relative_cycle = 0]]
    /\ branch_units' = [i \in DOMAIN branch_units |->
                    [branch_units[i] EXCEPT !.num_cycles = -1, !.relative_cycle = 0]]
    /\ memory_units' = [i \in DOMAIN memory_units |->
                    [memory_units[i] EXCEPT !.num_cycles = -1, !.relative_cycle = 0]]
    /\ address_units' = [i \in DOMAIN address_units |-> free(address_units[i])]
    /\ iq' = inst_queue_clear(iq)
    /\ reg_insts' = [reg_insts EXCEPT !.next =
                        [i \in DOMAIN @ |-> [@[i] EXCEPT !.inst = NoInst]]]
    /\ reg_pc_target' = [reg_pc_target EXCEPT !.next = target]
    /\ pc_src' = [pc_src EXCEPT !.next = "MISPREDICT"]
    /\ UNCHANGED fetch_unit

\* What a jump and a branch have in common.
CommitTransfer(committed_regs) ==
    /\ \E buffer \in AfterStrayWrite(rob.front_current + index) :
            btb' = update_btb(buffer, Entry.inst_pc, Entry.npc_actual)
    /\ IF Mispredicted(Entry)
       THEN Flush(committed_regs, Entry.npc_actual)
       ELSE GoOn /\ regs' = committed_regs
    /\ arch_pc' = Entry.npc_actual
    /\ UNCHANGED mm

CommitJump ==
    /\ Committing({"JUMP"})
    /\ CommitTransfer(reg_file_reg_commit(regs, Entry.dest, Entry.value, Entry.rob_id))
    /\ jump_zero' = (Entry.npc_actual = 0)

CommitBranch ==
    /\ Committing({"BRANCH"})
    /\ CommitTransfer(regs)
    /\ UNCHANGED jump_zero

CommitResult ==
    /\ Committing({"LOAD", "AL"})
    /\ regs' = reg_file_reg_commit(regs, Entry.dest, Entry.value, Entry.rob_id)
    /\ btb' \in AfterStrayWrite(rob.front_current + index)
    /\ arch_pc' = plus(arch_pc, 4)
    /\ GoOn
    /\ UNCHANGED <<mm, jump_zero>>

CommitStore ==
    /\ Committing(StoreType)
    /\ mm' = CASE Entry.op_type = "STORE_WORD" -> main_memory_store_word(mm, Entry.dest, Entry.value)
               [] Entry.op_type = "STORE_HALF" -> main_memory_store_half(mm, Entry.dest, Entry.value)
               [] Entry.op_type = "STORE_BYTE" -> main_memory_store_byte(mm, Entry.dest, Entry.value)
    /\ btb' \in AfterStrayWrite(rob.front_current + index)
    /\ arch_pc' = plus(arch_pc, 4)
    /\ GoOn
    /\ UNCHANGED <<regs, jump_zero>>

\* The loop goes on after an iteration that found nothing ready.
CommitNothing ==
    /\ phase = "commit"
    /\ ~rob_ready(rob, index)
    /\ Advance(COMMIT_WIDTH, "update")
    /\ UNCHANGED <<program, frontVars, issueVars, unitVars, commitVars, cdb>>

latched(reg) == [reg EXCEPT !.current = reg.next]

\* update_current, and the condition of main's loop.
UpdateCurrent ==
    /\ phase = "update"
    /\ cdb' = cdb_clear(cdb)
    /\ pc_src' = latched(pc_src)
    /\ reg_pc_target' = latched(reg_pc_target)
    /\ reg_insts' = latched(reg_insts)
    /\ iq' = inst_queue_update_current(iq)
    /\ rob' = rob_update_current(rob)
    /\ alu_rs' = res_stations_update_current(alu_rs)
    /\ branch_rs' = res_stations_update_current(branch_rs)
    /\ mb' = memory_buffers_update_current(mb)
    /\ phase' = IF jump_zero THEN "halted" ELSE "fetch"
    /\ UNCHANGED <<program, fetch_unit, regs, unitVars, commitVars, index, dependencies>>

Commit == CommitJump \/ CommitBranch \/ CommitResult \/ CommitStore

Next ==
    \/ Fetch \/ DecodeLatch \/ DecodeStalls \/ DecodeFails
    \/ IssueAl \/ IssueBranch \/ IssueMemory \/ EndIssue
    \/ AluStep \/ BranchStep \/ MemoryStep \/ AddressStep \/ Capture
    \/ Commit \/ CommitNothing \/ UpdateCurrent

Spec == Init /\ [][Next]_vars

\* One thread runs the loop of main and nothing blocks it.
FairSpec == Spec /\ WF_vars(Next)
=============================================================================
