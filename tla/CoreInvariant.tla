----------------------------- MODULE CoreInvariant -----------------------------
(***************************************************************************)
(* What is true between any two steps of the superscalar simulator and     *)
(* makes its safety properties inductive.                                  *)
(***************************************************************************)
EXTENDS PipelineProperties, PoolLemmas

(* Where instructions are. *)

InUnits(name, units) == {Holder(name, i, units[i].entry_rob_id, NA) : i \in Active(units)}

InBranchUnits(units) ==
    {Holder("branch", i, units[i].entry_rob_id,
            IF units[i].entry_is_jump THEN "JUMP" ELSE "BRANCH") : i \in Active(units)}

\* An address unit with a load only borrows its address: the load stays in its buffer.
InAddressUnits(units) ==
    {Holder("address", i, units[i].dest_id, NA) : i \in {k \in Active(units) : units[k].is_store}}

InBus(bus) == {Holder("cdb", i, bus[i].rob_id, NA) : i \in DOMAIN bus}

\* The bus has done its work when its results have been captured.
Held ==
    InPool("alu_rs", alu_rs.next) \cup InPool("branch_rs", branch_rs.next) \cup InPool("mb", mb.next)
    \cup InUnits("alu", alus) \cup InBranchUnits(branch_units) \cup InUnits("memory", memory_units)
    \cup InAddressUnits(address_units)
    \cup (IF phase \in {"commit", "update"} THEN {} ELSE InBus(cdb))

\* A place holds instructions it can answer for, and no store that has its address.
Fits(holder, held) ==
    LET place == holder[1]
        op == holder[4]
    IN  /\ place \in {"alu_rs", "alu"} => held.op_type = "AL"
        /\ place \in {"branch_rs", "branch"} => held.op_type \in {"JUMP", "BRANCH"}
        /\ place = "branch_rs" => (op \in {"JAL", "JALR"} <=> held.op_type = "JUMP")
        /\ place = "branch" => held.op_type = op
        /\ place = "mb" => op \in LoadOp \cup StoreOp /\ held.op_type \in {"LOAD"} \cup StoreType
        /\ place = "mb" /\ op \in LoadOp => held.op_type = "LOAD"
        /\ place = "mb" /\ op \in StoreOp => IsStore(held.op_type)
        /\ place = "memory" => held.op_type = "LOAD"
        /\ place = "address" => IsStore(held.op_type)
        /\ place = "cdb" => HasResult(held.op_type)
        /\ IsStore(held.op_type) => held.dest = 0

Flying(r) == {id \in RobIds : InWindow(r.front_next, r.rear_next, id - 1)}

\* Who is held is in flight and has not finished, and is held once.
Settled(held, r) ==
    /\ \A h \in held : /\ h[3] \in Flying(r)
                       /\ ~r.queue_next[h[3] - 1].ready
                       /\ Fits(h, r.queue_next[h[3] - 1])
    /\ \A h, g \in held : h[3] = g[3] => h = g

-----------------------------------------------------------------------------

(* The copies of the reorder buffer. *)

\* What a cycle has done to the window by then; a flush empties it.
Windows(r, now, n) ==
    \/ \E added, removed \in 0 .. REORDER_BUFFER_SIZE :
          /\ InStep(r.front_current, r.rear_current, r.front_next, r.rear_next, added, removed)
          /\ now \in {"fetch", "decode", "failed", "halted"} => added = 0
          /\ now = "issue" => added = n
          /\ now \notin {"commit", "update"} => removed = 0
          /\ now = "commit" => removed <= n /\ (removed < n => ~rob_ready(r, removed))
    \/ now = "update" /\ r.front_next = -1 /\ r.rear_next = -1

\* Nobody changes a finished instruction, and before the units work none at all.
CopiesAgree(r, all) ==
    \A i \in Slots :
        /\ InWindow(r.front_current, r.rear_current, i)
        /\ InWindow(r.front_next, r.rear_next, i)
        /\ r.queue_current[i].ready \/ all
        => r.queue_next[i] = r.queue_current[i]

EntriesInPlace(r) ==
    \A i \in Slots : /\ r.queue_next[i].rob_id = i + 1
                     /\ InWindow(r.front_next, r.rear_next, i) => r.queue_next[i].busy

UntilUnitsWork == {"fetch", "decode", "issue", "failed", "halted"}

-----------------------------------------------------------------------------

(* The pools, and what a batch may still take from them. *)

PoolsInStep ==
    /\ phase # "update" =>
           StationsInStep(alu_rs) /\ StationsInStep(branch_rs) /\ BuffersInStep(mb, rob)
    /\ phase \in {"fetch", "decode", "issue"} =>
           /\ alu_rs.added <= index /\ branch_rs.added <= index /\ mb.count_enqueue <= index
           /\ phase # "issue" =>
                  alu_rs.added = 0 /\ branch_rs.added = 0 /\ mb.count_enqueue = 0

-----------------------------------------------------------------------------

(* The front end, as far as renaming depends on it. *)

\* Whatever decode has passed on names registers, and only who has a result names an rd.
IsInst(inst) ==
    /\ {inst.rd, inst.rs1, inst.rs2} \subseteq Regs
    /\ ~HasResult(op_type_of(inst.op)) => inst.rd = 0

IndexInRange ==
    /\ phase \in {"fetch", "capture", "update", "halted"} => index = 0
    /\ phase \in {"decode", "failed"} => index < ISSUE_WIDTH
    \* Decode stops before its loop or not at all.
    /\ phase = "decode" /\ index # 0 => inst_queue_free_slots(iq)
    /\ phase = "alu" => index < NUM_ALU_UNITS
    /\ phase = "branch" => index < NUM_BRANCH_UNITS
    /\ phase = "memory" => index < NUM_MEMORY_UNITS
    /\ phase = "address" => index < NUM_ADDRESS_UNITS
    /\ phase = "commit" => index < COMMIT_WIDTH

\* The youngest writer of a register, for the instructions of the batch behind it.
BatchSeesItself ==
    \A r \in Regs : dependencies[r] # 0 =>
        phase = "issue" /\ r # 0 /\ regs[r].busy /\ regs[r].rob_id = dependencies[r]

-----------------------------------------------------------------------------

(* Operands: with OperandsWillCome, which needs it, the rest of what is inductive. *)

\* The writer a register names can be asked in the current copy whether it has finished, unless
\* it is one of this batch: then it has not.  Register 0 has no writer.
ReadersFindWriters ==
    /\ ~regs[0].busy
    /\ phase = "issue" =>
           \A r \in Regs : regs[r].busy =>
               IF dependencies[r] = 0
               THEN InWindow(rob.front_current, rob.rear_current, regs[r].rob_id - 1)
               ELSE ~rob.queue_next[dependencies[r] - 1].ready

\* A store whose data have yet to come has not finished.
WaitingStoresGoOn(r) ==
    \A id \in Flying(r) :
        IsStore(r.queue_next[id - 1].op_type) /\ r.queue_next[id - 1].q # 0
            => ~r.queue_next[id - 1].ready

-----------------------------------------------------------------------------

(* The queue of the memory buffers. *)

AgeOf(r, id) == AgeFrom(r.front_next, id - 1)

\* It is in program order.
ByAge(copy, r) ==
    \A i, k \in InQueue(copy) :
        copy[i].queue_pos < copy[k].queue_pos
            => AgeOf(r, copy[i].rob_id) < AgeOf(r, copy[k].rob_id)

\* The address units that work for a load.
LoadUnits(units) == {u \in DOMAIN units : units[u].relative_cycle > 0 /\ ~units[u].is_store}

\* Buffer b holds a load that is out of the queue and waits for its address.
AwaitsAddress(buffers, b) ==
    /\ b \in DOMAIN buffers.current
    /\ buffers.current[b].busy /\ buffers.next[b].busy
    /\ buffers.next[b].op \notin StoreOp
    /\ buffers.next[b].queue_pos = 0 /\ buffers.next[b].a = 0
    /\ buffers.current[b].queue_pos = 0 => buffers.current[b].a = 0

\* An address unit that works for a load has its buffer for itself.
AddressesToCome(units, buffers) ==
    /\ \A u \in LoadUnits(units) : AwaitsAddress(buffers, units[u].dest_id)
    /\ \A u, w \in LoadUnits(units) : units[u].dest_id = units[w].dest_id => u = w

\* The places in the next copy have no gap and are in program order, and say in which order those
\* of the current copy have been sent.
QueueInv ==
    /\ Ordered(mb.next, mb.num_in_queue_next)
    /\ ByAge(mb.next, rob)
    /\ phase # "update" => QueueInStep(mb)
    /\ phase \in {"fetch", "decode", "issue"} => QueueGrows(mb)
    /\ AddressesToCome(address_units, mb)

-----------------------------------------------------------------------------

(* Who answers for an instruction. *)

\* Entry e has finished, or is a store whose data alone are missing, which rob_step looks for; with
\* zero it may also be a store whose address is not in its entry.
Answered(e, zero) == e.ready \/ (IsStore(e.op_type) /\ IF e.dest = 0 THEN zero ELSE e.q # 0)

FoundIn(held, r, zero) ==
    \A id \in Flying(r) : Answered(r.queue_next[id - 1], zero) \/ \E h \in held : h[3] = id

\* Everyone in flight is held somewhere or needs nobody.
Found(zero) == FoundIn(Held, rob, zero)

\* The units that may have used the bus in this cycle.
Stepped ==
    IF phase \in UntilUnitsWork THEN 0
    ELSE IF phase = "alu" THEN index
    ELSE IF phase = "branch" THEN NUM_ALU_UNITS + index
    ELSE IF phase = "memory" THEN NUM_ALU_UNITS + NUM_BRANCH_UNITS + index
    ELSE CDB_SIZE

\* So cdb_write, which drops a result without a word, has a free entry for each of them.
BusRoom == Len(cdb) <= Stepped

\* Whose result has been on the bus has taken it.
HeardAreDone ==
    phase \in {"commit", "update"} =>
        \A i \in DOMAIN cdb : cdb[i].rob_id \in Flying(rob) => rob.queue_next[cdb[i].rob_id - 1].ready

FoundInv == Found(TRUE) /\ BusRoom /\ HeardAreDone

\* No store goes to address 0, which its entry has while its address is not known.
StoresMissZero ==
    \A i \in DOMAIN address_units : address_units[i].is_store => address_units[i].address # 0

-----------------------------------------------------------------------------

(* A load and the stores before it. *)

\* The loads whose address has been sent for.
Outside(copy) == {i \in DOMAIN copy : copy[i].busy /\ copy[i].queue_pos = 0}

\* No store before one of them has yet to be sent.
LoadsBehind(copy, r) ==
    \A i \in Outside(copy) :
        /\ copy[i].op \notin StoreOp
        /\ \A k \in InQueue(copy) :
               copy[k].op \in StoreOp => AgeOf(r, copy[i].rob_id) < AgeOf(r, copy[k].rob_id)

StoreUnits(units) == {u \in DOMAIN units : units[u].relative_cycle > 0 /\ units[u].is_store}

\* The cycles unit u has worked when the units behind n have had their turn too.
Cycles(units, u, now, n) ==
    units[u].relative_cycle + (IF now = "address" /\ n < u THEN 1 ELSE 0)

\* The address of a store before a load is there no later than that of the load.
StoresFirst(units, copy, r, now, n) ==
    \A u \in StoreUnits(units), i \in Outside(copy) :
        AgeOf(r, units[u].dest_id) < AgeOf(r, copy[i].rob_id)
            => \/ Cycles(units, u, now, n) >= CYCLES_ADDRESS
               \/ \E w \in LoadUnits(units) :
                     /\ units[w].dest_id = i
                     /\ Cycles(units, w, now, n) <= Cycles(units, u, now, n)

LoadsInOrder ==
    /\ LoadsBehind(mb.next, rob)
    /\ \A u \in DOMAIN address_units : address_units[u].relative_cycle < CYCLES_ADDRESS
    /\ StoresFirst(address_units, mb.next, rob, phase, index)

\* While its window does not change, an entry is the same store to the same address in both copies.
StoresAgree(r) ==
    \A i \in Slots :
        /\ InWindow(r.front_current, r.rear_current, i)
        /\ InWindow(r.front_next, r.rear_next, i)
        => /\ r.queue_next[i].op_type = r.queue_current[i].op_type
           /\ r.queue_next[i].dest = r.queue_current[i].dest
           /\ r.queue_next[i].busy = r.queue_current[i].busy

\* Until the address units work, so has a load the same address.
AddressesAgree(buffers) ==
    \A i \in DOMAIN buffers.current :
        /\ buffers.current[i].busy /\ buffers.next[i].busy
        /\ buffers.current[i].queue_pos = 0
        => buffers.next[i].a = buffers.current[i].a

\* Whoever is in a buffer is in the window that is read.
BuffersInWindow(buffers, r) ==
    \A i \in DOMAIN buffers.current :
        buffers.current[i].busy
            => InWindow(r.front_current, r.rear_current, buffers.current[i].rob_id - 1)

LoadsCompare ==
    /\ BuffersInWindow(mb, rob)
    /\ phase \in UntilUnitsWork \cup {"alu", "branch", "memory"} => AddressesAgree(mb)
    /\ phase \in {"alu", "branch", "memory"} => StoresAgree(rob)

\* So memory_candidate and rob_earlier_stores, which read the current copies, know each store
\* before a load.
LoadInv == LoadsInOrder /\ LoadsCompare

-----------------------------------------------------------------------------

CoreInv ==
    /\ Settled(Held, rob)
    /\ Windows(rob, phase, index)
    /\ CopiesAgree(rob, phase \in UntilUnitsWork)
    /\ EntriesInPlace(rob)
    /\ PoolsInStep
    /\ IndexInRange
    /\ BatchSeesItself
    /\ AliasesNameTheYoungestWriter
    /\ ReadersFindWriters
    /\ WaitingStoresGoOn(rob)
    /\ QueueInv
    /\ FoundInv
    /\ LoadInv
=============================================================================
