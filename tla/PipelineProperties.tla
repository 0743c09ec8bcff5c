-------------------------- MODULE PipelineProperties --------------------------
(***************************************************************************)
(* What the superscalar simulator must not get wrong, whatever order its   *)
(* units finish in and whatever is flushed in between.                     *)
(***************************************************************************)
EXTENDS Pipeline

InFlight == {id \in RobIds : InWindow(rob.front_next, rob.rear_next, id - 1)}

entry(id) == rob.queue_next[id - 1]

Age(id) == (((id - 1) - rob.front_next) + REORDER_BUFFER_SIZE) % REORDER_BUFFER_SIZE

Busy(pool) == {i \in DOMAIN pool : pool[i].busy}
Active(units) == {i \in DOMAIN units : units[i].relative_cycle > 0}

\* The copies that differ in nothing but their fields have the shapes the headers give them.
PipelineTypeOK ==
    /\ rob \in RobState(Words)
    /\ cdb \in Seq([rob_id : RobIds, val : Words]) /\ Len(cdb) <= CDB_SIZE
    /\ btb \in [0 .. BTB_SIZE - 1 -> BtbEntry]
    /\ regs \in [Regs -> [val : Words, busy : BOOLEAN, rob_id : {0} \cup RobIds]]
    /\ mm \in [Addresses -> 0 .. BYTE - 1]
    /\ \A station \in ToSet(alu_rs.next) \cup ToSet(branch_rs.next) :
           station \in Station(Words, ImmOp \cup RegOp \cup BranchOp
                                        \cup {"LUI", "AUIPC", "JAL", "JALR"}, RobIds)
    /\ \A buffer \in ToSet(mb.next) :
           buffer \in MemoryBuffer(Words, 0 .. NUM_MEMORY_BUFFERS)

-----------------------------------------------------------------------------

(***************************************************************************)
(* Renaming: a register is busy exactly while an instruction in flight     *)
(* writes it, and then names the youngest that does, although commits free *)
(* registers while batches take them, ids are used again, and a flush      *)
(* frees all at once (reg_file.c, issue.c).                                *)
(***************************************************************************)
Writers(r) == {id \in InFlight : HasResult(entry(id).op_type) /\ entry(id).dest = r}

AliasesNameTheYoungestWriter ==
    \A r \in Regs \ {0} :
        IF Writers(r) = {} THEN ~regs[r].busy
        ELSE /\ regs[r].busy
             /\ regs[r].rob_id \in Writers(r)
             /\ \A id \in Writers(r) : Age(id) <= Age(regs[r].rob_id)

(***************************************************************************)
(* No lost wakeup: whoever waits for an operand, in a station, a memory    *)
(* buffer or, for a store's data, the reorder buffer, is in flight, and    *)
(* waits for an older instruction in flight that has yet to deliver.       *)
(***************************************************************************)
Waits ==
    LET waits(pool) ==
            UNION {{<<pool[i].rob_id, pool[i].qj>>, <<pool[i].rob_id, pool[i].qk>>} :
                        i \in Busy(pool)}
        data == {<<id, entry(id).q>> : id \in {i \in InFlight : IsStore(entry(i).op_type)}}
    IN  {w \in waits(alu_rs.next) \cup waits(branch_rs.next) \cup waits(mb.next) \cup data :
            w[2] # 0}

OperandsWillCome ==
    \A w \in Waits :
        /\ {w[1], w[2]} \subseteq InFlight
        /\ Age(w[2]) < Age(w[1])
        /\ HasResult(entry(w[2]).op_type)
        /\ ~entry(w[2]).ready

(***************************************************************************)
(* No instruction is lost or done twice: each in flight that has not       *)
(* finished is in exactly one place - a station, a buffer, a unit or the   *)
(* bus - or is a store whose address is known and whose data is not; and   *)
(* no place holds a finished, a committed or a flushed one, whose answer   *)
(* would reach the next owner of its id.                                   *)
(***************************************************************************)
Places(id) ==
    LET held(name, pool) == {<<name, i>> : i \in {k \in Busy(pool) : pool[k].rob_id = id}}
        worked(name, units) ==
            {<<name, i>> : i \in {k \in Active(units) : units[k].entry_rob_id = id}}
    IN  held("alu_rs", alu_rs.next) \cup held("branch_rs", branch_rs.next)
        \cup held("mb", mb.next)
        \cup worked("alu", alus) \cup worked("branch", branch_units)
        \cup worked("memory", memory_units)
        \cup {<<"address", i>> : i \in {k \in Active(address_units) :
                    address_units[k].is_store /\ address_units[k].dest_id = id}}

OnBus(id) == {<<"cdb", i>> : i \in {k \in DOMAIN cdb : cdb[k].rob_id = id}}

WaitsForData(id) == IsStore(entry(id).op_type) /\ entry(id).dest # 0 /\ entry(id).q # 0

EachIsInOnePlace ==
    \A id \in RobIds :
        IF id \in InFlight /\ ~entry(id).ready
        THEN Cardinality(Places(id) \cup OnBus(id)) = IF WaitsForData(id) THEN 0 ELSE 1
        ELSE Places(id) = {}

(***************************************************************************)
(* The queue of the memory buffers has no gap and is in program order,     *)
(* whatever is sent to the address units out of its middle in the cycle in *)
(* which others enter (memory_buffers_enqueue, shift_queue); so a load is  *)
(* held back by the stores before it and by no others.                     *)
(***************************************************************************)
MemoryQueueIsInOrder ==
    LET queued == {i \in Busy(mb.next) : mb.next[i].queue_pos # 0}
        pos(i) == mb.next[i].queue_pos
    IN  /\ {pos(i) : i \in queued} = 1 .. Cardinality(queued)
        /\ mb.num_in_queue_next = Cardinality(queued)
        /\ \A i, k \in queued :
               pos(i) < pos(k) <=> Age(mb.next[i].rob_id) < Age(mb.next[k].rob_id)

(***************************************************************************)
(* A load reads memory only when every store before it that has not been   *)
(* committed has an address, and another one: the order in which loads and *)
(* stores leave for the address units (memory_buffers.c:193-229) and the   *)
(* search of rob_earlier_stores have to agree on that, although the        *)
(* addresses arrive through different units and structures.                *)
(***************************************************************************)
LoadsFollowStores ==
    [][\A i \in Busy(mb.next) :
          phase = "memory" /\ ~mb'.next[i].busy
             => \A id \in InFlight :
                   IsStore(entry(id).op_type) /\ Age(id) < Age(mb.next[i].rob_id)
                      => entry(id).dest \notin {0, mb.next[i].a}]_vars

(***************************************************************************)
(* The superscalar simulator implements the basic one: what its commits do *)
(* to registers and memory is what executing the program instruction by    *)
(* instruction does, however it predicted, reordered and flushed.          *)
(***************************************************************************)
Sequential ==
    INSTANCE Basic WITH pc <- arch_pc, regs <- [r \in Regs |-> regs[r].val],
                        halted <- jump_zero

ImplementsBasic == Sequential!Spec

(***************************************************************************)
(* Every program ends or goes on committing: the units, queues and latches *)
(* never wait for each other for good (main's loop has no other way out).  *)
(***************************************************************************)
KeepsCommitting == <>(phase = "halted") \/ []<><<Commit>>_vars

-----------------------------------------------------------------------------

(***************************************************************************)
(* "Cycle until PC will be 0" (cpu.c:274): whatever sends the program to   *)
(* address 0 ends it.                                                      *)
(***************************************************************************)
EndsAtZero == [][Commit /\ arch_pc' = 0 => jump_zero']_vars

(***************************************************************************)
(* The same comment the other way round: nothing but a jump to address 0   *)
(* ends the simulation.  Fetch runs ahead of commit, past the last         *)
(* instruction and into data, and decode takes what it finds there.        *)
(***************************************************************************)
EndsOnlyAtZero == phase \in {"halted", "failed"} => jump_zero
=============================================================================
