------------------------------- MODULE FrontEnd --------------------------------
(***************************************************************************)
(* Fetch, decode and the instruction queue in the cycle of cpu.c, under    *)
(* every branch target buffer, every issue unit that takes what the queue  *)
(* offers, and every flush.  A program counter counts instructions, and an *)
(* instruction is where it is and what is predicted to follow it.          *)
(***************************************************************************)
EXTENDS InstQueue, Sequences, FiniteSets

CONSTANTS NUM_PCS,
          Code,                  \* where the words that are not 0x0 are
          Targets                \* where branches lead

ASSUME FrontEndAssumption ==
    /\ NUM_PCS \in Nat \ {0}
    /\ Code # {} /\ Code \subseteq 0 .. NUM_PCS - 1
    /\ Targets \subseteq 0 .. NUM_PCS - 1

Pcs == 0 .. NUM_PCS - 1

Insts == [inst_pc : Pcs, npc_pred : Pcs]

VARIABLES fetch_unit,            \* reg_npc, the pc of the next fetch
          pc_src, reg_pc_target, \* the redirection a flush asks for, both copies
          reg_insts,             \* the latches from fetch to decode, both copies
          iq,
          phase, index,          \* the part of step() that runs, and its loop's counter
          issued                 \* what inst_queue_dequeue returned last

vars == <<fetch_unit, pc_src, reg_pc_target, reg_insts, iq, phase, index, issued>>

after(pc) == (pc + 1) % NUM_PCS

nothing == [inst_pc |-> 0, npc_pred |-> 0]

Latches == [1 .. ISSUE_WIDTH -> [inst : BOOLEAN, inst_pc : Pcs, npc_pred : Pcs]]

Init ==
    /\ fetch_unit = [reg_npc |-> 0]
    /\ pc_src = [current |-> "NORMAL", next |-> "NORMAL"]
    /\ reg_pc_target = [current |-> 0, next |-> 0]
    /\ LET latches == [i \in 1 .. ISSUE_WIDTH |->
                            [inst |-> FALSE, inst_pc |-> 0, npc_pred |-> 0]]
       IN  reg_insts = [current |-> latches, next |-> latches]
    /\ iq = inst_queue_init(nothing)
    /\ phase = "fetch"
    /\ index = 0
    /\ issued = nothing

-----------------------------------------------------------------------------

\* Predictions of the buffer: a word 0x0 never has an entry.
Predictions ==
    {btb \in [Pcs -> Pcs] :
        \A pc \in Pcs : btb[pc] = after(pc) \/ (pc \in Code /\ btb[pc] \in Targets)}

\* Seeded fault: fetch goes on behind a branch predicted taken.
Fetched_on(reg_pc, btb) ==
    LET pc(i) == ((reg_pc + i) - 1) % NUM_PCS
    IN  [i \in 1 .. ISSUE_WIDTH |->
            [inst |-> pc(i) \in Code, inst_pc |-> pc(i), npc_pred |-> btb[pc(i)]]]

\* What the latches get: words from reg_pc on, up to the first predicted elsewhere.
Fetched(reg_pc, btb) ==
    LET pc(i) == ((reg_pc + i) - 1) % NUM_PCS
        taken(i) == btb[pc(i)] # after(pc(i))
        stopped(i) == \E k \in 1 .. i - 1 : taken(k)
        first == CHOOSE k \in 1 .. ISSUE_WIDTH : taken(k) /\ ~stopped(k)
    IN  [i \in 1 .. ISSUE_WIDTH |->
            [inst |-> ~stopped(i) /\ pc(i) \in Code, inst_pc |-> pc(i),
             npc_pred |-> IF stopped(i) THEN btb[pc(first)] ELSE btb[pc(i)]]]

\* fetch_step
Fetch ==
    LET reg_pc == IF pc_src.current = "NORMAL" THEN fetch_unit.reg_npc ELSE reg_pc_target.current
    IN  /\ phase = "fetch"
        /\ inst_queue_free_slots(iq)
        /\ \E btb \in Predictions :
              LET fetched == Fetched(reg_pc, btb)
              IN  /\ reg_insts' = [reg_insts EXCEPT !.next = fetched]
                  /\ fetch_unit' = [reg_npc |-> fetched[ISSUE_WIDTH].npc_pred]
        /\ pc_src' = IF pc_src.current = "NORMAL" THEN pc_src ELSE [pc_src EXCEPT !.next = "NORMAL"]
        /\ phase' = "decode"
        /\ UNCHANGED <<reg_pc_target, iq, index, issued>>

\* decode_step, one latch after the other
DecodeLatch ==
    LET latch == reg_insts.current[index + 1]
    IN  /\ phase = "decode"
        /\ iq' = IF latch.inst
                 THEN inst_queue_enqueue(iq, [inst_pc |-> latch.inst_pc, npc_pred |-> latch.npc_pred])
                 ELSE iq
        /\ IF index + 1 < ISSUE_WIDTH THEN index' = index + 1 /\ phase' = phase
                                      ELSE index' = 0 /\ phase' = "issue"
        /\ UNCHANGED <<fetch_unit, pc_src, reg_pc_target, reg_insts, issued>>

\* Neither fetches nor decodes while the queue has no room for a whole batch.
Stall ==
    /\ phase = "fetch"
    /\ ~inst_queue_free_slots(iq)
    /\ phase' = "issue"
    /\ UNCHANGED <<fetch_unit, pc_src, reg_pc_target, reg_insts, iq, index, issued>>

\* issue_step, as far as the other pools let it.
Issue ==
    /\ phase = "issue"
    /\ index < ISSUE_WIDTH
    /\ index < inst_queue_cur_entries(iq)
    /\ issued' = inst_queue_front(iq, index)
    /\ iq' = inst_queue_dequeue(iq)
    /\ index' = index + 1
    /\ UNCHANGED <<fetch_unit, pc_src, reg_pc_target, reg_insts, phase>>

EndIssue ==
    /\ phase = "issue"
    /\ phase' = "commit"
    /\ index' = 0
    /\ UNCHANGED <<fetch_unit, pc_src, reg_pc_target, reg_insts, iq, issued>>

\* Seeded fault: the target is written, but fetch is not told to go there.
Flush_without_redirection(target) ==
    /\ iq' = inst_queue_clear(iq)
    /\ reg_pc_target' = [reg_pc_target EXCEPT !.next = target]
    /\ reg_insts' = [reg_insts EXCEPT !.next =
                        [i \in 1 .. ISSUE_WIDTH |-> [@[i] EXCEPT !.inst = FALSE]]]
    /\ UNCHANGED pc_src

\* What commit_clear does to the front end.
Flush(target) ==
    /\ iq' = inst_queue_clear(iq)
    /\ reg_pc_target' = [reg_pc_target EXCEPT !.next = target]
    /\ pc_src' = [pc_src EXCEPT !.next = "MISPREDICT"]
    /\ reg_insts' = [reg_insts EXCEPT !.next =
                        [i \in 1 .. ISSUE_WIDTH |-> [@[i] EXCEPT !.inst = FALSE]]]

\* commit_step, with or without a misprediction.
Commit ==
    /\ phase = "commit"
    /\ phase' = "update"
    /\ \/ \E target \in Targets : Flush(target)
       \/ UNCHANGED <<iq, reg_pc_target, pc_src, reg_insts>>
    /\ UNCHANGED <<fetch_unit, index, issued>>

latched(reg) == [reg EXCEPT !.current = reg.next]

UpdateCurrent ==
    /\ phase = "update"
    /\ pc_src' = latched(pc_src)
    /\ reg_pc_target' = latched(reg_pc_target)
    /\ reg_insts' = latched(reg_insts)
    /\ iq' = inst_queue_update_current(iq)
    /\ phase' = "fetch"
    /\ UNCHANGED <<fetch_unit, index, issued>>

Next ==
    \/ Fetch \/ DecodeLatch \/ Stall
    \/ Issue \/ EndIssue \/ Commit \/ UpdateCurrent

Spec == Init /\ [][Next]_vars

-----------------------------------------------------------------------------

\* The structs keep the shapes inst_queue.h and reg.h give them.
FrontTypeOK ==
    /\ fetch_unit \in [reg_npc : Pcs]
    /\ pc_src \in [current : {"NORMAL", "MISPREDICT"}, next : {"NORMAL", "MISPREDICT"}]
    /\ reg_pc_target \in [current : Pcs, next : Pcs]
    /\ reg_insts \in [current : Latches, next : Latches]
    /\ iq \in InstQueueState(Insts)
    /\ phase \in {"fetch", "decode", "issue", "commit", "update"}
    /\ index \in 0 .. ISSUE_WIDTH
    /\ issued \in Insts

\* The instruction that a pc leads to: words 0x0 are passed over.
onward(pc) ==
    LET distance(c) == (c - pc + NUM_PCS) % NUM_PCS
    IN  CHOOSE c \in Code : \A d \in Code : distance(c) <= distance(d)

\* The instructions of the queue in program order.
InQueue ==
    [k \in 1 .. QueueLength(iq.front_next, iq.rear_next) |->
        iq.queue_next[((iq.front_next + k) - 1) % INST_QUEUE_SIZE]]

\* The latches from one on that hold an instruction, and where the first of them is;
\* the path goes on at rest when there is none.
Latched(latches, first) == {i \in first .. ISSUE_WIDTH : latches[i].inst}

Lead(latches, first, rest) ==
    LET held == Latched(latches, first)
    IN  IF held = {} THEN rest
        ELSE latches[CHOOSE i \in held : \A j \in held : i <= j].inst_pc

\* Each instruction of the latches is where the one before it was predicted to lead.
LeadsOn(latches, first, rest) ==
    \A i \in Latched(latches, first) :
        onward(latches[i].npc_pred) = Lead(latches, i + 1, rest)

\* Where the next fetch will be.
fetch_pc == IF pc_src.next = "NORMAL" THEN fetch_unit.reg_npc ELSE reg_pc_target.next

\* Decode takes the current latches after fetch has written the next ones.
Fetching == phase = "decode"

\* The first instruction fetched and not decoded before this cycle, the first not yet
\* in the queue, and the first not yet issued.
fetched_pc == Lead(reg_insts.next, 1, onward(fetch_pc))
decode_pc == IF Fetching THEN Lead(reg_insts.current, index + 1, fetched_pc) ELSE fetched_pc
issue_pc == IF InQueue = << >> THEN decode_pc ELSE InQueue[1].inst_pc

(***************************************************************************)
(* What is fetched and not issued is a path: each instruction is where the *)
(* one before it was predicted to lead, through the queue, both copies of  *)
(* the latches and the next fetch, whatever stalls or redirects them.      *)
(***************************************************************************)
PathIsUnbroken ==
    /\ \A k \in 1 .. Len(InQueue) :
           onward(InQueue[k].npc_pred) =
               IF k < Len(InQueue) THEN InQueue[k + 1].inst_pc ELSE decode_pc
    /\ Fetching => LeadsOn(reg_insts.current, index + 1, fetched_pc)
    /\ LeadsOn(reg_insts.next, 1, onward(fetch_pc))

\* How many instructions are fetched and not issued: in the queue, in the latches that
\* decode is working through, and in those of the next decode.
waiting ==
    Len(InQueue) + Cardinality(Latched(reg_insts.next, 1))
        + IF Fetching THEN Cardinality(Latched(reg_insts.current, index + 1)) ELSE 0

\* A flush has asked for another path, and fetch_step has not started it yet.
redirected == pc_src.next = "MISPREDICT"

(***************************************************************************)
(* The front end implements InstStream: issue gets every instruction that  *)
(* is fetched, once and in the order of the predicted path, although fetch *)
(* runs two cycles ahead of it, both stall, and inst_queue_dequeue reads a *)
(* wrapped batch past the end of queue_current.  Only commit_clear drops   *)
(* instructions and starts another path, at its target, and no stall keeps *)
(* the next fetch_step from taking that up.                                *)
(***************************************************************************)
Stream ==
    INSTANCE InstStream WITH
        Pcs <- Pcs, Insts <- Insts, onward <- onward, Width <- ISSUE_WIDTH,
        expected <- issue_pc, waiting <- waiting, decoding <- Fetching,
        redirected <- redirected, target <- reg_pc_target.next

ImplementsStream == Stream!Spec
=============================================================================
