------------------------------- MODULE RobFifo -------------------------------
(***************************************************************************)
(* What a reorder buffer promises, without slots, copies or cursors: a     *)
(* bounded queue of instructions in program order.  An instruction enters  *)
(* unfinished, changes only until it is finished, and leaves only from the *)
(* front and finished; a mispredicted one takes all its followers with it. *)
(***************************************************************************)
EXTENDS Integers, Sequences

CONSTANTS Capacity,              \* how many instructions may be in flight
          Entry,                 \* the instructions, records with at least the fields
                                 \* ready, op_type and inst_pc
          Mispredicted(_)        \* whether a finished instruction refutes its prediction

VARIABLES queue,                 \* the instructions in flight, oldest first
          retired                \* the instruction that left last, or, after a while, nothing

fifoVars == <<queue, retired>>

Init == queue = << >> /\ retired = << >>

Enter ==
    /\ Len(queue) < Capacity
    /\ queue' \in Seq(Entry)
    /\ Len(queue') = Len(queue) + 1
    /\ \A i \in 1 .. Len(queue) : queue'[i] = queue[i]
    /\ ~queue'[Len(queue')].ready
    /\ UNCHANGED retired

\* Results arrive for any number of unfinished instructions at once.
Progress ==
    /\ Len(queue') = Len(queue)
    /\ queue' \in Seq(Entry)
    /\ \A i \in 1 .. Len(queue) :
           IF queue[i].ready
           THEN queue'[i] = queue[i]
           ELSE /\ queue'[i].op_type = queue[i].op_type
                /\ queue'[i].inst_pc = queue[i].inst_pc
                /\ queue'[i].npc_pred = queue[i].npc_pred
    /\ UNCHANGED retired

Retire ==
    /\ queue # << >>
    /\ Head(queue).ready
    /\ retired' = <<Head(queue)>>
    /\ queue' = IF Mispredicted(Head(queue)) THEN << >> ELSE Tail(queue)

Forget == retired' = << >> /\ UNCHANGED queue

Next == Enter \/ Progress \/ Retire \/ Forget

Spec == Init /\ [][Next]_fifoVars
=============================================================================
