------------------------------ MODULE InstStream -------------------------------
(***************************************************************************)
(* What the front end promises the issue unit, without latches or queue:   *)
(* the instructions on the predicted path, each once and in order.  Only a *)
(* flush drops what is fetched and starts another path, at its target, and *)
(* fetch takes that up before anything is issued or flushed again.         *)
(***************************************************************************)
EXTENDS Naturals

CONSTANTS Pcs,                   \* program counters
          Insts,                 \* records with at least inst_pc and npc_pred
          onward(_),             \* the first instruction at or behind a program counter
          Width                  \* the instructions fetched at a time

VARIABLES expected,              \* where the next instruction is
          waiting,               \* how many are fetched and not issued
          decoding,              \* the batch fetched last is being decoded
          issued,                \* the instruction issued last
          redirected,            \* a flush has not been taken up yet
          target                 \* where the last flush leads

streamVars == <<expected, waiting, decoding, issued, redirected, target>>

Init ==
    /\ expected = onward(0)
    /\ waiting = 0
    /\ decoding = FALSE
    /\ issued \in Insts
    /\ redirected = FALSE
    /\ target \in Pcs

Fetch ==
    /\ ~decoding
    /\ decoding' = TRUE
    /\ redirected' = FALSE
    /\ \E n \in 0 .. Width : waiting' = waiting + n
    /\ UNCHANGED <<expected, issued, target>>

\* Decode ends: what waits, waits in the queue or for the next decode.
Decoded ==
    /\ decoding
    /\ decoding' = FALSE
    /\ UNCHANGED <<expected, waiting, issued, redirected, target>>

Issue ==
    /\ ~decoding /\ ~redirected
    /\ waiting > 0
    /\ waiting' = waiting - 1
    /\ \E inst \in Insts :
        /\ inst.inst_pc = expected
        /\ issued' = inst
        /\ expected' = onward(inst.npc_pred)
    /\ UNCHANGED <<decoding, redirected, target>>

Redirect ==
    /\ ~decoding /\ ~redirected
    /\ redirected' = TRUE
    /\ waiting' = 0
    /\ \E pc \in Pcs : target' = pc /\ expected' = onward(pc)
    /\ UNCHANGED <<decoding, issued>>

Next == Fetch \/ Decoded \/ Issue \/ Redirect

Spec == Init /\ [][Next]_streamVars
=============================================================================
