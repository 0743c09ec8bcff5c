------------------------------ MODULE RobHistory -------------------------------
(***************************************************************************)
(* The superscalar simulator drives its reorder buffer as RobCycle does:   *)
(* issue unit, functional units and commit unit together are one of the    *)
(* cores under which RobCycle checks, and RobCycleProofs proves, what the  *)
(* buffer keeps.  What RobCycle remembers of a cycle and Pipeline does not *)
(* is kept in history variables.                                           *)
(***************************************************************************)
EXTENDS PipelineProperties

CONSTANT LAST_PC                 \* nothing is fetched or predicted behind it

VARIABLES issued, committed, commit_num, retired

historyVars == <<vars, issued, committed, commit_num, retired>>

HistoryInit ==
    /\ Init
    /\ issued = 0
    /\ committed = 0
    /\ commit_num = 0
    /\ retired = << >>

Dequeues == phase = "commit" /\ rob_ready(rob, index)

HistoryNext ==
    /\ Next
    /\ issued' = CASE phase = "issue" -> IF index' > index THEN issued + 1 ELSE issued
                   [] phase = "update" -> 0
                   [] OTHER -> issued
    /\ commit_num' = CASE phase = "commit" -> commit_num + 1
                       [] phase = "update" -> 0
                       [] OTHER -> commit_num
    /\ committed' = CASE Dequeues -> committed + 1
                      [] phase = "update" -> 0
                      [] OTHER -> committed
    /\ retired' = CASE Dequeues -> <<Entry>>
                    [] phase = "update" -> << >>
                    [] OTHER -> retired

HistorySpec == HistoryInit /\ [][HistoryNext]_historyVars

-----------------------------------------------------------------------------

\* Fetch and decode do not touch the buffer: RobCycle stands before its next batch.
CyclePhase ==
    CASE phase \in {"fetch", "decode", "failed", "halted", "issue"} -> "issue"
      [] phase \in {"alu", "branch", "memory", "address", "capture"} -> "execute"
      [] OTHER -> phase

InstPcs == {pc \in 0 .. LAST_PC : pc % 4 = 0}

Cycle ==
    INSTANCE RobCycle WITH
        phase <- CyclePhase,
        pending <- {id \in RobIds : Places(id) # {}},
        Words <- Words, Types <- OpType, Dests <- Regs,
        Pcs <- InstPcs, Targets <- InstPcs

(***************************************************************************)
(* What the issue unit enqueues fits and has operands that are still to    *)
(* come; every id is answered at most once, by a unit that got it in an    *)
(* earlier cycle, after a flush by none, and with what its type of         *)
(* instruction needs: all that RobCycle asks of the core.                  *)
(***************************************************************************)
ImplementsRobCycle == Cycle!Spec
=============================================================================
