----------------------------- MODULE MCRobCycle ------------------------------
(* RobCycle on a small instance: see MCRobCycle.cfg. *)
EXTENDS RobCycle

MCWords == {0, 1}
MCDests == {1}
MCPcs == {0}
MCTargets == {0, 1}

\* One type of each way to finish: by the bus, by the branch unit, by both parts of a store.
MCTypes == {"AL", "BRANCH", "JUMP", "STORE_WORD"}
=============================================================================
