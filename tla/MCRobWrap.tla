------------------------------ MODULE MCRobWrap ------------------------------
(* RobCycle with three slots, and without the flushes MCRobCycle has: see MCRobWrap.cfg. *)
EXTENDS RobCycle

MCWords == {0, 1}
MCDests == {1}
MCPcs == {0}
MCTargets == {}
MCTypes == {"AL", "STORE_WORD"}
=============================================================================
