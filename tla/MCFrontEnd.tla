------------------------------ MODULE MCFrontEnd -------------------------------
(* The front end on three words, the last of them 0x0: see MCFrontEnd.cfg. *)
EXTENDS FrontEnd

MCCode == {0, 1}

\* A loop, and a branch into the zero words.
MCTargets == {0, 2}
=============================================================================
