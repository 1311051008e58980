-------------------------- MODULE MCTallyRefinement --------------------------
(* TallyRefinement over the instance of MCTallyHandler.                   *)
EXTENDS TallyRefinement, MCTallyHandler
=============================================================================
