--------------------------- MODULE MCResourceFeed ---------------------------
(***************************************************************************)
(* Small instances of ResourceFeed for TLC.                                *)
(***************************************************************************)
EXTENDS ResourceFeed, TLC

Symmetry == Permutations(Agent) \cup Permutations(Resource)
NoPatches == {}
OnePatch == {[state |-> "running", observed |-> 2, status |-> "none"]}
=============================================================================
