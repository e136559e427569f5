----------------------------- MODULE MCWorkspace -----------------------------
(* Symmetry for model checking safety of Workspace: nothing depends on names. *)
EXTENDS Workspace, TLC

Symmetry == Permutations(Requests) \cup Permutations(Files)
=============================================================================
