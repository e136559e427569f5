--------------------------- MODULE MCEnvironments ---------------------------
(* Instances of Environments for TLC. *)
EXTENDS Environments, TLC

\* Requests are interchangeable; only for runs without liveness properties.
Symmetry == Permutations(Procs)
=============================================================================
