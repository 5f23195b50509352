-------------------------- MODULE MCModelSettings --------------------------
(***************************************************************************)
(* ModelSettings for TLC: requests and configurations are alike.           *)
(***************************************************************************)
EXTENDS ModelSettings, TLC

Symmetry == Permutations(Requests) \cup Permutations(Models)

=============================================================================
