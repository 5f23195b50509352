------------------------- MODULE MCGroupMembership -------------------------
(***************************************************************************)
(* GroupMembership for TLC: requests, tickets and documents are alike.     *)
(***************************************************************************)
EXTENDS GroupMembership, TLC

Symmetry == Permutations(Requests) \cup Permutations(Tickets) \cup Permutations(Docs)

=============================================================================
