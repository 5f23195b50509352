------------------------------ MODULE MCUpload ------------------------------
(***************************************************************************)
(* Upload for TLC: who owns a session.                                     *)
(***************************************************************************)
EXTENDS Upload

CONSTANT u1

\* All sessions are one user's.
OneOwner == [s \in Sessions |-> u1]

=============================================================================
