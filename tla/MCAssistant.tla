---------------------------- MODULE MCAssistant ----------------------------
(* Instances of Assistant for TLC. *)
EXTENDS Assistant

CONSTANTS g1, d1, q1, q2

TwoSearches == {q1, q2}
BanOrDelete == {[action |-> "ban_group", target |-> g1],
                [action |-> "delete_document", target |-> d1]}

=============================================================================
