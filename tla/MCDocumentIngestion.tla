------------------------ MODULE MCDocumentIngestion ------------------------
(* DocumentIngestion for TLC. *)
EXTENDS DocumentIngestion, TLC

\* Documents and request slots are interchangeable; jobs are ordered.
Symmetry == Permutations(Docs) \cup Permutations(Deleters)
              \cup Permutations(Workers)

=============================================================================
