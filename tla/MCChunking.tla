----------------------------- MODULE MCChunking -----------------------------
(***************************************************************************)
(* Chunking for TLC: all documents of up to MaxLines lines.                *)
(***************************************************************************)
EXTENDS Chunking, Integers, Sequences

CONSTANT MaxLines

VARIABLE document

Lines == [kind : {"text"}, len : {1, 4, 11}]
           \cup [kind : {"blank"}, len : {0}]
           \cup [kind : {"heading", "fence"}, len : {3}]

Init == document = <<>>
\* A document grows line by line, so that each is a state.
Next == Len(document) < MaxLines /\ \E l \in Lines : document' = Append(document, l)
Spec == Init /\ [][Next]_document

SectionsOf == {Sections(document)[i] : i \in 1..Len(Sections(document))}

\* What chunking.py promises by cutting sections, segments and sentences with an
\* overlap: every character of a section is in one of its chunks.
Complete == \A s \in SectionsOf : NothingIsLost(s)

=============================================================================
