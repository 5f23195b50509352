---------------------------- MODULE MCQuestions ----------------------------
(***************************************************************************)
(* Questions for TLC: three chunks of two documents, whose ids follow each *)
(* other, markers that begin alike and overlap themselves, and two         *)
(* replies in the old format, one without an answer.                       *)
(***************************************************************************)
EXTENDS Questions

MCChunks == 1..3
MCDocOf == [c \in MCChunks |-> IF c < 3 THEN "a" ELSE "b"]
MCIndexOf == [c \in MCChunks |-> IF c < 3 THEN c - 1 ELSE 0]
MCAnswerTag == <<"<", "<">>
MCEndTag == <<"<", "E">>
MCSymbols == {"<", "E", " "}
MCBlank == {" "}
MCOldFormat == [t \in {<<"E">>, <<"<">>} |-> IF t = <<"E">> THEN <<>> ELSE <<"E">>]

=============================================================================
