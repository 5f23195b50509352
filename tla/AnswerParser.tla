---------------------------- MODULE AnswerParser ----------------------------
(***************************************************************************)
(* Taking the answer out of a reply in the format                          *)
(*   <<<ANSWER>>> ... <<<END>>> <<<THINKING>>> ... <<<END>>> ...           *)
(* A text is a sequence of symbols; the two markers the parsers look for   *)
(* are sequences of several symbols, which also occur elsewhere in texts.  *)
(* Some symbols are white space. A reply in the old JSON format is a text  *)
(* for which OldFormat has the answer that json.loads would find.          *)
(* Source: app/qa/service.py, StreamingAnswerParser and                    *)
(* _parse_delimited_response.                                              *)
(***************************************************************************)
EXTENDS Integers, Sequences, SequencesExt

CONSTANTS
  Symbols,              (* the symbols of a text                           *)
  Blank,                (* those that are white space                      *)
  ANSWER_TAG, END_TAG,  (* the markers                                     *)
  OldFormat             (* the answer of each text in the old JSON format  *)

ASSUME ParserAssumption ==
  /\ ANSWER_TAG \in Seq(Symbols) /\ ANSWER_TAG # <<>>
  /\ END_TAG \in Seq(Symbols) /\ END_TAG # <<>>
  /\ \A i \in 1..Len(ANSWER_TAG) : ANSWER_TAG[i] \notin Blank
  /\ \A i \in 1..Len(END_TAG) : END_TAG[i] \notin Blank
  /\ \A t \in DOMAIN OldFormat : OldFormat[t] \in Seq(Symbols)

\* text.find(tag): positions count from 0, a tag that is not there is at -1.
Find(text, tag) ==
  LET at == {i \in 0..Len(text) - Len(tag) : SubSeq(text, i + 1, i + Len(tag)) = tag}
  IN  IF at = {} THEN -1 ELSE CHOOSE i \in at : \A j \in at : i <= j

\* text[n:], text[:n] and text[-n:].
From(text, n) == SubSeq(text, n + 1, Len(text))
Upto(text, n) == SubSeq(text, 1, n)
LastOf(text, n) == IF Len(text) <= n THEN text ELSE From(text, Len(text) - n)

\* text.strip().
Strip(text) ==
  LET solid == {i \in 1..Len(text) : text[i] \notin Blank}
      first == CHOOSE i \in solid : \A j \in solid : i <= j
      last == CHOOSE i \in solid : \A j \in solid : j <= i
  IN  IF solid = {} THEN <<>> ELSE From(Upto(text, last), first - 1)

\* StreamingAnswerParser: its state, and what a call has emitted.
NewParser == [buffer |-> <<>>, inAnswer |-> FALSE, done |-> FALSE, emit |-> <<>>]

\* Faulty variant: nothing is held back for an END_TAG that is still incomplete.
EmitAll(p) == [p EXCEPT !.emit = p.buffer, !.buffer = <<>>]

\* The buffer but for a tail that may be the beginning of END_TAG.
EmitSafe(p) ==
  LET n == Len(p.buffer) - Len(END_TAG)
  IN  IF n <= 0 THEN [p EXCEPT !.emit = <<>>]
      ELSE [p EXCEPT !.emit = Upto(p.buffer, n), !.buffer = LastOf(@, Len(END_TAG))]

\* The part of push for a parser that is inside the answer.
PushAnswer(p) ==
  LET end == Find(p.buffer, END_TAG)
  IN  IF end # -1
      THEN [p EXCEPT !.done = TRUE, !.emit = Upto(p.buffer, end), !.buffer = <<>>]
      ELSE EmitSafe(p)

\* push(text).
Push(p, text) ==
  IF p.done THEN [p EXCEPT !.emit = <<>>]
  ELSE LET buffer == p.buffer \o text
           idx == Find(buffer, ANSWER_TAG)
       IN  IF p.inAnswer THEN PushAnswer([p EXCEPT !.buffer = buffer])
           ELSE IF idx = -1
           THEN [p EXCEPT !.buffer = LastOf(buffer, Len(ANSWER_TAG)), !.emit = <<>>]
           ELSE PushAnswer([p EXCEPT !.inAnswer = TRUE,
                                     !.buffer = From(buffer, idx + Len(ANSWER_TAG))])

\* flush().
Flush(p) == IF p.done \/ ~p.inAnswer THEN <<>> ELSE p.buffer

\* Faulty variant: m.group(0), the answer with its markers.
ParseMatch(text) ==
  LET begin == Find(text, ANSWER_TAG)
      end == Find(From(text, begin + Len(ANSWER_TAG)), END_TAG)
  IN  IF begin = -1 \/ end = -1 THEN text
      ELSE From(Upto(text, begin + Len(ANSWER_TAG) + end + Len(END_TAG)), begin)

\* _extract("ANSWER"): what the markers enclose, without white space around it.
Extract(text) ==
  LET begin == Find(text, ANSWER_TAG)
      rest == From(text, begin + Len(ANSWER_TAG))
      end == Find(rest, END_TAG)
  IN  IF begin = -1 \/ end = -1 THEN <<>> ELSE Strip(Upto(rest, end))

\* _parse_delimited_response: without an answer in the markers, that of the old
\* format, or the whole text.
ParseResponse(text) ==
  IF Extract(text) # <<>> THEN Extract(text)
  ELSE IF text \in DOMAIN OldFormat THEN OldFormat[text] ELSE text

-----------------------------------------------------------------------------

\* The answer in a text that has arrived whole: what is between the first
\* ANSWER_TAG and the first END_TAG after it, or the end of the text.
AnswerIn(text) ==
  LET begin == Find(text, ANSWER_TAG)
      rest == From(text, begin + Len(ANSWER_TAG))
      end == Find(rest, END_TAG)
  IN  IF begin = -1 THEN <<>> ELSE IF end = -1 THEN rest ELSE Upto(rest, end)

\* A text whose answer is enclosed in its markers.
Enclosed(text) ==
  LET begin == Find(text, ANSWER_TAG)
      rest == From(text, begin + Len(ANSWER_TAG))
  IN  begin # -1 /\ Find(rest, END_TAG) # -1

=============================================================================
