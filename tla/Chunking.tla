------------------------------ MODULE Chunking ------------------------------
(***************************************************************************)
(* How a parsed document is cut into chunks. A document is a sequence of   *)
(* lines, a line its kind and its number of characters; lines are          *)
(* separated by one newline. What the lines say is abstracted, and a       *)
(* sentence is taken to end with its line.                                 *)
(* Source: app/ingestion/transformers/chunking.py.                         *)
(***************************************************************************)
EXTENDS Integers, Sequences, SequencesExt

CONSTANTS
  Target, (* target_tokens * CHARS_PER_TOKEN              *)
  MaxLen, (* max_tokens * CHARS_PER_TOKEN, at least Target *)
  Overlap (* overlap_tokens * CHARS_PER_TOKEN, less than it *)

Plus(a, b) == a + b

\* Several lines as one text: their lengths, a line's newline counted with it
\* unless it is the last.
Size(text) == FoldLeft(Plus, 0, text)
Join(a, b) ==
  IF a = <<>> THEN b ELSE [a EXCEPT ![Len(a)] = @ + 1] \o b

-----------------------------------------------------------------------------

\* _split_by_sections: a heading begins a section; what is before the first
\* heading is one. A section that is followed by another ends with a newline,
\* which split("\n") reads as an empty line.
SectionStep(sections, line) ==
  IF sections = <<>> THEN <<<<line>>>>
  ELSE LET open == sections[Len(sections)]
       IN  IF line.kind = "heading"
           THEN Append([sections EXCEPT ![Len(sections)] =
                          Append(open, [kind |-> "blank", len |-> 0])], <<line>>)
           ELSE [sections EXCEPT ![Len(sections)] = Append(open, line)]
Sections(document) == FoldLeft(SectionStep, <<>>, document)

\* Characters of a section: its lines and the newlines between them.
AddLine(n, line) == n + line.len
SectionSize(section) == FoldLeft(AddLine, 0, section) + Len(section) - 1

\* _split_by_structural_boundaries: a blank line outside a code fence ends a
\* segment.
SegmentStep(s, line) ==
  LET fence == s.fence # (line.kind = "fence")
      current == Join(s.current, <<line.len>>)
  IN  IF ~fence /\ line.kind = "blank"
      THEN [fence |-> fence, current |-> <<>>, done |-> Append(s.done, current)]
      ELSE [fence |-> fence, current |-> current, done |-> s.done]
Segments(section) ==
  LET s == FoldLeft(SegmentStep, [fence |-> FALSE, current |-> <<>>, done |-> <<>>],
                    section)
  IN  IF s.current = <<>> THEN s.done ELSE Append(s.done, s.current)

\* _merge_short_segments: segments are joined until they reach the target.
MergeStep(s, segment) ==
  IF Size(s.pending) + Size(segment) < Target
  THEN [s EXCEPT !.pending = IF Size(@) = 0 THEN segment ELSE Join(@, segment)]
  ELSE [pending |-> segment,
        done |-> IF Size(s.pending) = 0 THEN s.done ELSE Append(s.done, s.pending)]
MergeShort(segments) ==
  LET s == FoldLeft(MergeStep, [pending |-> <<>>, done |-> <<>>], segments)
      merged == IF Size(s.pending) = 0 THEN s.done ELSE Append(s.done, s.pending)
  IN  IF merged = <<>> THEN segments ELSE merged

\* _split_section and _split_by_sentences: a segment longer than MaxLen is split.
Split(pieces, segment) ==
  pieces \o IF Size(segment) > MaxLen THEN segment ELSE <<Size(segment)>>
Pieces(segments) == FoldLeft(Split, <<>>, segments)

\* overlap_start.
Back(end) == IF end > Overlap THEN end - Overlap ELSE 0

\* _greedy_merge, one piece: a chunk that would grow beyond MaxLen is closed, and
\* the next begins Overlap characters before its end, with length 0.
GreedyStep(s, piece) ==
  IF s.len + piece > MaxLen /\ s.len > 0
  THEN [done |-> Append(s.done, [start |-> s.start, end |-> s.start + s.len]),
        start |-> Back(s.start + s.len), len |-> piece]
  ELSE [s EXCEPT !.len = @ + piece]

\* _greedy_merge: the last chunk is what is left.
Greedy(pieces) ==
  LET s == FoldLeft(GreedyStep, [done |-> <<>>, start |-> 0, len |-> 0], pieces)
  IN  IF s.len > 0 THEN Append(s.done, [start |-> s.start, end |-> s.start + s.len])
      ELSE s.done

\* The chunks of a section, relative to its start.
Ranges(section) == Greedy(Pieces(MergeShort(Segments(section))))

-----------------------------------------------------------------------------

Covered(section) == LET r == Ranges(section) IN IF r = <<>> THEN 0 ELSE r[Len(r)].end

\* Everything of a section is in one of its chunks, but for the newlines between
\* segments: chunks overlap, they do not leave text out.
NothingIsLost(section) ==
  SectionSize(section) - Covered(section) <= Len(Segments(section)) - 1

=============================================================================
