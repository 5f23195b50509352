----------------------------- MODULE Questions -----------------------------
(***************************************************************************)
(* One round of knowledge base question answering: planning, retrieval in  *)
(* two channels, evidence, the model's reply, streamed or whole, and the   *)
(* record that is kept, while documents and the user's session may be      *)
(* deleted by others, calls fail and the client leaves.                    *)
(* Sources: app/qa/service.py, query_planning.py, retrieval.py, router.py. *)
(***************************************************************************)
EXTENDS Integers, Sequences, FiniteSets, SequencesExt, AnswerParser, HybridRetrieval

CONSTANTS
  MaxText,    (* bound: symbols of a reply                       *)
  MaxPiece,   (* bound: symbols of one piece of a streamed reply *)
  MaxQueries, (* QueryPlanningService.MAX_QUERY_COUNT            *)
  TopK        (* FUSION_TOP_K                                    *)

ASSUME BoundsAssumption == {MaxText, MaxPiece, MaxQueries, TopK} \subseteq Nat

VARIABLES
  mode,     \* the endpoint: "ask" or "stream"
  pc,       \* where the round is
  waiting,  \* channel searches that have not answered
  vector, keyword, similar, \* hits of the channels, and the similar ones
  ranked,   \* the hits by falling RRF score
  evidence, \* the bundle's documents
  level,    \* its evidence level
  text,     \* the reply as received: full_content
  parser,   \* StreamingAnswerParser
  shown,    \* text of the token events
  answer,   \* answer_text, and the answer event
  cited,    \* the citations of the round: files
  found,    \* the session _persist_session has found
  stored    \* the round in qa_messages, or none

hits == <<waiting, vector, keyword, similar, ranked>>
reply == <<text, parser, shown, answer>>
vars == <<mode, pc, hits, evidence, level, reply, cited, found, stored>>

NotStored == [answer |-> <<>>, reason |-> "unsaved", cited |-> <<>>, level |-> "NONE",
              session |-> "none"]

Files == {DocOf[c] : c \in Chunks}
Channels == {"vector", "keyword"}
Texts == UNION {[1..n -> Symbols] : n \in 0..MaxText}
Steps == {"planning", "retrieving", "fetching", "retrieved", "streaming", "answered",
          "storing", "appending", "done", "failed", "left"}

TypeOK ==
  /\ mode \in {"ask", "stream"} /\ pc \in Steps
  /\ waiting \subseteq (1..MaxQueries) \X Channels
  /\ vector \subseteq Chunks /\ keyword \subseteq Chunks /\ similar \subseteq vector
  /\ ranked \in Seq(Chunks)
  /\ evidence \in Seq([entry : Chunks, content : SUBSET Chunks]) /\ level \in Levels
  /\ text \in Seq(Symbols)
  /\ parser \in [buffer : Seq(Symbols), inAnswer : BOOLEAN, done : BOOLEAN,
                 emit : {<<>>}]
  /\ shown \in Seq(Symbols) /\ answer \in Seq(Symbols)
  /\ cited \in Seq(Files) /\ found \in BOOLEAN
  /\ stored \in [answer : Seq(Symbols), cited : Seq(Files), level : Levels,
                 session : {"none", "given", "new"},
                 reason : {"unsaved", "NONE", "NO_EVIDENCE", "LOW_CONFIDENCE"}]

Init ==
  /\ mode \in {"ask", "stream"} /\ pc = "planning"
  /\ waiting = {} /\ vector = {} /\ keyword = {} /\ similar = {} /\ ranked = <<>>
  /\ evidence = <<>> /\ level = "NONE"
  /\ text = <<>> /\ parser = NewParser /\ shown = <<>> /\ answer = <<>>
  /\ cited = <<>> /\ found = FALSE /\ stored = NotStored

-----------------------------------------------------------------------------
(* Planning and retrieval.                                                 *)

\* plan: one to three queries; the question alone if the model cannot be asked
\* or its plan cannot be read. Two channels search for each.
Plan(n) ==
  /\ pc = "planning"
  /\ pc' = "retrieving"
  /\ waiting' = (1..n) \X Channels
  /\ UNCHANGED <<mode, vector, keyword, similar, ranked, evidence, level,
                 reply, cited, found, stored>>

\* _merge_vector_hits of one query: hits may belong to deleted documents.
VectorHits(q, new, close) ==
  /\ pc = "retrieving" /\ <<q, "vector">> \in waiting
  /\ waiting' = waiting \ {<<q, "vector">>}
  /\ vector' = vector \cup new
  /\ similar' = similar \cup close
  /\ UNCHANGED <<mode, pc, keyword, ranked, evidence, level, reply, cited,
                 found, stored>>

\* _merge_keyword_hits; an Elasticsearch error is an empty answer.
KeywordHits(q, new) ==
  /\ pc = "retrieving" /\ <<q, "keyword">> \in waiting
  /\ waiting' = waiting \ {<<q, "keyword">>}
  /\ keyword' = keyword \cup new
  /\ UNCHANGED <<mode, pc, vector, similar, ranked, evidence, level, reply,
                 cited, found, stored>>

\* The candidates by score, the best TopK of them: the scores are abstracted, so
\* any order is possible. Without candidates the bundle is empty.
Rank ==
  /\ pc = "retrieving" /\ waiting = {}
  /\ IF vector \cup keyword = {} THEN pc' = "retrieved" /\ UNCHANGED ranked
     ELSE /\ pc' = "fetching"
          /\ \E all \in SetToSeqs(vector \cup keyword) :
               ranked' = SubSeq(all, 1, IF Len(all) < TopK THEN Len(all) ELSE TopK)
  /\ UNCHANGED <<mode, waiting, vector, keyword, similar, evidence, level,
                 reply, cited, found, stored>>

\* The rows are fetched, without those that are gone by now, with a document that
\* is deleted or retried; the evidence's documents are built and assessed.
Fetch(gone) ==
  /\ pc = "fetching"
  /\ LET rows == {ranked[i] : i \in 1..Len(ranked)} \ gone
         documents == Documents(ranked, rows)
     IN  /\ evidence' = documents
         /\ level' = Assess(documents, ranked, vector, keyword, similar)
  /\ pc' = "retrieved"
  /\ ranked' = <<>> /\ vector' = {} /\ keyword' = {} /\ similar' = {}
  /\ UNCHANGED <<mode, waiting, reply, cited, found, stored>>

FilesOf(documents) == [i \in 1..Len(documents) |-> DocOf[documents[i].entry]]

-----------------------------------------------------------------------------
(* ask_stream.                                                             *)

\* Without evidence the model is not asked; otherwise all evidence is cited.
StreamStart ==
  /\ mode = "stream" /\ pc = "retrieved"
  /\ pc' = IF level = "NONE" THEN "storing" ELSE "streaming"
  /\ cited' = IF level = "NONE" THEN <<>> ELSE FilesOf(evidence)
  /\ evidence' = <<>>
  /\ UNCHANGED <<mode, hits, level, reply, found, stored>>

\* A piece of the reply arrives.
StreamPiece(piece) ==
  /\ mode = "stream" /\ pc = "streaming"
  /\ Len(text) + Len(piece) <= MaxText
  /\ text' = text \o piece
  /\ LET p == Push(parser, piece)
     IN  /\ parser' = [p EXCEPT !.emit = <<>>]
         /\ shown' = shown \o p.emit
  /\ UNCHANGED <<mode, pc, hits, evidence, level, answer, cited, found, stored>>

\* Faulty variant: the record gets the whole reply, parsed again.
StreamEndReparsed ==
  /\ mode = "stream" /\ pc = "streaming"
  /\ shown' = shown \o Flush(parser)
  /\ answer' = ParseResponse(Strip(text))
  /\ parser' = NewParser
  /\ pc' = "storing"
  /\ UNCHANGED <<mode, hits, evidence, level, text, cited, found, stored>>

\* The reply ends: the tail is emitted; if nothing was, the whole is stripped and
\* parsed, unless it is white space.
StreamEnd ==
  /\ mode = "stream" /\ pc = "streaming"
  /\ shown' = shown \o Flush(parser)
  /\ answer' = IF shown' = <<>> /\ Strip(text) # <<>> THEN ParseResponse(Strip(text))
               ELSE shown'
  /\ parser' = NewParser
  /\ pc' = "storing"
  /\ UNCHANGED <<mode, hits, evidence, level, text, cited, found, stored>>

-----------------------------------------------------------------------------
(* ask.                                                                    *)

\* The whole reply, stripped, and the numbers it cites: those of the evidence count.
AskReply(t, numbers) ==
  /\ mode = "ask" /\ pc = "retrieved"
  /\ text' = t
  /\ answer' = ParseResponse(Strip(t))
  /\ cited' = FilesOf(ElementsAt(evidence, numbers))
  /\ evidence' = <<>>
  /\ pc' = "answered"
  /\ UNCHANGED <<mode, hits, level, parser, shown, found, stored>>

\* Faulty variant: only an empty answer is a refusal.
AskRefusesEmpty ==
  /\ pc = "answered"
  /\ IF answer = <<>> THEN cited' = <<>> ELSE UNCHANGED cited
  /\ pc' = "storing"
  /\ UNCHANGED <<mode, hits, evidence, level, reply, found, stored>>

\* No answer, or no evidence: refused, and the reply is discarded.
AskJudge ==
  /\ pc = "answered"
  /\ IF answer = <<>> \/ level = "NONE"
     THEN cited' = <<>> /\ answer' = <<>>
     ELSE UNCHANGED <<cited, answer>>
  /\ pc' = "storing"
  /\ UNCHANGED <<mode, hits, evidence, level, text, parser, shown, found, stored>>

-----------------------------------------------------------------------------
(* _persist_session, in a transaction of its own.                          *)

\* The session the client has named is found, if it is the user's and has not
\* been deleted.
PersistFind(there) ==
  /\ pc = "storing"
  /\ found' = there
  /\ pc' = "appending"
  /\ UNCHANGED <<mode, hits, evidence, level, reply, cited, stored>>

Reason ==
  IF level = "NONE" THEN "NO_EVIDENCE"
  ELSE IF mode = "ask" /\ answer = <<>> THEN "LOW_CONFIDENCE" ELSE "NONE"

\* The question and the answer, in the session found or a new one.
PersistCommit ==
  /\ pc = "appending"
  /\ stored' = [answer |-> answer, reason |-> Reason, cited |-> cited, level |-> level,
                session |-> IF found THEN "given" ELSE "new"]
  /\ pc' = "done"
  /\ UNCHANGED <<mode, hits, evidence, level, reply, cited, found>>

\* An error is swallowed: a foreign key that fails because delete_my_qa_session
\* has removed the session that was found, for one.
PersistFails ==
  /\ pc \in {"storing", "appending"}
  /\ pc' = "done"
  /\ UNCHANGED <<mode, hits, evidence, level, reply, cited, found, stored>>

-----------------------------------------------------------------------------

Abort(step) ==
  /\ pc' = step
  /\ waiting' = {} /\ vector' = {} /\ keyword' = {} /\ similar' = {} /\ ranked' = <<>>
  /\ evidence' = <<>> /\ parser' = NewParser
  /\ UNCHANGED <<mode, level, text, shown, answer, cited, found, stored>>

\* The embedding service, PostgreSQL or the model raises.
RoundFails == pc \in {"retrieving", "fetching", "retrieved", "streaming"} /\ Abort("failed")

\* The client closes a stream: the generator is cancelled where it is.
ClientLeaves == mode = "stream" /\ pc \notin {"done", "failed", "left"} /\ Abort("left")

Next ==
  \/ \E n \in 1..MaxQueries : Plan(n)
  \/ \E q \in 1..MaxQueries, new \in SUBSET Chunks :
       \/ \E close \in SUBSET new : VectorHits(q, new, close)
       \/ KeywordHits(q, new)
  \/ Rank \/ \E gone \in SUBSET Chunks : Fetch(gone)
  \/ StreamStart \/ StreamEnd
  \/ \E n \in 1..MaxPiece : \E piece \in [1..n -> Symbols] : StreamPiece(piece)
  \/ \E t \in Texts, numbers \in SUBSET (0..Len(evidence) + 1) : AskReply(t, numbers)
  \/ AskJudge
  \/ \E there \in BOOLEAN : PersistFind(there)
  \/ PersistCommit \/ PersistFails
  \/ RoundFails \/ ClientLeaves

Spec == Init /\ [][Next]_vars

-----------------------------------------------------------------------------

\* However the reply is cut into pieces, the tokens a client gets are a beginning
\* of the answer the reply will have been seen to contain, and at the end all of
\* it: no symbol of a marker, none of the thinking, none missing.
StreamIsAnswer ==
  mode = "stream" =>
    /\ IsPrefix(shown, AnswerIn(text))
    /\ pc \in {"storing", "appending", "done"} => shown = AnswerIn(text)

\* The two endpoints read a reply alike but for the white space around its answer: from
\* the whole, ask takes the enclosed answer stripped, and the tokens that push has let
\* through, piece by piece, are that answer with what surrounds it. (Without evidence,
\* ask discards what it has read. A reply that breaks off in its answer is read
\* differently, and so is one whose markers enclose nothing but white space.)
ReadAlike ==
  pc \in {"answered", "storing", "appending", "done"}
    /\ Enclosed(text) /\ Strip(AnswerIn(text)) # <<>>
    => answer = IF mode = "stream" THEN AnswerIn(text)
                ELSE IF pc # "answered" /\ level = "NONE" THEN <<>>
                ELSE Strip(AnswerIn(text))

\* The record says what the user was told: the tokens that were streamed, or the
\* answer parsed afterwards if there were none.
StoredIsShown ==
  stored # NotStored =>
    /\ stored.answer = answer /\ stored.cited = cited /\ stored.level = level
    /\ shown # <<>> => stored.answer = shown

\* A round without evidence is a refusal, in the record and for the user: no
\* answer and no citation, whatever the model has said.
NothingWithoutEvidence ==
  pc \in {"storing", "appending", "done"} /\ level = "NONE"
    => answer = <<>> /\ cited = <<>> /\ stored.reason \in {"NO_EVIDENCE", "unsaved"}

\* Evidence is cited with the file and the index of a passage it contains, although
\* any hit may have lost its row, before and during the retrieval.
EvidenceIsAttributed ==
  \A i \in 1..Len(evidence) : evidence[i].entry \in evidence[i].content

=============================================================================
