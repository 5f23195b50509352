-------------------------- MODULE QuestionsProofs --------------------------
(***************************************************************************)
(* The properties of a round of question answering, for any markers, any   *)
(* reply, any way of cutting it into pieces, any number of queries and any *)
(* finite set of chunks.                                                   *)
(***************************************************************************)
EXTENDS Questions, OperatorProofs

-----------------------------------------------------------------------------
(* The inductive invariant.                                                *)

\* Before the reply begins there is nothing of it.
NothingReceived ==
  pc \in {"planning", "retrieving", "fetching", "retrieved"}
    => text = <<>> /\ parser = NewParser /\ shown = <<>> /\ answer = <<>> /\ cited = <<>>

\* While it is streamed, the parser is in step with it, and there is evidence.
InStep ==
  pc = "streaming" => /\ mode = "stream" /\ level # "NONE" /\ answer = <<>>
                      /\ Relates(parser, text, shown)

\* Nothing is streamed to a client that asks for the whole.
NotStreamed ==
  /\ mode = "ask" => shown = <<>>
  /\ pc = "answered" => mode = "ask"

\* Once it has been streamed, the answer is what was shown, if anything was.
AnswerIsShown ==
  pc \in {"storing", "appending", "done"} => shown = <<>> \/ answer = shown

\* The record is the last thing written.
StoredAtTheEnd ==
  stored = NotStored \/ pc = "done"

\* With these the properties of a round are inductive.
IInv ==
  /\ TypeOK /\ NothingReceived /\ InStep /\ NotStreamed /\ AnswerIsShown /\ StoredAtTheEnd
  /\ StreamIsAnswer /\ ReadAlike /\ StoredIsShown /\ NothingWithoutEvidence
  /\ EvidenceIsAttributed

-----------------------------------------------------------------------------
(* Types of what the actions compute.                                      *)

LEMMA ExtractType ==
  ASSUME NEW t \in Seq(Symbols)
  PROVE  Extract(t) \in Seq(Symbols)
  <1> DEFINE begin == Find(t, ANSWER_TAG)
             rest == From(t, begin + Len(ANSWER_TAG))
             end == Find(rest, END_TAG)
  <1>1. CASE begin = -1 \/ end = -1
    BY <1>1, EmptySeq DEF Extract
  <1>2. CASE ~(begin = -1 \/ end = -1)
    <2>1. begin + Len(ANSWER_TAG) \in 0..Len(t)
      BY <1>2, TagLengths, FindRoom
    <2>2. rest \in Seq(Symbols)
      <3> HIDE DEF begin
      <3>1. PICK n \in 0..Len(t) : n = begin + Len(ANSWER_TAG)
        BY <2>1
      <3> QED BY <3>1, FromProperties
    <2>3. end \in 0..Len(rest)
      <3> HIDE DEF rest
      <3> QED BY <1>2, <2>2, TagLengths, FindRoom
    <2>4. Strip(Upto(rest, end)) \in Seq(Symbols)
      <3> HIDE DEF rest, end
      <3> QED BY <2>2, <2>3, UptoProperties, StripType
    <2> QED BY <1>2, <2>4 DEF Extract
  <1> QED BY <1>1, <1>2

LEMMA ParseResponseType ==
  ASSUME NEW t \in Seq(Symbols)
  PROVE  ParseResponse(Strip(t)) \in Seq(Symbols)
  <1>1. Strip(t) \in Seq(Symbols)
    BY StripType
  <1> QED BY <1>1, ExtractType, ParserAssumption DEF ParseResponse

LEMMA AssessType ==
  ASSUME NEW d, NEW r, NEW v, NEW k, NEW s
  PROVE  Assess(d, r, v, k, s) \in Levels
  BY DEF Assess, Levels

LEMMA FilesOfType ==
  ASSUME NEW X, X \subseteq Evidence, NEW d \in Seq(X)
  PROVE  FilesOf(d) \in Seq(Files)
  <1>1. \A i \in 1..Len(d) : d[i] \in X
    BY ElementOfSeq
  <1>2. \A i \in 1..Len(d) : DocOf[d[i].entry] \in Files
    BY <1>1 DEF Evidence, Files
  <1>3. Len(d) \in Nat
    OBVIOUS
  <1> QED BY <1>2, <1>3 DEF FilesOf

LEMMA CitedType ==
  ASSUME NEW d \in Seq(Evidence), NEW numbers
  PROVE  FilesOf(ElementsAt(d, numbers)) \in Seq(Files)
  <1> DEFINE X == {d[i] : i \in numbers \cap 1..Len(d)}
  <1>1. X \subseteq Evidence
    BY ElementOfSeq
  <1>2. ElementsAt(d, numbers) \in Seq(X)
    BY ElementsAtType
  <1> HIDE DEF X
  <1> QED BY <1>1, <1>2, FilesOfType

LEMMA TextsAreSequences == Texts \subseteq Seq(Symbols)
  <1>1. \A n \in 0..MaxText : [1..n -> Symbols] \subseteq Seq(Symbols)
    <2> SUFFICES ASSUME NEW n \in 0..MaxText, NEW f \in [1..n -> Symbols]
                 PROVE  f \in Seq(Symbols)
      OBVIOUS
    <2>1. n \in Nat
      BY BoundsAssumption
    <2> QED BY <2>1
  <1> QED BY <1>1 DEF Texts

\* The best of any order of the candidates.
LEMMA RankedType ==
  ASSUME NEW C \in SUBSET Chunks, NEW all \in SetToSeqs(C)
  PROVE  SubSeq(all, 1, IF Len(all) < TopK THEN Len(all) ELSE TopK) \in Seq(Chunks)
  <1>1. Cardinality(C) \in Nat
    BY ChunksAssumption, FS_Subset, FS_CardinalityType
  <1>2. all \in [1..Cardinality(C) -> C]
    BY DEF SetToSeqs
  <1>3. all \in Seq(Chunks) /\ Len(all) \in Nat
    BY <1>1, <1>2
  <1> DEFINE k == IF Len(all) < TopK THEN Len(all) ELSE TopK
  <1>4. k \in Int /\ k <= Len(all)
    BY <1>3, BoundsAssumption
  <1>5. \A i \in 1..k : all[i] \in Chunks
    BY <1>3, <1>4, ElementOfSeq
  <1> HIDE DEF k
  <1>6. SubSeq(all, 1, k) \in Seq(Chunks)
    BY <1>4, <1>5, SubSeqProperties
  <1> QED BY <1>6 DEF k

-----------------------------------------------------------------------------
(* Its preservation: one lemma for each action.                            *)

BeforeReply == {"planning", "retrieving", "fetching", "retrieved"}

LEMMA EmptyReply ==
  /\ <<>> \in Seq(Symbols) /\ AnswerIn(<<>>) = <<>> /\ IsPrefix(<<>>, AnswerIn(<<>>))
  /\ ~Enclosed(<<>>)
  <1>1. <<>> \in Seq(Symbols)
    BY EmptySeq
  <1>2. Flush(NewParser) = <<>>
    BY DEF Flush, NewParser
  <1>3. <<>> \o <<>> = <<>>
    BY <1>1, ConcatEmptySeq
  <1>4. <<>> \o Flush(NewParser) = AnswerIn(<<>>)
    BY <1>1, NewParserRelates, ShownIsAnswer
  <1>5. AnswerIn(<<>>) = <<>>
    BY <1>2, <1>3, <1>4
  <1>6. ~NewParser.inAnswer /\ ~NewParser.done
    BY DEF NewParser
  <1>7. Find(<<>>, ANSWER_TAG) = -1
    BY <1>6, NewParserRelates DEF Relates, Searching, Answering, Ended
  <1>8. ~Enclosed(<<>>)
    BY <1>7 DEF Enclosed
  <1> QED BY <1>1, <1>5, <1>8, EmptyPrefix

LEMMA InitInv == Init => IInv
  <1> SUFFICES ASSUME Init PROVE IInv
    OBVIOUS
  <1>1. /\ <<>> \in Seq(Symbols) /\ <<>> \in Seq(Chunks) /\ <<>> \in Seq(Files)
        /\ <<>> \in Seq([entry : Chunks, content : SUBSET Chunks]) /\ Len(<<>>) = 0
    BY EmptySeq
  <1>2. TypeOK
    <2>1. NotStored \in [answer : Seq(Symbols), cited : Seq(Files), level : Levels,
                         session : {"none", "given", "new"},
                         reason : {"unsaved", "NONE", "NO_EVIDENCE", "LOW_CONFIDENCE"}]
      BY <1>1 DEF NotStored, Levels
    <2>2. NewParser \in [buffer : Seq(Symbols), inAnswer : BOOLEAN, done : BOOLEAN,
                         emit : {<<>>}]
      BY <1>1 DEF NewParser
    <2> QED BY <1>1, <2>1, <2>2 DEF Init, TypeOK, Steps, Levels
  <1>3. NothingReceived /\ InStep /\ NotStreamed /\ AnswerIsShown /\ StoredAtTheEnd
    BY DEF Init, NothingReceived, InStep, NotStreamed, AnswerIsShown, StoredAtTheEnd
  <1>4. StreamIsAnswer /\ ReadAlike
    BY EmptyReply DEF Init, StreamIsAnswer, ReadAlike
  <1>5. StoredIsShown /\ NothingWithoutEvidence
    BY DEF Init, StoredIsShown, NothingWithoutEvidence
  <1>6. EvidenceIsAttributed
    BY <1>1 DEF Init, EvidenceIsAttributed
  <1> QED BY <1>2, <1>3, <1>4, <1>5, <1>6 DEF IInv

-----------------------------------------------------------------------------

\* A step of planning or retrieval leaves the reply and the record alone.
LEMMA RetrievalStep ==
  ASSUME IInv, TypeOK', EvidenceIsAttributed', pc \in BeforeReply, pc' \in BeforeReply,
         UNCHANGED <<mode, reply, cited, stored>>
  PROVE  IInv'
  <1>1. /\ text = <<>> /\ parser = NewParser /\ shown = <<>> /\ answer = <<>> /\ cited = <<>>
        /\ stored = NotStored
    BY DEF IInv, NothingReceived, StoredAtTheEnd, BeforeReply
  <1>2. /\ text' = <<>> /\ parser' = NewParser /\ shown' = <<>> /\ answer' = <<>>
        /\ cited' = <<>> /\ stored' = NotStored
    BY <1>1 DEF reply
  <1>3. NothingReceived' /\ InStep' /\ NotStreamed' /\ AnswerIsShown' /\ StoredAtTheEnd'
    BY <1>2 DEF BeforeReply, NothingReceived, InStep, NotStreamed, AnswerIsShown, StoredAtTheEnd
  <1>4. StreamIsAnswer' /\ ReadAlike'
    BY <1>2, EmptyReply DEF BeforeReply, StreamIsAnswer, ReadAlike
  <1>5. StoredIsShown' /\ NothingWithoutEvidence'
    BY <1>2 DEF BeforeReply, StoredIsShown, NothingWithoutEvidence
  <1> QED BY <1>3, <1>4, <1>5 DEF IInv

LEMMA PlanInv ==
  ASSUME IInv, NEW n \in 1..MaxQueries, Plan(n)
  PROVE  IInv'
  <1>1. (1..n) \X Channels \subseteq (1..MaxQueries) \X Channels
    <2>1. 1..n \subseteq 1..MaxQueries
      BY BoundsAssumption
    <2> QED BY <2>1
  <1>2. TypeOK'
    BY <1>1 DEF IInv, TypeOK, Plan, Steps, reply
  <1>3. EvidenceIsAttributed'
    BY DEF IInv, Plan, EvidenceIsAttributed
  <1> QED BY <1>2, <1>3, RetrievalStep DEF Plan, BeforeReply

LEMMA VectorHitsInv ==
  ASSUME IInv, NEW q \in 1..MaxQueries, NEW new \in SUBSET Chunks, NEW close \in SUBSET new,
         VectorHits(q, new, close)
  PROVE  IInv'
  <1>1. TypeOK'
    BY DEF IInv, TypeOK, VectorHits, Steps, reply
  <1>2. EvidenceIsAttributed'
    BY DEF IInv, VectorHits, EvidenceIsAttributed
  <1> QED BY <1>1, <1>2, RetrievalStep DEF VectorHits, BeforeReply

LEMMA KeywordHitsInv ==
  ASSUME IInv, NEW q \in 1..MaxQueries, NEW new \in SUBSET Chunks, KeywordHits(q, new)
  PROVE  IInv'
  <1>1. TypeOK'
    BY DEF IInv, TypeOK, KeywordHits, Steps, reply
  <1>2. EvidenceIsAttributed'
    BY DEF IInv, KeywordHits, EvidenceIsAttributed
  <1> QED BY <1>1, <1>2, RetrievalStep DEF KeywordHits, BeforeReply

LEMMA RankInv ==
  ASSUME IInv, Rank
  PROVE  IInv'
  <1>1. ranked' \in Seq(Chunks)
    <2>1. CASE vector \cup keyword = {}
      BY <2>1 DEF IInv, TypeOK, Rank
    <2>2. CASE vector \cup keyword # {}
      <3>1. vector \cup keyword \in SUBSET Chunks
        BY DEF IInv, TypeOK
      <3>2. PICK all \in SetToSeqs(vector \cup keyword) :
              ranked' = SubSeq(all, 1, IF Len(all) < TopK THEN Len(all) ELSE TopK)
        BY <2>2 DEF Rank
      <3> QED BY <3>1, <3>2, RankedType
    <2> QED BY <2>1, <2>2
  <1>2. pc' \in {"fetching", "retrieved"}
    BY DEF Rank
  <1>3. TypeOK'
    BY <1>1, <1>2 DEF IInv, TypeOK, Rank, Steps, reply
  <1>4. EvidenceIsAttributed'
    BY DEF IInv, Rank, EvidenceIsAttributed
  <1> QED BY <1>2, <1>3, <1>4, RetrievalStep DEF Rank, BeforeReply

LEMMA FetchInv ==
  ASSUME IInv, NEW gone \in SUBSET Chunks, Fetch(gone)
  PROVE  IInv'
  <1> DEFINE rows == {ranked[i] : i \in 1..Len(ranked)} \ gone
  <1>1. ranked \in Seq(Chunks) /\ rows \in SUBSET Chunks
    <2>1. ranked \in Seq(Chunks)
      BY DEF IInv, TypeOK
    <2>2. \A i \in 1..Len(ranked) : ranked[i] \in Chunks
      BY <2>1, ElementOfSeq
    <2> QED BY <2>1, <2>2
  <1>2. /\ evidence' = Documents(ranked, rows)
        /\ level' = Assess(Documents(ranked, rows), ranked, vector, keyword, similar)
    BY DEF Fetch
  <1> HIDE DEF rows
  <1>3. evidence' \in Seq(Evidence) /\ EvidenceIsAttributed'
    BY <1>1, <1>2, DocumentsAttributed DEF EvidenceIsAttributed
  <1>4. level' \in Levels
    BY <1>2, AssessType
  <1>5. <<>> \in Seq(Chunks)
    BY EmptySeq
  <1>6. TypeOK'
    BY <1>3, <1>4, <1>5 DEF IInv, TypeOK, Fetch, Steps, reply, Evidence
  <1> QED BY <1>3, <1>6, RetrievalStep DEF Fetch, BeforeReply

LEMMA StreamStartInv ==
  ASSUME IInv, StreamStart
  PROVE  IInv'
  <1>1. /\ text = <<>> /\ parser = NewParser /\ shown = <<>> /\ answer = <<>>
        /\ stored = NotStored /\ pc = "retrieved" /\ mode = "stream"
    BY DEF IInv, StreamStart, NothingReceived, StoredAtTheEnd
  <1>2. /\ text' = <<>> /\ parser' = NewParser /\ shown' = <<>> /\ answer' = <<>>
        /\ stored' = NotStored /\ mode' = "stream" /\ level' = level
        /\ evidence' = <<>>
        /\ \/ level = "NONE" /\ pc' = "storing" /\ cited' = <<>>
           \/ level # "NONE" /\ pc' = "streaming" /\ cited' = FilesOf(evidence)
    BY <1>1 DEF StreamStart, reply
  <1>3. /\ <<>> \in Seq(Files) /\ FilesOf(evidence) \in Seq(Files)
        /\ <<>> \in Seq([entry : Chunks, content : SUBSET Chunks]) /\ Len(<<>>) = 0
    BY EmptySeq, FilesOfType DEF IInv, TypeOK, Evidence
  <1>4. TypeOK'
    BY <1>1, <1>2, <1>3 DEF IInv, TypeOK, StreamStart, hits, Steps
  <1>5. NothingReceived' /\ NotStreamed' /\ AnswerIsShown' /\ StoredAtTheEnd'
    BY <1>2 DEF NothingReceived, NotStreamed, AnswerIsShown, StoredAtTheEnd
  <1>6. InStep'
    BY <1>2, NewParserRelates DEF InStep
  <1>7. StreamIsAnswer' /\ ReadAlike'
    BY <1>2, EmptyReply DEF StreamIsAnswer, ReadAlike
  <1>8. StoredIsShown' /\ NothingWithoutEvidence'
    BY <1>2 DEF StoredIsShown, NothingWithoutEvidence, NotStored
  <1>9. EvidenceIsAttributed'
    BY <1>2, <1>3 DEF EvidenceIsAttributed
  <1> QED BY <1>4, <1>5, <1>6, <1>7, <1>8, <1>9 DEF IInv

\* The parser between two calls, and after the next one.
LEMMA ParserTypes ==
  ASSUME TypeOK
  PROVE  /\ parser \in ParserStates /\ text \in Seq(Symbols) /\ shown \in Seq(Symbols)
         /\ \A p \in ParserStates : [p EXCEPT !.emit = <<>>]
              \in [buffer : Seq(Symbols), inAnswer : BOOLEAN, done : BOOLEAN, emit : {<<>>}]
  <1>1. <<>> \in Seq(Symbols)
    BY EmptySeq
  <1>2. parser \in [buffer : Seq(Symbols), inAnswer : BOOLEAN, done : BOOLEAN, emit : {<<>>}]
    BY DEF TypeOK
  <1>3. parser \in ParserStates
    BY <1>1, <1>2 DEF ParserStates
  <1>4. text \in Seq(Symbols) /\ shown \in Seq(Symbols)
    BY DEF TypeOK
  <1>5. \A p \in ParserStates : [p EXCEPT !.emit = <<>>]
              \in [buffer : Seq(Symbols), inAnswer : BOOLEAN, done : BOOLEAN, emit : {<<>>}]
    BY DEF ParserStates
  <1> QED BY <1>3, <1>4, <1>5

LEMMA StreamPieceInv ==
  ASSUME IInv, NEW n \in 1..MaxPiece, NEW piece \in [1..n -> Symbols], StreamPiece(piece)
  PROVE  IInv'
  <1>1. piece \in Seq(Symbols)
    <2>1. n \in Nat
      BY BoundsAssumption
    <2> QED BY <2>1
  <1> DEFINE p == Push(parser, piece)
  <1>2. /\ parser \in ParserStates /\ text \in Seq(Symbols) /\ shown \in Seq(Symbols)
        /\ Relates(parser, text, shown) /\ mode = "stream" /\ pc = "streaming"
        /\ level # "NONE" /\ answer = <<>> /\ stored = NotStored
    BY ParserTypes DEF IInv, InStep, StreamPiece, StoredAtTheEnd
  <1>3. /\ p \in ParserStates
        /\ Relates([p EXCEPT !.emit = <<>>], text \o piece, shown \o p.emit)
    BY <1>1, <1>2, PushRelates
  <1>4. /\ text' = text \o piece /\ parser' = [p EXCEPT !.emit = <<>>]
        /\ shown' = shown \o p.emit
        /\ mode' = "stream" /\ pc' = "streaming" /\ level' = level /\ answer' = <<>>
        /\ stored' = NotStored /\ evidence' = evidence
    BY <1>2 DEF StreamPiece
  <1> HIDE DEF p
  <1>5. /\ text' \in Seq(Symbols) /\ shown' \in Seq(Symbols)
        /\ parser' \in [buffer : Seq(Symbols), inAnswer : BOOLEAN, done : BOOLEAN,
                        emit : {<<>>}]
    <2>1. p.emit \in Seq(Symbols)
      BY <1>3 DEF ParserStates
    <2>2. text \o piece \in Seq(Symbols) /\ shown \o p.emit \in Seq(Symbols)
      BY <1>1, <1>2, <2>1, ConcatProperties
    <2>3. TypeOK
      BY DEF IInv
    <2> QED BY <1>3, <1>4, <2>2, <2>3, ParserTypes
  <1>6. TypeOK'
    BY <1>4, <1>5 DEF IInv, TypeOK, StreamPiece, hits, Steps
  <1>7. Relates(parser', text', shown')
    BY <1>3, <1>4
  <1>8. InStep'
    BY <1>2, <1>4, <1>7 DEF InStep
  <1>9. StreamIsAnswer'
    <2>1. parser' \in ParserStates
      BY <1>5, EmptySeq DEF ParserStates
    <2>2. IsPrefix(shown', AnswerIn(text'))
      BY <1>5, <1>7, <2>1, ShownIsAnswer
    <2> QED BY <1>4, <2>2 DEF StreamIsAnswer
  <1>10. NothingReceived' /\ NotStreamed' /\ AnswerIsShown' /\ StoredAtTheEnd'
    BY <1>4 DEF NothingReceived, NotStreamed, AnswerIsShown, StoredAtTheEnd
  <1>11. ReadAlike' /\ StoredIsShown' /\ NothingWithoutEvidence'
    BY <1>4 DEF ReadAlike, StoredIsShown, NothingWithoutEvidence
  <1>12. EvidenceIsAttributed'
    BY <1>4 DEF IInv, EvidenceIsAttributed
  <1> QED BY <1>6, <1>8, <1>9, <1>10, <1>11, <1>12 DEF IInv

LEMMA StreamEndInv ==
  ASSUME IInv, StreamEnd
  PROVE  IInv'
  <1>1. /\ parser \in ParserStates /\ text \in Seq(Symbols) /\ shown \in Seq(Symbols)
        /\ Relates(parser, text, shown) /\ mode = "stream" /\ pc = "streaming"
        /\ level # "NONE" /\ stored = NotStored
    BY ParserTypes DEF IInv, InStep, StreamEnd, StoredAtTheEnd
  <1>2. /\ AnswerIn(text) \in Seq(Symbols) /\ shown \o Flush(parser) = AnswerIn(text)
    BY <1>1, ShownIsAnswer
  <1>3. /\ shown' = AnswerIn(text) /\ text' = text
        /\ answer' = IF shown' = <<>> /\ Strip(text) # <<>> THEN ParseResponse(Strip(text))
                     ELSE shown'
        /\ parser' = NewParser /\ pc' = "storing" /\ mode' = "stream" /\ level' = level
        /\ stored' = NotStored /\ evidence' = evidence /\ cited' = cited
    BY <1>1, <1>2 DEF StreamEnd
  <1>4. shown' \in Seq(Symbols) /\ answer' \in Seq(Symbols)
    BY <1>1, <1>2, <1>3, ParseResponseType
  <1>5. parser' \in [buffer : Seq(Symbols), inAnswer : BOOLEAN, done : BOOLEAN,
                     emit : {<<>>}]
    BY <1>3, EmptySeq DEF NewParser
  <1>6. TypeOK'
    BY <1>3, <1>4, <1>5 DEF IInv, TypeOK, StreamEnd, hits, Steps
  <1>7. /\ NothingReceived' /\ InStep' /\ NotStreamed' /\ AnswerIsShown' /\ StoredAtTheEnd'
        /\ StoredIsShown'
    BY <1>3 DEF NothingReceived, InStep, NotStreamed, AnswerIsShown, StoredAtTheEnd,
                StoredIsShown
  <1>8. StreamIsAnswer'
    <2>1. shown \o <<>> = shown /\ AnswerIn(text) \o <<>> = AnswerIn(text)
      BY <1>1, <1>2, ConcatEmptySeq
    <2>2. IsPrefix(AnswerIn(text), AnswerIn(text))
      BY <1>2, <2>1, EmptySeq, PrefixOfConcat
    <2> QED BY <1>3, <2>2 DEF StreamIsAnswer
  <1>9. NothingWithoutEvidence'
    BY <1>1, <1>3 DEF NothingWithoutEvidence
  <1>10. EvidenceIsAttributed'
    BY <1>3 DEF IInv, EvidenceIsAttributed
  <1>11. ReadAlike'
    <2>1. Solid(<<>>) = {}
      BY EmptySeq DEF Solid
    <2>2. Strip(<<>>) = <<>>
      BY <2>1 DEF Strip, Solid
    <2> QED BY <1>3, <2>2 DEF ReadAlike
  <1> QED BY <1>6, <1>7, <1>8, <1>9, <1>10, <1>11 DEF IInv

LEMMA AskReplyInv ==
  ASSUME IInv, NEW t \in Texts, NEW numbers, AskReply(t, numbers)
  PROVE  IInv'
  <1>1. mode = "ask" /\ pc = "retrieved" /\ shown = <<>> /\ stored = NotStored
    BY DEF IInv, AskReply, NotStreamed, StoredAtTheEnd
  <1>2. /\ mode' = "ask" /\ pc' = "answered" /\ shown' = <<>> /\ stored' = NotStored
        /\ text' = t /\ answer' = ParseResponse(Strip(t)) /\ evidence' = <<>>
        /\ cited' = FilesOf(ElementsAt(evidence, numbers))
    BY <1>1 DEF AskReply
  <1>3. t \in Seq(Symbols) /\ answer' \in Seq(Symbols)
    BY <1>2, TextsAreSequences, ParseResponseType
  <1>4. cited' \in Seq(Files)
    BY <1>2, CitedType DEF IInv, TypeOK, Evidence
  <1>5. <<>> \in Seq([entry : Chunks, content : SUBSET Chunks]) /\ Len(<<>>) = 0
    BY EmptySeq
  <1>6. TypeOK'
    BY <1>1, <1>2, <1>3, <1>4, <1>5 DEF IInv, TypeOK, AskReply, hits, Steps
  <1>7. /\ NothingReceived' /\ InStep' /\ NotStreamed' /\ AnswerIsShown' /\ StoredAtTheEnd'
        /\ StoredIsShown' /\ StreamIsAnswer' /\ NothingWithoutEvidence'
    BY <1>2 DEF NothingReceived, InStep, NotStreamed, AnswerIsShown, StoredAtTheEnd,
                StoredIsShown, StreamIsAnswer, NothingWithoutEvidence
  <1>8. EvidenceIsAttributed'
    BY <1>2, <1>5 DEF EvidenceIsAttributed
  <1>9. ReadAlike'
    <2>1. Enclosed(t) /\ Strip(AnswerIn(t)) # <<>>
            => ParseResponse(Strip(t)) = Strip(AnswerIn(t))
      BY <1>3, EnclosedIsRead
    <2> QED BY <1>2, <2>1 DEF ReadAlike
  <1> QED BY <1>6, <1>7, <1>8, <1>9 DEF IInv

LEMMA AskJudgeInv ==
  ASSUME IInv, AskJudge
  PROVE  IInv'
  <1>1. pc = "answered" /\ mode = "ask" /\ shown = <<>> /\ stored = NotStored
    BY DEF IInv, AskJudge, NotStreamed, StoredAtTheEnd
  <1>2. /\ pc' = "storing" /\ mode' = "ask" /\ shown' = <<>> /\ stored' = NotStored
        /\ level' = level /\ evidence' = evidence
        /\ \/ cited' = <<>> /\ answer' = <<>>
           \/ level # "NONE" /\ cited' = cited /\ answer' = answer
    BY <1>1 DEF AskJudge
  <1>3. <<>> \in Seq(Symbols) /\ <<>> \in Seq(Files)
    BY EmptySeq
  <1>4. TypeOK'
    BY <1>1, <1>2, <1>3 DEF IInv, TypeOK, AskJudge, hits, Steps
  <1>5. /\ NothingReceived' /\ InStep' /\ NotStreamed' /\ AnswerIsShown' /\ StoredAtTheEnd'
        /\ StoredIsShown' /\ StreamIsAnswer'
    BY <1>2 DEF NothingReceived, InStep, NotStreamed, AnswerIsShown, StoredAtTheEnd,
                StoredIsShown, StreamIsAnswer
  <1>6. NothingWithoutEvidence'
    BY <1>2 DEF NothingWithoutEvidence, NotStored
  <1>7. EvidenceIsAttributed'
    BY <1>2 DEF IInv, EvidenceIsAttributed
  <1>8. ReadAlike'
    <2>1. Enclosed(text) /\ Strip(AnswerIn(text)) # <<>> => answer = Strip(AnswerIn(text))
      BY <1>1 DEF IInv, ReadAlike
    <2>2. text' = text /\ (answer' = answer \/ answer' = <<>>)
      BY <1>1, <1>2 DEF AskJudge
    <2>3. level # "NONE" => answer' = answer
      BY <1>1 DEF AskJudge
    <2>4. level = "NONE" => answer' = <<>>
      BY <1>1 DEF AskJudge
    <2> QED BY <1>2, <2>1, <2>2, <2>3, <2>4 DEF ReadAlike
  <1> QED BY <1>4, <1>5, <1>6, <1>7, <1>8 DEF IInv

\* The steps of _persist_session: what is known of the round stays, and the
\* record, if there is one, says it.
LEMMA PersistStep ==
  ASSUME IInv, pc \in {"storing", "appending"}, pc' \in {"appending", "done"},
         UNCHANGED <<mode, hits, evidence, level, reply, cited>>, found' \in BOOLEAN,
         \/ stored' = stored
         \/ /\ pc' = "done"
            /\ stored' = [answer |-> answer, reason |-> Reason, cited |-> cited,
                          level |-> level, session |-> IF found THEN "given" ELSE "new"]
  PROVE  IInv'
  <1>1. stored = NotStored /\ NotStored.reason = "unsaved"
    BY DEF IInv, StoredAtTheEnd, NotStored
  <1>2. /\ mode' = mode /\ evidence' = evidence /\ level' = level /\ cited' = cited
        /\ text' = text /\ parser' = parser /\ shown' = shown /\ answer' = answer
    BY DEF reply
  <1>3. Reason \in {"NONE", "NO_EVIDENCE", "LOW_CONFIDENCE"}
    BY DEF Reason
  <1>4. /\ answer \in Seq(Symbols) /\ cited \in Seq(Files) /\ level \in Levels
    BY DEF IInv, TypeOK
  <1>5. stored' \in [answer : Seq(Symbols), cited : Seq(Files), level : Levels,
                     session : {"none", "given", "new"},
                     reason : {"unsaved", "NONE", "NO_EVIDENCE", "LOW_CONFIDENCE"}]
    <2>1. CASE stored' = stored
      BY <2>1 DEF IInv, TypeOK
    <2>2. CASE stored' # stored
      BY <2>2, <1>3, <1>4
    <2> QED BY <2>1, <2>2
  <1>6. TypeOK'
    BY <1>2, <1>5 DEF IInv, TypeOK, hits, Steps
  <1>7. NothingReceived' /\ InStep' /\ NotStreamed' /\ AnswerIsShown' /\ StoredAtTheEnd'
    BY <1>1, <1>2 DEF IInv, NothingReceived, InStep, NotStreamed, AnswerIsShown, StoredAtTheEnd
  <1>8. StreamIsAnswer' /\ ReadAlike'
    BY <1>2 DEF IInv, StreamIsAnswer, ReadAlike
  <1>9. StoredIsShown'
    <2>1. shown # <<>> => answer = shown
      BY DEF IInv, AnswerIsShown
    <2>2. CASE stored' = stored
      BY <1>1, <2>2 DEF StoredIsShown
    <2>3. CASE stored' # stored
      <3>1. stored'.answer = answer /\ stored'.cited = cited /\ stored'.level = level
        BY <2>3
      <3> QED BY <1>2, <2>1, <3>1 DEF StoredIsShown
    <2> QED BY <2>2, <2>3
  <1>10. NothingWithoutEvidence'
    <2>1. level = "NONE" => answer = <<>> /\ cited = <<>> /\ Reason = "NO_EVIDENCE"
      BY DEF IInv, NothingWithoutEvidence, Reason
    <2>2. CASE stored' = stored
      BY <1>1, <1>2, <2>1, <2>2 DEF NothingWithoutEvidence
    <2>3. CASE stored' # stored
      <3>1. stored'.reason = Reason
        BY <2>3
      <3> QED BY <1>2, <2>1, <3>1 DEF NothingWithoutEvidence
    <2> QED BY <2>2, <2>3
  <1>11. EvidenceIsAttributed'
    BY <1>2 DEF IInv, EvidenceIsAttributed
  <1> QED BY <1>6, <1>7, <1>8, <1>9, <1>10, <1>11 DEF IInv

\* A round that is given up keeps what it has shown and has no record.
LEMMA AbortInv ==
  ASSUME IInv, NEW step \in {"failed", "left"}, pc # "done", Abort(step)
  PROVE  IInv'
  <1>1. stored = NotStored
    BY DEF IInv, StoredAtTheEnd
  <1>2. /\ mode' = mode /\ level' = level /\ cited' = cited /\ text' = text
        /\ shown' = shown /\ answer' = answer /\ stored' = NotStored /\ found' = found
        /\ pc' = step /\ evidence' = <<>> /\ parser' = NewParser
        /\ waiting' = {} /\ vector' = {} /\ keyword' = {} /\ similar' = {} /\ ranked' = <<>>
    BY <1>1 DEF Abort
  <1>3. /\ <<>> \in Seq([entry : Chunks, content : SUBSET Chunks]) /\ Len(<<>>) = 0
        /\ <<>> \in Seq(Chunks)
        /\ NewParser \in [buffer : Seq(Symbols), inAnswer : BOOLEAN, done : BOOLEAN,
                          emit : {<<>>}]
    BY EmptySeq DEF NewParser
  <1>4. TypeOK'
    BY <1>1, <1>2, <1>3 DEF IInv, TypeOK, Steps
  <1>5. /\ NothingReceived' /\ InStep' /\ NotStreamed' /\ AnswerIsShown' /\ StoredAtTheEnd'
        /\ StreamIsAnswer' /\ ReadAlike' /\ StoredIsShown' /\ NothingWithoutEvidence'
    BY <1>2 DEF IInv, NothingReceived, InStep, NotStreamed, AnswerIsShown, StoredAtTheEnd,
                StreamIsAnswer, ReadAlike, StoredIsShown, NothingWithoutEvidence
  <1>6. EvidenceIsAttributed'
    BY <1>2, <1>3 DEF EvidenceIsAttributed
  <1> QED BY <1>4, <1>5, <1>6 DEF IInv

LEMMA StutterInv ==
  ASSUME IInv, UNCHANGED vars
  PROVE  IInv'
  BY DEF IInv, vars, hits, reply, TypeOK, NothingReceived, InStep, NotStreamed,
         AnswerIsShown, StoredAtTheEnd, StreamIsAnswer, ReadAlike, StoredIsShown,
         NothingWithoutEvidence, EvidenceIsAttributed, Reason

LEMMA NextInv ==
  ASSUME IInv, [Next]_vars
  PROVE  IInv'
  <1>1. CASE \E n \in 1..MaxQueries : Plan(n)
    BY <1>1, PlanInv
  <1>2. CASE \E q \in 1..MaxQueries, new \in SUBSET Chunks : \E close \in SUBSET new :
               VectorHits(q, new, close)
    BY <1>2, VectorHitsInv
  <1>3. CASE \E q \in 1..MaxQueries, new \in SUBSET Chunks : KeywordHits(q, new)
    BY <1>3, KeywordHitsInv
  <1>4. CASE Rank
    BY <1>4, RankInv
  <1>5. CASE \E gone \in SUBSET Chunks : Fetch(gone)
    BY <1>5, FetchInv
  <1>6. CASE StreamStart
    BY <1>6, StreamStartInv
  <1>7. CASE StreamEnd
    BY <1>7, StreamEndInv
  <1>8. CASE \E n \in 1..MaxPiece : \E piece \in [1..n -> Symbols] : StreamPiece(piece)
    BY <1>8, StreamPieceInv
  <1>9. CASE \E t \in Texts, numbers \in SUBSET (0..Len(evidence) + 1) : AskReply(t, numbers)
    BY <1>9, AskReplyInv
  <1>10. CASE AskJudge
    BY <1>10, AskJudgeInv
  <1>11. CASE \E there \in BOOLEAN : PersistFind(there)
    BY <1>11, PersistStep DEF PersistFind
  <1>12. CASE PersistCommit
    BY <1>12, PersistStep DEF PersistCommit, IInv, TypeOK
  <1>13. CASE PersistFails
    BY <1>13, PersistStep DEF PersistFails, IInv, TypeOK
  <1>14. CASE RoundFails
    BY <1>14, AbortInv DEF RoundFails
  <1>15. CASE ClientLeaves
    BY <1>15, AbortInv DEF ClientLeaves
  <1>16. CASE UNCHANGED vars
    BY <1>16, StutterInv
  <1> QED BY <1>1, <1>2, <1>3, <1>4, <1>5, <1>6, <1>7, <1>8, <1>9, <1>10, <1>11, <1>12,
             <1>13, <1>14, <1>15, <1>16 DEF Next

-----------------------------------------------------------------------------

\* The invariant is inductive.
THEOREM Invariance == Spec => []IInv
  <1>1. IInv /\ [Next]_vars => IInv'
    BY NextInv
  <1> QED BY <1>1, InitInv, PTL DEF Spec

\* Every variable keeps its type (TypeOK).
THEOREM TypeCorrect == Spec => []TypeOK
  <1>1. IInv => TypeOK
    BY DEF IInv
  <1> QED BY Invariance, <1>1, PTL

\* The tokens a client gets are a beginning of the answer in the reply, and at
\* the end all of it, however the reply was cut (StreamIsAnswer).
THEOREM StreamShowsTheAnswer == Spec => []StreamIsAnswer
  <1>1. IInv => StreamIsAnswer
    BY DEF IInv
  <1> QED BY Invariance, <1>1, PTL

\* A reply whose markers enclose more than white space gets the same answer from ask and
\* ask_stream, whatever the pieces it arrives in, but for the white space around it,
\* which only ask takes away (ReadAlike).
THEOREM EndpointsAgree == Spec => []ReadAlike
  <1>1. IInv => ReadAlike
    BY DEF IInv
  <1> QED BY Invariance, <1>1, PTL

\* What is recorded of a round is what the user was told (StoredIsShown).
THEOREM RecordIsTrue == Spec => []StoredIsShown
  <1>1. IInv => StoredIsShown
    BY DEF IInv
  <1> QED BY Invariance, <1>1, PTL

\* A round without evidence is a refusal, without an answer and without
\* citations (NothingWithoutEvidence).
THEOREM NoEvidenceNoAnswer == Spec => []NothingWithoutEvidence
  <1>1. IInv => NothingWithoutEvidence
    BY DEF IInv
  <1> QED BY Invariance, <1>1, PTL

\* Every document of the evidence is cited by one of its passages, whatever rows
\* have gone (EvidenceIsAttributed).
THEOREM EvidenceIsCitable == Spec => []EvidenceIsAttributed
  <1>1. IInv => EvidenceIsAttributed
    BY DEF IInv
  <1> QED BY Invariance, <1>1, PTL

=============================================================================
