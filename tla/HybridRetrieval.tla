-------------------------- MODULE HybridRetrieval --------------------------
(***************************************************************************)
(* What a question's evidence is, given the ranked hits and the rows that  *)
(* are still there. Chunk ids are numbers given out in the order chunks    *)
(* are saved, whatever document they belong to.                            *)
(* Source: app/qa/retrieval.py.                                            *)
(***************************************************************************)
EXTENDS Integers, Sequences, FiniteSets, SequencesExt

CONSTANTS
  Chunks,  (* ids of the group's chunks: document_chunks.id   *)
  DocOf,   (* the document of each chunk                      *)
  IndexOf  (* its chunk_index in that document                *)

ASSUME ChunksAssumption == Chunks \subseteq Nat /\ IsFiniteSet(Chunks)

Levels == {"NONE", "WEAK", "PARTIAL", "SUFFICIENT"}

\* DEFAULT_NEIGHBOR_WINDOW.
Window == 1

\* _build_clusters: consecutive hits of one document whose index does not lie
\* beyond the previous one's neighbours'.
ClusterStep(clusters, c) ==
  IF clusters = <<>> THEN <<<<c>>>>
  ELSE LET open == clusters[Len(clusters)]
           prev == open[Len(open)]
       IN  IF DocOf[c] = DocOf[prev] /\ IndexOf[c] <= IndexOf[prev] + Window + 1
           THEN [clusters EXCEPT ![Len(clusters)] = Append(open, c)]
           ELSE Append(clusters, <<c>>)
Clusters(ranked) == FoldLeft(ClusterStep, <<>>, ranked)

\* Faulty variant: the head of the cluster, whose row may be gone.
EntryHead(cluster, rows) == cluster[1]

\* _build_document: the file and the chunk index to cite are those of the first
\* hit whose row is there.
Entry(cluster, rows) == cluster[SelectInSeq(cluster, LAMBDA c : c \in rows)]

\* _build_document: the rows of the hits and of their neighbours by id, among
\* the rows that were fetched, which are the ranked ones'.
ContentOf(cluster, rows) ==
  {c \in rows : \E i \in 1..Len(cluster) : c \in (cluster[i] - Window)..(cluster[i] + Window)}

HasRow(cluster, rows) == \E i \in 1..Len(cluster) : cluster[i] \in rows

\* What a loop keeps of s that appends the elements at some places only.
ElementsAt(s, places) ==
  FoldLeftDomain(LAMBDA kept, i : IF i \in places THEN Append(kept, s[i]) ELSE kept,
                 <<>>, s)

Documents(ranked, rows) ==
  LET all == Clusters(ranked)
      clusters == ElementsAt(all, {i \in 1..Len(all) : HasRow(all[i], rows)})
  IN  [i \in 1..Len(clusters) |-> [entry |-> Entry(clusters[i], rows),
                                   content |-> ContentOf(clusters[i], rows)]]

\* _assess_evidence: documents that were built, and the flags of all ranked
\* hits, those without a row included. similar: raw_similarity >= 0.65.
Assess(documents, ranked, vector, keyword, similar) ==
  LET hits == {ranked[i] : i \in 1..Len(ranked)}
      hasVector == hits \cap vector # {}
      both == hasVector /\ hits \cap keyword # {}
  IN  IF documents = <<>> \/ hits \cap similar = {} THEN "NONE"
      ELSE IF Len(documents) >= 2 /\ hasVector THEN "SUFFICIENT"
      ELSE IF both \/ Len(documents) >= 2 THEN "PARTIAL"
      ELSE "WEAK"

=============================================================================
