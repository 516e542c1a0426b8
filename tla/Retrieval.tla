----------------------------- MODULE Retrieval ------------------------------
(***************************************************************************)
(* How a research run asks and what it gets: the queries, the search in    *)
(* the evidence index for each of them, and the one list of evidence that  *)
(* is made of the results.  A chunk is a record with id, source, text and  *)
(* score; scores are whole numbers.                                        *)
(***************************************************************************)
EXTENDS Integers, Sequences, FiniteSets, SequencesExt

(* MemoryRepository.find_related_runs, by likeness of the topic, newest    *)
(* first among equals: runs is the list of rows, newest first.             *)
RelatedRuns(runs, limit) ==
  LET usable == {i \in DOMAIN runs : /\ runs[i].status \in {"complete", "insufficient_evidence"}
                                     /\ runs[i].likeness > 0}
      before(i, j) == \/ runs[i].likeness > runs[j].likeness
                      \/ runs[i].likeness = runs[j].likeness /\ i < j
      ranked == SetToSortSeq(usable, before)
  IN [i \in 1..(IF Len(ranked) > limit THEN limit ELSE Len(ranked)) |-> runs[ranked[i]]]

(* DeterministicQueryRewriter.rewrite: four queries of the topic, then the *)
(* queries of related runs, each key once, no blank one.                   *)
Rewrite(topicQueries, related, maxQueries) ==
  LET candidates == topicQueries \o FlattenSeq([i \in DOMAIN related |-> related[i].queries])
      ask(asked, query) ==
        IF query = "" \/ query \in ToSet(asked) \/ Len(asked) >= maxQueries
        THEN asked ELSE Append(asked, query)
  IN FoldLeft(ask, <<>>, candidates)

-----------------------------------------------------------------------------
(* list.sort by score, descending and stable. *)
Ranked(chunks) ==
  LET before(i, j) == \/ chunks[i].score > chunks[j].score
                      \/ chunks[i].score = chunks[j].score /\ i < j
      order == SetToSortSeq(DOMAIN chunks, before)
  IN [i \in DOMAIN chunks |-> chunks[order[i]]]

(* _select_with_source_quota *)
Select(ranked, topK, maxPerSource) ==
  LET ofSource(s, chunks) == Cardinality({i \in DOMAIN chunks : chunks[i].source = s})
      take(selected, chunk) ==
        IF \/ Len(selected) >= topK
           \/ \E i \in DOMAIN selected : selected[i].text = chunk.text
           \/ ofSource(chunk.source, selected) >= maxPerSource
        THEN selected ELSE Append(selected, chunk)
  IN FoldLeft(take, <<>>, ranked)

(* InMemoryEvidenceIndex.search: items with the score they have for this   *)
(* query, those of other models, scopes and chunkers and those that        *)
(* expired left out.                                                       *)
SearchIndex(items, candidateK, topK, maxPerSource, minScore) ==
  LET ranked == Ranked(SelectSeq(items, LAMBDA c : c.score >= minScore))
      first  == SubSeq(ranked, 1, IF Len(ranked) > candidateK THEN candidateK ELSE Len(ranked))
  IN Select(first, topK, maxPerSource)

(* ResearchService._retrieve: of a chunk that several queries found, the   *)
(* best score, at the place where it was found first.                      *)
Merge(outcomes) ==
  LET place(merged, chunk) == {i \in DOMAIN merged : merged[i].id = chunk.id}
      add(merged, chunk) ==
        IF place(merged, chunk) = {} THEN Append(merged, chunk)
        ELSE [i \in DOMAIN merged |->
                IF i \in place(merged, chunk) /\ chunk.score > merged[i].score
                THEN chunk ELSE merged[i]]
  IN FoldLeft(add, <<>>, FlattenSeq(outcomes))

RetrieveEvidence(searches, candidateK, topK, maxPerSource, minScore) ==
  LET outcomes == [q \in DOMAIN searches |->
                     SearchIndex(searches[q], candidateK, candidateK, maxPerSource, minScore)]
  IN Select(Ranked(Merge(outcomes)), topK, maxPerSource)
=============================================================================
