-------------------------- MODULE AlgorithmChecks ---------------------------
(***************************************************************************)
(* Checks of the pure algorithms over bounded inputs: named assumptions,   *)
(* which TLC evaluates before a run.                                       *)
(***************************************************************************)
EXTENDS ResearchAnswer, Retrieval, Chunking, CronSchedule, Bindings

(* All sequences over S of at most n elements. *)
SeqsUpTo(S, n) == UNION {[1..k -> S] : k \in 0..n}

-----------------------------------------------------------------------------
(* Chunks.                                                                 *)

(* Windows cover the text from its first to its last unit, have the right  *)
(* size, and overlap by exactly `overlap` (rag.py 21-63): none is inside   *)
(* another, and the loop ends.                                             *)
ASSUME WindowsCoverTheText ==
  \A n \in 1..9, size \in 1..4 : \A overlap \in 0..(size - 1) :
    LET w == ChunkText(n, size, overlap) IN
    /\ w[1][1] = 1 /\ w[Len(w)][2] = n
    /\ \A i \in DOMAIN w : w[i][2] - w[i][1] < size
    /\ \A i \in 1..(Len(w) - 1) : /\ w[i + 1][1] = w[i][2] - overlap + 1
                                  /\ w[i + 1][2] > w[i][2]
                                  /\ w[i][2] - w[i][1] + 1 = size

Letters(paragraphs) == SelectSeq(Joined(paragraphs), LAMBDA c : c # Newline)
Lengths == {s \in SeqsUpTo(0..4, 3) : s # <<>>}
Message(lengths) == [i \in DOMAIN lengths |-> [k \in 1..lengths[i] |-> 100 * i + k]]

(* No chunk exceeds the platform's limit, and the chunks say what the      *)
(* message says, in its order; only empty lines may get lost               *)
(* (delivery_worker.py 46-80).                                             *)
ASSUME ChunksSayTheMessage ==
  \A lengths \in Lengths, limit \in 1..5 :
    LET message == Message(lengths)
        chunks  == ChunkMessage(message, limit)
    IN /\ \A i \in DOMAIN chunks : Len(chunks[i]) <= limit
       /\ SelectSeq(FlattenSeq(chunks), LAMBDA c : c # Newline) = Letters(message)
       /\ Len(chunks) > 1 => \A i \in DOMAIN chunks : chunks[i] # <<>>

(* A paragraph that fits is never cut in two. *)
ASSUME ParagraphsStayWhole ==
  \A lengths \in Lengths, limit \in 1..5 :
    LET message == Message(lengths)
        chunks  == ChunkMessage(message, limit)
    IN \A p \in DOMAIN message :
         Len(message[p]) \in 1..limit =>
           \E i \in DOMAIN chunks : ToSet(message[p]) \subseteq ToSet(chunks[i])

-----------------------------------------------------------------------------
(* Evidence.                                                               *)
Scored(texts, scores) ==
  [i \in DOMAIN texts |-> [id |-> i, source |-> i % 2, text |-> texts[i], score |-> scores[i]]]

(* Selection is bounded by top_k and the quota of a source, repeats no     *)
(* text, keeps the order of scores, and passes over a chunk only for one   *)
(* of these reasons (rag.py 158-175).                                      *)
ASSUME SelectionIsGreedy ==
  \A texts \in [1..4 -> {1, 2}], scores \in [1..4 -> 1..3], k \in 1..3, quota \in 1..2 :
    LET ranked   == Ranked(Scored(texts, scores))
        selected == Select(ranked, k, quota)
        of(s)    == {i \in DOMAIN selected : selected[i].source = s}
    IN /\ Len(selected) <= k
       /\ \A s \in {0, 1} : Cardinality(of(s)) <= quota
       /\ \A i, j \in DOMAIN selected :
            i < j => selected[i].text # selected[j].text /\ selected[i].score >= selected[j].score
       /\ \A c \in ToSet(ranked) \ ToSet(selected) :
            LET better == {i \in DOMAIN selected : selected[i].score >= c.score} IN
            \/ Cardinality(better) = k
            \/ Cardinality(better \cap of(c.source)) = quota
            \/ \E i \in better : selected[i].text = c.text

(* Quotas are applied to each query's results and again to the merged      *)
(* ones (service.py 539-578).  That loses nothing: the evidence has the    *)
(* scores of one selection over all chunks by their best score, as long as *)
(* no text repeats and candidate_k does not bind.                          *)
ASSUME TwoStagesSelectAsOne ==
  \A one \in [1..4 -> 1..3], two \in [1..4 -> 1..2], k \in {2}, quota \in 1..2 :
    LET texts     == [i \in 1..4 |-> i]
        best      == [i \in 1..4 |-> IF one[i] > two[i] THEN one[i] ELSE two[i]]
        scores(s) == [i \in DOMAIN s |-> s[i].score]
    IN scores(RetrieveEvidence(<<Scored(texts, one), Scored(texts, two)>>, 4, k, quota, 0))
         = scores(Select(Ranked(Scored(texts, best)), k, quota))

Topic == <<"topic", "overview", "official", "practices">>
Related == {<<[queries |-> q]>> : q \in SeqsUpTo({"topic", "past", "older", ""}, 3)}

(* Queries are asked once, at most max_queries of them, those of the topic *)
(* first; up to four leave no room for what earlier runs found useful, and *)
(* three is the default of a request (query_rewriter.py 12-50).            *)
ASSUME TopicIsAskedFirst ==
  \A related \in Related, limit \in 1..6 :
    LET asked == Rewrite(Topic, related, limit) IN
    /\ Len(asked) \in 1..limit /\ IsInjective(asked) /\ "" \notin ToSet(asked)
    /\ limit <= 4 => asked = SubSeq(Topic, 1, limit)
    /\ \A q \in ToSet(related[1].queries) \ (ToSet(asked) \cup {""}) : Len(asked) = limit

-----------------------------------------------------------------------------
(* Answers.                                                                *)
Judged(cites, weight, verdict) ==
  [verifiable |-> verdict # "non_verifiable", weight |-> weight, cites |-> cites, verdict |-> verdict]

Verdicts == {"contradicted", "not_enough_information", "partial", "entailed"}
Assessments ==
  SeqsUpTo({Judged({}, 1, "non_verifiable")}
             \cup {Judged({}, w, "not_enough_information") : w \in {1, 2}}
             \cup {Judged({"S1"}, w, v) : w \in {1, 2}, v \in Verdicts}
             \cup {Judged({"S9"}, 1, "not_enough_information")}, 3)

(* An answer that passes cites known sources only, contradicts none, and   *)
(* by far the most of what it claims is supported: at least 3/5 of the     *)
(* cited weight is entailed (the rest may be partial, which counts half).  *)
ASSUME PassingAnswersAreSupported ==
  \A a \in Assessments : Passes(a, {"S1", "S2"}) =>
    LET entailed == {i \in DOMAIN a : a[i].verdict = "entailed"}
        cited    == {i \in DOMAIN a : a[i].cites # {} /\ a[i].verifiable}
    IN /\ \A i \in DOMAIN a : a[i].verdict # "contradicted" /\ "S9" \notin a[i].cites
       /\ entailed # {}
       /\ 5 * Weight(a, entailed) >= 3 * Weight(a, cited)

(* A better verdict never fails an answer that passed, and a further claim *)
(* without a citation never makes one pass.                                *)
Better == [contradicted |-> "not_enough_information", not_enough_information |-> "partial",
           partial |-> "entailed"]
ASSUME ScoreIsMonotonic ==
  \A a \in Assessments : \A i \in DOMAIN a :
    /\ a[i].verdict \in DOMAIN Better /\ a[i].cites = {"S1"} /\ Passes(a, {"S1"})
         => Passes([a EXCEPT ![i].verdict = Better[@]], {"S1"})
    /\ Passes(Append(a, Judged({}, 1, "not_enough_information")), {"S1"}) => Passes(a, {"S1"})

(* Sentences: of two words, one of them or none the chunk's, some with a   *)
(* number.                                                                 *)
Sentence(text, words, numbers) ==
  [text |-> text, words |-> words, numbers |-> numbers, marked |-> FALSE, aside |-> FALSE]
Fact  == Sentence("fact", {"a", "b"}, {})
Count == Sentence("count", {"a", "c"}, {"7"})
Guess == Sentence("guess", {"a", "d"}, {})
Tally == Sentence("tally", {"a", "b"}, {"8"})
Chunk(source, excerpt) ==
  [source |-> source, excerpt |-> excerpt, texts |-> {s.text : s \in ToSet(excerpt)},
   words |-> UNION {s.words : s \in ToSet(excerpt)},
   numbers |-> UNION {s.numbers : s \in ToSet(excerpt)}]

Evidence == {<<Chunk("S1", one)>> : one \in {<<Fact>>, <<Count>>, <<Fact, Count>>}}
              \cup {<<Chunk("S1", one), Chunk("S2", two)>> :
                      one, two \in {<<Fact>>, <<Count>>, <<Fact, Count>>}}
AnswerParts == {Part(c, <<s>>) : c \in {{}, {"S1"}, {"S9"}}, s \in {Fact, Count, Guess, Tally}}
                 \cup {Part(c, <<>>) : c \in {{"S1"}, {"S9"}}}

(* What goes out has passed the gate or is the excerpt of the evidence,    *)
(* whatever the model writes in two attempts.                              *)
ASSUME AnswerPassesOrIsTheFallback ==
  \A evidence \in Evidence, answer \in SeqsUpTo(AnswerParts, 2), repaired \in SeqsUpTo(AnswerParts, 1) :
    LET valid    == {"S1", "S2"}
        fallback == FallbackAnswer(evidence, <<>>)
        final    == EvaluateAndRepair(answer, repaired, fallback, ToSet(evidence), valid)
    IN /\ final = fallback \/ ReportStatus(final, ToSet(evidence), valid) = "complete"
       /\ "S9" \in CitationsOf(final) => final[1] = Part({"S9"}, <<>>)

(* The excerpt passes its own gate if each of its pieces is one sentence.  *)
(* With two sentences only the last has the citation, and with a stray     *)
(* piece of a warning there is a claim without one: the report then is     *)
(* "insufficient_evidence" although it only quotes (llm.py 63-74).         *)
ASSUME FallbackPassesIfPlain ==
  \A evidence \in Evidence :
    LET status(strays) == ReportStatus(FallbackAnswer(evidence, strays), ToSet(evidence), {"S1", "S2"})
        plain == \A i \in DOMAIN evidence : Len(evidence[i].excerpt) = 1
    IN /\ status(<<>>) = "complete" <=> plain
       /\ Len(evidence) = 1 => status(<<Guess>>) = "insufficient_evidence"

(* More evidence for the same citation takes no support away.              *)
ASSUME EvidenceOnlyAdds ==
  \A s \in {Fact, Count, Guess, Tally}, one, two \in {<<Fact>>, <<Count>>, <<Guess>>, <<Fact, Count>>} :
    LET claim   == Claims(Part({"S1"}, <<s>>))[1]
        verdict(E) == Verdict(claim, E)
    IN verdict({Chunk("S1", one)}) = "entailed"
         => verdict({Chunk("S1", one), Chunk("S1", two)}) = "entailed"
-----------------------------------------------------------------------------
(* Schedules and routes.                                                   *)

(* Two ticks never look at one minute, so no job runs twice for it; and a  *)
(* minute is passed over only for a minute's worth of work in the ticks    *)
(* (cron_worker.py 32-44).  A minute of four units.                        *)
ASSUME TicksSeeAMinuteOnce ==
  \A start \in 0..3, work \in [1..4 -> 0..3] :
    LET seen(k) == MinuteOfTick(start, work, 4, k)
        spent   == MapThenSumSet(LAMBDA i : work[i], 1..4)
    IN /\ \A k \in 1..4 : seen(k) < seen(k + 1)
       /\ (seen(5) - seen(1) - 4) * 4 < spent + 4

(* The 5-minute granularity holds of admitted schedules that run at even   *)
(* intervals.  It is looked at between two runs only: others are admitted  *)
(* and run again after a minute (cron_loader.py 36-53).                    *)
Gaps(schedule, period) == {NextRun(schedule, period, m) - m : m \in schedule}
ASSUME EvenSchedulesKeepTheirDistance ==
  LET period    == 24
      schedules == UNION {kSubset(k, 0..(period - 1)) : k \in 1..3}
      close(s)  == \E gap \in Gaps(s, period) : gap < MinimumGap
  IN /\ \A s \in schedules :
          Cardinality(Gaps(s, period)) = 1 => (IsAdmitted(s, period) <=> ~close(s))
     /\ \E s \in schedules : IsAdmitted(s, period) /\ close(s)

(* A job whose agent does not load takes with it exactly those behind it   *)
(* (cron_worker.py 46-67).                                                 *)
ASSUME OneBadAgentStopsTheRest ==
  \A due \in SeqsUpTo({"x", "y", "z"}, 4), loads \in SUBSET {"x", "y", "z"} :
    LET sent == Dispatched(due, loads) IN
    /\ \A i \in sent : due[i] \in loads /\ \A k \in 1..i : k \in sent
    /\ sent # DOMAIN due => due[Cardinality(sent) + 1] \notin loads

(* The most specific binding wins: a binding of a higher tier, wherever it *)
(* is put, takes no source from one of a lower; and of two equal ones the  *)
(* first (routing.py 30-72).                                               *)
SomeBindings ==
  SeqsUpTo([agent : {"a", "b"}, form : DOMAIN Tier, matches : {{"s"}, {"s", "t"}}], 2)
ASSUME SpecificBindingsWin ==
  \A one \in SomeBindings, source \in {"s", "t"}, form \in DOMAIN Tier :
    LET extra   == [agent |-> "c", form |-> form, matches |-> {"s"}]
        agent   == AgentFor(one, source, "default")
        outdone == \E i \in Matching(one, source) : Tier[one[i].form] < Tier[form]
        equal   == \E i \in Matching(one, source) : Tier[one[i].form] = Tier[form]
        taken   == "c"
    IN /\ source = "t" \/ outdone
            => /\ AgentFor(<<extra>> \o one, source, "default") = agent
               /\ AgentFor(Append(one, extra), source, "default") = agent
       /\ source = "s" /\ ~outdone
            => /\ AgentFor(<<extra>> \o one, source, "default") = taken
               /\ AgentFor(Append(one, extra), source, "default") = IF equal THEN agent ELSE taken
=============================================================================
