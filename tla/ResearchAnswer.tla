--------------------------- MODULE ResearchAnswer ---------------------------
(***************************************************************************)
(* What becomes of an answer: it is taken apart into claims, each claim is *)
(* judged by the evidence it cites, the verdicts are weighed, and the gate *)
(* keeps the answer, has it repaired, or puts an excerpt in its place.     *)
(*                                                                         *)
(* An answer is the sequence of its parts (lines and sentences).  A part   *)
(* has citations and atoms, the pieces ATOMIC_SPLIT_RE makes of its text;  *)
(* a part without atoms is a citation alone.  An atom has a text ("" after *)
(* normalisation for punctuation), words (tokenize) and numbers; it may    *)
(* have a marker word and a prefix that makes it an aside.  A chunk has    *)
(* the texts it contains.                                                  *)
(***************************************************************************)
EXTENDS Integers, Sequences, FiniteSets, FiniteSetsExt, SequencesExt

CONSTANTS
  MinCoverage,   \* min_coverage, in percent
  MinSupport     \* min_support_rate, in percent

ASSUME AnswerAssumption == MinCoverage \in 0..100 /\ MinSupport \in 0..100

Part(cites, atoms) == [cites |-> cites, atoms |-> atoms]

-----------------------------------------------------------------------------
(* extract_atomic_claims: a lone citation goes to the claims of the part   *)
(* before it.                                                              *)
Importance(atom) == IF atom.numbers # {} \/ atom.marked THEN 2 ELSE 1

Claims(part) ==
  [i \in DOMAIN part.atoms |->
     LET atom == part.atoms[i]
     IN [text |-> atom.text, words |-> atom.words, numbers |-> atom.numbers,
         weight |-> Importance(atom), cites |-> part.cites,
         verifiable |-> ~part.atoms[1].aside /\ ~atom.aside]]

ExtractClaims(answer) ==
  LET cite(claims, from, cites) ==
        [i \in DOMAIN claims |->
           IF i > from THEN [claims[i] EXCEPT !.cites = @ \cup cites] ELSE claims[i]]
      add(acc, part) ==
        IF part.atoms = <<>>
        THEN [acc EXCEPT !.claims = cite(@, acc.from, part.cites)]
        ELSE [claims |-> acc.claims \o Claims(part), from |-> Len(acc.claims)]
  IN FoldLeft(add, [claims |-> <<>>, from |-> 0], answer).claims

-----------------------------------------------------------------------------
(* RuleBasedClaimVerifier.verify *)
Verdict(claim, evidence) ==
  LET shared(chunk)    == Cardinality(claim.words \cap chunk.words)
      overlap(percent) == /\ claim.words # {}
                          /\ \E c \in evidence :
                               100 * shared(c) >= percent * Cardinality(claim.words)
      numbers          == UNION {c.numbers : c \in evidence}
  IN CASE evidence = {} -> "not_enough_information"
       [] claim.text # "" /\ \E c \in evidence : claim.text \in c.texts -> "entailed"
       [] OTHER ->
            IF ~(claim.numbers \subseteq numbers)
            THEN IF numbers # {} /\ overlap(30) THEN "contradicted" ELSE "not_enough_information"
            ELSE CASE overlap(62) -> "entailed"
                   [] overlap(30) /\ ~overlap(62) -> "partial"
                   [] OTHER       -> "not_enough_information"

(* CitationEvaluator.evaluate, for one claim. *)
Assess(claim, evidence, valid) ==
  CASE ~claim.verifiable -> "non_verifiable"
    [] claim.verifiable /\ (claim.cites = {} \/ ~(claim.cites \subseteq valid)) ->
         "not_enough_information"
    [] OTHER -> Verdict(claim, {c \in evidence : c.source \in claim.cites})

EvaluateAnswer(answer, evidence, valid) ==
  LET claims == ExtractClaims(answer)
  IN [i \in DOMAIN claims |->
        [verifiable |-> claims[i].verifiable, weight |-> claims[i].weight,
         cites |-> claims[i].cites, verdict |-> Assess(claims[i], evidence, valid)]]

UnknownCitations(assessments, valid) ==
  UNION {assessments[i].cites : i \in DOMAIN assessments} \ valid

-----------------------------------------------------------------------------
(* _score, with weights in place of ratios; half the weight counts for a   *)
(* partial verdict, so support is in halves.                               *)
Weight(assessments, items) == MapThenSumSet(LAMBDA i : assessments[i].weight, items)

Score(assessments, valid) ==
  LET verifiable == {i \in DOMAIN assessments : assessments[i].verifiable}
      cited      == {i \in verifiable : /\ assessments[i].cites # {}
                                        /\ assessments[i].cites \subseteq valid}
      judged(v)  == {i \in cited : assessments[i].verdict = v}
  IN [total   |-> Weight(assessments, verifiable),
      cited   |-> Weight(assessments, cited),
      halves  |-> 2 * Weight(assessments, judged("entailed")) + Weight(assessments, judged("partial")),
      refuted |-> \E i \in verifiable : assessments[i].verdict = "contradicted"]

(* _passes_quality: without a verifiable claim all is covered, without a   *)
(* cited one nothing is supported.                                         *)
Passes(assessments, valid) ==
  LET quality == Score(assessments, valid)
  IN /\ UnknownCitations(assessments, valid) = {} /\ ~quality.refuted
     /\ 100 * quality.cited >= MinCoverage * quality.total
     /\ IF quality.cited = 0 THEN MinSupport = 0
                             ELSE 50 * quality.halves >= MinSupport * quality.cited

-----------------------------------------------------------------------------
(* extract_citations *)
CitationsOf(answer) == UNION {answer[i].cites : i \in DOMAIN answer}

(* _fallback_answer: of the first five chunks an excerpt, whose citation   *)
(* stands behind its last sentence.  An excerpt is the sequence of its     *)
(* sentences.  strays are the pieces that '?', '!' or '.' in the topic or  *)
(* in a warning makes of the lines around the excerpts.                    *)
Aside == [text |-> "aside", words |-> {"aside"}, numbers |-> {}, marked |-> FALSE, aside |-> TRUE]

Excerpt(chunk) ==
  LET last == Len(chunk.excerpt)
  IN [i \in 1..last |-> Part(IF i = last THEN {chunk.source} ELSE {}, <<chunk.excerpt[i]>>)]

FallbackAnswer(evidence, strays) ==
  LET shown == SubSeq(evidence, 1, IF Len(evidence) > 5 THEN 5 ELSE Len(evidence))
  IN <<Part({}, <<Aside>>)>>
       \o FlattenSeq([i \in DOMAIN shown |-> Excerpt(shown[i])])
       \o [i \in DOMAIN strays |-> Part({}, <<strays[i]>>)]

(* _evaluate_and_repair: at most one repair, then the fallback. *)
EvaluateAndRepair(answer, repaired, fallback, evidence, valid) ==
  LET passes(a) == Passes(EvaluateAnswer(a, evidence, valid), valid)
  IN CASE passes(answer) -> answer
       [] ~passes(answer) /\ passes(repaired) -> repaired
       [] OTHER -> fallback

(* The same when citation evaluation is switched off. *)
CheckCitationsOnly(answer, fallback, valid) ==
  IF CitationsOf(answer) # {} /\ CitationsOf(answer) \subseteq valid THEN answer ELSE fallback

(* The status of the report. *)
ReportStatus(answer, evidence, valid) ==
  IF evidence # {} /\ Passes(EvaluateAnswer(answer, evidence, valid), valid)
  THEN "complete" ELSE "insufficient_evidence"
=============================================================================
