------------------------ MODULE ResearchMemoryProofs ------------------------
(***************************************************************************)
(* What the database of the research memory says of a run, and what the    *)
(* evidence index says of a version, for any runs, pages and contents,     *)
(* either kind of index, and any number of errors, cancellations, crashes  *)
(* and deletions.                                                          *)
(*                                                                         *)
(* MemoryInv is about rows, coroutines and the calls that outlive them.    *)
(* IndexInv is about versions.  What the runs hold has an active row       *)
(* (HandFits), and what they found has points, so that where two versions  *)
(* of a page meet in a report, one was saved again or the page raced for   *)
(* (EvidenceFits).  The points of a version that was marked, or is about   *)
(* to be, carry its row's expiry (PointsFit); two versions of a page have  *)
(* points only after a race (PointsApart), for which nobody else's points  *)
(* may appear between the two halves of an upsert (Sole).                  *)
(***************************************************************************)
EXTENDS ResearchMemory, TLAPS

(* What TypeOK says of run[r]. *)
Coroutine ==
  [stage : Stages, refresh : BOOLEAN, urls : SUBSET Urls,
   misses : SUBSET Urls, got : SUBSET Text, hand : SUBSET Versions,
   unchecked : SUBSET Document, todo : SUBSET Document,
   found : SUBSET Versions, unread : SUBSET Versions, sources : SUBSET Versions,
   status : {"absent", "complete", "insufficient_evidence"}]

(* begin_run inserts a row where none was. *)
IdleRunsHaveNoRow == \A r \in Runs : In(r, "idle") => rows[r] = "absent"

(* What references a run goes with its row. *)
GoneRunsLeaveNothing ==
  \A r \in Runs : ~Exists(r) => r \notin queries /\ r \notin claims /\ cites[r] = {}

(* A call that outlives its coroutine belongs to one that was cancelled;   *)
(* finish_run is called with a report.                                     *)
ThreadsFit ==
  \A r \in Runs :
    /\ In(r, "finishing") \/ thread[r] = "finishing" => run[r].status # "absent"
    /\ thread[r] # "none" => run[r].stage \in {"failing", "raised", "abandoned"}

RecordsFit == IdleRunsHaveNoRow /\ GoneRunsLeaveNothing /\ EndedRunsAreClosed /\ ThreadsFit

MemoryInv == TypeOK /\ RecordsFit

(* What a step may do to outcomes, and to what was deleted. *)
OutcomesStay ==
  \A r \in Runs : rows[r] \in Outcomes => rows'[r] \in {rows[r], "deleted"}
DeletedStay ==
  \A r \in Runs : rows[r] = "deleted" =>
    /\ r \notin queries' /\ r \notin claims' /\ cites'[r] = {}
    /\ run'[r].stage = "returned" => run[r].stage = "returned"
RowsAreSafe == OutcomesStay /\ DeletedStay

RecordsStep == RecordsFit' /\ RowsAreSafe
MemoryStep == MemoryInv' /\ RowsAreSafe

LEMMA MemoryInitHolds == Init => MemoryInv
<1>. SUFFICES ASSUME Init PROVE MemoryInv
  OBVIOUS
<1>. USE DEF Init
<1>1. Fresh("idle", FALSE) \in Coroutine
  BY DEF Fresh, Coroutine, Stages, Ended
<1>2. TypeOK
  BY <1>1 DEF TypeOK, Coroutine, Statuses, Never
<1>3. RecordsFit
  BY DEF RecordsFit, IdleRunsHaveNoRow, GoneRunsLeaveNothing, EndedRunsAreClosed, ThreadsFit,
     In, Exists, Fresh
<1>. QED BY <1>2, <1>3 DEF MemoryInv

(* What a step may make of a coroutine without asking for its row.         *)
Silent == {c \in Coroutine : /\ c.stage \notin {"idle", "returned", "raised"}
                             /\ c.stage = "finishing" => c.status # "absent"}

LEMMA SilentAreCoroutines == Silent \subseteq Coroutine
BY DEF Silent

(* A step of one coroutine that leaves all runs' rows alone, and adds      *)
(* references only to a row that is there.                                 *)
LEMMA SilentSteps ==
  ASSUME MemoryInv, UNCHANGED <<rows, cites>>,
         queries' \subseteq Runs, claims' \subseteq Runs,
         \A q \in Runs : ~Exists(q) =>
           (q \in queries' => q \in queries) /\ (q \in claims' => q \in claims),
         NEW r \in Runs, NEW new \in Silent, Becomes(r, new), run[r].stage \in Working,
         \/ UNCHANGED thread
         \/ /\ new.stage = "failing" /\ new.status = run[r].status
            /\ run[r].stage \in InThread /\ thread' = [thread EXCEPT ![r] = run[r].stage]
  PROVE  RecordsStep /\ run' \in [Runs -> Coroutine]
<1>1. run \in [Runs -> Coroutine]
  BY DEF MemoryInv, TypeOK, Coroutine
<1>2. run' \in [Runs -> Coroutine]
  BY <1>1, SilentAreCoroutines DEF Becomes
<1>3. \A q \in Runs : run'[q].stage \in {"idle", "returned", "raised"} => run'[q] = run[q]
  BY <1>1 DEF Becomes, Silent
<1>4. IdleRunsHaveNoRow'
  BY <1>3 DEF MemoryInv, RecordsFit, IdleRunsHaveNoRow, In
<1>5. GoneRunsLeaveNothing'
  <2>. SUFFICES ASSUME NEW q \in Runs, ~Exists(q)'
                PROVE  q \notin queries' /\ q \notin claims' /\ cites'[q] = {}
    BY DEF GoneRunsLeaveNothing
  <2>1. ~Exists(q)
    BY DEF Exists
  <2>. QED BY <2>1 DEF MemoryInv, RecordsFit, GoneRunsLeaveNothing
<1>6. EndedRunsAreClosed'
  BY <1>3 DEF MemoryInv, RecordsFit, EndedRunsAreClosed
<1>0. ThreadsFit'
  BY <1>1 DEF MemoryInv, RecordsFit, ThreadsFit, TypeOK, In, Becomes, Silent, Working, Ended,
     InThread
<1>7. OutcomesStay
  BY DEF OutcomesStay, Outcomes
<1>8. DeletedStay
  <2>. SUFFICES ASSUME NEW q \in Runs, rows[q] = "deleted"
                PROVE  /\ q \notin queries' /\ q \notin claims' /\ cites'[q] = {}
                       /\ run'[q].stage = "returned" => run[q].stage = "returned"
    BY DEF DeletedStay
  <2>1. ~Exists(q)
    BY DEF Exists
  <2>. QED BY <1>3, <2>1 DEF MemoryInv, RecordsFit, GoneRunsLeaveNothing
<1>. QED BY <1>0, <1>2, <1>4, <1>5, <1>6, <1>7, <1>8 DEF RecordsFit, RecordsStep, RowsAreSafe

(* Records do not notice what happens to the other variables.              *)
LEMMA OthersKeepRecords ==
  ASSUME RecordsFit, UNCHANGED <<records, run, thread>>
  PROVE  RecordsStep
<1>1. RecordsFit'
  BY DEF RecordsFit, IdleRunsHaveNoRow, GoneRunsLeaveNothing, EndedRunsAreClosed, ThreadsFit,
     In, Exists, records
<1>2. RowsAreSafe
  BY DEF RowsAreSafe, OutcomesStay, DeletedStay, Outcomes, RecordsFit, GoneRunsLeaveNothing,
     Exists, records
<1>. QED BY <1>1, <1>2 DEF RecordsStep

-----------------------------------------------------------------------------
(* The records of the coroutine, typed. *)
LEMMA RunTyped == ASSUME TypeOK, NEW r \in Runs PROVE run[r] \in Coroutine
BY DEF TypeOK, Coroutine

LEMMA FreshTyped ==
  ASSUME NEW s \in Stages, NEW b \in BOOLEAN
  PROVE  Fresh(s, b) \in Coroutine /\ Fresh(s, b).stage = s
BY DEF Fresh, Coroutine

LEMMA FailingTyped ==
  ASSUME TypeOK, NEW r \in Runs
  PROVE  /\ Fresh("failing", FALSE) \in Silent
         /\ [run[r] EXCEPT !.stage = "failing"] \in Silent
BY RunTyped DEF Coroutine, Stages, Ended, Silent, Fresh

LEMMA AfterSavingTyped ==
  ASSUME NEW new \in Coroutine
  PROVE  AfterSaving(new) \in Silent
BY DEF AfterSaving, Coroutine, Stages, Ended, Silent

LEMMA AfterReadingTyped ==
  ASSUME NEW new \in Coroutine
  PROVE  AfterReading(new) \in Silent
<1>1. CASE new.got = {}
  BY <1>1, AfterSavingTyped DEF AfterReading
<1>2. CASE new.got # {}
  BY <1>2 DEF AfterReading, Coroutine, Stages, Ended, Silent
<1>. QED BY <1>1, <1>2

LEMMA AfterResolvingTyped ==
  ASSUME NEW new \in Silent
  PROVE  AfterResolving(new) \in Silent
<1>1. CASE new.urls # {}
  BY <1>1 DEF AfterResolving
<1>2. CASE new.urls = {} /\ new.misses # {}
  BY <1>2 DEF AfterResolving, Coroutine, Stages, Ended, Silent
<1>3. CASE new.urls = {} /\ new.misses = {}
  <2>1. [new EXCEPT !.refresh = FALSE] \in Coroutine
    BY DEF Coroutine, Silent
  <2>. QED BY <1>3, <2>1, AfterSavingTyped DEF AfterResolving
<1>. QED BY <1>1, <1>2, <1>3

-----------------------------------------------------------------------------
(* What is left of MemoryInv' when the coroutine of r makes such a step.   *)
LEMMA SilentTyped ==
  ASSUME MemoryInv, RecordsStep, run' \in [Runs -> Coroutine],
         UNCHANGED <<rows, cites, now, thread>>,
         queries' \subseteq Runs, claims' \subseteq Runs,
         expires' \in [Versions -> Nat], active' \subseteq Versions,
         indexed' \subseteq Versions, vectors' \in [Versions -> Nat],
         faults' \in Nat, resaved' \subseteq Versions, raced' \subseteq Pages
  PROVE  MemoryStep
BY DEF MemoryInv, TypeOK, Coroutine, RecordsStep, MemoryStep

LEMMA SearchKeeps ==
  ASSUME MemoryInv, NEW r \in Runs, Search(r)
  PROVE  MemoryStep
<1>. USE DEF MemoryInv
<1>1. PICK new \in Silent : Becomes(r, new)
  <2>1. CASE Exists(r)
    <3>1. PICK urls \in SUBSET Urls :
            Becomes(r, [run[r] EXCEPT !.urls = urls,
                          !.stage = IF urls = {} THEN "retrieving" ELSE "resolving"])
      BY <2>1 DEF Search
    <3>. QED BY <3>1, RunTyped DEF Coroutine, Stages, Ended, Silent
  <2>2. CASE ~Exists(r)
    BY <2>2, FailingTyped DEF Search, Raise
  <2>. QED BY <2>1, <2>2
<1>2. RecordsStep /\ run' \in [Runs -> Coroutine]
  BY <1>1, SilentSteps DEF Working, Ended, Stages, In, Search, TypeOK
<1>. QED BY <1>2, SilentTyped DEF Search, TypeOK, stored, index, history

(* A new document in hand. *)
LEMMA HoldTyped ==
  ASSUME NEW new \in Silent, NEW v \in Versions, NEW expiry \in Nat
  PROVE  Hold(new, v, expiry) \in Silent
<1>1. [version |-> v, expires |-> expiry] \in Document
  BY DEF Document
<1>. QED BY <1>1 DEF Hold, Coroutine, Silent

LEMMA ResolveKeeps ==
  ASSUME MemoryInv, NEW r \in Runs, NEW u \in Urls, Resolve(r, u)
  PROVE  MemoryStep
<1>. DEFINE rest == [run[r] EXCEPT !.urls = @ \ {u}]
            miss == [rest EXCEPT !.misses = @ \cup {u}]
<1>. USE DEF MemoryInv
<1>1. run[r] \in Coroutine /\ run[r].stage = "resolving"
  BY RunTyped DEF Resolve, In
<1>2. rest \in Silent /\ miss \in Silent
  BY <1>1 DEF Coroutine, Stages, Ended, Silent
<1>3. /\ raced' \subseteq Pages
      /\ \E new \in Silent : Becomes(r, AfterResolving(new))
  <2>1. CASE \E v \in FreshDocuments(Canonical[u]) :
               Becomes(r, AfterResolving(Hold(rest, v, expires[v]))) /\ Takes(v)
    <3>1. PICK v \in FreshDocuments(Canonical[u]) :
                 Becomes(r, AfterResolving(Hold(rest, v, expires[v]))) /\ Takes(v)
      BY <2>1
    <3>2. v \in Versions /\ Page(v) \in Pages /\ expires[v] \in Nat
      BY DEF FreshDocuments, TypeOK, Versions, Page
    <3>3. Hold(rest, v, expires[v]) \in Silent
      BY <1>2, <3>2, HoldTyped
    <3>. QED BY <3>1, <3>2, <3>3 DEF Takes, TypeOK
  <2>2. CASE Becomes(r, AfterResolving(miss)) /\ UNCHANGED raced
    BY <1>2, <2>2 DEF TypeOK
  <2>. QED BY <2>1, <2>2 DEF Resolve
<1>4. RecordsStep /\ run' \in [Runs -> Coroutine]
  BY <1>3, AfterResolvingTyped, SilentSteps DEF Working, Ended, Stages, In, Resolve, TypeOK, records
<1>. QED BY <1>3, <1>4, SilentTyped DEF Resolve, TypeOK, records, stored, index

LEMMA ReadKeeps ==
  ASSUME MemoryInv, NEW r \in Runs, Read(r)
  PROVE  MemoryStep
<1>. USE DEF MemoryInv
<1>1. run[r] \in Coroutine /\ run[r].stage = "reading"
  BY RunTyped DEF Read, In
<1>a. PICK read \in SUBSET run[r].misses : \E end \in [read -> Urls], text \in [read -> Contents] :
        Becomes(r, AfterReading([run[r] EXCEPT
                     !.misses = {},
                     !.got = {[of |-> u, url |-> end[u], text |-> text[u]] : u \in read}]))
  BY DEF Read
<1>2. PICK end \in [read -> Urls], text \in [read -> Contents] :
        Becomes(r, AfterReading([run[r] EXCEPT
                     !.misses = {},
                     !.got = {[of |-> u, url |-> end[u], text |-> text[u]] : u \in read}]))
  BY <1>a
<1>3. {[of |-> u, url |-> end[u], text |-> text[u]] : u \in read} \subseteq Text
  BY <1>1 DEF Coroutine, Text
<1>4. PICK new \in Silent : Becomes(r, new)
  BY <1>1, <1>2, <1>3, AfterReadingTyped DEF Coroutine
<1>5. RecordsStep /\ run' \in [Runs -> Coroutine]
  BY <1>4, SilentSteps DEF Working, Ended, Stages, In, Read, TypeOK, records
<1>. QED BY <1>5, SilentTyped DEF Read, TypeOK, records, stored, index, history

LEMMA SaveRowTyped ==
  ASSUME TypeOK, NEW g \in Text, SaveRow(g)
  PROVE  /\ expires' \in [Versions -> Nat] /\ active' \subseteq Versions
         /\ resaved' \subseteq Versions /\ raced' \subseteq Pages
         /\ VersionOf(g) \in Versions /\ Expiry(g) \in Nat
<1>1. g.url \in Urls /\ g.text \in Contents
  BY DEF Text
<1>2. Expiry(g) \in Nat
  BY <1>1, ResearchAssumption DEF TypeOK, Expiry
<1>3. VersionOf(g) \in Versions
  BY <1>1, ResearchAssumption DEF VersionOf, Versions
<1>4. Page(VersionOf(g)) \in Pages
  BY <1>3 DEF Versions, Page
<1>. QED BY <1>2, <1>3, <1>4 DEF SaveRow, Takes, TypeOK

LEMMA SaveKeeps ==
  ASSUME MemoryInv, NEW r \in Runs, NEW g \in run[r].got, Save(r, g)
  PROVE  MemoryStep
<1>. DEFINE rest == Hold([run[r] EXCEPT !.got = @ \ {g}], VersionOf(g), Expiry(g))
<1>. USE DEF MemoryInv
<1>1. run[r] \in Coroutine /\ run[r].stage = "saving" /\ SaveRow(g) /\ g \in Text
  BY RunTyped DEF Save, In, Coroutine
<1>2. rest \in Silent
  <2>1. [run[r] EXCEPT !.got = @ \ {g}] \in Silent
    BY <1>1 DEF Coroutine, Stages, Ended, Silent
  <2>. QED BY <1>1, <2>1, SaveRowTyped, HoldTyped
<1>3. PICK new \in Silent : Becomes(r, new)
  <2>1. Becomes(r, IF rest.got = {} THEN AfterSaving(rest) ELSE rest)
    BY DEF Save
  <2>. HIDE DEF rest
  <2>. QED BY <1>2, <2>1, AfterSavingTyped, SilentAreCoroutines
<1>4. RecordsStep /\ run' \in [Runs -> Coroutine]
  BY <1>3, SilentSteps DEF Working, Ended, Stages, In, Save, TypeOK, records
<1>. QED BY <1>1, <1>4, SaveRowTyped, SilentTyped DEF Save, TypeOK, records, index

LEMMA CheckIndexedKeeps ==
  ASSUME MemoryInv, NEW r \in Runs, NEW d \in run[r].unchecked, CheckIndexed(r, d)
  PROVE  MemoryStep
<1>. USE DEF MemoryInv
<1>1. run[r] \in Coroutine /\ d \in Document
  BY RunTyped DEF Coroutine
<1>2. PICK new \in Silent : Becomes(r, new)
  BY <1>1 DEF CheckIndexed, Coroutine, Stages, Ended, Silent
<1>3. RecordsStep /\ run' \in [Runs -> Coroutine]
  BY <1>2, SilentSteps DEF Working, Ended, Stages, In, CheckIndexed, TypeOK, records
<1>. QED BY <1>3, SilentTyped DEF CheckIndexed, TypeOK, records, stored, index, history

LEMMA PointsTyped ==
  ASSUME TypeOK, NEW r \in Runs, ClearPoints(r) \/ PutPoints(r)
  PROVE  vectors' \in [Versions -> Nat]
<1>1. CASE ClearPoints(r)
  BY <1>1 DEF ClearPoints, TypeOK, Never
<1>2. CASE PutPoints(r)
  <2>1. \A d \in run[r].todo : d.expires \in Nat
    BY RunTyped DEF Coroutine, Document
  <2>. QED BY <1>2, <2>1 DEF PutPoints, TypeOK
<1>. QED BY <1>1, <1>2

LEMMA ClearKeeps ==
  ASSUME MemoryInv, NEW r \in Runs, Clear(r)
  PROVE  MemoryStep
<1>. USE DEF MemoryInv
<1>1. PICK new \in Silent : Becomes(r, new)
  BY RunTyped DEF Clear, Coroutine, Stages, Ended, Silent
<1>2. RecordsStep /\ run' \in [Runs -> Coroutine]
  BY <1>1, SilentSteps DEF Working, Ended, Stages, In, Clear, TypeOK, records
<1>. QED BY <1>2, PointsTyped, SilentTyped DEF Clear, TypeOK, records, stored, history

LEMMA PutKeeps ==
  ASSUME MemoryInv, NEW r \in Runs, Put(r)
  PROVE  MemoryStep
<1>. USE DEF MemoryInv
<1>1. PICK new \in Silent : Becomes(r, new)
  BY RunTyped DEF Put, Coroutine, Stages, Ended, Silent
<1>2. RecordsStep /\ run' \in [Runs -> Coroutine]
  BY <1>1, SilentSteps DEF Working, Ended, Stages, In, Put, TypeOK, records
<1>. QED BY <1>2, PointsTyped, SilentTyped DEF Put, TypeOK, records, stored, history

LEMMA MarkKeeps ==
  ASSUME MemoryInv, NEW r \in Runs, NEW d \in run[r].todo, Mark(r, d)
  PROVE  MemoryStep
<1>. USE DEF MemoryInv
<1>1. run[r] \in Coroutine /\ d \in Document
  BY RunTyped DEF Coroutine
<1>2. PICK new \in Silent : Becomes(r, new)
  BY <1>1 DEF Mark, Coroutine, Stages, Ended, Silent
<1>3. RecordsStep /\ run' \in [Runs -> Coroutine]
  BY <1>2, SilentSteps DEF Working, Ended, Stages, In, Mark, TypeOK, records
<1>. QED BY <1>1, <1>3, SilentTyped DEF Mark, TypeOK, Document, records, stored, history

(* The citations that end the look-ups, or the next look-up. *)
LEMMA BindTyped ==
  ASSUME MemoryInv, NEW r \in Runs, NEW new \in Silent, Bind(r, new)
  PROVE  \E next \in Silent : Becomes(r, next)
<1>1. CASE new.unread # {}
  BY <1>1 DEF Bind
<1>2. CASE new.unread = {}
  <2>1. PICK sources \in Citations(new.hand, new.sources) :
          Becomes(r, [Fresh("evaluating", FALSE) EXCEPT
                        !.sources = sources,
                        !.found   = {v \in new.found : \E w \in sources : Page(w) = Page(v)}])
    BY <1>2 DEF Bind
  <2>. DEFINE empty == Fresh("evaluating", FALSE)
              cited == {v \in new.found : \E w \in sources : Page(w) = Page(v)}
  <2>2. empty \in Coroutine /\ empty.stage = "evaluating"
    BY FreshTyped DEF Stages
  <2>3. sources \subseteq Versions /\ cited \subseteq Versions
    BY DEF Citations, Silent, Coroutine
  <2>4. Becomes(r, [empty EXCEPT !.sources = sources, !.found = cited])
    BY <2>1
  <2>. HIDE DEF empty, cited
  <2>5. [empty EXCEPT !.sources = sources, !.found = cited] \in Silent
    BY <2>2, <2>3 DEF Coroutine, Silent
  <2>. QED BY <2>4, <2>5
<1>. QED BY <1>1, <1>2

LEMMA RetrieveKeeps ==
  ASSUME MemoryInv, NEW r \in Runs, Retrieve(r)
  PROVE  MemoryStep
<1>. USE DEF MemoryInv
<1>1. run[r] \in Coroutine /\ run[r].stage = "retrieving"
  BY RunTyped DEF Retrieve, In
<1>2. PICK points \in SUBSET Live :
        /\ \/ Becomes(r, [run[r] EXCEPT !.found = run[r].found \cup points])
           \/ Bind(r, [run[r] EXCEPT !.stage = "binding", !.found = run[r].found \cup points,
                                     !.unread = (run[r].found \cup points) \ run[r].hand])
        /\ raced' = raced \cup
             {Page(v) : v \in {x \in points : \E q \in Runs \ {r} : \E w \in run[q].hand :
                                                Page(w) = Page(x) /\ w # x}}
  BY DEF Retrieve
<1>3. points \subseteq Versions /\ raced' \subseteq Pages
  <2>1. points \subseteq Versions
    BY DEF Live
  <2>2. \A v \in points : Page(v) \in Pages
    BY <2>1 DEF Versions, Page
  <2>. QED BY <1>2, <2>1, <2>2 DEF TypeOK
<1>4. PICK new \in Silent : Becomes(r, new)
  <2>1. [run[r] EXCEPT !.found = run[r].found \cup points] \in Silent
    BY <1>1, <1>3 DEF Coroutine, Silent
  <2>2. [run[r] EXCEPT !.stage = "binding", !.found = run[r].found \cup points,
                       !.unread = (run[r].found \cup points) \ run[r].hand] \in Silent
    BY <1>1, <1>3 DEF Coroutine, Silent, Stages, Ended
  <2>. HIDE DEF MemoryInv
  <2>. QED BY <1>2, <2>1, <2>2, BindTyped
<1>5. RecordsStep /\ run' \in [Runs -> Coroutine]
  BY <1>4, SilentSteps DEF Working, Ended, Stages, In, Retrieve, TypeOK, records
<1>. QED BY <1>3, <1>5, SilentTyped DEF Retrieve, TypeOK, records, stored, index

LEMMA LookUpKeeps ==
  ASSUME MemoryInv, NEW r \in Runs, NEW v \in run[r].unread, LookUp(r, v)
  PROVE  MemoryStep
<1>. USE DEF MemoryInv
<1>. DEFINE read == [run[r] EXCEPT !.unread  = @ \ {v},
                                   !.sources = IF expires[v] = Never THEN @ ELSE @ \cup {v}]
<1>1. run[r] \in Coroutine /\ run[r].stage = "binding"
  BY RunTyped DEF LookUp, In
<1>2. read \in Silent
  BY <1>1 DEF Coroutine, Silent
<1>3. Bind(r, read)
  BY DEF LookUp
<1>4. PICK new \in Silent : Becomes(r, new)
  <2>. HIDE DEF MemoryInv, read
  <2>. QED BY <1>2, <1>3, BindTyped
<1>5. RecordsStep /\ run' \in [Runs -> Coroutine]
  BY <1>4, SilentSteps DEF Working, Ended, Stages, In, LookUp, TypeOK, records
<1>. QED BY <1>5, SilentTyped DEF LookUp, TypeOK, records, stored, index, history

LEMMA EvaluateKeeps ==
  ASSUME MemoryInv, NEW r \in Runs, Evaluate(r)
  PROVE  MemoryStep
<1>. USE DEF MemoryInv
<1>1. PICK new \in Silent : Becomes(r, new)
  <2>1. CASE run[r].found # {} /\ ~Exists(r)
    BY <2>1, FailingTyped DEF Evaluate, Raise
  <2>2. CASE ~(run[r].found # {} /\ ~Exists(r))
    <3>1. PICK status \in {"complete", "insufficient_evidence"} :
            Becomes(r, [run[r] EXCEPT !.stage = "finishing", !.status = status])
      BY <2>2 DEF Evaluate
    <3>. QED BY <3>1, RunTyped DEF Coroutine, Stages, Ended, Silent
  <2>. QED BY <2>1, <2>2
<1>2. /\ claims' \subseteq Runs
      /\ \A q \in Runs : ~Exists(q) => (q \in claims' => q \in claims)
  BY DEF Evaluate, TypeOK
<1>3. RecordsStep /\ run' \in [Runs -> Coroutine]
  BY <1>1, <1>2, SilentSteps DEF Working, Ended, Stages, In, Evaluate, TypeOK
<1>. QED BY <1>2, <1>3, SilentTyped DEF Evaluate, TypeOK, stored, index, history

LEMMA ErrorKeeps ==
  ASSUME MemoryInv, NEW r \in Runs, Error(r)
  PROVE  MemoryStep
<1>. USE DEF MemoryInv
<1>1. RecordsStep /\ run' \in [Runs -> Coroutine]
  BY FailingTyped, SilentSteps DEF Working, Ended, Stages, In, Error, Raise, TypeOK, records
<1>. QED BY <1>1, SilentTyped DEF Error, TypeOK, records, stored, index, history

(* Cancel leaves a thread behind, which SilentTyped does not allow for.    *)
LEMMA CancelKeeps ==
  ASSUME MemoryInv, NEW r \in Runs, Cancel(r)
  PROVE  MemoryStep
<1>. USE DEF MemoryInv
<1>1. RecordsStep /\ run' \in [Runs -> Coroutine]
  <2>0. /\ UNCHANGED <<rows, cites, queries, claims>> /\ run[r].stage \in Working
        /\ queries \subseteq Runs /\ claims \subseteq Runs
    BY DEF Cancel, TypeOK, records
  <2>1. CASE Raise(r) /\ UNCHANGED thread
    BY <2>0, <2>1, FailingTyped, SilentSteps DEF Raise
  <2>2. CASE /\ run[r].stage \in InThread /\ LeaveBehind(r)
             /\ thread' = [thread EXCEPT ![r] = run[r].stage]
    <3>. DEFINE left == [run[r] EXCEPT !.stage = "failing"]
    <3>1. left \in Silent /\ left.stage = "failing" /\ left.status = run[r].status
      BY FailingTyped, RunTyped DEF Coroutine
    <3>2. Becomes(r, left)
      BY <2>2 DEF LeaveBehind
    <3>. HIDE DEF left, MemoryInv
    <3>. QED BY <2>0, <2>2, <3>1, <3>2, SilentSteps
  <2>. QED BY <2>1, <2>2 DEF Cancel
<1>2. thread' \in [Runs -> InThread \cup {"none"}]
  BY DEF Cancel, TypeOK
<1>. QED BY <1>1, <1>2 DEF RecordsStep, MemoryStep, Cancel, TypeOK, Coroutine, records, stored, index, history

-----------------------------------------------------------------------------
(* The steps that write rows of research_runs. *)
LEMMA BeginKeeps ==
  ASSUME MemoryInv, NEW r \in Runs, Begin(r) \/ BeginCancelled(r)
  PROVE  MemoryStep
<1>. USE DEF MemoryInv
<1>1. PICK new \in Coroutine : /\ new.stage \in {"searching", "abandoned"}
                               /\ Becomes(r, new)
  <2>1. CASE Begin(r)
    <3>1. PICK refresh \in BOOLEAN : Becomes(r, Fresh("searching", refresh))
      BY <2>1 DEF Begin
    <3>. QED BY <3>1, FreshTyped DEF Stages
  <2>2. CASE BeginCancelled(r)
    BY <2>2, FreshTyped DEF BeginCancelled, Stages, Ended
  <2>. QED BY <2>1, <2>2
<1>2. /\ rows' = [rows EXCEPT ![r] = "running"]
      /\ faults' \in Nat
      /\ UNCHANGED <<queries, claims, cites, stored, index, now, thread, history>>
  <2>1. CASE Begin(r)
    BY <2>1 DEF Begin, TypeOK
  <2>2. CASE BeginCancelled(r)
    BY <2>2 DEF BeginCancelled, TypeOK
  <2>. QED BY <2>1, <2>2
<1>3. run' \in [Runs -> Coroutine] /\ \A q \in Runs : q # r => run'[q] = run[q]
  BY <1>1 DEF Becomes, TypeOK, Coroutine
<1>4. run'[r].stage \in {"searching", "abandoned"}
  BY <1>1 DEF Becomes, TypeOK, Coroutine
<1>5. TypeOK'
  BY <1>2, <1>3 DEF TypeOK, Coroutine, Statuses, stored, index, history
<1>6. IdleRunsHaveNoRow'
  BY <1>2, <1>3, <1>4 DEF RecordsFit, IdleRunsHaveNoRow, In, TypeOK
<1>7. GoneRunsLeaveNothing'
  BY <1>2 DEF RecordsFit, GoneRunsLeaveNothing, Exists, TypeOK
<1>8. EndedRunsAreClosed'
  BY <1>2, <1>3, <1>4 DEF RecordsFit, EndedRunsAreClosed, TypeOK
<1>11. ThreadsFit'
  BY <1>2, <1>3, <1>4 DEF RecordsFit, ThreadsFit, In, Begin, BeginCancelled
<1>9. rows[r] = "absent"
  BY DEF RecordsFit, IdleRunsHaveNoRow, Begin, BeginCancelled
<1>10. RowsAreSafe
  BY <1>2, <1>3, <1>4, <1>9
  DEF RowsAreSafe, OutcomesStay, DeletedStay, Outcomes, RecordsFit, GoneRunsLeaveNothing,
      Exists, TypeOK
<1>. QED BY <1>5, <1>6, <1>7, <1>8, <1>10, <1>11 DEF RecordsFit, MemoryStep

(* A running row gets an outcome, or all stays as it is. *)
Closing(r) ==
  /\ rows' = rows \/ (rows[r] = "running" /\ \E s \in Outcomes : rows' = [rows EXCEPT ![r] = s])
  /\ cites' = cites \/ (rows[r] = "running" /\ cites' \in [Runs -> SUBSET Versions]
                          /\ \A q \in Runs : q # r => cites'[q] = cites[q])

(* A step of one coroutine, or of its thread, that closes no more than its *)
(* own row, and ends only with a row that is not running.                  *)
LEMMA ClosingSteps ==
  ASSUME MemoryInv, NEW r \in Runs, Closing(r), UNCHANGED <<queries, claims>>,
         NEW new \in Coroutine, Becomes(r, new),
         new.stage = "idle" => run[r].stage = "idle",
         new.stage \in {"returned", "raised"} => rows'[r] # "running",
         new.stage = "returned" => run[r].stage = "returned" \/ rows[r] = "running",
         new.stage # "finishing", \A q \in Runs \ {r} : thread'[q] = thread[q],
         thread'[r] # "none" =>
           /\ thread[r] = thread'[r] /\ new.status = run[r].status
           /\ new.stage \in {"failing", "raised", "abandoned"}
  PROVE  /\ RecordsStep /\ run' \in [Runs -> Coroutine]
         /\ rows' \in [Runs -> Statuses] /\ cites' \in [Runs -> SUBSET Versions]
<1>. USE DEF MemoryInv
<1>1. /\ run' \in [Runs -> Coroutine] /\ run'[r] = new
      /\ \A q \in Runs : q # r => run'[q] = run[q]
  BY DEF Becomes, TypeOK, Coroutine
<1>2. rows' \in [Runs -> Statuses] /\ cites' \in [Runs -> SUBSET Versions]
  BY DEF Closing, TypeOK, Statuses, Outcomes
<1>3. \A q \in Runs : /\ rows'[q] # rows[q] => q = r /\ rows[r] = "running" /\ rows'[r] \in Outcomes
                      /\ cites'[q] # cites[q] => q = r /\ rows[r] = "running"
  BY DEF Closing, TypeOK
<1>4. IdleRunsHaveNoRow'
  BY <1>1, <1>3 DEF RecordsFit, IdleRunsHaveNoRow, In
<1>5. GoneRunsLeaveNothing'
  BY <1>3 DEF RecordsFit, GoneRunsLeaveNothing, Exists, Outcomes
<1>6. EndedRunsAreClosed'
  BY <1>1, <1>3 DEF RecordsFit, EndedRunsAreClosed, Outcomes
<1>7. OutcomesStay
  BY <1>3 DEF OutcomesStay, Outcomes
<1>8. DeletedStay
  BY <1>1, <1>3 DEF DeletedStay, RecordsFit, GoneRunsLeaveNothing, Exists
<1>9. ThreadsFit'
  BY <1>1 DEF RecordsFit, ThreadsFit, In
<1>. QED BY <1>1, <1>2, <1>4, <1>5, <1>6, <1>7, <1>8, <1>9
  DEF RecordsStep, RecordsFit, RowsAreSafe

(* What is left to show of such a step. *)
LEMMA ClosingTyped ==
  ASSUME MemoryInv, RecordsStep, run' \in [Runs -> Coroutine],
         rows' \in [Runs -> Statuses], cites' \in [Runs -> SUBSET Versions],
         UNCHANGED <<queries, claims, now>>,
         thread' \in [Runs -> InThread \cup {"none"}],
         expires' \in [Versions -> Nat], active' \subseteq Versions,
         indexed' \subseteq Versions, vectors' \in [Versions -> Nat],
         faults' \in Nat, resaved' \subseteq Versions, raced' \subseteq Pages
  PROVE  MemoryStep
BY DEF MemoryInv, TypeOK, Coroutine, RecordsStep, MemoryStep

LEMMA FinishRowCloses ==
  ASSUME TypeOK, NEW r \in Runs, FinishRow(r), run[r].status # "absent"
  PROVE  /\ Closing(r)
         /\ rows'[r] # "running"
<1>1. run[r] \in Coroutine
  BY RunTyped
<1>2. run[r].status \in Outcomes /\ run[r].sources \subseteq Versions
  BY <1>1 DEF Coroutine, Outcomes
<1>. QED BY <1>2 DEF FinishRow, Closing, TypeOK, Outcomes

LEMMA FailRowCloses ==
  ASSUME TypeOK, NEW r \in Runs, FailRow(r), UNCHANGED cites
  PROVE  Closing(r) /\ rows'[r] # "running"
BY DEF FailRow, Closing, Outcomes, TypeOK

LEMMA FinishKeeps ==
  ASSUME MemoryInv, NEW r \in Runs, Finish(r)
  PROVE  MemoryStep
<1>. USE DEF MemoryInv
<1>1. Closing(r) /\ rows'[r] # "running"
  BY FinishRowCloses DEF Finish, RecordsFit, ThreadsFit
<1>2. thread[r] = "none" /\ UNCHANGED thread
  BY DEF Finish, In, RecordsFit, ThreadsFit
<1>3. RecordsStep /\ run' \in [Runs -> Coroutine]
      /\ rows' \in [Runs -> Statuses] /\ cites' \in [Runs -> SUBSET Versions]
  <2>1. CASE rows[r] = "running"
    <3>1. Becomes(r, Fresh("returned", FALSE))
      BY <2>1 DEF Finish, Return
    <3>2. Fresh("returned", FALSE) \in Coroutine /\ Fresh("returned", FALSE).stage = "returned"
      BY FreshTyped DEF Stages, Ended
    <3>. HIDE DEF MemoryInv
    <3>. QED BY <1>1, <1>2, <2>1, <3>1, <3>2, ClosingSteps DEF Finish
  <2>2. CASE rows[r] # "running"
    <3>. DEFINE new == Fresh("failing", FALSE)
    <3>1. Becomes(r, new)
      BY <2>2 DEF Finish, Raise
    <3>2. new \in Coroutine /\ new.stage = "failing"
      BY FreshTyped DEF Stages
    <3>. HIDE DEF MemoryInv, new
    <3>. QED BY <1>1, <1>2, <3>1, <3>2, ClosingSteps DEF Finish
  <2>. QED BY <2>1, <2>2
<1>. QED BY <1>2, <1>3, ClosingTyped DEF Finish, TypeOK, stored, index, history

(* fail_run: to its end, or cancelled again before or after its write.     *)
LEMMA FailKeeps ==
  ASSUME MemoryInv, NEW r \in Runs, Fail(r) \/ CancelAgain(r)
  PROVE  MemoryStep
<1>. USE DEF MemoryInv
<1>1. Closing(r) /\ (Fail(r) => rows'[r] # "running")
  <2>1. CASE FailRow(r)
    BY <2>1, FailRowCloses DEF Fail, CancelAgain
  <2>2. CASE UNCHANGED rows
    BY <2>2, FailRowCloses DEF Fail, CancelAgain, Closing
  <2>. QED BY <2>1, <2>2 DEF Fail, CancelAgain
<1>2. PICK new \in Coroutine :
        /\ Becomes(r, new)
        /\ new.stage \in {"raised", "abandoned"} /\ (new.stage = "raised" => Fail(r))
        /\ thread[r] # "none" => new.status = run[r].status
  <2>1. CASE thread[r] = "none"
    BY <2>1, FreshTyped DEF Fail, CancelAgain, Stages, Ended
  <2>2. CASE thread[r] # "none"
    BY <2>2, RunTyped DEF Fail, CancelAgain, Coroutine, Stages, Ended
  <2>. QED BY <2>1, <2>2
<1>3. /\ UNCHANGED <<queries, claims, cites, stored, index, now, thread, history>>
      /\ faults' \in Nat
  <2>1. CASE Fail(r)
    BY <2>1 DEF Fail, TypeOK
  <2>2. CASE CancelAgain(r)
    BY <2>2 DEF CancelAgain, TypeOK
  <2>. QED BY <2>1, <2>2
<1>4. RecordsStep /\ run' \in [Runs -> Coroutine]
      /\ rows' \in [Runs -> Statuses] /\ cites' \in [Runs -> SUBSET Versions]
  <2>. HIDE DEF MemoryInv
  <2>. QED BY <1>1, <1>2, <1>3, ClosingSteps
<1>. QED BY <1>3, <1>4, ClosingTyped DEF TypeOK, stored, index, history

-----------------------------------------------------------------------------
(* The calls that outlive their coroutine. *)
LEMMA OverKeeps ==
  ASSUME MemoryInv, NEW r \in Runs, thread[r] # "none", Over(r), Closing(r),
         UNCHANGED <<queries, claims>>
  PROVE  /\ RecordsStep /\ run' \in [Runs -> Coroutine]
         /\ rows' \in [Runs -> Statuses] /\ cites' \in [Runs -> SUBSET Versions]
         /\ thread' \in [Runs -> InThread \cup {"none"}]
<1>. USE DEF MemoryInv
<1>1. run[r].stage \in {"failing", "raised", "abandoned"}
  BY DEF RecordsFit, ThreadsFit
<1>2. PICK new \in Coroutine : Becomes(r, new) /\ new.stage = run[r].stage
  <2>1. run[r].stage \in Stages
    BY RunTyped DEF Coroutine
  <2>. QED BY <2>1, FreshTyped DEF Over
<1>3. /\ thread' \in [Runs -> InThread \cup {"none"}] /\ thread'[r] = "none"
      /\ \A q \in Runs \ {r} : thread'[q] = thread[q]
  BY DEF Over, TypeOK
<1>4. run[r].stage = "raised" => rows'[r] # "running"
  BY DEF RecordsFit, EndedRunsAreClosed, Closing, Outcomes, TypeOK
<1>. HIDE DEF MemoryInv
<1>. QED BY <1>1, <1>2, <1>3, <1>4, ClosingSteps

LEMMA ThreadKeeps ==
  ASSUME MemoryInv, NEW r \in Runs, ThreadStep(r)
  PROVE  MemoryStep
<1>. USE DEF MemoryInv
<1>1. UNCHANGED records => Closing(r)
  BY DEF Closing, records
<1>2. CASE ThreadSaves(r)
  <2>1. PICK g \in run[r].got : SaveRow(g)
    BY <1>2 DEF ThreadSaves
  <2>2. g \in Text
    BY RunTyped DEF Coroutine
  <2>. QED BY <1>1, <1>2, <2>1, <2>2, SaveRowTyped, OverKeeps, ClosingTyped
    DEF ThreadSaves, TypeOK, records, index
<1>3. CASE ThreadClears(r)
  <2>1. thread' \in [Runs -> InThread \cup {"none"}]
    BY <1>3 DEF ThreadClears, TypeOK, InThread
  <2>2. RecordsStep
    <3>1. ThreadsFit'
      BY <1>3 DEF ThreadClears, RecordsFit, ThreadsFit, In, TypeOK
    <3>2. IdleRunsHaveNoRow' /\ GoneRunsLeaveNothing' /\ EndedRunsAreClosed'
      BY <1>3 DEF ThreadClears, records, RecordsFit, IdleRunsHaveNoRow, GoneRunsLeaveNothing,
         EndedRunsAreClosed, In, Exists
    <3>3. RowsAreSafe
      BY <1>3 DEF ThreadClears, records, RowsAreSafe, OutcomesStay, DeletedStay, Outcomes,
         RecordsFit, GoneRunsLeaveNothing, Exists
    <3>. QED BY <3>1, <3>2, <3>3 DEF RecordsStep, RecordsFit
  <2>3. vectors' \in [Versions -> Nat]
    BY <1>3, PointsTyped DEF ThreadClears
  <2>. QED BY <1>3, <2>1, <2>2, <2>3, ClosingTyped
    DEF ThreadClears, TypeOK, Coroutine, records, stored, history
<1>4. CASE ThreadPuts(r)
  BY <1>1, <1>4, PointsTyped, OverKeeps, ClosingTyped
  DEF ThreadPuts, TypeOK, records, stored, history
<1>5. CASE ThreadMarks(r)
  <2>1. indexed' \subseteq Versions
    BY <1>5, RunTyped DEF ThreadMarks, TypeOK, Coroutine, Document
  <2>. QED BY <1>1, <1>5, <2>1, OverKeeps, ClosingTyped
    DEF ThreadMarks, TypeOK, records, stored, history
<1>6. CASE ThreadFinishes(r)
  <2>1. Closing(r)
    BY <1>6, FinishRowCloses DEF ThreadFinishes, RecordsFit, ThreadsFit
  <2>. QED BY <1>6, <2>1, OverKeeps, ClosingTyped
    DEF ThreadFinishes, TypeOK, stored, index, history
<1>. QED BY <1>2, <1>3, <1>4, <1>5, <1>6 DEF ThreadStep

-----------------------------------------------------------------------------
LEMMA CrashKeeps == MemoryInv /\ Crash => MemoryStep
<1>. SUFFICES ASSUME MemoryInv, Crash PROVE MemoryStep
  OBVIOUS
<1>. USE DEF MemoryInv
<1>1. run \in [Runs -> Coroutine]
  BY DEF TypeOK, Coroutine
<1>2. Fresh("killed", FALSE) \in Coroutine /\ Fresh("killed", FALSE).stage = "killed"
  BY FreshTyped DEF Stages, Ended
<1>3. /\ run' \in [Runs -> Coroutine]
      /\ \A r \in Runs : \/ run'[r] = run[r] /\ run[r].stage \in {"idle"} \cup Ended
                         \/ run'[r].stage = "killed"
  BY <1>1, <1>2 DEF Crash
<1>4. thread' = [r \in Runs |-> "none"] /\ UNCHANGED <<records, stored, indexed, now, history>>
  BY DEF Crash
<1>5. vectors' \in [Versions -> Nat] /\ faults' \in Nat
  BY DEF Crash, TypeOK, Never
<1>6. TypeOK'
  BY <1>3, <1>4, <1>5 DEF TypeOK, Coroutine, records, stored, history
<1>7. IdleRunsHaveNoRow' /\ GoneRunsLeaveNothing' /\ EndedRunsAreClosed'
  BY <1>3, <1>4 DEF records, RecordsFit, IdleRunsHaveNoRow, GoneRunsLeaveNothing,
     EndedRunsAreClosed, In, Exists
<1>8. ThreadsFit'
  BY <1>3, <1>4 DEF ThreadsFit, In, Ended
<1>9. RowsAreSafe
  BY <1>3, <1>4 DEF records, RowsAreSafe, OutcomesStay, DeletedStay, Outcomes,
     RecordsFit, GoneRunsLeaveNothing, Exists
<1>. QED BY <1>6, <1>7, <1>8, <1>9 DEF RecordsFit, MemoryStep

LEMMA DeleteKeeps ==
  ASSUME MemoryInv, NEW s, DeleteMemory(s)
  PROVE  MemoryStep
<1>. USE DEF MemoryInv
<1>1. PICK gone \in SUBSET Runs :
        /\ rows' = [r \in Runs |-> IF r \in gone THEN "deleted" ELSE rows[r]]
        /\ queries' = queries \ gone
        /\ claims' = claims \ gone
        /\ cites' = [r \in Runs |-> IF r \in gone THEN {} ELSE cites[r]]
        /\ \A r \in gone : rows[r] \notin {"absent", "deleted"}
  BY DEF DeleteMemory
<1>2. UNCHANGED <<stored, index, now, run, thread, faults, history>>
  BY DEF DeleteMemory
<1>3. TypeOK'
  BY <1>1, <1>2 DEF TypeOK, Statuses, stored, index, history
<1>4. IdleRunsHaveNoRow' /\ EndedRunsAreClosed' /\ ThreadsFit'
  BY <1>1, <1>2 DEF RecordsFit, IdleRunsHaveNoRow, EndedRunsAreClosed, ThreadsFit, In
<1>5. GoneRunsLeaveNothing'
  BY <1>1 DEF RecordsFit, GoneRunsLeaveNothing, Exists
<1>6. RowsAreSafe
  BY <1>1, <1>2 DEF RowsAreSafe, OutcomesStay, DeletedStay, RecordsFit, GoneRunsLeaveNothing,
     Exists
<1>. QED BY <1>3, <1>4, <1>5, <1>6 DEF RecordsFit, MemoryStep

LEMMA MemoryStepKeeps == MemoryInv /\ [Next]_vars => MemoryStep
<1>. SUFFICES ASSUME MemoryInv, [Next]_vars PROVE MemoryStep
  OBVIOUS
<1>1. ASSUME NEW r \in Runs, Begin(r) \/ BeginCancelled(r) PROVE MemoryStep
  BY <1>1, BeginKeeps
<1>2. ASSUME NEW r \in Runs, Step(r) PROVE MemoryStep
  <2>1. ASSUME NEW u \in Urls, Resolve(r, u) PROVE MemoryStep
    BY <2>1, ResolveKeeps
  <2>2. ASSUME NEW g \in run[r].got, Save(r, g) PROVE MemoryStep
    BY <2>2, SaveKeeps
  <2>3. ASSUME NEW d, CheckIndexed(r, d) PROVE MemoryStep
    BY <2>3, CheckIndexedKeeps DEF CheckIndexed
  <2>4. ASSUME NEW d, Mark(r, d) PROVE MemoryStep
    BY <2>4, MarkKeeps DEF Mark
  <2>5. ASSUME NEW v \in run[r].unread, LookUp(r, v) PROVE MemoryStep
    BY <2>5, LookUpKeeps
  <2>. QED BY <1>2, <2>1, <2>2, <2>3, <2>4, <2>5, SearchKeeps, ReadKeeps, ClearKeeps, PutKeeps,
       RetrieveKeeps, EvaluateKeeps, FinishKeeps, FailKeeps DEF Step
<1>3. ASSUME NEW r \in Runs, ThreadStep(r) PROVE MemoryStep
  BY <1>3, ThreadKeeps
<1>4. ASSUME NEW r \in Runs, Error(r) \/ Cancel(r) \/ CancelAgain(r) PROVE MemoryStep
  BY <1>4, ErrorKeeps, CancelKeeps, FailKeeps
<1>5. ASSUME NEW s, DeleteMemory(s) PROVE MemoryStep
  BY <1>5, DeleteKeeps
<1>6. CASE Crash
  BY <1>6, CrashKeeps
<1>7. ASSUME UNCHANGED <<records, stored, index, run, thread, history>>,
             now' \in Nat, faults' \in Nat
      PROVE  MemoryStep
  <2>1. TypeOK'
    BY <1>7 DEF MemoryInv, TypeOK, records, stored, index, history
  <2>2. RecordsStep
    BY <1>7, OthersKeepRecords DEF MemoryInv
  <2>. QED BY <2>1, <2>2 DEF RecordsStep, MemoryStep, MemoryInv
<1>8. CASE Tick
  BY <1>7, <1>8 DEF Tick, MemoryInv, TypeOK
<1>9. CASE UNCHANGED vars
  BY <1>7, <1>9 DEF vars, MemoryInv, TypeOK, records, stored, index, history
<1>. QED BY <1>1, <1>2, <1>3, <1>4, <1>5, <1>6, <1>8, <1>9 DEF Next

(* The rows of a run, its coroutine and the call it may have left behind   *)
(* fit together.                                                           *)
THEOREM MemoryInvariant == Spec => []MemoryInv
<1>1. MemoryInv /\ [Next]_vars => MemoryInv'
  BY MemoryStepKeeps DEF MemoryStep
<1>. QED BY MemoryInitHolds, <1>1, PTL DEF Spec

(* A run that returned or raised has no row that says "running", whatever  *)
(* error or cancellation cut it short.                                     *)
THEOREM EndsAreRecorded == Spec => []EndedRunsAreClosed
<1>1. MemoryInv => EndedRunsAreClosed
  BY DEF MemoryInv, RecordsFit
<1>. QED BY MemoryInvariant, <1>1, PTL

(* finish_run, fail_run and their threads write one outcome per run.       *)
THEOREM OneOutcome == Spec => OutcomeIsFinal
<1>1. MemoryInv /\ [Next]_vars =>
        [\A r \in Runs : rows[r] \in Outcomes => rows'[r] \in {rows[r], "deleted"}]_vars
  BY MemoryStepKeeps DEF MemoryStep, RowsAreSafe, OutcomesStay
<1>. QED BY MemoryInvariant, <1>1, PTL DEF Spec, OutcomeIsFinal

(* What delete_memory took away does not come back with what a run under   *)
(* way still writes, and that run gives no report.                         *)
THEOREM DeletionIsFinal == Spec => DeletedStaysDeleted
<1>1. MemoryInv /\ [Next]_vars =>
        [\A r \in Runs : rows[r] = "deleted" =>
           /\ r \notin queries' /\ r \notin claims' /\ cites'[r] = {}
           /\ run'[r].stage = "returned" => run[r].stage = "returned"]_vars
  BY MemoryStepKeeps DEF MemoryStep, RowsAreSafe, DeletedStay
<1>. QED BY MemoryInvariant, <1>1, PTL DEF Spec, DeletedStaysDeleted

-----------------------------------------------------------------------------
(* What a run holds has a row, which is the active one of its page unless  *)
(* two versions were in use at once; a document carries the row's expiry   *)
(* unless the version was saved again.                                     *)
Other(v, w) == Page(v) = Page(w) /\ v # w
Excused(v) == v \in resaved \/ Page(v) \in raced
HeldFits(v) == expires[v] # Never /\ (v \in active \/ Page(v) \in raced)
DocumentFits(d) == d.expires > 0 /\ (d.expires = expires[d.version] \/ d.version \in resaved)

(* Qdrant: what is neither to check nor to index is marked as indexed.     *)
Upsert == {"clearing", "putting", "marking"}
HandFits(c) ==
  /\ \A v \in c.hand : HeldFits(v)
  /\ \A d \in c.unchecked \cup c.todo : d.version \in c.hand /\ DocumentFits(d)
  /\ c.stage = "searching" => c.hand = {}
  /\ c.stage \in Upsert => c.unchecked = {}
  /\ Persistent => \A v \in c.hand : v \in indexed \/ \E d \in c.unchecked \cup c.todo : d.version = v
  /\ Persistent /\ c.stage = "retrieving" => c.todo = {} /\ c.unchecked = {}

(* Qdrant: while a run searches, what it found has points; when it binds   *)
(* citations, a version that may be cited for it is the same, or excused;  *)
(* then so is the one that is.                                             *)
Before == {"searching", "resolving", "reading", "saving", "indexing"} \cup Upsert
EvidenceFits(c) ==
  /\ c.stage \in Before => c.found = {}
  /\ c.stage \in Before \cup {"retrieving"} => c.sources = {}
  /\ c.stage = "binding" => c.sources \cup c.unread \subseteq c.found
  /\ Persistent =>
       /\ c.stage = "retrieving" => \A v \in c.found : vectors[v] # Never \/ Page(v) \in raced
       /\ c.stage = "binding" =>
            \A v \in c.found, w \in c.found \cup c.hand : Other(v, w) => Excused(w)
       /\ c.stage \in {"evaluating", "finishing"} =>
            \A v \in c.found \ c.sources : \E w \in c.sources : Other(v, w) /\ Excused(w)

CoroutineFits(c) == HandFits(c) /\ EvidenceFits(c)

(* Nobody holds another version of what a run found that still searches.   *)
FoundApart ==
  \A r, q \in Runs : r # q /\ In(r, "retrieving") =>
    \A v \in run[r].found, w \in run[q].hand : Other(v, w) => Page(v) \in raced

(* Between the halves of an upsert, and between it and its marks.          *)
Cleared(r) == In(r, "putting") \/ thread[r] = "putting"
Marking(r) == In(r, "marking") \/ thread[r] = "marking"

(* No other version of w's page has points.                                *)
Sole(w) == \A v \in Versions : Other(v, w) => vectors[v] = Never

(* Marked as indexed, or about to be.                                      *)
Marked(v) == v \in indexed \/ \E r \in Runs : Marking(r) /\ v \in Indexing(r)

RowsFit ==
  /\ \A v, w \in active : Page(v) = Page(w) => v = w
  /\ \A v \in Versions : Marked(v) => expires[v] # Never

(* What the index has of a version that was marked.                        *)
PointsFit ==
  /\ \A v \in active : Marked(v) /\ ~Excused(v) => vectors[v] = expires[v]
  /\ ~Persistent => indexed = {} /\ \A r \in Runs : ~Marking(r)

(* In Qdrant two versions of a page have points only after a race.         *)
PointsApart ==
  Persistent =>
    /\ \A r \in Runs : Cleared(r) => \A w \in Indexing(r) : Page(w) \in raced \/ Sole(w)
    /\ \A v, w \in Versions :
         Other(v, w) /\ vectors[v] # Never /\ vectors[w] # Never => Page(v) \in raced

IndexInv ==
  /\ \A r \in Runs : CoroutineFits(run[r])
  /\ FoundApart /\ RowsFit /\ PointsFit /\ PointsApart

-----------------------------------------------------------------------------
(* Coroutines that fit.                                                    *)
LEMMA EmptyFits ==
  ASSUME NEW c \in Coroutine, c.hand = {}, c.todo = {}, c.unchecked = {}, c.unread = {},
         c.found = {}, c.sources = {}
  PROVE  CoroutineFits(c)
BY DEF CoroutineFits, HandFits, EvidenceFits

LEMMA FreshFits ==
  ASSUME NEW s \in Stages, NEW b \in BOOLEAN
  PROVE  Fresh(s, b) \in Coroutine /\ Fresh(s, b).stage = s /\ CoroutineFits(Fresh(s, b))
         /\ Fresh(s, b).hand = {} /\ Fresh(s, b).found = {} /\ Fresh(s, b).todo = {}
<1>1. Fresh(s, b) \in Coroutine /\ Fresh(s, b).stage = s
  BY FreshTyped
<1>2. /\ Fresh(s, b).hand = {} /\ Fresh(s, b).todo = {} /\ Fresh(s, b).unchecked = {}
      /\ Fresh(s, b).unread = {} /\ Fresh(s, b).found = {} /\ Fresh(s, b).sources = {}
  BY DEF Fresh
<1>. QED BY <1>1, <1>2, EmptyFits

(* What CoroutineFits looks at, apart from the stage.                      *)
Same(c, new) ==
  /\ new.hand = c.hand /\ new.todo = c.todo /\ new.unchecked = c.unchecked
  /\ new.found = c.found /\ new.sources = c.sources

(* A run that does not go on, or goes from the answer to its storing.      *)
LEMMA LeavingFits ==
  ASSUME NEW c \in Coroutine, CoroutineFits(c), NEW new \in Coroutine, Same(c, new),
         \/ new.stage \in {"failing", "raised", "abandoned"}
         \/ c.stage = "evaluating" /\ new.stage = "finishing"
  PROVE  CoroutineFits(new)
<1>1. HandFits(new)
  BY DEF CoroutineFits, HandFits, Same, Upsert
<1>2. EvidenceFits(new)
  BY DEF CoroutineFits, EvidenceFits, Same, Upsert, Before
<1>. QED BY <1>1, <1>2 DEF CoroutineFits

(* A run that goes on before it searches; the upsert begins when nothing   *)
(* is left to look up, the search when nothing is left to mark.            *)
LEMMA GoingOnFits ==
  ASSUME NEW c \in Coroutine, CoroutineFits(c), c.stage \in Before,
         NEW new \in Coroutine, Same(c, new), new.stage \in Before \cup {"retrieving"},
         new.stage # "searching", new.stage \in Upsert => new.unchecked = {},
         Persistent /\ new.stage = "retrieving" => new.todo = {} /\ new.unchecked = {}
  PROVE  CoroutineFits(new)
<1>1. HandFits(new)
  BY DEF CoroutineFits, HandFits, Same
<1>2. EvidenceFits(new)
  BY DEF CoroutineFits, EvidenceFits, Same, Upsert, Before
<1>. QED BY <1>1, <1>2 DEF CoroutineFits

(* The look-ups, the reads and the saves keep what they have in hand.      *)
LEMMA AfterSavingFits ==
  ASSUME NEW c \in Coroutine, CoroutineFits(c), c.stage \in Before
  PROVE  /\ AfterSaving(c) \in Coroutine /\ CoroutineFits(AfterSaving(c)) /\ Same(c, AfterSaving(c))
         /\ AfterSaving(c).stage \in {"retrieving", "indexing"}
<1>1. PICK new : new = AfterSaving(c)
  OBVIOUS
<1>2. /\ new \in Coroutine /\ Same(c, new)
      /\ new.stage = IF c.hand = {} THEN "retrieving" ELSE "indexing"
  BY <1>1 DEF AfterSaving, Coroutine, Stages, Same
<1>3. c.hand = {} => c.unchecked = {} /\ c.todo = {}
  BY DEF CoroutineFits, HandFits
<1>4. CoroutineFits(new)
  BY <1>2, <1>3, GoingOnFits DEF Before, Upsert, Same
<1>. QED BY <1>1, <1>2, <1>4

LEMMA AfterReadingFits ==
  ASSUME NEW c \in Coroutine, CoroutineFits(c), c.stage \in Before
  PROVE  /\ AfterReading(c) \in Coroutine /\ CoroutineFits(AfterReading(c)) /\ Same(c, AfterReading(c))
         /\ AfterReading(c).stage \in {"retrieving", "indexing", "saving"}
<1>1. CASE c.got = {}
  BY <1>1, AfterSavingFits DEF AfterReading
<1>2. CASE c.got # {}
  <2>1. PICK new : new = [c EXCEPT !.stage = "saving"]
    OBVIOUS
  <2>2. new \in Coroutine /\ new.stage = "saving" /\ Same(c, new)
    BY <2>1 DEF Coroutine, Stages, Same
  <2>3. CoroutineFits(new)
    BY <2>2, GoingOnFits DEF Before, Upsert
  <2>. QED BY <1>2, <2>1, <2>2, <2>3 DEF AfterReading
<1>. QED BY <1>1, <1>2

LEMMA AfterResolvingFits ==
  ASSUME NEW c \in Coroutine, CoroutineFits(c), c.stage = "resolving"
  PROVE  /\ AfterResolving(c) \in Coroutine /\ CoroutineFits(AfterResolving(c))
         /\ Same(c, AfterResolving(c))
         /\ AfterResolving(c).stage \in {"retrieving", "indexing", "reading", "resolving"}
<1>1. CASE c.urls # {}
  BY <1>1 DEF AfterResolving, Same
<1>2. CASE c.urls = {} /\ c.misses # {}
  <2>1. PICK new : new = [c EXCEPT !.stage = "reading", !.refresh = FALSE]
    OBVIOUS
  <2>2. new \in Coroutine /\ new.stage = "reading" /\ Same(c, new)
    BY <2>1 DEF Coroutine, Stages, Same
  <2>3. CoroutineFits(new)
    BY <2>2, GoingOnFits DEF Before, Upsert
  <2>. QED BY <1>2, <2>1, <2>2, <2>3 DEF AfterResolving
<1>3. CASE c.urls = {} /\ c.misses = {}
  <2>1. PICK new : new = [c EXCEPT !.refresh = FALSE]
    OBVIOUS
  <2>2. new \in Coroutine /\ new.stage = "resolving" /\ Same(c, new)
    BY <2>1 DEF Coroutine, Same
  <2>3. CoroutineFits(new) /\ new.stage \in Before
    BY <2>2, GoingOnFits DEF Before, Upsert
  <2>4. /\ AfterSaving(new) \in Coroutine /\ CoroutineFits(AfterSaving(new))
        /\ Same(new, AfterSaving(new)) /\ AfterSaving(new).stage \in {"retrieving", "indexing"}
    BY <2>2, <2>3, AfterSavingFits
  <2>5. AfterResolving(c) = AfterSaving(new)
    BY <1>3, <2>1 DEF AfterResolving
  <2>. QED BY <2>2, <2>4, <2>5 DEF Same
<1>. QED BY <1>1, <1>2, <1>3

-----------------------------------------------------------------------------
(* No run gets between the halves of an upsert or to its marks, or has     *)
(* more to index there.                                                    *)
Calm ==
  \A q \in Runs :
    /\ Cleared(q)' => Cleared(q) /\ Indexing(q)' \subseteq Indexing(q)
    /\ Marking(q)' => Marking(q) /\ Indexing(q)' \subseteq Indexing(q)

LEMMA CalmMarks ==
  ASSUME Calm, indexed' = indexed, NEW v, Marked(v)'
  PROVE  Marked(v)
BY DEF Calm, Marked

LEMMA OneRun ==
  ASSUME TypeOK, NEW r \in Runs, NEW new, Becomes(r, new)
  PROVE  run'[r] = new /\ \A q \in Runs \ {r} : run'[q] = run[q]
BY DEF TypeOK, Becomes

LEMMA OneRunCalm ==
  ASSUME TypeOK, NEW r \in Runs, NEW new \in Coroutine, Becomes(r, new),
         new.stage \notin {"putting", "marking"},
         \A q \in Runs \ {r} : thread'[q] = thread[q],
         thread'[r] \in {"putting", "marking"} =>
           new.todo = run[r].todo /\ thread'[r] \in {thread[r], run[r].stage}
  PROVE  Calm
<1>1. run'[r] = new /\ \A q \in Runs \ {r} : run'[q] = run[q]
  BY OneRun
<1>2. ASSUME NEW q \in Runs \ {r}
      PROVE  Cleared(q)' = Cleared(q) /\ Marking(q)' = Marking(q) /\ Indexing(q)' = Indexing(q)
  BY <1>1, <1>2 DEF Cleared, Marking, Indexing, In
<1>3. Cleared(r)' => Cleared(r) /\ Indexing(r)' = Indexing(r)
  BY <1>1 DEF Cleared, Indexing, In
<1>4. Marking(r)' => Marking(r) /\ Indexing(r)' = Indexing(r)
  BY <1>1 DEF Marking, Indexing, In
<1>. QED BY <1>2, <1>3, <1>4 DEF Calm

(* Every run fits after the step of one.                                   *)
LEMMA OneRunFits ==
  ASSUME TypeOK, IndexInv, NEW r \in Runs, NEW new, Becomes(r, new), CoroutineFits(new)
  PROVE  \A q \in Runs : CoroutineFits(run'[q])
BY OneRun DEF IndexInv

LEMMA RunFits == ASSUME IndexInv, NEW r \in Runs PROVE CoroutineFits(run[r])
BY DEF IndexInv

(* What fits still does when marks and excuses are added, as long as no    *)
(* points are lost of what was found.                                      *)
LEMMA StillFits ==
  ASSUME UNCHANGED <<expires, active>>, indexed \subseteq indexed',
         resaved \subseteq resaved', raced \subseteq raced', NEW c, CoroutineFits(c),
         Persistent /\ c.stage = "retrieving" =>
           \A v \in c.found : vectors[v] # Never => vectors'[v] # Never \/ Page(v) \in raced'
  PROVE  CoroutineFits(c)'
<1>1. HandFits(c)'
  BY DEF CoroutineFits, HandFits, HeldFits, DocumentFits
<1>2. EvidenceFits(c)'
  BY DEF CoroutineFits, EvidenceFits, Excused
<1>. QED BY <1>1, <1>2 DEF CoroutineFits

(* A run takes no more into its hands, and begins to search with nothing   *)
(* found.                                                                  *)
Shrinks(c, new) == new.hand \subseteq c.hand /\ (new.stage = "retrieving" => new.found = {})

LEMMA ShrinkingStaysApart ==
  ASSUME FoundApart, raced \subseteq raced',
         \A q \in Runs : run'[q] = run[q] \/ Shrinks(run[q], run'[q])
  PROVE  FoundApart'
BY DEF FoundApart, Shrinks, In

LEMMA OneRunStaysApart ==
  ASSUME TypeOK, FoundApart, raced \subseteq raced',
         NEW r \in Runs, NEW new, Becomes(r, new), Shrinks(run[r], new)
  PROVE  FoundApart'
BY OneRun, ShrinkingStaysApart

(* A run takes a version into its hands. *)
LEMMA TakingStaysApart ==
  ASSUME TypeOK, FoundApart, NEW v, Takes(v),
         NEW r \in Runs, NEW new, Becomes(r, new), new.hand \subseteq run[r].hand \cup {v},
         new.stage = "retrieving" => new.found = {}
  PROVE  FoundApart'
<1>0. raced \subseteq raced'
  BY DEF Takes
<1>1. run'[r] = new /\ \A q \in Runs \ {r} : run'[q] = run[q]
  BY OneRun
<1>. SUFFICES ASSUME NEW x \in Runs, NEW y \in Runs, x # y, In(x, "retrieving")',
                     NEW f \in run'[x].found, NEW w \in run'[y].hand, Other(f, w)
              PROVE  Page(f) \in raced'
  BY DEF FoundApart
<1>2. x # r /\ run'[x] = run[x] /\ In(x, "retrieving")
  BY <1>1 DEF In
<1>3. CASE w \in run[y].hand
  BY <1>0, <1>2, <1>3 DEF FoundApart
<1>4. CASE w \notin run[y].hand
  <2>1. w = v
    BY <1>1, <1>4
  <2>. QED BY <1>2, <2>1 DEF Takes, Other
<1>. QED BY <1>3, <1>4

-----------------------------------------------------------------------------
(* Steps that touch neither rows nor points; a crash may take the points   *)
(* of a dictionary.                                                        *)
LEMMA QuietSteps ==
  ASSUME MemoryInv, IndexInv, TypeOK', UNCHANGED <<stored, indexed, resaved>>,
         raced \subseteq raced',
         vectors' = vectors \/ (~Persistent /\ vectors' = [v \in Versions |-> Never]),
         \A q \in Runs : CoroutineFits(run'[q]), FoundApart', Calm
  PROVE  IndexInv'
<1>. USE DEF stored
<1>1. ASSUME NEW q \in Runs PROVE CoroutineFits(run[q])'
  <2>1. PICK c : c = run'[q]
    OBVIOUS
  <2>2. CoroutineFits(c) /\ (Persistent => vectors' = vectors)
    BY <2>1
  <2>3. CoroutineFits(c)'
    BY <2>2, StillFits
  <2>. QED BY <2>1, <2>3
<1>2. \A v \in Versions : Marked(v)' => Marked(v)
  BY CalmMarks
<1>3. RowsFit'
  BY <1>2 DEF IndexInv, RowsFit
<1>4. PointsFit'
  <2>1. ~Persistent => indexed' = {} /\ \A q \in Runs : ~Marking(q)'
    BY DEF IndexInv, PointsFit, Calm
  <2>2. CASE vectors' = vectors
    BY <1>2, <2>1, <2>2 DEF IndexInv, PointsFit, MemoryInv, TypeOK, Excused
  <2>3. CASE ~Persistent
    BY <2>1, <2>3 DEF PointsFit, Marked
  <2>. QED BY <2>2, <2>3
<1>5. PointsApart'
  <2>. SUFFICES ASSUME Persistent PROVE PointsApart'
    BY DEF PointsApart
  <2>1. vectors' = vectors
    OBVIOUS
  <2>2. \A w : Sole(w)' = Sole(w)
    BY <2>1 DEF Sole
  <2>3. ASSUME NEW q \in Runs, Cleared(q)', NEW w \in Indexing(q)'
        PROVE  Page(w) \in raced' \/ Sole(w)'
    BY <2>2, <2>3 DEF IndexInv, PointsApart, Calm
  <2>4. ASSUME NEW v \in Versions, NEW w \in Versions, Other(v, w),
               vectors'[v] # Never, vectors'[w] # Never
        PROVE  Page(v) \in raced'
    BY <2>1, <2>4 DEF IndexInv, PointsApart
  <2>. QED BY <2>3, <2>4 DEF PointsApart
<1>. QED BY <1>1, <1>3, <1>4, <1>5 DEF IndexInv

(* What most of them share: one coroutine goes on, quietly.                *)
LEMMA QuietRun ==
  ASSUME MemoryInv, IndexInv, TypeOK', UNCHANGED <<stored, index, resaved>>, raced \subseteq raced',
         NEW r \in Runs, NEW new \in Coroutine, Becomes(r, new), CoroutineFits(new),
         FoundApart', new.stage \notin {"putting", "marking"},
         \A q \in Runs \ {r} : thread'[q] = thread[q],
         thread'[r] \in {"putting", "marking"} =>
           new.todo = run[r].todo /\ thread'[r] \in {thread[r], run[r].stage}
  PROVE  IndexInv'
<1>1. Calm /\ \A q \in Runs : CoroutineFits(run'[q])
  BY OneRunCalm, OneRunFits DEF MemoryInv
<1>2. UNCHANGED <<indexed, vectors>>
  BY DEF index
<1>. QED BY <1>1, <1>2, QuietSteps

(* ... without a new version in its hands. *)
LEMMA ShrinkingRun ==
  ASSUME MemoryInv, IndexInv, TypeOK', UNCHANGED <<stored, index, history>>,
         NEW r \in Runs, NEW new \in Coroutine, Becomes(r, new), CoroutineFits(new),
         Shrinks(run[r], new), new.stage \notin {"putting", "marking"},
         \A q \in Runs \ {r} : thread'[q] = thread[q],
         thread'[r] \in {"putting", "marking"} =>
           new.todo = run[r].todo /\ thread'[r] \in {thread[r], run[r].stage}
  PROVE  IndexInv'
<1>. USE DEF history
<1>1. FoundApart'
  BY OneRunStaysApart DEF IndexInv, MemoryInv
<1>. QED BY <1>1, QuietRun

(* No thread of a run whose coroutine works.                               *)
LEMMA WorkingRun ==
  ASSUME MemoryInv, NEW r \in Runs, run[r].stage \notin {"failing", "raised", "abandoned"}
  PROVE  run[r] \in Coroutine /\ thread[r] = "none"
BY RunTyped DEF MemoryInv, RecordsFit, ThreadsFit

-----------------------------------------------------------------------------
(* The coroutine's steps up to the documents.                              *)
LEMMA BeginKeepsIndex ==
  ASSUME MemoryInv, IndexInv, TypeOK', NEW r \in Runs, Begin(r) \/ BeginCancelled(r)
  PROVE  IndexInv'
<1>1. PICK s \in {"searching", "abandoned"}, b \in BOOLEAN : Becomes(r, Fresh(s, b))
  BY DEF Begin, BeginCancelled
<1>2. /\ Fresh(s, b) \in Coroutine /\ Fresh(s, b).stage = s /\ CoroutineFits(Fresh(s, b))
      /\ Fresh(s, b).hand = {}
  BY FreshFits DEF Stages, Ended
<1>3. /\ thread' = thread /\ thread[r] = "none"
      /\ UNCHANGED <<stored, index, history>>
  BY WorkingRun DEF In, Begin, BeginCancelled
<1>. QED BY <1>1, <1>2, <1>3, ShrinkingRun DEF Shrinks

(* The run raises, or is cancelled. *)
LEMMA RaisingKeepsIndex ==
  ASSUME MemoryInv, IndexInv, TypeOK', NEW r \in Runs, Raise(r), thread[r] = "none",
         UNCHANGED <<thread, stored, index, history>>
  PROVE  IndexInv'
<1>1. PICK new : new = Fresh("failing", FALSE)
  OBVIOUS
<1>2. /\ new \in Coroutine /\ new.stage = "failing" /\ CoroutineFits(new) /\ new.hand = {}
  BY <1>1, FreshFits DEF Stages
<1>3. Becomes(r, new)
  BY <1>1 DEF Raise
<1>. QED BY <1>2, <1>3, ShrinkingRun DEF Shrinks

LEMMA SearchKeepsIndex ==
  ASSUME MemoryInv, IndexInv, TypeOK', NEW r \in Runs, Search(r)
  PROVE  IndexInv'
<1>. USE DEF Search
<1>1. /\ run[r] \in Coroutine /\ run[r].stage = "searching" /\ CoroutineFits(run[r])
      /\ thread' = thread /\ thread[r] = "none"
  BY WorkingRun, RunFits DEF In
<1>2. CASE Exists(r)
  <2>1. PICK urls \in SUBSET Urls :
          Becomes(r, [run[r] EXCEPT !.urls = urls,
                        !.stage = IF urls = {} THEN "retrieving" ELSE "resolving"])
    BY <1>2
  <2>2. PICK s \in {"retrieving", "resolving"} : Becomes(r, [run[r] EXCEPT !.urls = urls, !.stage = s])
    BY <2>1
  <2>3. PICK new : new = [run[r] EXCEPT !.urls = urls, !.stage = s]
    OBVIOUS
  <2>4. new \in Coroutine /\ new.stage = s /\ Same(run[r], new)
    BY <1>1, <2>3 DEF Coroutine, Stages, Same
  <2>5. run[r].hand = {} /\ run[r].todo = {} /\ run[r].unchecked = {} /\ run[r].found = {}
    BY <1>1 DEF CoroutineFits, HandFits, EvidenceFits, Before
  <2>6. CoroutineFits(new)
    BY <1>1, <2>4, <2>5, GoingOnFits DEF Before, Upsert, Same
  <2>. QED BY <1>1, <2>2, <2>3, <2>4, <2>5, <2>6, ShrinkingRun DEF Shrinks, Same
<1>3. CASE ~Exists(r)
  BY <1>1, <1>3, RaisingKeepsIndex
<1>. QED BY <1>2, <1>3

LEMMA FreshDocumentFound ==
  ASSUME TypeOK, NEW p, NEW v \in FreshDocuments(p)
  PROVE  v \in active /\ v \in Versions /\ Page(v) = p /\ expires[v] \in Nat /\ expires[v] > 0
<1>1. v \in active /\ v \in Versions /\ Page(v) = p /\ expires[v] > now
  BY DEF FreshDocuments, TypeOK
<1>2. expires[v] \in Nat /\ now \in Nat
  BY <1>1 DEF TypeOK
<1>. QED BY <1>1, <1>2

(* A version taken into the hands of a run that works on its documents.    *)
LEMMA HoldChanges ==
  ASSUME NEW c \in Coroutine, NEW v \in Versions, NEW expiry \in Nat
  PROVE  \E d \in Document :
           /\ d.version = v /\ d.expires = expiry
           /\ Hold(c, v, expiry) \in Coroutine /\ Hold(c, v, expiry).stage = c.stage
           /\ Hold(c, v, expiry).hand = c.hand \cup {v}
           /\ Hold(c, v, expiry).unchecked = c.unchecked \cup {d}
           /\ Hold(c, v, expiry).todo = c.todo /\ Hold(c, v, expiry).found = c.found
           /\ Hold(c, v, expiry).sources = c.sources /\ Hold(c, v, expiry).got = c.got
<1>1. PICK d : d = [version |-> v, expires |-> expiry]
  OBVIOUS
<1>2. d \in Document /\ d.version = v /\ d.expires = expiry
  BY <1>1 DEF Document
<1>3. Hold(c, v, expiry) = [c EXCEPT !.hand = c.hand \cup {v}, !.unchecked = c.unchecked \cup {d}]
  BY <1>1 DEF Hold
<1>4. PICK new : new = Hold(c, v, expiry)
  OBVIOUS
<1>5. /\ new \in Coroutine /\ new.stage = c.stage /\ new.hand = c.hand \cup {v}
      /\ new.unchecked = c.unchecked \cup {d} /\ new.todo = c.todo /\ new.found = c.found
      /\ new.sources = c.sources /\ new.got = c.got
  <2>1. PICK hand \in SUBSET Versions : hand = c.hand \cup {v}
    BY DEF Coroutine
  <2>2. PICK unchecked \in SUBSET Document : unchecked = c.unchecked \cup {d}
    BY <1>2 DEF Coroutine
  <2>3. new = [c EXCEPT !.hand = hand, !.unchecked = unchecked]
    BY <1>3, <1>4, <2>1, <2>2
  <2>4. /\ new \in Coroutine /\ new.stage = c.stage /\ new.hand = hand
        /\ new.unchecked = unchecked /\ new.todo = c.todo /\ new.found = c.found
        /\ new.sources = c.sources /\ new.got = c.got
    BY <2>3 DEF Coroutine
  <2>. QED BY <2>1, <2>2, <2>4
<1>. QED BY <1>2, <1>4, <1>5

LEMMA ResolveKeepsIndex ==
  ASSUME MemoryInv, IndexInv, TypeOK', NEW r \in Runs, NEW u \in Urls, Resolve(r, u)
  PROVE  IndexInv'
<1>1. /\ run[r] \in Coroutine /\ run[r].stage = "resolving" /\ CoroutineFits(run[r])
      /\ thread' = thread /\ thread[r] = "none"
      /\ UNCHANGED <<stored, index, resaved>>
  BY WorkingRun, RunFits DEF In, Resolve
<1>2. PICK rest : rest = [run[r] EXCEPT !.urls = @ \ {u}]
  OBVIOUS
<1>3. rest \in Coroutine /\ rest.stage = "resolving" /\ Same(run[r], rest)
  BY <1>1, <1>2 DEF Coroutine, Same
<1>4. CoroutineFits(rest) /\ rest.found = {}
  <2>1. CoroutineFits(rest)
    BY <1>1, <1>3, GoingOnFits DEF Before, Upsert
  <2>. QED BY <1>3, <2>1 DEF CoroutineFits, EvidenceFits, Before
<1>5. ASSUME NEW v \in FreshDocuments(Canonical[u]),
             Becomes(r, AfterResolving(Hold(rest, v, expires[v]))), Takes(v)
      PROVE  IndexInv'
  <2>1. v \in active /\ v \in Versions /\ expires[v] \in Nat /\ expires[v] > 0
    BY FreshDocumentFound DEF MemoryInv
  <2>2. PICK new : new = Hold(rest, v, expires[v])
    OBVIOUS
  <2>3. PICK d \in Document :
          /\ d.version = v /\ d.expires = expires[v] /\ new \in Coroutine
          /\ new.stage = "resolving" /\ new.hand = rest.hand \cup {v}
          /\ new.unchecked = rest.unchecked \cup {d} /\ new.todo = rest.todo
          /\ new.found = rest.found /\ new.sources = rest.sources
    BY <1>3, <2>1, <2>2, HoldChanges
  <2>4. HandFits(new)
    <3>1. HeldFits(v) /\ DocumentFits(d)
      BY <2>1, <2>3 DEF HeldFits, DocumentFits, Never
    <3>2. HandFits(rest)
      BY <1>4 DEF CoroutineFits
    <3>3. \A w \in new.hand : HeldFits(w)
      BY <2>3, <3>1, <3>2 DEF HandFits
    <3>4. \A e \in new.unchecked \cup new.todo : e.version \in new.hand /\ DocumentFits(e)
      BY <2>3, <3>1, <3>2 DEF HandFits
    <3>5. Persistent => \A w \in new.hand :
             w \in indexed \/ \E e \in new.unchecked \cup new.todo : e.version = w
      BY <2>3, <3>2 DEF HandFits
    <3>. QED BY <2>3, <3>3, <3>4, <3>5 DEF HandFits, Upsert
  <2>5. EvidenceFits(new)
    BY <1>3, <1>4, <2>3 DEF CoroutineFits, EvidenceFits, Before
  <2>6. PICK after : after = AfterResolving(new)
    OBVIOUS
  <2>7. /\ after \in Coroutine /\ CoroutineFits(after) /\ Same(new, after)
        /\ after.stage \in {"retrieving", "indexing", "reading", "resolving"}
    BY <2>3, <2>4, <2>5, <2>6, AfterResolvingFits DEF CoroutineFits
  <2>8. FoundApart'
    <3>1. after.hand \subseteq run[r].hand \cup {v} /\ after.found = {}
      BY <1>3, <1>4, <2>3, <2>7 DEF Same
    <3>. QED BY <1>5, <2>2, <2>6, <3>1, TakingStaysApart DEF MemoryInv, IndexInv
  <2>9. raced \subseteq raced'
    BY <1>5 DEF Takes
  <2>. QED BY <1>1, <1>5, <2>2, <2>6, <2>7, <2>8, <2>9, QuietRun
<1>6. ASSUME Becomes(r, AfterResolving([rest EXCEPT !.misses = @ \cup {u}])), UNCHANGED raced
      PROVE  IndexInv'
  <2>1. PICK new : new = [rest EXCEPT !.misses = @ \cup {u}]
    OBVIOUS
  <2>2. new \in Coroutine /\ new.stage = "resolving" /\ Same(rest, new)
    BY <1>3, <2>1 DEF Coroutine, Same
  <2>3. CoroutineFits(new)
    BY <1>3, <1>4, <2>2, GoingOnFits DEF Before, Upsert
  <2>4. PICK after : after = AfterResolving(new)
    OBVIOUS
  <2>5. /\ after \in Coroutine /\ CoroutineFits(after) /\ Same(new, after)
        /\ after.stage \in {"retrieving", "indexing", "reading", "resolving"}
    BY <2>2, <2>3, <2>4, AfterResolvingFits
  <2>6. Shrinks(run[r], after)
    BY <1>3, <1>4, <2>2, <2>5 DEF Shrinks, Same
  <2>. QED BY <1>1, <1>6, <2>1, <2>4, <2>5, <2>6, ShrinkingRun DEF history
<1>7. \/ \E v \in FreshDocuments(Canonical[u]) :
           Becomes(r, AfterResolving(Hold(rest, v, expires[v]))) /\ Takes(v)
      \/ Becomes(r, AfterResolving([rest EXCEPT !.misses = @ \cup {u}])) /\ UNCHANGED raced
  BY <1>2 DEF Resolve
<1>. QED BY <1>5, <1>6, <1>7

LEMMA ReadKeepsIndex ==
  ASSUME MemoryInv, IndexInv, TypeOK', NEW r \in Runs, Read(r)
  PROVE  IndexInv'
<1>1. /\ run[r] \in Coroutine /\ run[r].stage = "reading" /\ CoroutineFits(run[r])
      /\ thread' = thread /\ thread[r] = "none"
      /\ UNCHANGED <<stored, index, history>>
  BY WorkingRun, RunFits DEF In, Read
<1>2. PICK got \in SUBSET Text : Becomes(r, AfterReading([run[r] EXCEPT !.misses = {}, !.got = got]))
  <2>1. PICK read \in SUBSET run[r].misses : \E end \in [read -> Urls], text \in [read -> Contents] :
          Becomes(r, AfterReading([run[r] EXCEPT
                       !.misses = {},
                       !.got = {[of |-> x, url |-> end[x], text |-> text[x]] : x \in read}]))
    BY DEF Read
  <2>2. PICK end \in [read -> Urls], text \in [read -> Contents] :
          Becomes(r, AfterReading([run[r] EXCEPT
                       !.misses = {},
                       !.got = {[of |-> x, url |-> end[x], text |-> text[x]] : x \in read}]))
    BY <2>1
  <2>3. {[of |-> x, url |-> end[x], text |-> text[x]] : x \in read} \in SUBSET Text
    BY <1>1 DEF Coroutine, Text
  <2>. QED BY <2>2, <2>3
<1>3. PICK new : new = [run[r] EXCEPT !.misses = {}, !.got = got]
  OBVIOUS
<1>4. new \in Coroutine /\ new.stage = "reading" /\ Same(run[r], new)
  BY <1>1, <1>3 DEF Coroutine, Same
<1>5. CoroutineFits(new) /\ new.found = {}
  <2>1. CoroutineFits(new)
    BY <1>1, <1>4, GoingOnFits DEF Before, Upsert
  <2>. QED BY <1>4, <2>1 DEF CoroutineFits, EvidenceFits, Before
<1>6. PICK after : after = AfterReading(new)
  OBVIOUS
<1>7. /\ after \in Coroutine /\ CoroutineFits(after) /\ Same(new, after)
      /\ after.stage \in {"retrieving", "indexing", "saving"}
  BY <1>4, <1>5, <1>6, AfterReadingFits DEF Before
<1>8. Shrinks(run[r], after)
  BY <1>4, <1>5, <1>7 DEF Shrinks, Same
<1>. QED BY <1>1, <1>2, <1>3, <1>6, <1>7, <1>8, ShrinkingRun

-----------------------------------------------------------------------------
(* A version is saved: it becomes the active one of its page.              *)
LEMMA SavedRows ==
  ASSUME TypeOK, NEW g \in Text, SaveRow(g), NEW v, v = VersionOf(g)
  PROVE  /\ v \in Versions /\ Expiry(g) \in Nat /\ Expiry(g) > 0 /\ Takes(v)
         /\ expires'[v] = Expiry(g)
         /\ \A w \in Versions : w # v => expires'[w] = expires[w]
         /\ \A w \in Versions : w \in active' <=> w = v \/ (w \in active /\ Page(w) # Page(v))
         /\ resaved \subseteq resaved' /\ (expires[v] # Never => v \in resaved')
         /\ raced \subseteq raced'
         /\ \A q \in Runs : \A w \in run[q].hand : Other(w, v) => Page(w) \in raced'
<1>1. v \in Versions /\ Expiry(g) \in Nat /\ Takes(v)
  BY SaveRowTyped DEF SaveRow
<1>2. Expiry(g) > 0
  <2>1. Ttl[g.url] \in Nat \ {0}
    BY ResearchAssumption DEF Text
  <2>2. now \in Nat
    BY DEF TypeOK
  <2>. QED BY <2>1, <2>2 DEF Expiry
<1>3. expires'[v] = Expiry(g) /\ \A w \in Versions : w # v => expires'[w] = expires[w]
  BY <1>1 DEF SaveRow, TypeOK
<1>4. \A w \in Versions : w \in active' <=> w = v \/ (w \in active /\ Page(w) # Page(v))
  BY <1>1 DEF SaveRow, TypeOK
<1>5. resaved \subseteq resaved' /\ (expires[v] # Never => v \in resaved')
  BY DEF SaveRow
<1>6. raced \subseteq raced' /\ \A q \in Runs : \A w \in run[q].hand : Other(w, v) => Page(w) \in raced'
  BY <1>1 DEF Takes, Other
<1>. QED BY <1>1, <1>2, <1>3, <1>4, <1>5, <1>6

(* What the runs hold still fits. *)
LEMMA SaveKeepsHands ==
  ASSUME TypeOK, IndexInv, NEW g \in Text, SaveRow(g), NEW q \in Runs
  PROVE  /\ \A w \in run[q].hand : HeldFits(w)'
         /\ \A d \in run[q].unchecked \cup run[q].todo : DocumentFits(d)'
<1>1. PICK v : v = VersionOf(g)
  OBVIOUS
<1>2. /\ v \in Versions /\ Expiry(g) \in Nat /\ Expiry(g) > 0
      /\ expires'[v] = Expiry(g)
      /\ \A w \in Versions : w # v => expires'[w] = expires[w]
      /\ \A w \in Versions : w \in active' <=> w = v \/ (w \in active /\ Page(w) # Page(v))
      /\ resaved \subseteq resaved' /\ (expires[v] # Never => v \in resaved')
      /\ raced \subseteq raced'
      /\ \A w \in run[q].hand : Other(w, v) => Page(w) \in raced'
  BY <1>1, SavedRows
<1>3. run[q] \in Coroutine /\ HandFits(run[q])
  BY RunTyped, RunFits DEF CoroutineFits
<1>4. ASSUME NEW w \in run[q].hand PROVE HeldFits(w)'
  <2>1. w \in Versions /\ HeldFits(w)
    BY <1>3 DEF Coroutine, HandFits
  <2>2. expires'[w] # Never
    BY <1>2, <2>1 DEF HeldFits, Never
  <2>3. w \in active' \/ Page(w) \in raced'
    BY <1>2, <2>1 DEF HeldFits, Other
  <2>. QED BY <2>2, <2>3 DEF HeldFits
<1>5. ASSUME NEW d \in run[q].unchecked \cup run[q].todo PROVE DocumentFits(d)'
  <2>1. d.version \in run[q].hand /\ DocumentFits(d)
    BY <1>3 DEF HandFits
  <2>2. d.version \in Versions /\ HeldFits(d.version)
    BY <1>3, <2>1 DEF Coroutine, HandFits
  <2>. QED BY <1>2, <2>1, <2>2 DEF DocumentFits, HeldFits
<1>. QED BY <1>4, <1>5

(* The rows and the points, whatever the coroutines do.                    *)
LEMMA SaveSteps ==
  ASSUME MemoryInv, IndexInv, TypeOK', UNCHANGED index,
         NEW g \in Text, SaveRow(g), Calm,
         \A q \in Runs : CoroutineFits(run[q])', FoundApart'
  PROVE  IndexInv'
<1>. USE DEF index
<1>0. PICK v : v = VersionOf(g)
  OBVIOUS
<1>1. TypeOK /\ RowsFit /\ PointsFit /\ PointsApart
  BY DEF MemoryInv, IndexInv
<1>2. /\ v \in Versions /\ expires'[v] = Expiry(g) /\ Expiry(g) > 0
      /\ \A w \in Versions : w # v => expires'[w] = expires[w]
      /\ \A w \in Versions : w \in active' <=> w = v \/ (w \in active /\ Page(w) # Page(v))
      /\ resaved \subseteq resaved' /\ (expires[v] # Never => v \in resaved')
      /\ raced \subseteq raced'
  BY <1>0, <1>1, SavedRows
<1>3. \A w \in Versions : Marked(w)' => Marked(w)
  BY CalmMarks
<1>4. RowsFit'
  <2>1. ASSUME NEW w \in active', NEW x \in active', Page(w) = Page(x) PROVE w = x
    <3>1. w \in Versions /\ x \in Versions
      BY DEF TypeOK
    <3>. QED BY <1>1, <1>2, <2>1, <3>1 DEF RowsFit
  <2>2. ASSUME NEW w \in Versions, Marked(w)' PROVE expires'[w] # Never
    <3>1. expires[w] # Never
      BY <1>1, <1>3, <2>2 DEF RowsFit
    <3>. QED BY <1>2, <3>1 DEF Never
  <2>. QED BY <2>1, <2>2 DEF RowsFit
<1>5. PointsFit'
  <2>1. ASSUME NEW w \in active', Marked(w)', ~Excused(w)'
        PROVE  vectors[w] = expires'[w]
    <3>1. w \in Versions /\ Marked(w) /\ w \notin resaved' /\ Page(w) \notin raced'
      BY <1>3, <2>1 DEF TypeOK, Excused
    <3>2. w # v
      BY <1>1, <1>2, <3>1 DEF RowsFit
    <3>3. w \in active /\ ~Excused(w) /\ expires'[w] = expires[w]
      BY <1>2, <2>1, <3>1, <3>2 DEF Excused
    <3>. QED BY <1>1, <3>1, <3>3 DEF PointsFit
  <2>. QED BY <1>1, <2>1 DEF PointsFit, Calm
<1>6. PointsApart'
  <2>1. \A w : Sole(w)' = Sole(w)
    BY DEF Sole
  <2>. QED BY <1>1, <1>2, <2>1 DEF PointsApart, Calm
<1>. QED BY <1>4, <1>5, <1>6 DEF IndexInv

LEMMA SaveKeepsIndex ==
  ASSUME MemoryInv, IndexInv, TypeOK', NEW r \in Runs, NEW g \in run[r].got, Save(r, g)
  PROVE  IndexInv'
<1>1. /\ run[r] \in Coroutine /\ run[r].stage = "saving" /\ CoroutineFits(run[r])
      /\ thread' = thread /\ thread[r] = "none" /\ TypeOK
      /\ g \in Text /\ SaveRow(g) /\ UNCHANGED index
  BY WorkingRun, RunFits DEF In, MemoryInv, Save, Coroutine
<1>2. PICK v : v = VersionOf(g)
  OBVIOUS
<1>3. /\ v \in Versions /\ Expiry(g) \in Nat /\ Expiry(g) > 0 /\ Takes(v)
      /\ expires'[v] = Expiry(g) /\ v \in active'
  BY <1>1, <1>2, SavedRows
<1>4. PICK c : c = [run[r] EXCEPT !.got = @ \ {g}]
  OBVIOUS
<1>5. c \in Coroutine /\ c.stage = "saving" /\ Same(run[r], c)
  BY <1>1, <1>4 DEF Coroutine, Same
<1>6. PICK rest : rest = Hold(c, v, Expiry(g))
  OBVIOUS
<1>7. PICK d \in Document :
        /\ d.version = v /\ d.expires = Expiry(g) /\ rest \in Coroutine /\ rest.stage = "saving"
        /\ rest.hand = run[r].hand \cup {v} /\ rest.unchecked = run[r].unchecked \cup {d}
        /\ rest.todo = run[r].todo /\ rest.found = run[r].found /\ rest.sources = run[r].sources
  BY <1>3, <1>5, <1>6, HoldChanges DEF Same
<1>8. CoroutineFits(rest)'
  <2>1. \A w \in rest.hand : HeldFits(w)'
    BY <1>1, <1>3, <1>7, SaveKeepsHands DEF HeldFits, Never
  <2>2. \A e \in rest.unchecked \cup rest.todo : DocumentFits(e)'
    BY <1>1, <1>3, <1>7, SaveKeepsHands DEF DocumentFits
  <2>3. HandFits(run[r]) /\ EvidenceFits(run[r])
    BY <1>1 DEF CoroutineFits
  <2>4. \A e \in rest.unchecked \cup rest.todo : e.version \in rest.hand
    BY <1>7, <2>3 DEF HandFits
  <2>5. Persistent => \A w \in rest.hand :
           w \in indexed' \/ \E e \in rest.unchecked \cup rest.todo : e.version = w
    BY <1>1, <1>7, <2>3 DEF HandFits, index
  <2>6. HandFits(rest)'
    BY <1>7, <2>1, <2>2, <2>4, <2>5 DEF HandFits, Upsert
  <2>7. EvidenceFits(rest)'
    BY <1>1, <1>7, <2>3 DEF EvidenceFits, Before
  <2>. QED BY <2>6, <2>7 DEF CoroutineFits
<1>9. PICK after : after = IF rest.got = {} THEN AfterSaving(rest) ELSE rest
  OBVIOUS
<1>10. /\ after \in Coroutine /\ CoroutineFits(after)' /\ Same(rest, after)
       /\ after.stage \in {"retrieving", "indexing", "saving"}
  <2>1. CASE rest.got # {}
    BY <1>7, <1>8, <1>9, <2>1 DEF Same
  <2>2. CASE rest.got = {}
    <3>1. after = AfterSaving(rest)
      BY <1>9, <2>2
    <3>2. /\ after \in Coroutine /\ Same(rest, after) /\ after.stage = "indexing"
      BY <1>7, <3>1 DEF AfterSaving, Coroutine, Stages, Same
    <3>3. CoroutineFits(after)'
      BY <1>7, <1>8, <3>2 DEF CoroutineFits, HandFits, EvidenceFits, Same, Before, Upsert
    <3>. QED BY <3>2, <3>3
  <2>. QED BY <2>1, <2>2
<1>11. Becomes(r, after)
  BY <1>2, <1>4, <1>6, <1>9 DEF Save
<1>12. run'[r] = after /\ \A q \in Runs \ {r} : run'[q] = run[q]
  BY <1>1, <1>11, OneRun
<1>13. ASSUME NEW q \in Runs PROVE CoroutineFits(run[q])'
  <2>1. CASE q = r
    BY <1>10, <1>12, <2>1
  <2>2. CASE q # r
    <3>1. PICK x : x = run[q]
      OBVIOUS
    <3>2. run'[q] = x /\ CoroutineFits(x)
      BY <1>12, <2>2, <3>1, RunFits
    <3>3. (\A w \in x.hand : HeldFits(w)') /\ (\A e \in x.unchecked \cup x.todo : DocumentFits(e)')
      BY <1>1, <3>1, SaveKeepsHands
    <3>4. HandFits(x)'
      BY <1>1, <3>2, <3>3 DEF CoroutineFits, HandFits, index
    <3>5. EvidenceFits(x)'
      <4>1. vectors' = vectors /\ raced \subseteq raced' /\ resaved \subseteq resaved'
        BY <1>1, <1>2, SavedRows DEF index
      <4>. QED BY <3>2, <4>1 DEF CoroutineFits, EvidenceFits, Excused
    <3>. QED BY <3>2, <3>4, <3>5 DEF CoroutineFits
  <2>. QED BY <2>1, <2>2
<1>14. Calm
  BY <1>1, <1>10, <1>11, OneRunCalm
<1>15. FoundApart'
  <2>1. run[r].found = {}
    BY <1>1 DEF CoroutineFits, EvidenceFits, Before
  <2>2. after.hand \subseteq run[r].hand \cup {v} /\ after.found = {}
    BY <1>7, <1>10, <2>1 DEF Same
  <2>. QED BY <1>1, <1>3, <1>11, <2>2, TakingStaysApart DEF IndexInv
<1>. QED BY <1>1, <1>13, <1>14, <1>15, SaveSteps

-----------------------------------------------------------------------------
(* The index.                                                              *)
LEMMA IndexingHeld ==
  ASSUME TypeOK, IndexInv, NEW r \in Runs, NEW w \in Indexing(r)
  PROVE  w \in run[r].hand /\ w \in Versions /\ HeldFits(w)
<1>1. run[r] \in Coroutine /\ HandFits(run[r])
  BY RunTyped, RunFits DEF CoroutineFits
<1>2. w \in run[r].hand
  BY <1>1 DEF Indexing, HandFits
<1>. QED BY <1>1, <1>2 DEF Coroutine, HandFits

(* Who holds another version than the active one, or than someone else,    *)
(* has raced for it.                                                       *)
LEMMA HoldersRace ==
  ASSUME TypeOK, IndexInv, NEW v, HeldFits(v), NEW w, w \in active \/ Page(w) \in raced, Other(v, w)
  PROVE  Page(v) \in raced
BY DEF IndexInv, RowsFit, HeldFits, Other

LEMMA ClearedPoints ==
  ASSUME TypeOK, NEW r \in Runs, ClearPoints(r), NEW v \in Versions
  PROVE  /\ vectors'[v] \in {vectors[v], Never}
         /\ vectors'[v] # vectors[v] => v \notin Indexing(r) /\ \E w \in Indexing(r) : Page(w) = Page(v)
         /\ Persistent /\ v \notin Indexing(r) /\ (\E w \in Indexing(r) : Page(w) = Page(v))
              => vectors'[v] = Never
BY DEF ClearPoints, TypeOK

LEMMA ClearSteps ==
  ASSUME MemoryInv, IndexInv, TypeOK', UNCHANGED <<stored, indexed, history>>,
         NEW r \in Runs, ClearPoints(r), \A q \in Runs : CoroutineFits(run'[q]), FoundApart',
         \A q \in Runs : In(q, "retrieving")' => q # r /\ run'[q] = run[q],
         \A q \in Runs : /\ Indexing(q)' = Indexing(q)
                         /\ Cleared(q)' => Cleared(q) \/ q = r
                         /\ Marking(q)' => Marking(q)
  PROVE  IndexInv'
<1>. USE DEF stored, history
<1>1. TypeOK /\ RowsFit /\ PointsFit /\ PointsApart /\ FoundApart
  BY DEF MemoryInv, IndexInv
<1>2. ASSUME NEW q \in Runs PROVE CoroutineFits(run[q])'
  <2>1. PICK c : c = run'[q]
    OBVIOUS
  <2>2. CoroutineFits(c)
    BY <2>1
  <2>3. ASSUME c.stage = "retrieving", NEW v \in c.found, vectors[v] # Never, vectors'[v] = Never
        PROVE  Page(v) \in raced
    <3>1. q # r /\ run[q] = c /\ In(q, "retrieving")
      BY <2>1, <2>3 DEF In
    <3>2. v \in Versions
      BY <1>1, <2>3, <3>1, RunTyped DEF Coroutine
    <3>3. PICK w \in Indexing(r) : Page(w) = Page(v) /\ w # v
      BY <1>1, <2>3, <3>2, ClearedPoints
    <3>4. w \in run[r].hand
      BY <1>1, <3>3, IndexingHeld
    <3>. QED BY <1>1, <2>3, <3>1, <3>3, <3>4 DEF FoundApart, Other
  <2>4. CoroutineFits(c)'
    BY <2>2, <2>3, StillFits
  <2>. QED BY <2>1, <2>4
<1>3. \A v \in Versions : Marked(v)' => Marked(v)
  BY DEF Marked
<1>4. \A v \in Versions : vectors'[v] \in {vectors[v], Never}
  BY <1>1, ClearedPoints
<1>5. RowsFit'
  BY <1>1, <1>3 DEF RowsFit
<1>6. PointsFit'
  <2>1. ASSUME NEW v \in active, Marked(v)', ~Excused(v)
        PROVE  vectors'[v] = expires[v]
    <3>1. v \in Versions /\ vectors[v] = expires[v]
      BY <1>1, <1>3, <2>1 DEF PointsFit, TypeOK
    <3>2. ASSUME v \notin Indexing(r), NEW w \in Indexing(r), Page(w) = Page(v) PROVE FALSE
      <4>1. HeldFits(w) /\ Other(w, v)
        BY <1>1, <3>2, IndexingHeld DEF Other
      <4>. QED BY <1>1, <2>1, <3>2, <4>1, HoldersRace DEF Excused
    <3>. QED BY <1>1, <3>1, <3>2, ClearedPoints
  <2>. QED BY <1>1, <2>1 DEF PointsFit, Excused
<1>7. PointsApart'
  <2>. SUFFICES ASSUME Persistent PROVE PointsApart'
    BY DEF PointsApart
  <2>1. \A w : Sole(w) => Sole(w)'
    BY <1>4 DEF Sole
  <2>2. ASSUME NEW w \in Indexing(r), Page(w) \notin raced, NEW v \in Versions, Other(v, w)
        PROVE  vectors'[v] = Never
    <3>1. v \notin Indexing(r)
      <4>1. HeldFits(w)
        BY <1>1, IndexingHeld
      <4>2. v \in Indexing(r) => HeldFits(v)
        BY <1>1, IndexingHeld
      <4>3. Other(w, v)
        BY <2>2 DEF Other
      <4>. QED BY <1>1, <2>2, <4>1, <4>2, <4>3, HoldersRace DEF HeldFits
    <3>. QED BY <1>1, <2>2, <3>1, ClearedPoints DEF Other
  <2>3. \A w \in Indexing(r) : Page(w) \in raced \/ Sole(w)'
    BY <2>2 DEF Sole
  <2>4. ASSUME NEW q \in Runs, Cleared(q)', NEW w \in Indexing(q)'
        PROVE  Page(w) \in raced \/ Sole(w)'
    BY <1>1, <2>1, <2>3, <2>4 DEF PointsApart
  <2>5. ASSUME NEW v \in Versions, NEW w \in Versions, Other(v, w),
               vectors'[v] # Never, vectors'[w] # Never
        PROVE  Page(v) \in raced
    BY <1>1, <1>4, <2>5 DEF PointsApart
  <2>. QED BY <2>4, <2>5 DEF PointsApart
<1>. QED BY <1>2, <1>5, <1>6, <1>7 DEF IndexInv

LEMMA PutPointsAt ==
  ASSUME TypeOK, IndexInv, NEW r \in Runs, PutPoints(r), NEW v \in Versions
  PROVE  /\ v \notin Indexing(r) => vectors'[v] = vectors[v]
         /\ v \in Indexing(r) => vectors'[v] > 0 /\ (vectors'[v] = expires[v] \/ v \in resaved)
<1>1. PICK last \in [Indexing(r) -> run[r].todo] :
        /\ \A w \in Indexing(r) : last[w].version = w
        /\ vectors' = [w \in Versions |-> IF w \in Indexing(r) THEN last[w].expires ELSE vectors[w]]
  BY DEF PutPoints
<1>2. v \notin Indexing(r) => vectors'[v] = vectors[v]
  BY <1>1
<1>3. ASSUME v \in Indexing(r)
      PROVE  vectors'[v] > 0 /\ (vectors'[v] = expires[v] \/ v \in resaved)
  <2>1. last[v] \in run[r].todo /\ last[v].version = v /\ vectors'[v] = last[v].expires
    BY <1>1, <1>3
  <2>2. DocumentFits(last[v])
    BY <2>1, RunFits DEF CoroutineFits, HandFits
  <2>. QED BY <2>1, <2>2 DEF DocumentFits
<1>. QED BY <1>2, <1>3

LEMMA PutSteps ==
  ASSUME MemoryInv, IndexInv, TypeOK', UNCHANGED <<stored, indexed, history>>,
         NEW r \in Runs, PutPoints(r), Cleared(r), \A q \in Runs : CoroutineFits(run'[q]), FoundApart',
         \A q \in Runs : /\ Indexing(q)' \subseteq Indexing(q)
                         /\ Cleared(q)' => Cleared(q) /\ q # r
                         /\ Marking(q)' => Marking(q) \/ (Persistent /\ q = r)
  PROVE  IndexInv'
<1>. USE DEF stored, history
<1>1. TypeOK /\ RowsFit /\ PointsFit /\ PointsApart
  BY DEF MemoryInv, IndexInv
<1>2. ASSUME NEW q \in Runs PROVE CoroutineFits(run[q])'
  <2>1. PICK c : c = run'[q]
    OBVIOUS
  <2>2. CoroutineFits(c) /\ c \in Coroutine
    BY <2>1 DEF TypeOK, Coroutine
  <2>3. \A v \in c.found : vectors[v] # Never => vectors'[v] # Never
    <3>1. c.found \subseteq Versions
      BY <2>2 DEF Coroutine
    <3>. QED BY <1>1, <3>1, PutPointsAt DEF Never
  <2>4. CoroutineFits(c)'
    BY <2>2, <2>3, StillFits
  <2>. QED BY <2>1, <2>4
<1>3. \A v \in Versions : Marked(v)' => Marked(v) \/ v \in Indexing(r)
  BY DEF Marked
<1>4. \A v \in Versions : v \notin Indexing(r) => vectors'[v] = vectors[v]
  BY <1>1, PutPointsAt
<1>5. RowsFit'
  <2>2. \A v \in Versions : Marked(v)' => expires[v] # Never
    BY <1>1, <1>3, IndexingHeld DEF RowsFit, HeldFits
  <2>. QED BY <1>1, <2>2 DEF RowsFit
<1>6. PointsFit'
  <2>1. ASSUME NEW v \in active, Marked(v)', ~Excused(v)
        PROVE  vectors'[v] = expires[v]
    <3>1. v \in Versions
      BY <1>1 DEF TypeOK
    <3>2. CASE v \in Indexing(r)
      BY <1>1, <2>1, <3>1, <3>2, PutPointsAt DEF Excused
    <3>3. CASE v \notin Indexing(r)
      BY <1>1, <1>3, <1>4, <2>1, <3>1, <3>3 DEF PointsFit
    <3>. QED BY <3>2, <3>3
  <2>. QED BY <1>1, <2>1 DEF PointsFit, Excused
<1>7. PointsApart'
  <2>. SUFFICES ASSUME Persistent PROVE PointsApart'
    BY DEF PointsApart
  <2>1. ASSUME NEW w, HeldFits(w), Page(w) \notin raced, NEW v \in Indexing(r), Other(v, w)
        PROVE  FALSE
    <3>1. HeldFits(v)
      BY <1>1, IndexingHeld
    <3>2. Page(v) = Page(w)
      BY <2>1 DEF Other
    <3>. QED BY <1>1, <2>1, <3>1, <3>2, HoldersRace DEF HeldFits
  <2>2. ASSUME NEW q \in Runs, Cleared(q)', NEW w \in Indexing(q)', Page(w) \notin raced
        PROVE  Sole(w)'
    <3>1. w \in Indexing(q) /\ Cleared(q)
      BY <2>2
    <3>2. Sole(w) /\ HeldFits(w)
      BY <1>1, <2>2, <3>1, IndexingHeld DEF PointsApart
    <3>. QED BY <1>4, <2>1, <2>2, <3>2 DEF Sole
  <2>3. ASSUME NEW v \in Versions, NEW w \in Versions, Other(v, w),
               v \in Indexing(r), vectors'[w] # Never, Page(v) \notin raced
        PROVE  FALSE
    <3>1. Sole(v) /\ HeldFits(v)
      BY <1>1, <2>3, IndexingHeld DEF PointsApart
    <3>2. Other(w, v)
      BY <2>3 DEF Other
    <3>3. w \notin Indexing(r)
      BY <2>1, <2>3, <3>1, <3>2
    <3>. QED BY <1>4, <2>3, <3>1, <3>2, <3>3 DEF Sole
  <2>4. ASSUME NEW v \in Versions, NEW w \in Versions, Other(v, w),
               vectors'[v] # Never, vectors'[w] # Never
        PROVE  Page(v) \in raced
    <3>0. Other(w, v) /\ Page(w) = Page(v)
      BY <2>4 DEF Other
    <3>1. CASE v \in Indexing(r) \/ w \in Indexing(r)
      BY <2>3, <2>4, <3>0, <3>1
    <3>2. CASE v \notin Indexing(r) /\ w \notin Indexing(r)
      BY <1>1, <1>4, <2>4, <3>2 DEF PointsApart
    <3>. QED BY <3>1, <3>2
  <2>. QED BY <2>2, <2>4 DEF PointsApart
<1>. QED BY <1>2, <1>5, <1>6, <1>7 DEF IndexInv

LEMMA MarkSteps ==
  ASSUME MemoryInv, IndexInv, TypeOK', UNCHANGED <<stored, vectors, history>>,
         NEW r \in Runs, Marking(r), NEW d \in run[r].todo, indexed' = indexed \cup {d.version},
         \A q \in Runs : CoroutineFits(run[q])', FoundApart', Calm
  PROVE  IndexInv'
<1>. USE DEF stored, history
<1>1. TypeOK /\ RowsFit /\ PointsFit /\ PointsApart
  BY DEF MemoryInv, IndexInv
<1>2. \A v \in Versions : Marked(v)' => Marked(v)
  BY DEF Marked, Calm, Indexing
<1>3. Persistent
  BY <1>1 DEF PointsFit
<1>4. RowsFit'
  BY <1>1, <1>2 DEF RowsFit
<1>5. PointsFit'
  BY <1>1, <1>2, <1>3 DEF PointsFit, TypeOK, Excused
<1>6. PointsApart'
  <2>1. \A w : Sole(w)' = Sole(w)
    BY DEF Sole
  <2>. QED BY <1>1, <2>1 DEF PointsApart, Calm
<1>. QED BY <1>4, <1>5, <1>6 DEF IndexInv

-----------------------------------------------------------------------------
(* The coroutine's way through the index.                                  *)
LEMMA CheckedFits ==
  ASSUME NEW c \in Coroutine, CoroutineFits(c), c.stage = "indexing", NEW d \in c.unchecked,
         NEW new \in Coroutine, new.hand = c.hand, new.found = c.found, new.sources = c.sources,
         new.unchecked = c.unchecked \ {d},
         new.todo = IF Persistent /\ d.version \in indexed THEN c.todo ELSE c.todo \cup {d},
         new.stage = IF new.unchecked # {} THEN "indexing"
                     ELSE IF new.todo = {} THEN "retrieving" ELSE "clearing"
  PROVE  CoroutineFits(new) /\ new.found = {}
<1>1. HandFits(c) /\ EvidenceFits(c)
  BY DEF CoroutineFits
<1>2. \A e \in new.unchecked \cup new.todo : e \in c.unchecked \cup c.todo
  OBVIOUS
<1>3. \A e \in new.unchecked \cup new.todo : e.version \in new.hand /\ DocumentFits(e)
  BY <1>1, <1>2 DEF HandFits
<1>4. ASSUME Persistent, NEW v \in new.hand, v \notin indexed
      PROVE  \E e \in new.unchecked \cup new.todo : e.version = v
  <2>1. PICK e \in c.unchecked \cup c.todo : e.version = v
    BY <1>1, <1>4 DEF HandFits
  <2>2. e \in new.unchecked \cup new.todo
    BY <1>4, <2>1
  <2>. QED BY <2>1, <2>2
<1>5. HandFits(new)
  BY <1>1, <1>3, <1>4 DEF HandFits, Upsert
<1>6. EvidenceFits(new) /\ new.found = {}
  BY <1>1 DEF EvidenceFits, Before
<1>. QED BY <1>5, <1>6 DEF CoroutineFits

LEMMA CheckIndexedKeepsIndex ==
  ASSUME MemoryInv, IndexInv, TypeOK', NEW r \in Runs, NEW d, CheckIndexed(r, d)
  PROVE  IndexInv'
<1>. USE DEF CheckIndexed
<1>1. /\ run[r] \in Coroutine /\ run[r].stage = "indexing" /\ CoroutineFits(run[r])
      /\ thread' = thread /\ thread[r] = "none"
      /\ d \in run[r].unchecked /\ d \in Document
      /\ UNCHANGED <<stored, index, history>>
  <2>1. run[r] \in Coroutine /\ run[r].stage = "indexing" /\ thread[r] = "none"
    BY WorkingRun DEF In
  <2>. QED BY <2>1, RunFits DEF Coroutine
<1>2. PICK rest : rest = [run[r] EXCEPT
                            !.unchecked = @ \ {d},
                            !.todo = IF Persistent /\ d.version \in indexed THEN @ ELSE @ \cup {d}]
  OBVIOUS
<1>3. /\ rest \in Coroutine /\ rest.hand = run[r].hand /\ rest.found = run[r].found
      /\ rest.sources = run[r].sources
      /\ rest.unchecked = run[r].unchecked \ {d}
      /\ rest.todo = IF Persistent /\ d.version \in indexed THEN run[r].todo ELSE run[r].todo \cup {d}
  BY <1>1, <1>2 DEF Coroutine
<1>4. PICK s : s = IF rest.unchecked # {} THEN "indexing"
                   ELSE IF rest.todo = {} THEN "retrieving" ELSE "clearing"
  OBVIOUS
<1>5. s \in Stages
  BY <1>4 DEF Stages
<1>6. PICK new : new = [rest EXCEPT !.stage = s]
  OBVIOUS
<1>7. /\ new \in Coroutine /\ new.hand = run[r].hand /\ new.found = run[r].found
      /\ new.sources = run[r].sources
      /\ new.unchecked = rest.unchecked /\ new.todo = rest.todo /\ new.stage = s
  BY <1>3, <1>5, <1>6 DEF Coroutine
<1>8. Becomes(r, new)
  BY <1>2, <1>4, <1>6
<1>9. CoroutineFits(new) /\ new.found = {}
  <2>. HIDE DEF CheckIndexed
  <2>1. /\ new.unchecked = run[r].unchecked \ {d}
        /\ new.todo = IF Persistent /\ d.version \in indexed THEN run[r].todo
                      ELSE run[r].todo \cup {d}
    BY <1>3, <1>7
  <2>2. new.stage = IF new.unchecked # {} THEN "indexing"
                    ELSE IF new.todo = {} THEN "retrieving" ELSE "clearing"
    BY <1>4, <1>7
  <2>3. /\ run[r] \in Coroutine /\ CoroutineFits(run[r]) /\ run[r].stage = "indexing"
        /\ d \in run[r].unchecked
        /\ new \in Coroutine /\ new.hand = run[r].hand /\ new.found = run[r].found
        /\ new.sources = run[r].sources
    BY <1>1, <1>7
  <2>. QED BY <2>1, <2>2, <2>3, CheckedFits
<1>10. Shrinks(run[r], new) /\ new.stage \notin {"putting", "marking"}
  BY <1>4, <1>7, <1>9 DEF Shrinks
<1>. QED BY <1>1, <1>7, <1>8, <1>9, <1>10, ShrinkingRun

(* From one half of the upsert to the next, and to the marks.              *)
LEMMA UpsertFits ==
  ASSUME NEW c \in Coroutine, CoroutineFits(c), c.stage \in Upsert,
         NEW s \in Upsert \cup {"retrieving"}, s = "retrieving" => ~Persistent,
         NEW new, new = [c EXCEPT !.stage = s]
  PROVE  new \in Coroutine /\ CoroutineFits(new) /\ new.stage = s /\ new.todo = c.todo
         /\ Shrinks(c, new)
<1>1. new \in Coroutine /\ new.stage = s /\ Same(c, new)
  BY DEF Coroutine, Upsert, Stages, Same
<1>2. c.found = {} /\ c.unchecked = {}
  BY DEF CoroutineFits, HandFits, EvidenceFits, Before
<1>3. CoroutineFits(new)
  BY <1>1, <1>2, GoingOnFits DEF Before, Upsert, Same
<1>. QED BY <1>1, <1>2, <1>3 DEF Same, Shrinks

LEMMA ClearKeepsIndex ==
  ASSUME MemoryInv, IndexInv, TypeOK', NEW r \in Runs, Clear(r)
  PROVE  IndexInv'
<1>. USE DEF Clear
<1>1. /\ run[r] \in Coroutine /\ run[r].stage = "clearing" /\ CoroutineFits(run[r])
      /\ thread' = thread /\ thread[r] = "none"
  BY WorkingRun, RunFits DEF In
<1>2. PICK new : new = [run[r] EXCEPT !.stage = "putting"]
  OBVIOUS
<1>3. /\ new \in Coroutine /\ CoroutineFits(new) /\ new.stage = "putting"
      /\ new.todo = run[r].todo /\ Shrinks(run[r], new) /\ Becomes(r, new)
  BY <1>1, <1>2, UpsertFits DEF Upsert
<1>4. run'[r] = new /\ (\A q \in Runs \ {r} : run'[q] = run[q])
  BY <1>3, OneRun DEF MemoryInv
<1>5. (\A q \in Runs : CoroutineFits(run'[q])) /\ FoundApart'
  BY <1>3, OneRunFits, OneRunStaysApart DEF MemoryInv, IndexInv, history
<1>6. ASSUME NEW q \in Runs
      PROVE  /\ Indexing(q)' = Indexing(q)
             /\ Cleared(q)' => Cleared(q) \/ q = r
             /\ Marking(q)' => Marking(q)
             /\ In(q, "retrieving")' => q # r /\ run'[q] = run[q]
  BY <1>1, <1>3, <1>4 DEF Indexing, Cleared, Marking, In
<1>. QED BY <1>5, <1>6, ClearSteps

LEMMA PutKeepsIndex ==
  ASSUME MemoryInv, IndexInv, TypeOK', NEW r \in Runs, Put(r)
  PROVE  IndexInv'
<1>. USE DEF Put
<1>1. /\ run[r] \in Coroutine /\ run[r].stage = "putting" /\ CoroutineFits(run[r])
      /\ thread' = thread /\ thread[r] = "none"
  BY WorkingRun, RunFits DEF In
<1>2. PICK s : s = IF Persistent THEN "marking" ELSE "retrieving"
  OBVIOUS
<1>3. PICK new : new = [run[r] EXCEPT !.stage = s]
  OBVIOUS
<1>4. /\ new \in Coroutine /\ CoroutineFits(new) /\ new.stage = s
      /\ new.todo = run[r].todo /\ Shrinks(run[r], new) /\ Becomes(r, new)
  BY <1>1, <1>2, <1>3, UpsertFits DEF Upsert
<1>5. run'[r] = new /\ (\A q \in Runs \ {r} : run'[q] = run[q])
  BY <1>4, OneRun DEF MemoryInv
<1>6. (\A q \in Runs : CoroutineFits(run'[q])) /\ FoundApart'
  BY <1>4, OneRunFits, OneRunStaysApart DEF MemoryInv, IndexInv, history
<1>7. ASSUME NEW q \in Runs
      PROVE  /\ Indexing(q)' \subseteq Indexing(q)
             /\ Cleared(q)' => Cleared(q) /\ q # r
             /\ Marking(q)' => Marking(q) \/ (Persistent /\ q = r)
  <2>1. CASE q = r
    BY <1>1, <1>2, <1>4, <1>5, <2>1 DEF Indexing, Cleared, Marking, In
  <2>2. CASE q # r
    BY <1>1, <1>5, <2>2 DEF Indexing, Cleared, Marking, In
  <2>. QED BY <2>1, <2>2
<1>8. Cleared(r)
  BY <1>1 DEF Cleared, In
<1>. QED BY <1>6, <1>7, <1>8, PutSteps

LEMMA MarkedFits ==
  ASSUME NEW c \in Coroutine, CoroutineFits(c), c.stage = "marking", NEW d \in c.todo,
         NEW new \in Coroutine, new.hand = c.hand, new.found = c.found, new.sources = c.sources,
         new.unchecked = c.unchecked, new.todo = c.todo \ {d},
         new.stage = IF new.todo = {} THEN "retrieving" ELSE "marking",
         UNCHANGED <<stored, vectors, history>>, indexed' = indexed \cup {d.version}
  PROVE  CoroutineFits(new)' /\ new.found = {}
<1>. USE DEF stored, history
<1>1. HandFits(c) /\ EvidenceFits(c)
  BY DEF CoroutineFits
<1>2. c.unchecked = {}
  BY <1>1 DEF HandFits, Upsert
<1>3. \A e \in new.todo : e.version \in new.hand /\ DocumentFits(e)'
  BY <1>1 DEF HandFits, DocumentFits
<1>4. \A v \in new.hand : HeldFits(v)'
  BY <1>1 DEF HandFits, HeldFits
<1>5. ASSUME Persistent, NEW v \in new.hand, v \notin indexed'
      PROVE  \E e \in new.todo : e.version = v
  <2>1. PICK e \in c.todo : e.version = v
    BY <1>1, <1>2, <1>5 DEF HandFits
  <2>2. e # d
    BY <1>5, <2>1
  <2>. QED BY <2>1, <2>2
<1>6. HandFits(new)'
  BY <1>2, <1>3, <1>4, <1>5 DEF HandFits, Upsert
<1>7. EvidenceFits(new)' /\ new.found = {}
  BY <1>1 DEF EvidenceFits, Before, Upsert
<1>. QED BY <1>6, <1>7 DEF CoroutineFits

LEMMA MarkKeepsIndex ==
  ASSUME MemoryInv, IndexInv, TypeOK', NEW r \in Runs, NEW d, Mark(r, d)
  PROVE  IndexInv'
<1>. USE DEF Mark
<1>1. /\ run[r] \in Coroutine /\ run[r].stage = "marking" /\ CoroutineFits(run[r])
      /\ thread' = thread /\ thread[r] = "none"
      /\ d \in run[r].todo /\ indexed' = indexed \cup {d.version}
      /\ UNCHANGED <<stored, vectors, history>>
  BY WorkingRun, RunFits DEF In
<1>2. PICK rest : rest = run[r].todo \ {d}
  OBVIOUS
<1>3. PICK s : s = IF rest = {} THEN "retrieving" ELSE "marking"
  OBVIOUS
<1>4. PICK new : new = [run[r] EXCEPT !.todo = rest, !.stage = s]
  OBVIOUS
<1>5. /\ new \in Coroutine /\ new.hand = run[r].hand /\ new.found = run[r].found
      /\ new.sources = run[r].sources
      /\ new.unchecked = run[r].unchecked /\ new.todo = rest /\ new.stage = s
  BY <1>1, <1>2, <1>3, <1>4 DEF Coroutine, Stages
<1>6. Becomes(r, new)
  BY <1>2, <1>3, <1>4
<1>7. CoroutineFits(new)' /\ new.found = {}
  BY <1>1, <1>2, <1>3, <1>5, MarkedFits
<1>8. run'[r] = new /\ (\A q \in Runs \ {r} : run'[q] = run[q])
  BY <1>6, OneRun DEF MemoryInv
<1>9. ASSUME NEW q \in Runs PROVE CoroutineFits(run[q])'
  <2>1. CASE q = r
    BY <1>7, <1>8, <2>1
  <2>2. CASE q # r
    <3>1. CoroutineFits(run[q]) /\ run'[q] = run[q]
      BY <1>8, <2>2, RunFits
    <3>2. PICK c : c = run[q]
      OBVIOUS
    <3>3. CoroutineFits(c)'
      BY <1>1, <3>1, <3>2, StillFits DEF stored, history
    <3>. QED BY <3>1, <3>2, <3>3
  <2>. QED BY <2>1, <2>2
<1>10. Calm
  <2>1. ASSUME NEW q \in Runs
        PROVE  /\ Cleared(q)' => Cleared(q) /\ Indexing(q)' \subseteq Indexing(q)
               /\ Marking(q)' => Marking(q) /\ Indexing(q)' \subseteq Indexing(q)
    <3>1. CASE q = r
      BY <1>1, <1>2, <1>3, <1>5, <1>8, <3>1 DEF Indexing, Cleared, Marking, In
    <3>2. CASE q # r
      BY <1>1, <1>8, <3>2 DEF Indexing, Cleared, Marking, In
    <3>. QED BY <3>1, <3>2
  <2>. QED BY <2>1 DEF Calm
<1>11. Marking(r)
  BY <1>1 DEF Marking, In
<1>12. FoundApart'
  <2>1. Shrinks(run[r], new)
    BY <1>5, <1>7 DEF Shrinks
  <2>. QED BY <1>1, <1>5, <1>6, <2>1, OneRunStaysApart DEF MemoryInv, IndexInv, history
<1>. QED BY <1>1, <1>9, <1>10, <1>11, <1>12, MarkSteps

-----------------------------------------------------------------------------
(* The report.                                                             *)
LEMMA CitedFits ==
  ASSUME NEW c \in Coroutine, CoroutineFits(c), c.stage = "binding",
         NEW sources \in Citations(c.hand, c.sources),
         NEW new \in Coroutine, new.stage = "evaluating", new.hand = {}, new.todo = {},
         new.unchecked = {}, new.sources = sources,
         new.found = {v \in c.found : \E w \in sources : Page(w) = Page(v)}
  PROVE  CoroutineFits(new)
<1>1. HandFits(new)
  BY DEF HandFits, Upsert
<1>2. EvidenceFits(c)
  BY DEF CoroutineFits
<1>3. ASSUME Persistent, NEW v \in new.found \ new.sources
      PROVE  \E w \in new.sources : Other(v, w) /\ Excused(w)
  <2>1. PICK w \in sources : Page(w) = Page(v)
    BY <1>3
  <2>2. w \in c.hand \cup c.found
    BY <1>2 DEF Citations, EvidenceFits
  <2>3. Other(v, w)
    BY <1>3, <2>1 DEF Other
  <2>4. Excused(w)
    BY <1>2, <1>3, <2>2, <2>3 DEF EvidenceFits
  <2>. QED BY <2>3, <2>4
<1>4. EvidenceFits(new)
  BY <1>3 DEF EvidenceFits, Before, Upsert
<1>. QED BY <1>1, <1>4 DEF CoroutineFits

(* The next look-up, or the citations.                                     *)
LEMMA BindFits ==
  ASSUME TypeOK, NEW r \in Runs, NEW c \in Coroutine, CoroutineFits(c), c.stage = "binding",
         c.hand = run[r].hand, Bind(r, c)
  PROVE  \E new \in Coroutine : /\ Becomes(r, new) /\ CoroutineFits(new) /\ Shrinks(run[r], new)
                                /\ new.stage \in {"binding", "evaluating"}
<1>1. CASE c.unread # {}
  BY <1>1 DEF Bind, Shrinks
<1>2. CASE c.unread = {}
  <2>1. PICK sources \in Citations(c.hand, c.sources) :
          Becomes(r, [Fresh("evaluating", FALSE) EXCEPT
                        !.sources = sources,
                        !.found   = {v \in c.found : \E w \in sources : Page(w) = Page(v)}])
    BY <1>2 DEF Bind
  <2>2. PICK empty : empty = Fresh("evaluating", FALSE)
    OBVIOUS
  <2>3. /\ empty \in Coroutine /\ empty.stage = "evaluating" /\ empty.hand = {}
        /\ empty.todo = {} /\ empty.unchecked = {}
    BY <2>2, FreshTyped DEF Stages, Fresh
  <2>4. PICK cited : cited = {v \in c.found : \E w \in sources : Page(w) = Page(v)}
    OBVIOUS
  <2>5. sources \subseteq Versions /\ cited \subseteq Versions
    BY <2>4 DEF Citations, Coroutine
  <2>6. PICK new : new = [empty EXCEPT !.sources = sources, !.found = cited]
    OBVIOUS
  <2>7. /\ new \in Coroutine /\ new.stage = "evaluating" /\ new.hand = {} /\ new.todo = {}
        /\ new.unchecked = {} /\ new.sources = sources /\ new.found = cited
    BY <2>3, <2>5, <2>6 DEF Coroutine
  <2>8. CoroutineFits(new)
    BY <2>4, <2>7, CitedFits
  <2>9. Becomes(r, new)
    BY <2>1, <2>2, <2>4, <2>6
  <2>. QED BY <2>7, <2>8, <2>9 DEF Shrinks
<1>. QED BY <1>1, <1>2

LEMMA LookUpKeepsIndex ==
  ASSUME MemoryInv, IndexInv, TypeOK', NEW r \in Runs, NEW v \in run[r].unread, LookUp(r, v)
  PROVE  IndexInv'
<1>1. /\ run[r] \in Coroutine /\ run[r].stage = "binding" /\ CoroutineFits(run[r])
      /\ thread' = thread /\ thread[r] = "none" /\ TypeOK
      /\ UNCHANGED <<stored, index, history>>
  BY WorkingRun, RunFits DEF In, LookUp, MemoryInv
<1>2. PICK sources : sources = IF expires[v] = Never THEN run[r].sources ELSE run[r].sources \cup {v}
  OBVIOUS
<1>3. PICK c : c = [run[r] EXCEPT !.unread = @ \ {v}, !.sources = sources]
  OBVIOUS
<1>4. /\ c \in Coroutine /\ c.stage = "binding" /\ c.hand = run[r].hand /\ c.todo = run[r].todo
      /\ c.unchecked = run[r].unchecked /\ c.found = run[r].found
      /\ c.unread = run[r].unread \ {v} /\ c.sources = sources
  <2>1. sources \in SUBSET Versions
    BY <1>1, <1>2 DEF Coroutine
  <2>. QED BY <1>1, <1>3, <2>1 DEF Coroutine
<1>5. CoroutineFits(c)
  <2>1. HandFits(c)
    BY <1>1, <1>4 DEF CoroutineFits, HandFits
  <2>2. c.sources \cup c.unread \subseteq c.found
    BY <1>1, <1>2, <1>4 DEF CoroutineFits, EvidenceFits
  <2>3. EvidenceFits(c)
    BY <1>1, <1>4, <2>2 DEF CoroutineFits, EvidenceFits, Before, Upsert
  <2>. QED BY <2>1, <2>3 DEF CoroutineFits
<1>6. Bind(r, c)
  BY <1>2, <1>3 DEF LookUp
<1>7. PICK new \in Coroutine : /\ Becomes(r, new) /\ CoroutineFits(new) /\ Shrinks(run[r], new)
                               /\ new.stage \in {"binding", "evaluating"}
  BY <1>1, <1>4, <1>5, <1>6, BindFits
<1>. QED BY <1>1, <1>7, ShrinkingRun

(* A search: what it adds to what was found has points.                    *)
LEMMA SearchedFits ==
  ASSUME MemoryInv, IndexInv, NEW r \in Runs, In(r, "retrieving"), NEW points \in SUBSET Live,
         NEW found, found = run[r].found \cup points,
         NEW new \in Coroutine, new.stage \in {"retrieving", "binding"},
         new.hand = run[r].hand, new.todo = run[r].todo, new.unchecked = run[r].unchecked,
         new.found = found, new.sources = run[r].sources,
         new.stage = "binding" => new.unread = found \ run[r].hand
  PROVE  CoroutineFits(new)
<1>1. run[r] \in Coroutine /\ run[r].stage = "retrieving" /\ HandFits(run[r]) /\ EvidenceFits(run[r])
  BY RunTyped, RunFits DEF In, MemoryInv, CoroutineFits
<1>2. found \subseteq Versions
  BY <1>1 DEF Live, Coroutine
<1>4. HandFits(new)
  BY <1>1 DEF HandFits, Upsert
<1>5. ASSUME Persistent, NEW v \in found PROVE vectors[v] # Never \/ Page(v) \in raced
  BY <1>1, <1>5 DEF EvidenceFits, Live
<1>6. ASSUME Persistent, NEW v \in found, NEW w \in found \cup run[r].hand, Other(v, w)
      PROVE  Excused(w)
  <2>. SUFFICES ASSUME ~Excused(w) PROVE FALSE
    OBVIOUS
  <2>1. v \in Versions /\ w \in Versions /\ Page(v) = Page(w) /\ Page(v) \notin raced
    BY <1>1, <1>2, <1>6 DEF Coroutine, Other, Excused
  <2>2. vectors[v] # Never
    BY <1>5, <1>6, <2>1
  <2>3. vectors[w] # Never
    <3>1. CASE w \in found
      BY <1>5, <1>6, <2>1, <3>1
    <3>2. CASE w \in run[r].hand
      <4>1. HeldFits(w) /\ w \in indexed
        BY <1>1, <1>6, <3>2 DEF HandFits
      <4>2. vectors[w] = expires[w]
        BY <2>1, <4>1 DEF HeldFits, Marked, IndexInv, PointsFit
      <4>. QED BY <4>1, <4>2 DEF HeldFits
    <3>. QED BY <3>1, <3>2
  <2>. QED BY <1>6, <2>1, <2>2, <2>3 DEF IndexInv, PointsApart
<1>7. EvidenceFits(new)
  <2>1. run[r].sources = {}
    BY <1>1 DEF EvidenceFits
  <2>. QED BY <1>5, <1>6, <2>1 DEF EvidenceFits, Before, Upsert
<1>. QED BY <1>4, <1>7 DEF CoroutineFits

LEMMA RetrieveKeepsIndex ==
  ASSUME MemoryInv, IndexInv, TypeOK', NEW r \in Runs, Retrieve(r)
  PROVE  IndexInv'
<1>1. /\ run[r] \in Coroutine /\ In(r, "retrieving") /\ run[r].stage = "retrieving"
      /\ thread' = thread /\ thread[r] = "none" /\ TypeOK /\ FoundApart
      /\ UNCHANGED <<stored, index, resaved>>
  BY WorkingRun DEF In, Retrieve, MemoryInv, IndexInv
<1>2. PICK points \in SUBSET Live :
        /\ \/ Becomes(r, [run[r] EXCEPT !.found = run[r].found \cup points])
           \/ Bind(r, [run[r] EXCEPT !.stage = "binding", !.found = run[r].found \cup points,
                                     !.unread = (run[r].found \cup points) \ run[r].hand])
        /\ raced' = raced \cup
             {Page(v) : v \in {x \in points : \E q \in Runs \ {r} : \E w \in run[q].hand :
                                                Page(w) = Page(x) /\ w # x}}
  BY DEF Retrieve
<1>3. PICK found : found = run[r].found \cup points
  OBVIOUS
<1>4. raced \subseteq raced' /\ found \in SUBSET Versions
  BY <1>1, <1>2, <1>3 DEF Live, Coroutine
<1>5. ASSUME Becomes(r, [run[r] EXCEPT !.found = found]) PROVE IndexInv'
  <2>1. PICK new : new = [run[r] EXCEPT !.found = found]
    OBVIOUS
  <2>2. /\ new \in Coroutine /\ CoroutineFits(new) /\ new.stage = "retrieving"
        /\ new.hand = run[r].hand /\ new.found = found
    <3>1. /\ new \in Coroutine /\ new.stage = "retrieving" /\ new.hand = run[r].hand
          /\ new.todo = run[r].todo /\ new.unchecked = run[r].unchecked /\ new.found = found
          /\ new.sources = run[r].sources
      BY <1>1, <1>4, <2>1 DEF Coroutine
    <3>. QED BY <1>1, <1>3, <3>1, SearchedFits
  <2>3. Becomes(r, new)
    BY <1>5, <2>1
  <2>4. run'[r] = new /\ \A q \in Runs \ {r} : run'[q] = run[q]
    BY <1>1, <2>3, OneRun
  <2>5. FoundApart'
    <3>. SUFFICES ASSUME NEW x \in Runs, NEW y \in Runs, x # y, In(x, "retrieving")',
                         NEW v \in run'[x].found, NEW w \in run'[y].hand, Other(v, w)
                  PROVE  Page(v) \in raced'
      BY DEF FoundApart
    <3>1. w \in run[y].hand
      BY <2>2, <2>4
    <3>2. In(x, "retrieving")
      BY <1>1, <2>4 DEF In
    <3>3. CASE v \in run[x].found
      BY <1>1, <1>4, <3>1, <3>2, <3>3 DEF FoundApart
    <3>4. CASE v \notin run[x].found
      <4>1. x = r /\ v \in points
        BY <1>3, <2>2, <2>4, <3>4
      <4>. QED BY <1>2, <3>1, <4>1 DEF Other
    <3>. QED BY <3>3, <3>4
  <2>. QED BY <1>1, <1>4, <2>2, <2>3, <2>5, QuietRun
<1>6. ASSUME Bind(r, [run[r] EXCEPT !.stage = "binding", !.found = found,
                                    !.unread = found \ run[r].hand])
      PROVE  IndexInv'
  <2>1. PICK c : c = [run[r] EXCEPT !.stage = "binding", !.found = found,
                                    !.unread = found \ run[r].hand]
    OBVIOUS
  <2>2. c \in Coroutine /\ CoroutineFits(c) /\ c.stage = "binding" /\ c.hand = run[r].hand
    <3>1. /\ c \in Coroutine /\ c.stage = "binding" /\ c.hand = run[r].hand
          /\ c.todo = run[r].todo /\ c.unchecked = run[r].unchecked /\ c.found = found
          /\ c.sources = run[r].sources /\ c.unread = found \ run[r].hand
      BY <1>1, <1>4, <2>1 DEF Coroutine, Stages
    <3>. QED BY <1>1, <1>3, <3>1, SearchedFits
  <2>3. PICK new \in Coroutine : /\ Becomes(r, new) /\ CoroutineFits(new) /\ Shrinks(run[r], new)
                                 /\ new.stage \in {"binding", "evaluating"}
    BY <1>1, <1>6, <2>1, <2>2, BindFits
  <2>4. FoundApart'
    BY <1>1, <1>4, <2>3, OneRunStaysApart
  <2>. QED BY <1>1, <1>4, <2>3, <2>4, QuietRun
<1>. QED BY <1>2, <1>3, <1>5, <1>6

LEMMA EvaluateKeepsIndex ==
  ASSUME MemoryInv, IndexInv, TypeOK', NEW r \in Runs, Evaluate(r)
  PROVE  IndexInv'
<1>. USE DEF Evaluate
<1>1. /\ run[r] \in Coroutine /\ run[r].stage = "evaluating" /\ CoroutineFits(run[r])
      /\ thread' = thread /\ thread[r] = "none"
      /\ UNCHANGED <<stored, index, history>>
  BY WorkingRun, RunFits DEF In
<1>2. CASE run[r].found # {} /\ ~Exists(r)
  BY <1>1, <1>2, RaisingKeepsIndex
<1>3. CASE ~(run[r].found # {} /\ ~Exists(r))
  <2>1. PICK status \in {"complete", "insufficient_evidence"} :
          Becomes(r, [run[r] EXCEPT !.stage = "finishing", !.status = status])
    BY <1>3
  <2>2. PICK new : new = [run[r] EXCEPT !.stage = "finishing", !.status = status]
    OBVIOUS
  <2>3. new \in Coroutine /\ new.stage = "finishing" /\ Same(run[r], new)
    BY <1>1, <2>2 DEF Coroutine, Stages, Same
  <2>4. CoroutineFits(new)
    BY <1>1, <2>3, LeavingFits
  <2>. QED BY <1>1, <2>1, <2>2, <2>3, <2>4, ShrinkingRun DEF Shrinks, Same
<1>. QED BY <1>2, <1>3

LEMMA FinishKeepsIndex ==
  ASSUME MemoryInv, IndexInv, TypeOK', NEW r \in Runs, Finish(r)
  PROVE  IndexInv'
<1>. USE DEF Finish
<1>1. /\ thread' = thread /\ thread[r] = "none"
      /\ UNCHANGED <<stored, index, history>>
  BY WorkingRun DEF In
<1>2. CASE rows[r] = "running"
  <2>1. PICK new : new = Fresh("returned", FALSE)
    OBVIOUS
  <2>2. new \in Coroutine /\ new.stage = "returned" /\ CoroutineFits(new) /\ new.hand = {}
    BY <2>1, FreshFits DEF Stages, Ended
  <2>3. Becomes(r, new)
    BY <1>2, <2>1 DEF Return
  <2>. QED BY <1>1, <2>2, <2>3, ShrinkingRun DEF Shrinks
<1>3. CASE rows[r] # "running"
  BY <1>1, <1>3, RaisingKeepsIndex
<1>. QED BY <1>2, <1>3

-----------------------------------------------------------------------------
(* Faults of the coroutine.                                                *)
LEMMA LeavingKeepsIndex ==
  ASSUME MemoryInv, IndexInv, TypeOK', NEW r \in Runs,
         NEW s \in {"failing", "raised", "abandoned"}, Becomes(r, [run[r] EXCEPT !.stage = s]),
         UNCHANGED <<stored, index, history>>,
         \A q \in Runs \ {r} : thread'[q] = thread[q], thread'[r] \in {thread[r], run[r].stage}
  PROVE  IndexInv'
<1>1. run[r] \in Coroutine /\ CoroutineFits(run[r])
  BY RunTyped, RunFits DEF MemoryInv
<1>2. PICK new : new = [run[r] EXCEPT !.stage = s]
  OBVIOUS
<1>3. new \in Coroutine /\ new.stage = s /\ Same(run[r], new)
  BY <1>1, <1>2 DEF Coroutine, Stages, Ended, Same
<1>4. CoroutineFits(new)
  BY <1>1, <1>3, LeavingFits
<1>5. Shrinks(run[r], new) /\ new.todo = run[r].todo
  BY <1>3 DEF Shrinks, Same
<1>. QED BY <1>2, <1>3, <1>4, <1>5, ShrinkingRun

LEMMA FailKeepsIndex ==
  ASSUME MemoryInv, IndexInv, TypeOK', NEW r \in Runs, Fail(r) \/ CancelAgain(r)
  PROVE  IndexInv'
<1>1. PICK s \in {"raised", "abandoned"} :
        Becomes(r, IF thread[r] = "none" THEN Fresh(s, FALSE) ELSE [run[r] EXCEPT !.stage = s])
  BY DEF Fail, CancelAgain
<1>2. UNCHANGED <<stored, index, history>> /\ thread' = thread
  BY DEF Fail, CancelAgain
<1>3. CASE thread[r] = "none"
  <2>1. PICK new : new = Fresh(s, FALSE)
    OBVIOUS
  <2>2. new \in Coroutine /\ new.stage = s /\ CoroutineFits(new) /\ new.hand = {}
    BY <2>1, FreshFits DEF Stages, Ended
  <2>3. Becomes(r, new)
    BY <1>1, <1>3, <2>1
  <2>. QED BY <1>2, <1>3, <2>2, <2>3, ShrinkingRun DEF Shrinks
<1>4. CASE thread[r] # "none"
  BY <1>1, <1>2, <1>4, LeavingKeepsIndex
<1>. QED BY <1>3, <1>4

LEMMA ErrorKeepsIndex ==
  ASSUME MemoryInv, IndexInv, TypeOK', NEW r \in Runs, Error(r)
  PROVE  IndexInv'
<1>1. thread' = thread /\ thread[r] = "none" /\ Raise(r) /\ UNCHANGED <<stored, index, history>>
  BY WorkingRun DEF Error
<1>. QED BY <1>1, RaisingKeepsIndex

LEMMA CancelKeepsIndex ==
  ASSUME MemoryInv, IndexInv, TypeOK', NEW r \in Runs, Cancel(r)
  PROVE  IndexInv'
<1>1. thread[r] = "none" /\ UNCHANGED <<stored, index, history>>
  BY WorkingRun DEF Cancel, Working, Ended
<1>2. CASE Raise(r) /\ UNCHANGED thread
  BY <1>1, <1>2, RaisingKeepsIndex
<1>3. CASE LeaveBehind(r) /\ thread' = [thread EXCEPT ![r] = run[r].stage]
  <2>1. Becomes(r, [run[r] EXCEPT !.stage = "failing"])
    BY <1>3 DEF LeaveBehind
  <2>2. /\ \A q \in Runs \ {r} : thread'[q] = thread[q]
        /\ thread'[r] \in {thread[r], run[r].stage}
    BY <1>3 DEF MemoryInv, TypeOK
  <2>. QED BY <1>1, <2>1, <2>2, LeavingKeepsIndex
<1>. QED BY <1>2, <1>3 DEF Cancel

-----------------------------------------------------------------------------
(* The calls that outlive their coroutine.                                 *)
LEMMA OverFits ==
  ASSUME MemoryInv, IndexInv, NEW r \in Runs, thread[r] # "none", Over(r)
  PROVE  /\ run'[r] \in Coroutine /\ run'[r].hand = {} /\ run'[r].todo = {} /\ run'[r].found = {}
         /\ run'[r].unchecked = {} /\ run'[r].unread = {} /\ run'[r].sources = {}
         /\ run'[r].stage \in {"failing", "raised", "abandoned"}
         /\ \A q \in Runs \ {r} : run'[q] = run[q] /\ thread'[q] = thread[q]
         /\ thread'[r] = "none"
<1>1. run[r].stage \in {"failing", "raised", "abandoned"}
  BY DEF MemoryInv, RecordsFit, ThreadsFit
<1>2. PICK new : new = Fresh(run[r].stage, FALSE)
  OBVIOUS
<1>3. /\ new \in Coroutine /\ new.stage = run[r].stage /\ new.hand = {} /\ new.todo = {}
      /\ new.found = {} /\ new.unchecked = {} /\ new.unread = {} /\ new.sources = {}
  BY <1>1, <1>2, FreshTyped DEF Stages, Ended, Fresh
<1>4. Becomes(r, new)
  BY <1>2 DEF Over
<1>5. run'[r] = new /\ \A q \in Runs \ {r} : run'[q] = run[q]
  BY <1>4, OneRun DEF MemoryInv
<1>6. thread'[r] = "none" /\ \A q \in Runs \ {r} : thread'[q] = thread[q]
  BY DEF Over, MemoryInv, TypeOK
<1>. QED BY <1>1, <1>3, <1>5, <1>6

LEMMA OverRuns ==
  ASSUME MemoryInv, IndexInv, NEW r \in Runs, thread[r] # "none", Over(r)
  PROVE  /\ \A q \in Runs : CoroutineFits(run'[q])
         /\ \A q \in Runs : run'[q] = run[q] \/ Shrinks(run[q], run'[q])
         /\ \A q \in Runs : /\ Indexing(q)' \subseteq Indexing(q)
                            /\ Cleared(q)' => Cleared(q) /\ q # r
                            /\ Marking(q)' => Marking(q) /\ q # r
<1>1. /\ run'[r] \in Coroutine /\ run'[r].hand = {} /\ run'[r].todo = {} /\ run'[r].found = {}
      /\ run'[r].unchecked = {} /\ run'[r].unread = {} /\ run'[r].sources = {}
      /\ run'[r].stage \in {"failing", "raised", "abandoned"}
      /\ \A q \in Runs \ {r} : run'[q] = run[q] /\ thread'[q] = thread[q]
      /\ thread'[r] = "none"
  BY OverFits
<1>2. \A q \in Runs : CoroutineFits(run'[q])
  BY <1>1, EmptyFits, RunFits
<1>3. Shrinks(run[r], run'[r])
  BY <1>1 DEF Shrinks
<1>4. ASSUME NEW q \in Runs
      PROVE  /\ Indexing(q)' \subseteq Indexing(q)
             /\ Cleared(q)' => Cleared(q) /\ q # r
             /\ Marking(q)' => Marking(q) /\ q # r
  <2>1. CASE q = r
    BY <1>1, <2>1 DEF Indexing, Cleared, Marking, In
  <2>2. CASE q # r
    BY <1>1, <2>2 DEF Indexing, Cleared, Marking, In
  <2>. QED BY <2>1, <2>2
<1>. QED BY <1>1, <1>2, <1>3, <1>4

LEMMA OverCalm ==
  ASSUME MemoryInv, IndexInv, raced \subseteq raced', NEW r \in Runs, thread[r] # "none", Over(r)
  PROVE  Calm /\ FoundApart'
<1>1. Calm
  BY OverRuns DEF Calm
<1>2. FoundApart'
  BY OverRuns, ShrinkingStaysApart DEF IndexInv
<1>. QED BY <1>1, <1>2

LEMMA ThreadSavesKeepsIndex ==
  ASSUME MemoryInv, IndexInv, TypeOK', NEW r \in Runs, ThreadSaves(r)
  PROVE  IndexInv'
<1>. USE DEF ThreadSaves
<1>1. PICK g \in Text : SaveRow(g)
  BY RunTyped DEF MemoryInv, Coroutine
<1>2. /\ thread[r] # "none" /\ Over(r) /\ UNCHANGED index /\ TypeOK
  BY DEF MemoryInv
<1>3. resaved \subseteq resaved' /\ raced \subseteq raced'
  BY <1>1, <1>2, SavedRows
<1>4. ASSUME NEW q \in Runs PROVE CoroutineFits(run[q])'
  <2>1. CASE q = r
    <3>1. PICK c : c = run'[r]
      OBVIOUS
    <3>2. /\ c \in Coroutine /\ c.hand = {} /\ c.todo = {} /\ c.found = {}
          /\ c.unchecked = {} /\ c.unread = {} /\ c.sources = {}
      BY <1>2, <3>1, OverFits
    <3>3. CoroutineFits(c)'
      BY <3>2 DEF CoroutineFits, HandFits, EvidenceFits
    <3>. QED BY <2>1, <3>1, <3>3
  <2>2. CASE q # r
    <3>1. PICK c : c = run[q]
      OBVIOUS
    <3>2. run'[q] = c /\ CoroutineFits(c)
      BY <1>2, <2>2, <3>1, RunFits, OverFits
    <3>3. (\A w \in c.hand : HeldFits(w)') /\ (\A e \in c.unchecked \cup c.todo : DocumentFits(e)')
      BY <1>1, <1>2, <3>1, SaveKeepsHands
    <3>4. HandFits(c)'
      BY <1>2, <3>2, <3>3 DEF CoroutineFits, HandFits, index
    <3>5. EvidenceFits(c)'
      <4>1. vectors' = vectors
        BY <1>2 DEF index
      <4>. QED BY <1>3, <3>2, <4>1 DEF CoroutineFits, EvidenceFits, Excused
    <3>. QED BY <3>2, <3>4, <3>5 DEF CoroutineFits
  <2>. QED BY <2>1, <2>2
<1>. QED BY <1>1, <1>2, <1>3, <1>4, OverCalm, SaveSteps

LEMMA ThreadClearsKeepsIndex ==
  ASSUME MemoryInv, IndexInv, TypeOK', NEW r \in Runs, ThreadClears(r)
  PROVE  IndexInv'
<1>. USE DEF ThreadClears
<1>1. run' = run /\ thread' = [thread EXCEPT ![r] = "putting"]
  OBVIOUS
<1>2. run[r].stage \in {"failing", "raised", "abandoned"}
  BY DEF MemoryInv, RecordsFit, ThreadsFit
<1>3. ASSUME NEW q \in Runs
      PROVE  /\ Indexing(q)' = Indexing(q)
             /\ Cleared(q)' => Cleared(q) \/ q = r
             /\ Marking(q)' => Marking(q)
             /\ In(q, "retrieving")' => q # r /\ run'[q] = run[q]
  BY <1>1, <1>2 DEF Indexing, Cleared, Marking, In, MemoryInv, TypeOK
<1>4. \A q \in Runs : CoroutineFits(run'[q])
  BY <1>1, RunFits
<1>5. FoundApart'
  BY <1>1, ShrinkingStaysApart DEF IndexInv, history
<1>. QED BY <1>3, <1>4, <1>5, ClearSteps

LEMMA ThreadPutsKeepsIndex ==
  ASSUME MemoryInv, IndexInv, TypeOK', NEW r \in Runs, ThreadPuts(r)
  PROVE  IndexInv'
<1>. USE DEF ThreadPuts
<1>1. thread[r] # "none" /\ Over(r) /\ Cleared(r) /\ raced' = raced
  BY DEF Cleared, history
<1>2. /\ \A q \in Runs : CoroutineFits(run'[q])
      /\ \A q \in Runs : /\ Indexing(q)' \subseteq Indexing(q)
                         /\ Cleared(q)' => Cleared(q) /\ q # r
                         /\ Marking(q)' => Marking(q) \/ (Persistent /\ q = r)
  BY <1>1, OverRuns
<1>3. FoundApart'
  BY <1>1, OverCalm
<1>. QED BY <1>1, <1>2, <1>3, PutSteps

LEMMA ThreadMarksKeepsIndex ==
  ASSUME MemoryInv, IndexInv, TypeOK', NEW r \in Runs, ThreadMarks(r)
  PROVE  IndexInv'
<1>. USE DEF ThreadMarks
<1>1. PICK d \in run[r].todo : indexed' = indexed \cup {d.version}
  OBVIOUS
<1>2. /\ thread[r] # "none" /\ Over(r) /\ Marking(r)
      /\ UNCHANGED <<stored, vectors, history>>
  BY DEF Marking
<1>3. ASSUME NEW q \in Runs PROVE CoroutineFits(run[q])'
  <2>1. CoroutineFits(run'[q])
    BY <1>2, OverRuns
  <2>2. PICK c : c = run'[q]
    OBVIOUS
  <2>3. CoroutineFits(c)'
    BY <1>1, <1>2, <2>1, <2>2, StillFits DEF stored, history
  <2>. QED BY <2>2, <2>3
<1>4. raced' = raced
  BY <1>2 DEF history
<1>. QED BY <1>1, <1>2, <1>3, <1>4, OverCalm, MarkSteps

LEMMA ThreadFinishesKeepsIndex ==
  ASSUME MemoryInv, IndexInv, TypeOK', NEW r \in Runs, ThreadFinishes(r)
  PROVE  IndexInv'
<1>. USE DEF ThreadFinishes
<1>1. thread[r] # "none" /\ Over(r) /\ UNCHANGED <<stored, indexed, vectors, resaved, raced>>
  BY DEF index, history
<1>2. \A q \in Runs : CoroutineFits(run'[q])
  BY <1>1, OverRuns
<1>. QED BY <1>1, <1>2, OverCalm, QuietSteps

-----------------------------------------------------------------------------
LEMMA CrashKeepsIndex ==
  ASSUME MemoryInv, IndexInv, TypeOK', Crash
  PROVE  IndexInv'
<1>. USE DEF Crash
<1>1. ASSUME NEW q \in Runs
      PROVE  /\ \/ run'[q] = run[q] /\ run[q].stage \in {"idle"} \cup Ended
                \/ run'[q] = Fresh("killed", FALSE)
             /\ thread'[q] = "none"
  OBVIOUS
<1>2. /\ Fresh("killed", FALSE).stage = "killed" /\ CoroutineFits(Fresh("killed", FALSE))
      /\ Fresh("killed", FALSE).hand = {}
  BY FreshFits DEF Stages, Ended
<1>3. \A q \in Runs : CoroutineFits(run'[q])
  BY <1>1, <1>2, RunFits
<1>4. Calm
  <2>1. \A q \in Runs : run'[q].stage \notin {"putting", "marking"}
    BY <1>1, <1>2 DEF Ended
  <2>. QED BY <1>1, <2>1 DEF Calm, Cleared, Marking, In
<1>5. UNCHANGED <<indexed, stored, resaved, raced>>
  BY DEF history
<1>6. FoundApart'
  <2>1. \A q \in Runs : run'[q] = run[q] \/ Shrinks(run[q], run'[q])
    BY <1>1, <1>2 DEF Shrinks
  <2>. QED BY <1>5, <2>1, ShrinkingStaysApart DEF IndexInv
<1>7. vectors' = vectors \/ (~Persistent /\ vectors' = [v \in Versions |-> Never])
  OBVIOUS
<1>. QED BY <1>3, <1>4, <1>5, <1>6, <1>7, QuietSteps

LEMMA OthersKeepIndex ==
  ASSUME MemoryInv, IndexInv, TypeOK', UNCHANGED <<stored, index, history, run, thread>>
  PROVE  IndexInv'
<1>1. \A q \in Runs : CoroutineFits(run'[q])
  BY RunFits
<1>2. Calm
  BY DEF Calm, Cleared, Marking, Indexing, In
<1>3. UNCHANGED <<stored, indexed, vectors, resaved, raced, run>>
  BY DEF index, history
<1>4. FoundApart'
  BY <1>3, ShrinkingStaysApart DEF IndexInv
<1>. QED BY <1>1, <1>2, <1>3, <1>4, QuietSteps

LEMMA IndexStepKeeps == MemoryInv /\ MemoryInv' /\ IndexInv /\ [Next]_vars => IndexInv'
<1>. SUFFICES ASSUME MemoryInv, MemoryInv', IndexInv, [Next]_vars PROVE IndexInv'
  OBVIOUS
<1>0. TypeOK'
  BY DEF MemoryInv
<1>1. ASSUME NEW r \in Runs, Begin(r) \/ BeginCancelled(r) PROVE IndexInv'
  BY <1>0, <1>1, BeginKeepsIndex
<1>2. ASSUME NEW r \in Runs, Step(r) PROVE IndexInv'
  BY <1>0, <1>2, SearchKeepsIndex, ResolveKeepsIndex, ReadKeepsIndex, SaveKeepsIndex,
     CheckIndexedKeepsIndex, MarkKeepsIndex, LookUpKeepsIndex, ClearKeepsIndex, PutKeepsIndex,
     RetrieveKeepsIndex, EvaluateKeepsIndex, FinishKeepsIndex, FailKeepsIndex DEF Step
<1>3. ASSUME NEW r \in Runs, ThreadStep(r) PROVE IndexInv'
  BY <1>0, <1>3, ThreadSavesKeepsIndex, ThreadClearsKeepsIndex, ThreadPutsKeepsIndex,
     ThreadMarksKeepsIndex, ThreadFinishesKeepsIndex DEF ThreadStep
<1>4. ASSUME NEW r \in Runs, Error(r) \/ Cancel(r) \/ CancelAgain(r) PROVE IndexInv'
  BY <1>0, <1>4, ErrorKeepsIndex, CancelKeepsIndex, FailKeepsIndex
<1>5. CASE Crash
  BY <1>0, <1>5, CrashKeepsIndex
<1>6. ASSUME NEW s, DeleteMemory(s) PROVE IndexInv'
  BY <1>0, <1>6, OthersKeepIndex DEF DeleteMemory
<1>7. CASE Tick
  BY <1>0, <1>7, OthersKeepIndex DEF Tick
<1>8. CASE UNCHANGED vars
  BY <1>0, <1>8, OthersKeepIndex DEF vars, stored, index, history
<1>. QED BY <1>1, <1>2, <1>3, <1>4, <1>5, <1>6, <1>7, <1>8 DEF Next

LEMMA IndexInitHolds == Init => IndexInv
<1>. SUFFICES ASSUME Init PROVE IndexInv
  OBVIOUS
<1>. USE DEF Init
<1>1. \A r \in Runs : run[r].stage = "idle" /\ CoroutineFits(run[r])
  BY FreshFits DEF Stages
<1>2. ASSUME NEW r \in Runs PROVE ~Marking(r) /\ ~Cleared(r) /\ ~In(r, "retrieving")
  BY <1>1 DEF Marking, Cleared, In
<1>3. \A v \in Versions : ~Marked(v)
  BY <1>2 DEF Marked
<1>4. RowsFit
  BY <1>3 DEF RowsFit
<1>5. PointsFit
  BY <1>2 DEF PointsFit
<1>6. PointsApart
  BY <1>2 DEF PointsApart
<1>7. FoundApart
  BY <1>2 DEF FoundApart
<1>. QED BY <1>1, <1>4, <1>5, <1>6, <1>7 DEF IndexInv

(* What the runs have in hand and have found, the rows of the versions and *)
(* the points of the index fit together, also when a page is read by       *)
(* several URLs, saved with another time to live, or searched for while    *)
(* another run replaces its points.                                        *)
THEOREM IndexInvariant == Spec => []IndexInv
BY MemoryInvariant, IndexInitHolds, IndexStepKeeps, PTL DEF Spec

(* A fresh version marked as indexed has points that a search may return,  *)
(* or was saved again, or was raced for: no error, cancellation, crash or  *)
(* deletion makes the index lose it.                                       *)
THEOREM MarkedIsSearchable == Spec => []LostEvidenceHasACause
<1>1. MemoryInv /\ IndexInv => LostEvidenceHasACause
  <2>. SUFFICES ASSUME MemoryInv, IndexInv, NEW v \in active \cap indexed, expires[v] > now,
                       v \notin resaved, Page(v) \notin raced
                PROVE  v \in Live
    BY DEF LostEvidenceHasACause
  <2>1. v \in Versions /\ expires[v] \in Nat /\ now \in Nat
    BY DEF MemoryInv, TypeOK
  <2>2. vectors[v] = expires[v]
    BY DEF IndexInv, PointsFit, Marked, Excused
  <2>. QED BY <2>1, <2>2 DEF Live, Never
<1>. QED BY MemoryInvariant, IndexInvariant, <1>1, PTL

(* With Qdrant, the evidence of a report is of the version its source      *)
(* names, or the version was saved again, or its page raced for, whatever  *)
(* other runs do between the searches and the look-ups of the citations.   *)
THEOREM ReportsNameTheirVersions ==
  ASSUME Persistent
  PROVE  Spec => []StaleEvidenceHasACause
<1>1. IndexInv => StaleEvidenceHasACause
  <2>. SUFFICES ASSUME IndexInv, NEW r \in Runs, NEW v \in run[r].found \ run[r].sources,
                       In(r, "evaluating") \/ In(r, "finishing")
                PROVE  \E w \in run[r].sources : Page(w) = Page(v) /\ (w \in resaved \/ Page(w) \in raced)
    BY DEF StaleEvidenceHasACause
  <2>1. \E w \in run[r].sources : Other(v, w) /\ Excused(w)
    BY RunFits DEF CoroutineFits, EvidenceFits, In
  <2>. QED BY <2>1 DEF Other, Excused
<1>. QED BY IndexInvariant, <1>1, PTL
=============================================================================
