--------------------------- MODULE ResearchMemory ---------------------------
(***************************************************************************)
(* A research run of ResearchService and its two stores: the SQLite        *)
(* repository (runs, queries, claims, document versions, index state) and  *)
(* the evidence index (Qdrant, or a dictionary that dies with the          *)
(* process).  Runs are coroutines of one process; every call of a store is *)
(* an asyncio.to_thread, and takes effect in one step.                     *)
(*                                                                         *)
(* Search results and readers name URLs; canonicalize_url makes them pages,*)
(* and several URLs may be of one page.  A page has one version per        *)
(* content: document_version_id is computed from source, content hash and  *)
(* scope, and save_document is only called with scope "global".  The       *)
(* chunks of a version are written and deleted together.  Time is in       *)
(* hours, the unit of the TTLs.                                            *)
(***************************************************************************)
EXTENDS Integers, FiniteSets

CONSTANTS
  Runs,          \* research runs
  Pages,         \* canonical URLs, the rows of sources
  Urls,          \* URLs as search results and readers give them
  Canonical,     \* Canonical[u]: the page of u
  Redirects,     \* Redirects[u]: where a reader of u may end
  Contents,      \* what a page may say
  Partition,     \* Partition[r]: run_partition of r's MemoryScope
  Ttl,           \* Ttl[u]: hours until what was read at u expires
  MaxSources,    \* MaxSources[r]: max_sources of r's request
  Persistent,    \* TRUE: Qdrant; FALSE: InMemoryEvidenceIndex
  MaxTime,       \* bound: the clock
  MaxFaults      \* bound: errors, cancellations and crashes

ASSUME ResearchAssumption ==
  /\ IsFiniteSet(Runs) /\ IsFiniteSet(Pages)
  /\ Canonical \in [Urls -> Pages] /\ Redirects \in [Urls -> SUBSET Urls]
  /\ Ttl \in [Urls -> Nat \ {0}]
  /\ MaxSources \in [Runs -> Nat \ {0}]      \* _validate_request
  /\ Persistent \in BOOLEAN
  /\ MaxTime \in Nat /\ MaxFaults \in Nat

Versions == Pages \X Contents
Page(v) == v[1]

VARIABLES
  now,           \* the clock, from 1
  rows,          \* rows[r]: status of r in research_runs
  queries,       \* runs with rows in research_queries
  claims,        \* runs with rows in claims
  cites,         \* cites[r]: r's versions in run_sources
  expires,       \* expires[v]: expires_at of v's row in document_versions
  active,        \* versions with is_active = 1
  indexed,       \* versions in document_index_state
  vectors,       \* vectors[v]: expires_at in the payload of v's points
  run,           \* run[r]: the coroutine of r
  thread,        \* thread[r]: the call of a cancelled r that still executes
  faults,        \* how many faults happened
  resaved,       \* history: versions saved again
  raced          \* history: pages of which two versions were in use at once

stored   == <<expires, active>>
records  == <<rows, queries, claims, cites>>
index    == <<indexed, vectors>>
history  == <<resaved, raced>>
vars == <<now, rows, queries, claims, cites, expires, active, indexed, vectors,
          run, thread, faults, resaved, raced>>

Never == 0       \* no such row, no points

Statuses == {"absent", "running", "complete", "insufficient_evidence", "failed", "deleted"}
Outcomes == {"complete", "insufficient_evidence", "failed"}

(* killed: by a crash; abandoned: cancelled where nothing calls fail_run.  *)
Ended  == {"returned", "raised", "killed", "abandoned"}
Stages == {"idle", "searching", "resolving", "reading", "saving", "indexing", "clearing",
           "putting", "marking", "retrieving", "binding", "evaluating", "finishing", "failing"} \cup Ended

(* refresh: of the request; urls: results to look up; misses: to read;     *)
(* got: what was read; hand: the versions of the documents; unchecked: the *)
(* documents not looked up in the index, todo: those to index; found: the  *)
(* versions of the evidence; unread: those whose row is to be read;        *)
(* sources: those that were read, then those that are cited; status: of    *)
(* the report.                                                             *)
Document == [version : Versions, expires : Nat]
Text == [of : Urls, url : Urls, text : Contents]
Fresh(stage, refresh) ==
  [stage |-> stage, refresh |-> refresh, urls |-> {}, misses |-> {}, got |-> {}, hand |-> {},
   unchecked |-> {}, todo |-> {}, found |-> {}, unread |-> {}, sources |-> {}, status |-> "absent"]

Init ==
  /\ now = 1
  /\ rows = [r \in Runs |-> "absent"]
  /\ queries = {} /\ claims = {}
  /\ cites = [r \in Runs |-> {}]
  /\ expires = [v \in Versions |-> Never] /\ active = {}
  /\ indexed = {} /\ vectors = [v \in Versions |-> Never]
  /\ resaved = {} /\ raced = {}
  /\ run = [r \in Runs |-> Fresh("idle", FALSE)]
  /\ thread = [r \in Runs |-> "none"]
  /\ faults = 0

In(r, stage) == run[r].stage = stage
Becomes(r, new) == run' = [run EXCEPT ![r] = new]

(* The run that raises calls fail_run next (except BaseException); a call  *)
(* it left behind in a thread keeps what it works on.                      *)
Raise(r) == Becomes(r, Fresh("failing", FALSE))
LeaveBehind(r) == Becomes(r, [run[r] EXCEPT !.stage = "failing"])
Return(r) == Becomes(r, Fresh("returned", FALSE))

(* Rows that reference research_runs are refused when the run is gone:     *)
(* PRAGMA foreign_keys.                                                    *)
(* Broken on purpose: foreign keys are not enforced. *)
ReferencesUnchecked(r) == TRUE

Exists(r) == rows[r] \notin {"absent", "deleted"}

-----------------------------------------------------------------------------
(* Planning and search.                                                    *)

(* begin_run. *)
Begin(r) ==
  /\ In(r, "idle")
  /\ rows' = [rows EXCEPT ![r] = "running"]
  /\ \E refresh \in BOOLEAN : Becomes(r, Fresh("searching", refresh))
  /\ UNCHANGED <<queries, claims, cites, stored, index, now, thread, faults, history>>

(* The caller is cancelled while the thread inserts the row: run is still  *)
(* None in the coroutine, and nobody calls fail_run.                       *)
BeginCancelled(r) ==
  /\ In(r, "idle") /\ faults < MaxFaults
  /\ rows' = [rows EXCEPT ![r] = "running"]
  /\ Becomes(r, Fresh("abandoned", FALSE))
  /\ faults' = faults + 1
  /\ UNCHANGED <<queries, claims, cites, stored, index, now, thread, history>>

(* _search_all: the queries' rows, and the results _resolve_documents      *)
(* looks at, with different URLs but maybe of one page.                    *)
Search(r) ==
  /\ In(r, "searching")
  /\ IF Exists(r)
     THEN \E urls \in SUBSET Urls :
            /\ Cardinality(urls) <= MaxSources[r]
            /\ Becomes(r, [run[r] EXCEPT !.urls = urls,
                             !.stage = IF urls = {} THEN "retrieving" ELSE "resolving"])
            /\ queries' = queries \cup {r}
     ELSE Raise(r) /\ UNCHANGED queries
  /\ UNCHANGED <<rows, claims, cites, stored, index, now, thread, faults, history>>

-----------------------------------------------------------------------------
(* Documents.                                                              *)

(* get_fresh_document. *)
FreshDocuments(p) == {v \in active : Page(v) = p /\ expires[v] > now}

AfterSaving(new) == [new EXCEPT !.stage = IF new.hand = {} THEN "retrieving" ELSE "indexing"]
AfterReading(new) ==
  IF new.got = {} THEN AfterSaving(new) ELSE [new EXCEPT !.stage = "saving"]
AfterResolving(new) ==
  IF new.urls # {} THEN new
  ELSE IF new.misses # {} THEN [new EXCEPT !.stage = "reading", !.refresh = FALSE]
  ELSE AfterSaving([new EXCEPT !.refresh = FALSE])

(* A version in hand, with the expiry its row has now. *)
Hold(new, v, expiry) ==
  [new EXCEPT !.hand = @ \cup {v}, !.unchecked = @ \cup {[version |-> v, expires |-> expiry]}]

(* History: another version of v's page is in the hands of a run, this one *)
(* included, or was found by one that still searches.                      *)
Takes(v) ==
  raced' = IF \E q \in Runs : \E w \in run[q].hand \cup (IF In(q, "retrieving") THEN run[q].found ELSE {}) :
                Page(w) = Page(v) /\ w # v
           THEN raced \cup {Page(v)} ELSE raced

Resolve(r, u) ==
  LET hits == IF run[r].refresh THEN {} ELSE FreshDocuments(Canonical[u])
      rest == [run[r] EXCEPT !.urls = @ \ {u}]
  IN /\ In(r, "resolving") /\ u \in run[r].urls
     /\ \/ \E v \in hits :
             /\ Becomes(r, AfterResolving(Hold(rest, v, expires[v])))
             /\ Takes(v)
        \/ /\ hits = {}
           /\ Becomes(r, AfterResolving([rest EXCEPT !.misses = @ \cup {u}]))
           /\ UNCHANGED raced
     /\ UNCHANGED <<records, stored, index, now, thread, faults, resaved>>

(* The reads, of which nobody sees a part: the text of the page where the  *)
(* reader ends, whatever it says there and then, or a failure that becomes *)
(* a warning.                                                              *)
Read(r) ==
  /\ In(r, "reading")
  /\ \E read \in SUBSET run[r].misses : \E end \in [read -> Urls], text \in [read -> Contents] :
       /\ \A u \in read : end[u] \in Redirects[u]
       /\ Becomes(r, AfterReading([run[r] EXCEPT
                        !.misses = {},
                        !.got = {[of |-> u, url |-> end[u], text |-> text[u]] : u \in read}]))
  /\ UNCHANGED <<records, stored, index, now, thread, faults, history>>

VersionOf(g) == <<Canonical[g.url], g.text>>
Expiry(g) == now + Ttl[g.url]

(* _save_document_sync: the source's other versions become inactive, g's   *)
(* is inserted or updated.  _ttl_for_url looks at the URL as it was read:  *)
(* the expiry of a version may also come nearer.                           *)
SaveRow(g) ==
  LET v == VersionOf(g) IN
  /\ expires' = [expires EXCEPT ![v] = Expiry(g)]
  /\ active' = {w \in active : Page(w) # Page(v)} \cup {v}
  /\ resaved' = IF expires[v] = Never THEN resaved ELSE resaved \cup {v}
  /\ Takes(v)

Save(r, g) ==
  LET rest == Hold([run[r] EXCEPT !.got = @ \ {g}], VersionOf(g), Expiry(g))
  IN /\ In(r, "saving") /\ g \in run[r].got
     /\ SaveRow(g)
     /\ Becomes(r, IF rest.got = {} THEN AfterSaving(rest) ELSE rest)
     /\ UNCHANGED <<records, index, now, thread, faults>>

-----------------------------------------------------------------------------
(* The evidence index.                                                     *)

(* is_document_indexed: a version the repository holds for indexed is not  *)
(* embedded again.                                                         *)
CheckIndexed(r, d) ==
  LET skip == Persistent /\ d.version \in indexed
      rest == [run[r] EXCEPT !.unchecked = @ \ {d},
                             !.todo = IF skip THEN @ ELSE @ \cup {d}]
  IN /\ In(r, "indexing") /\ d \in run[r].unchecked
     /\ Becomes(r, [rest EXCEPT !.stage = IF rest.unchecked # {} THEN "indexing"
                                           ELSE IF rest.todo = {} THEN "retrieving"
                                           ELSE "clearing"])
     /\ UNCHANGED <<records, stored, index, now, thread, faults, history>>

Indexing(r) == {d.version : d \in run[r].todo}

(* Broken on purpose: the upsert leaves the old versions' points. *)
ClearNothing(r) == UNCHANGED vectors

(* _upsert_sync, first half: the points of the sources' other versions go. *)
ClearPoints(r) ==
  vectors' = [v \in Versions |->
                IF /\ Persistent
                   /\ v \notin Indexing(r)
                   /\ \E w \in Indexing(r) : Page(w) = Page(v)
                THEN Never ELSE vectors[v]]

(* _upsert_sync, second half: the points, with the expiry in hand; of the  *)
(* documents of one version, last[v] is the last.                          *)
PutPoints(r) ==
  \E last \in [Indexing(r) -> run[r].todo] :
    /\ \A v \in Indexing(r) : last[v].version = v
    /\ vectors' = [v \in Versions |-> IF v \in Indexing(r) THEN last[v].expires ELSE vectors[v]]

(* Broken on purpose: marked as indexed before the points are written. *)
ClearAndMark(r) ==
  /\ In(r, "clearing")
  /\ ClearPoints(r)
  /\ indexed' = indexed \cup Indexing(r)
  /\ Becomes(r, [run[r] EXCEPT !.stage = "putting"])
  /\ UNCHANGED <<records, stored, now, thread, faults, history>>

Clear(r) ==
  /\ In(r, "clearing")
  /\ ClearPoints(r)
  /\ Becomes(r, [run[r] EXCEPT !.stage = "putting"])
  /\ UNCHANGED <<records, stored, indexed, now, thread, faults, history>>

Put(r) ==
  /\ In(r, "putting")
  /\ PutPoints(r)
  /\ Becomes(r, [run[r] EXCEPT !.stage = IF Persistent THEN "marking" ELSE "retrieving"])
  /\ UNCHANGED <<records, stored, indexed, now, thread, faults, history>>

(* mark_document_indexed, one document after the other. *)
Mark(r, d) ==
  LET rest == run[r].todo \ {d}
  IN /\ In(r, "marking") /\ d \in run[r].todo
     /\ indexed' = indexed \cup {d.version}
     /\ Becomes(r, [run[r] EXCEPT !.todo = rest,
                                  !.stage = IF rest = {} THEN "retrieving" ELSE "marking"])
     /\ UNCHANGED <<records, stored, vectors, now, thread, faults, history>>

-----------------------------------------------------------------------------
(* The report.                                                             *)

(* The points a search may return: Qdrant takes expires_at_ts >= now, the  *)
(* dictionary expires_at > now.                                            *)
Live == {v \in Versions : vectors[v] # Never /\ (vectors[v] > now \/ (Persistent /\ vectors[v] = now))}

(* One citation per source, for a document in hand if there is one and     *)
(* else for one whose row was read.                                        *)
Citations(hand, read) ==
  {s \in SUBSET (hand \cup read) :
    /\ \A v, w \in s : v # w => Page(v) # Page(w)
    /\ \A v \in hand \cup read : \E w \in s : Page(w) = Page(v)
    /\ \A v \in s \ hand, w \in hand : Page(v) # Page(w)}

(* The end of _bind_citations: evidence whose source has no citation is    *)
(* dropped. *)
Bind(r, new) ==
  IF new.unread # {}
  THEN Becomes(r, new)
  ELSE \E sources \in Citations(new.hand, new.sources) :
         Becomes(r, [Fresh("evaluating", FALSE) EXCEPT
                       !.sources = sources,
                       !.found   = {v \in new.found : \E w \in sources : Page(w) = Page(v)}])

(* _retrieve: one of the searches, each with live points that score.  With *)
(* the last, _bind_citations begins.                                       *)
Retrieve(r) ==
  /\ In(r, "retrieving")
  /\ \E points \in SUBSET Live :
       LET found == run[r].found \cup points IN
       /\ \/ Becomes(r, [run[r] EXCEPT !.found = found])
          \/ Bind(r, [run[r] EXCEPT !.stage = "binding", !.found = found, !.unread = found \ run[r].hand])
       /\ raced' = raced \cup
            {Page(v) : v \in {x \in points : \E q \in Runs \ {r} : \E w \in run[q].hand :
                                               Page(w) = Page(x) /\ w # x}}
  /\ UNCHANGED <<records, stored, index, now, thread, faults, resaved>>

(* get_document_version, for the evidence of versions that are not in hand.*)
LookUp(r, v) ==
  /\ In(r, "binding") /\ v \in run[r].unread
  /\ Bind(r, [run[r] EXCEPT !.unread  = @ \ {v},
                            !.sources = IF expires[v] = Never THEN @ ELSE @ \cup {v}])
  /\ UNCHANGED <<records, stored, index, now, thread, faults, history>>

(* The answer and its evaluation, stored by save_evaluation; without       *)
(* evidence there is no evaluation.                                        *)
Evaluate(r) ==
  /\ In(r, "evaluating")
  /\ \/ /\ run[r].found = {}
        /\ Becomes(r, [run[r] EXCEPT !.stage = "finishing", !.status = "insufficient_evidence"])
        /\ UNCHANGED claims
     \/ /\ run[r].found # {} /\ Exists(r)
        /\ \E status \in {"complete", "insufficient_evidence"} :
             Becomes(r, [run[r] EXCEPT !.stage = "finishing", !.status = status])
        /\ claims' = claims \cup {r}
     \/ /\ run[r].found # {} /\ ~Exists(r)
        /\ Raise(r) /\ UNCHANGED claims
  /\ UNCHANGED <<rows, queries, cites, stored, index, now, thread, faults, history>>

(* _finish_run_sync: nothing is written unless the run is running. *)
FinishRow(r) ==
  IF rows[r] = "running"
  THEN /\ rows' = [rows EXCEPT ![r] = run[r].status]
       /\ cites' = [cites EXCEPT ![r] = run[r].sources]
  ELSE UNCHANGED <<rows, cites>>

Finish(r) ==
  /\ In(r, "finishing")
  /\ FinishRow(r)
  /\ IF rows[r] = "running"
     THEN Return(r)
     ELSE Raise(r)
  /\ UNCHANGED <<queries, claims, stored, index, now, thread, faults, history>>

(* Broken on purpose: fail_run does not ask for a running row. *)
FailAnyRow(r) == rows' = [rows EXCEPT ![r] = "failed"]

(* _fail_run_sync. *)
FailRow(r) == rows' = IF rows[r] = "running" THEN [rows EXCEPT ![r] = "failed"] ELSE rows

Fail(r) ==
  /\ In(r, "failing")
  /\ FailRow(r)
  /\ Becomes(r, IF thread[r] = "none" THEN Fresh("raised", FALSE)
                                      ELSE [run[r] EXCEPT !.stage = "raised"])
  /\ UNCHANGED <<queries, claims, cites, stored, index, now, thread, faults, history>>

-----------------------------------------------------------------------------
(* Faults.                                                                 *)

Working == Stages \ ({"idle", "failing"} \cup Ended)
InThread == {"saving", "clearing", "putting", "marking", "finishing"}

(* Embedding, index or synthesizer raise, or canonicalize_url for a URL    *)
(* that is not of the web.                                                 *)
Error(r) ==
  /\ run[r].stage \in {"saving", "clearing", "putting", "retrieving", "evaluating"}
  /\ faults < MaxFaults /\ faults' = faults + 1
  /\ Raise(r)
  /\ UNCHANGED <<records, stored, index, now, thread, history>>

(* Broken on purpose: except Exception, which a CancelledError passes. *)
CancelUnseen(r) ==
  /\ run[r].stage \in Working
  /\ faults < MaxFaults /\ faults' = faults + 1
  /\ Becomes(r, Fresh("raised", FALSE))
  /\ UNCHANGED <<records, stored, index, now, thread, history>>

(* The task is cancelled (timeout or cancel of a job, shutdown).  A call   *)
(* whose thread has started still executes.                                *)
Cancel(r) ==
  /\ run[r].stage \in Working
  /\ faults < MaxFaults /\ faults' = faults + 1
  /\ \/ Raise(r) /\ UNCHANGED thread
     \/ /\ run[r].stage \in InThread
        /\ LeaveBehind(r)
        /\ thread' = [thread EXCEPT ![r] = run[r].stage]
  /\ UNCHANGED <<records, stored, index, now, history>>

(* Cancelled again while fail_run executes. *)
CancelAgain(r) ==
  /\ In(r, "failing") /\ faults < MaxFaults
  /\ \/ UNCHANGED rows
     \/ FailRow(r)
  /\ Becomes(r, IF thread[r] = "none" THEN Fresh("abandoned", FALSE)
                                      ELSE [run[r] EXCEPT !.stage = "abandoned"])
  /\ faults' = faults + 1
  /\ UNCHANGED <<queries, claims, cites, stored, index, now, thread, history>>

(* The thread of a cancelled run ends its call. *)
Over(r) ==
  /\ thread' = [thread EXCEPT ![r] = "none"]
  /\ Becomes(r, Fresh(run[r].stage, FALSE))
ThreadSaves(r) ==
  /\ thread[r] = "saving" /\ \E g \in run[r].got : SaveRow(g)
  /\ Over(r)
  /\ UNCHANGED <<records, index, now, faults>>
ThreadClears(r) ==
  /\ thread[r] = "clearing" /\ ClearPoints(r)
  /\ thread' = [thread EXCEPT ![r] = "putting"]
  /\ UNCHANGED <<records, stored, indexed, now, run, faults, history>>
ThreadPuts(r) ==
  /\ thread[r] = "putting" /\ PutPoints(r)
  /\ Over(r)
  /\ UNCHANGED <<records, stored, indexed, now, faults, history>>
ThreadMarks(r) ==
  /\ thread[r] = "marking" /\ \E d \in run[r].todo : indexed' = indexed \cup {d.version}
  /\ Over(r)
  /\ UNCHANGED <<records, stored, vectors, now, faults, history>>
ThreadFinishes(r) ==
  /\ thread[r] = "finishing" /\ FinishRow(r)
  /\ Over(r)
  /\ UNCHANGED <<queries, claims, stored, index, now, faults, history>>

(* The process dies; a later one has an empty dictionary. *)
Crash ==
  /\ faults < MaxFaults /\ faults' = faults + 1
  /\ \E r \in Runs : run[r].stage \notin ({"idle"} \cup Ended) \/ thread[r] # "none"
  /\ run' = [r \in Runs |->
               IF run[r].stage \in {"idle"} \cup Ended THEN run[r] ELSE Fresh("killed", FALSE)]
  /\ thread' = [r \in Runs |-> "none"]
  /\ vectors' = IF Persistent THEN vectors ELSE [v \in Versions |-> Never]
  /\ UNCHANGED <<records, stored, indexed, now, history>>

(* delete_memory: the partition's runs with all that references them.  No  *)
(* document has a private scope, so no vector is deleted.                  *)
DeleteMemory(s) ==
  LET gone == {r \in Runs : Partition[r] = s /\ rows[r] \notin {"absent", "deleted"}}
  IN /\ s # "global"                     \* _delete_scope_sync refuses it
     /\ gone # {}
     /\ rows' = [r \in Runs |-> IF r \in gone THEN "deleted" ELSE rows[r]]
     /\ queries' = queries \ gone
     /\ claims' = claims \ gone
     /\ cites' = [r \in Runs |-> IF r \in gone THEN {} ELSE cites[r]]
     /\ UNCHANGED <<stored, index, now, run, thread, faults, history>>

Tick ==
  /\ now < MaxTime /\ now' = now + 1
  /\ UNCHANGED <<records, stored, index, run, thread, faults, history>>

-----------------------------------------------------------------------------
(* One step of the coroutine of r, or of the thread it left behind. *)
Step(r) ==
  \/ Search(r)
  \/ \E u \in Urls : Resolve(r, u)
  \/ Read(r)
  \/ \E g \in run[r].got : Save(r, g)
  \/ \E d \in run[r].unchecked \cup run[r].todo : CheckIndexed(r, d) \/ Mark(r, d)
  \/ \E v \in run[r].unread : LookUp(r, v)
  \/ Clear(r) \/ Put(r) \/ Retrieve(r) \/ Evaluate(r) \/ Finish(r) \/ Fail(r)

ThreadStep(r) ==
  \/ ThreadSaves(r) \/ ThreadClears(r) \/ ThreadPuts(r) \/ ThreadMarks(r) \/ ThreadFinishes(r)

Next ==
  \/ \E r \in Runs : \/ Begin(r) \/ BeginCancelled(r) \/ Step(r) \/ ThreadStep(r)
                     \/ Error(r) \/ Cancel(r) \/ CancelAgain(r)
  \/ \E s \in {Partition[r] : r \in Runs} : DeleteMemory(s)
  \/ Crash \/ Tick

Spec == Init /\ [][Next]_vars

-----------------------------------------------------------------------------
(* Types. *)
TypeOK ==
  /\ now \in Nat
  /\ rows \in [Runs -> Statuses]
  /\ queries \subseteq Runs /\ claims \subseteq Runs
  /\ cites \in [Runs -> SUBSET Versions]
  /\ expires \in [Versions -> Nat] /\ active \subseteq Versions
  /\ indexed \subseteq Versions /\ vectors \in [Versions -> Nat]
  /\ run \in [Runs -> [stage : Stages, refresh : BOOLEAN, urls : SUBSET Urls,
                       misses : SUBSET Urls, got : SUBSET Text, hand : SUBSET Versions,
                       unchecked : SUBSET Document, todo : SUBSET Document,
                       found : SUBSET Versions, unread : SUBSET Versions,
                       sources : SUBSET Versions,
                       status : {"absent", "complete", "insufficient_evidence"}]]
  /\ thread \in [Runs -> InThread \cup {"none"}]
  /\ faults \in Nat
  /\ resaved \subseteq Versions /\ raced \subseteq Pages

(* A run that ended, with a report or an exception, does not stay          *)
(* "running" in the database, whatever interrupted it (service.py 160-167);*)
(* a crash and a cancellation of begin_run or fail_run may leave it, and   *)
(* so would an error of fail_run itself (a locked database), which is not  *)
(* modelled.                                                               *)
EndedRunsAreClosed ==
  \A r \in Runs : run[r].stage \in {"returned", "raised"} => rows[r] # "running"

(* The outcome of a run is written once: finish_run and fail_run of a      *)
(* cancelled run, in two threads, do not overwrite each other; only        *)
(* delete_memory takes it away.                                            *)
OutcomeIsFinal ==
  [][\A r \in Runs : rows[r] \in Outcomes => rows'[r] \in {rows[r], "deleted"}]_vars

(* A run deleted under way leaves nothing behind and gives no report.      *)
DeletedStaysDeleted ==
  [][\A r \in Runs : rows[r] = "deleted" =>
       /\ r \notin queries' /\ r \notin claims' /\ cites'[r] = {}
       /\ run'[r].stage = "returned" => run[r].stage = "returned"]_vars

(* A fresh version that is marked as indexed can be found, unless it was   *)
(* saved again (the index keeps the old expiry, or lost its points to      *)
(* another version) or two versions of its page were in use at once.       *)
LostEvidenceHasACause ==
  \A v \in active \cap indexed :
    expires[v] > now /\ v \notin resaved /\ Page(v) \notin raced => v \in Live

(* Qdrant: the evidence of a report comes from the versions its sources    *)
(* name, though other runs save, index and delete between its searches,    *)
(* unless the named version was saved again or two versions of the page    *)
(* were in use at once: in the hands of two runs, in those of one that     *)
(* came to the page by two URLs, or one in the hands of a run and the      *)
(* other found by a second one that searched.  (The dictionary keeps the   *)
(* points of a page's former versions.)                                    *)
StaleEvidenceHasACause ==
  \A r \in Runs : \A v \in run[r].found \ run[r].sources :
    In(r, "evaluating") \/ In(r, "finishing") =>
      \E w \in run[r].sources : Page(w) = Page(v) /\ (w \in resaved \/ Page(w) \in raced)

(* The design document: every factual claim maps to its version. *)
EvidenceIsOfItsVersion ==
  \A r \in Runs : run[r].stage = "finishing" => run[r].found \subseteq run[r].sources

(* The design document: asked again within the TTL, the evidence is found. *)
FreshIsSearchable ==
  (\A r \in Runs : run[r].stage \in {"idle"} \cup Ended /\ thread[r] = "none")
    => \A v \in active \cap indexed : expires[v] > now => v \in Live
=============================================================================
