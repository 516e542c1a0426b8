--------------------------- MODULE RoutingProofs ---------------------------
(***************************************************************************)
(* The sessions that memory and config.runtime.yaml name, for any sources  *)
(* and any number of sessions, loads and crashes.                          *)
(***************************************************************************)
EXTENDS Routing, TLAPS

(* A pending write names sessions of their sources, and a single session   *)
(* it names is the newest of all: nothing else runs while a write is left. *)
Fits(update) ==
  /\ update.key = "source" =>
       update.session = Len(owner) /\ OwnSession(update.source, update.session)
  /\ update.key = "sources" => \A s \in Sources : OwnSession(s, update.map[s])

WritesFit == \A k \in 1 .. Len(writes) : Fits(writes[k])

RoutingInv == TypeOK /\ AffinityIsOwned /\ WritesFit

LEMMA RoutingInitHolds == Init => RoutingInv
BY RoutingAssumption
DEF Init, RoutingInv, TypeOK, AffinityIsOwned, OwnSession, WritesFit, Fits, Nowhere, Affinity,
    NoSession, Sessions

(* Sessions are only added to the history. *)
LEMMA OwnersStay ==
  ASSUME TypeOK, NEW s \in Sources, NEW i \in Sessions \cup {NoSession}, OwnSession(s, i),
         NEW t \in Sources, owner' = owner \/ owner' = Append(owner, t)
  PROVE  OwnSession(s, i)'
BY RoutingAssumption DEF TypeOK, OwnSession, Sessions, NoSession

(* TypeOK in three parts. *)
TalkTyped ==
  /\ conversation \in Affinity /\ cleared \subseteq Sessions
  /\ split \subseteq Sources /\ revived \subseteq Sources
StoreTyped ==
  /\ sources \in Affinity /\ runtime \in Affinity
  /\ default \in Sources \cup {NoSource} /\ runtimeDefault \in Sources \cup {NoSource}
ControlTyped ==
  /\ up \in BOOLEAN
  /\ owner \in Seq(Sources) /\ Len(owner) <= MaxSessions
  /\ file \in {"whole", "torn", "unsafe"}
  /\ writes \in Seq(Updates) /\ Len(writes) <= 2
  /\ file = "torn" => writes # <<>>
  /\ ~up => writes = <<>>
  /\ faults \in 0 .. MaxFaults

LEMMA UpdatesTyped ==
  ASSUME NEW s \in Sources
  PROVE  /\ SetDefault(s) \in Updates
         /\ \A i \in Sessions : SetSource(s, i) \in Updates
         /\ \A map \in Affinity : SetSources(map) \in Updates
BY DEF SetDefault, SetSource, SetSources, Updates

LEMMA LoadedFits ==
  ASSUME RoutingInv
  PROVE  /\ Loaded \in Affinity /\ LoadedDefault \in Sources \cup {NoSource}
         /\ \A s \in Sources : OwnSession(s, Loaded[s])
BY DEF RoutingInv, TypeOK, AffinityIsOwned, OwnSession, Loaded, LoadedDefault, Nowhere, Affinity

-----------------------------------------------------------------------------
LEMMA DumpKeeps == RoutingInv /\ Dump => RoutingInv'
<1>. SUFFICES ASSUME RoutingInv, Dump PROVE RoutingInv'
  OBVIOUS
<1>. DEFINE update == Head(writes)
<1>. USE DEF RoutingInv
<1>1. /\ update \in Updates /\ update = writes[1] /\ Fits(update)
      /\ writes' \in Seq(Updates) /\ Len(writes') = Len(writes) - 1
      /\ \A k \in 1 .. Len(writes') : writes'[k] = writes[k + 1]
  <2>1. writes \in Seq(Updates) /\ writes # <<>>
    BY DEF Dump, TypeOK
  <2>2. writes' = Tail(writes)
    BY DEF Dump
  <2>. QED BY <2>1, <2>2 DEF WritesFit
<1>2. /\ runtime' = IF update.key = "source"
                    THEN [runtime EXCEPT ![update.source] = update.session]
                    ELSE IF update.key = "sources" THEN update.map ELSE runtime
      /\ runtimeDefault' = IF update.key = "default" THEN update.source ELSE runtimeDefault
      /\ file' \in {"whole", "unsafe"} /\ up
      /\ UNCHANGED <<up, owner, memory, talk, faults>>
  BY DEF Dump
<1>. HIDE DEF update
<1>3. /\ update.key = "source" => update.source \in Sources /\ update.session \in Sessions
      /\ update.key = "sources" => update.map \in Affinity
      /\ update.key = "default" => update.source \in Sources
  BY <1>1 DEF Updates
<1>4. TypeOK'
  <2>1. runtime' \in Affinity
    BY <1>2, <1>3 DEF TypeOK, Affinity
  <2>. QED BY <1>1, <1>2, <1>3, <2>1 DEF TypeOK, memory, talk
<1>5. AffinityIsOwned'
  BY <1>1, <1>2, <1>3 DEF AffinityIsOwned, OwnSession, Fits, TypeOK, Affinity, memory
<1>6. WritesFit'
  <2>. SUFFICES ASSUME NEW k \in 1 .. Len(writes') PROVE Fits(writes[k])'
    BY DEF WritesFit
  <2>1. k + 1 \in 1 .. Len(writes) /\ writes'[k] = writes[k + 1]
    BY <1>1 DEF TypeOK
  <2>2. Fits(writes[k + 1])
    BY <2>1 DEF WritesFit
  <2>. QED BY <1>2, <2>1, <2>2 DEF Fits, OwnSession
<1>. QED BY <1>4, <1>5, <1>6

(* A step that makes no session and no write. *)
LEMMA QuietKeeps ==
  ASSUME RoutingInv, TypeOK', UNCHANGED owner, writes' = writes \/ writes' = <<>>,
         \A s \in Sources : OwnSession(s, sources'[s]) /\ OwnSession(s, runtime'[s])
  PROVE  RoutingInv'
BY DEF RoutingInv, AffinityIsOwned, OwnSession, WritesFit, Fits

LEMMA DefaultWritesFit ==
  ASSUME TypeOK, NEW s \in Sources
  PROVE  /\ DefaultWrites(s) \in Seq(Updates) /\ Len(DefaultWrites(s)) <= 1
         /\ \A k \in 1 .. Len(DefaultWrites(s)) : DefaultWrites(s)[k].key = "default"
BY UpdatesTyped DEF DefaultWrites, SetDefault

LEMMA GoesTyped ==
  ASSUME TypeOK, NEW s \in Sources, NEW i \in Sessions, Goes(s, i)
  PROVE  /\ conversation' \in Affinity /\ cleared' \subseteq Sessions
         /\ split' \subseteq Sources /\ revived' \subseteq Sources
BY DEF Goes, TypeOK, Affinity

LEMMA KnownSourceKeeps ==
  ASSUME RoutingInv, NEW s \in Sources, KnownSource(s)
  PROVE  RoutingInv'
<1>. USE DEF RoutingInv
<1>1. sources[s] \in Sessions
  BY DEF KnownSource, TypeOK, Affinity
<1>2. writes' \in Seq(Updates) /\ Len(writes') <= 2
  BY DefaultWritesFit DEF KnownSource
<1>3. TypeOK'
  BY <1>1, <1>2, GoesTyped DEF KnownSource, Idle, TypeOK, memory, disk
<1>4. AffinityIsOwned'
  BY DEF KnownSource, AffinityIsOwned, OwnSession, memory, disk
<1>5. WritesFit'
  <2>. SUFFICES ASSUME NEW k \in 1 .. Len(writes') PROVE Fits(writes[k])'
    BY DEF WritesFit
  <2>1. writes'[k].key = "default"
    BY DefaultWritesFit DEF KnownSource
  <2>. QED BY <2>1 DEF Fits
<1>. QED BY <1>3, <1>4, <1>5

(* The history gets a session of s, and memory and file stay as they are.  *)
LEMMA GrowthKeepsOwned ==
  ASSUME RoutingInv, NEW s \in Sources, owner' = owner \/ owner' = Append(owner, s),
         UNCHANGED <<sources, runtime>>
  PROVE  AffinityIsOwned'
BY OwnersStay DEF RoutingInv, TypeOK, AffinityIsOwned, OwnSession, Affinity

LEMMA NewSessionTyped ==
  ASSUME TypeOK, NEW s \in Sources, Len(owner) < MaxSessions
  PROVE  /\ NewSession \in Sessions
         /\ Append(owner, s) \in Seq(Sources)
         /\ Len(Append(owner, s)) <= MaxSessions
BY RoutingAssumption DEF TypeOK, NewSession, Sessions

LEMMA NewSourceKeeps ==
  ASSUME RoutingInv, NEW s \in Sources, NewSource(s)
  PROVE  RoutingInv'
<1>. USE DEF RoutingInv
<1>. DEFINE last == SetSource(s, NewSession)
            first == DefaultWrites(s)
<1>1. NewSession \in Sessions /\ last \in Updates
  BY NewSessionTyped, UpdatesTyped DEF NewSource
<1>2. /\ first \in Seq(Updates) /\ Len(first) <= 1
      /\ \A k \in 1 .. Len(first) : first[k].key = "default"
  BY DefaultWritesFit
<1>3. writes' = Append(first, last)
  BY DEF NewSource
<1>4. last' = [key |-> "source", source |-> s, session |-> NewSession'] /\ last.key = "source"
      /\ last.source = s /\ last.session = NewSession
  BY DEF SetSource
<1>. HIDE DEF first, last
<1>5. /\ writes' \in Seq(Updates) /\ Len(writes') <= 2
      /\ \A k \in 1 .. Len(writes') : writes'[k].key = "default" \/ writes'[k] = last
  BY <1>1, <1>2, <1>3
<1>6. TypeOK'
  <2>1. TalkTyped'
    BY <1>1, GoesTyped DEF NewSource, TalkTyped
  <2>2. StoreTyped'
    BY DEF NewSource, TypeOK, StoreTyped, memory, disk
  <2>3. ControlTyped'
    <3>1. writes' # <<>>
      BY <1>2, <1>3
    <3>2. owner' \in Seq(Sources) /\ Len(owner') <= MaxSessions
      BY NewSessionTyped DEF NewSource
    <3>. QED BY <1>5, <3>1, <3>2 DEF NewSource, Idle, TypeOK, ControlTyped, disk
  <2>. QED BY <2>1, <2>2, <2>3 DEF TypeOK, TalkTyped, StoreTyped, ControlTyped
<1>7. AffinityIsOwned'
  BY GrowthKeepsOwned DEF NewSource, memory, disk
<1>8. WritesFit'
  <2>. SUFFICES ASSUME NEW k \in 1 .. Len(writes') PROVE Fits(writes[k])'
    BY DEF WritesFit
  <2>1. CASE writes'[k].key = "default"
    BY <2>1 DEF Fits
  <2>2. CASE writes'[k] = last
    <3>1. Len(owner') = NewSession /\ owner'[NewSession] = s
      BY NewSessionTyped DEF NewSource, TypeOK, NewSession
    <3>. QED BY <1>4, <2>2, <3>1 DEF Fits, OwnSession
  <2>. QED BY <1>5, <2>1, <2>2
<1>. QED BY <1>6, <1>7, <1>8

LEMMA RollKeeps ==
  ASSUME RoutingInv, NEW i \in Sessions, Roll(i)
  PROVE  RoutingInv'
<1>. USE DEF RoutingInv
<1>. DEFINE s == owner[i]
            last == SetSource(s, NewSession)
<1>1. s \in Sources
  BY DEF Roll, TypeOK
<1>2. /\ owner' = Append(owner, s) /\ writes' = <<last>>
      /\ conversation' = IF conversation[s] = i THEN [conversation EXCEPT ![s] = NewSession]
                                                ELSE conversation
  BY DEF Roll
<1>3. last.key = "source" /\ last.source = s /\ last.session = NewSession
  BY DEF SetSource
<1>4. NewSession \in Sessions /\ last \in Updates
  BY <1>1, NewSessionTyped, UpdatesTyped DEF Roll
<1>. HIDE DEF s, last
<1>5. TypeOK'
  <2>1. conversation' \in Affinity /\ cleared' \subseteq Sessions
    BY <1>2, <1>4 DEF Roll, TypeOK, Affinity
  <2>2. TalkTyped' /\ StoreTyped'
    BY <2>1 DEF Roll, TypeOK, TalkTyped, StoreTyped, memory, disk
  <2>3. writes' \in Seq(Updates) /\ Len(writes') = 1 /\ writes' # <<>>
    BY <1>2, <1>4
  <2>4. ControlTyped'
    <3>1. owner' \in Seq(Sources) /\ Len(owner') <= MaxSessions
      BY <1>1, <1>2, NewSessionTyped DEF Roll
    <3>. QED BY <2>3, <3>1 DEF Roll, Idle, TypeOK, ControlTyped, disk
  <2>. QED BY <2>2, <2>4 DEF TypeOK, TalkTyped, StoreTyped, ControlTyped
<1>6. AffinityIsOwned'
  BY <1>1, <1>2, GrowthKeepsOwned DEF Roll, memory, disk
<1>7. Len(owner') = NewSession /\ owner'[NewSession] = s
  BY <1>1, <1>2 DEF TypeOK, NewSession
<1>8. WritesFit'
  BY <1>2, <1>3, <1>7 DEF WritesFit, Fits, OwnSession
<1>. QED BY <1>5, <1>6, <1>8

LEMMA ClearKeeps ==
  ASSUME RoutingInv, NEW s \in Sources, Clear(s)
  PROVE  RoutingInv'
<1>. USE DEF RoutingInv
<1>. DEFINE map == [sources EXCEPT ![s] = NoSession]
            write == SetSources(map)
<1>1. map \in Affinity /\ \A t \in Sources : OwnSession(t, map[t])
  BY DEF TypeOK, Affinity, AffinityIsOwned, OwnSession
<1>2. sources' = map /\ writes' \in {<<>>, <<write>>}
  BY DEF Clear
<1>3. write \in Updates
  BY <1>1, UpdatesTyped
<1>4. write.key = "sources" /\ write.map = map
  BY DEF SetSources
<1>. HIDE DEF map, write
<1>5. TypeOK'
  <2>1. conversation' \in Affinity /\ cleared' \subseteq Sessions
    BY DEF Clear, TypeOK, Affinity
  <2>2. TalkTyped' /\ StoreTyped'
    BY <1>1, <1>2, <2>1 DEF Clear, TypeOK, TalkTyped, StoreTyped, disk
  <2>3. writes' \in Seq(Updates) /\ Len(writes') <= 1
    <3>1. CASE writes' = <<>>
      BY <3>1
    <3>2. CASE writes' = <<write>>
      BY <1>3, <3>2
    <3>. QED BY <1>2, <3>1, <3>2
  <2>4. ControlTyped'
    BY <2>3 DEF Clear, Idle, TypeOK, ControlTyped, disk
  <2>. QED BY <2>2, <2>4 DEF TypeOK, TalkTyped, StoreTyped, ControlTyped
<1>6. AffinityIsOwned'
  BY <1>1, <1>2 DEF Clear, AffinityIsOwned, OwnSession, disk
<1>7. WritesFit'
  BY <1>1, <1>2, <1>4 DEF Clear, WritesFit, Fits, OwnSession
<1>. QED BY <1>5, <1>6, <1>7

LEMMA MessageLostKeeps ==
  ASSUME RoutingInv, NEW s \in Sources, MessageLost(s)
  PROVE  RoutingInv'
<1>. USE DEF RoutingInv
<1>1. owner' = owner \/ (owner' = Append(owner, s) /\ Len(owner) < MaxSessions)
  BY DEF MessageLost
<1>2. TypeOK'
  <2>1. TalkTyped' /\ StoreTyped'
    BY DEF MessageLost, TypeOK, TalkTyped, StoreTyped, memory, disk, talk
  <2>2. ControlTyped'
    <3>1. owner' \in Seq(Sources) /\ Len(owner') <= MaxSessions
      BY <1>1, NewSessionTyped DEF TypeOK
    <3>. QED BY <3>1 DEF MessageLost, TypeOK, ControlTyped, disk
  <2>. QED BY <2>1, <2>2 DEF TypeOK, TalkTyped, StoreTyped, ControlTyped
<1>3. AffinityIsOwned'
  BY <1>1, GrowthKeepsOwned DEF MessageLost, memory, disk
<1>4. WritesFit'
  BY DEF MessageLost, Idle, WritesFit
<1>. QED BY <1>2, <1>3, <1>4

LEMMA RoutingStepKeeps == RoutingInv /\ [Next]_vars => RoutingInv'
<1>. SUFFICES ASSUME RoutingInv, [Next]_vars PROVE RoutingInv'
  OBVIOUS
<1>. USE DEF RoutingInv
<1>1. CASE Truncate
  <2>1. TypeOK'
    BY <1>1 DEF Truncate, TypeOK, memory, talk
  <2>. QED BY <1>1, <2>1, QuietKeeps DEF Truncate, AffinityIsOwned, memory
<1>2. CASE Dump
  BY <1>2, DumpKeeps
<1>3. CASE WriteFails
  <2>1. TypeOK'
    BY <1>3 DEF WriteFails, TypeOK, memory, disk, talk
  <2>. QED BY <1>3, <2>1, QuietKeeps DEF WriteFails, AffinityIsOwned, memory, disk
<1>4. ASSUME NEW s \in Sources, KnownSource(s) \/ NewSource(s) \/ MessageLost(s) \/ Clear(s)
      PROVE  RoutingInv'
  BY <1>4, KnownSourceKeeps, NewSourceKeeps, MessageLostKeeps, ClearKeeps
<1>5. ASSUME NEW i \in Sessions, Roll(i) PROVE RoutingInv'
  BY <1>5, RollKeeps
<1>6. CASE Reload
  <2>1. TypeOK'
    <3>1. TalkTyped' /\ StoreTyped'
      BY <1>6, LoadedFits DEF Reload, TypeOK, TalkTyped, StoreTyped, disk, talk
    <3>2. ControlTyped'
      BY <1>6, RoutingAssumption DEF Reload, TypeOK, ControlTyped, disk
    <3>. QED BY <3>1, <3>2 DEF TypeOK, TalkTyped, StoreTyped, ControlTyped
  <2>. QED BY <1>6, <2>1, LoadedFits, QuietKeeps DEF Reload, AffinityIsOwned, disk
<1>7. CASE Crash
  <2>1. TypeOK'
    <3>1. TalkTyped' /\ StoreTyped'
      BY <1>7, LoadedFits DEF Crash, TypeOK, TalkTyped, StoreTyped, memory, talk
    <3>2. ControlTyped'
      <4>1. faults' \in 0 .. MaxFaults
        BY <1>7, RoutingAssumption DEF Crash, TypeOK
      <4>2. writes' \in Seq(Updates) /\ Len(writes') <= 2 /\ writes' = <<>>
        BY <1>7 DEF Crash
      <4>3. file' \in {"whole", "unsafe"}
        BY <1>7 DEF Crash, TypeOK
      <4>. QED BY <1>7, <4>1, <4>2, <4>3 DEF Crash, TypeOK, ControlTyped
    <3>. QED BY <3>1, <3>2 DEF TypeOK, TalkTyped, StoreTyped, ControlTyped
  <2>. QED BY <1>7, <2>1, LoadedFits, QuietKeeps DEF Crash, AffinityIsOwned, memory
<1>8. CASE Start
  <2>1. TypeOK'
    BY <1>8 DEF Start, TypeOK, disk, talk
  <2>. QED BY <1>8, <2>1, QuietKeeps DEF Start, AffinityIsOwned, disk
<1>9. CASE UNCHANGED vars
  <2>1. TypeOK'
    BY <1>9 DEF vars, TypeOK, memory, disk, talk
  <2>. QED BY <1>9, <2>1, QuietKeeps DEF vars, AffinityIsOwned, memory, disk
<1>. QED BY <1>1, <1>2, <1>3, <1>4, <1>5, <1>6, <1>7, <1>8, <1>9 DEF Next

(* A step that leaves a whole file leaves it with no older sessions. *)
LEMMA NewerOnly ==
  ASSUME RoutingInv, [Next]_vars, file' = "whole", NEW s \in Sources, runtime'[s] # NoSession
  PROVE  runtime'[s] >= runtime[s]
<1>. USE DEF RoutingInv
<1>1. runtime[s] \in Nat /\ runtime[s] <= Len(owner)
  BY RoutingAssumption
  DEF TypeOK, Affinity, Sessions, NoSession, AffinityIsOwned, OwnSession
<1>2. CASE Dump
  <2>. DEFINE update == Head(writes)
  <2>1. update \in Updates /\ Fits(update)
    <3>1. writes \in Seq(Updates) /\ writes # <<>>
      BY <1>2 DEF Dump, TypeOK
    <3>. QED BY <3>1 DEF WritesFit
  <2>2. /\ runtime' = IF update.key = "source"
                      THEN [runtime EXCEPT ![update.source] = update.session]
                      ELSE IF update.key = "sources" THEN update.map ELSE runtime
        /\ IsSafe(update)
    BY <1>2 DEF Dump
  <2>. HIDE DEF update
  <2>3. CASE update.key = "source"
    BY <1>1, <2>1, <2>2, <2>3 DEF Fits, Updates, TypeOK, Affinity
  <2>4. CASE update.key = "sources"
    BY <2>2, <2>4 DEF IsSafe, Nowhere
  <2>5. CASE update.key \notin {"source", "sources"}
    BY <1>1, <2>2, <2>5
  <2>. QED BY <2>3, <2>4, <2>5
<1>3. CASE Crash
  BY <1>1, <1>3 DEF Crash, Loaded, Nowhere
<1>4. CASE UNCHANGED runtime
  BY <1>1, <1>4
<1>5. Dump \/ Crash \/ UNCHANGED runtime
  BY DEF Next, vars, disk, Truncate, WriteFails, KnownSource, NewSource, MessageLost, Clear,
     Roll, Reload, Start
<1>. QED BY <1>2, <1>3, <1>4, <1>5

(* Memory, file and the writes under way fit the history. *)
THEOREM RoutingInvariant == Spec => []RoutingInv
BY RoutingInitHolds, RoutingStepKeeps, PTL DEF Spec

(* No load or crash, also between truncation and text, gives a source a    *)
(* session that was never made, or another source's.                       *)
THEOREM SessionsAreOwned == Spec => []AffinityIsOwned
<1>1. RoutingInv => AffinityIsOwned
  BY DEF RoutingInv
<1>. QED BY RoutingInvariant, <1>1, PTL

(* A file that can be loaded does not go back to older sessions: the dict  *)
(* a clear writes from memory is either empty or cannot be loaded.         *)
THEOREM FileGoesForward == Spec => AffinityNeverGoesBack
<1>1. RoutingInv /\ [Next]_vars =>
        [file' = "whole" =>
           \A s \in Sources : runtime'[s] # NoSession => runtime'[s] >= runtime[s]]_vars
  BY NewerOnly
<1>. QED BY RoutingInvariant, <1>1, PTL DEF Spec, AffinityNeverGoesBack
=============================================================================
