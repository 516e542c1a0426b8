------------------------- MODULE SessionGatesProofs -------------------------
(***************************************************************************)
(* Proofs about SessionGates, for any turns, agents, sessions and          *)
(* capacities, and either way of wait_for: the places of a gate are        *)
(* conserved, an agent's turns keep to its budget, two turns are in one    *)
(* session only after a compaction, a turn reads what its session says,    *)
(* and broken exchanges have a cause.  For Python 3.12 and later: a turn   *)
(* that ended holds nothing.                                               *)
(***************************************************************************)
EXTENDS SessionGates, FiniteSetTheorems, SequenceTheorems, TLAPS

GateRecord == [free : Nat, depth : [Tasks -> Nat], queue : Seq(Tasks)]

Good(r, n) == r \in GateRecord /\ IsFiniteSet(Inside(r)) /\ Conserved(r, n)

IsQueued(r, o) == \E i \in 1 .. Len(r.queue) : r.queue[i] = o

(* A task that does not wait yet may acquire: nothing is lost. *)
LEMMA AcquireKeepsGood ==
  ASSUME NEW r, NEW n \in Nat, NEW o \in Tasks, Good(r, n), ~IsQueued(r, o)
  PROVE  /\ Good(Acquire(r, o), n)
         /\ \A p \in Tasks : r.depth[p] > 0 => Acquire(r, o).depth[p] > 0
         /\ \A p \in Tasks : IsQueued(Acquire(r, o), p) <=> IsQueued(r, p) \/ (p = o /\ IsQueued(Acquire(r, o), o))
         /\ Acquire(r, o).depth[o] > 0 \/ IsQueued(Acquire(r, o), o)
<1> DEFINE a == Acquire(r, o)
<1>0. /\ r \in GateRecord
      /\ r.depth \in [Tasks -> Nat] /\ r.free \in Nat /\ r.queue \in Seq(Tasks)
      /\ IsFiniteSet(Inside(r)) /\ Conserved(r, n)
  BY DEF Good, GateRecord
<1>1. CASE r.depth[o] > 0
  <2>1. a = [free |-> r.free, depth |-> [r.depth EXCEPT ![o] = @ + 1], queue |-> r.queue]
    BY <1>1, <1>0 DEF Acquire, GateRecord
  <2>2. /\ a \in GateRecord /\ a.free = r.free /\ a.queue = r.queue
        /\ \A p \in Tasks : a.depth[p] = IF p = o THEN r.depth[o] + 1 ELSE r.depth[p]
    BY <2>1, <1>0 DEF GateRecord
  <2>3. Inside(a) = Inside(r)
    BY <2>2, <1>1, <1>0 DEF Inside
  <2> QED
    BY <2>2, <2>3, <1>0, <1>1 DEF Good, Conserved, IsQueued
<1>2. CASE r.depth[o] = 0 /\ r.free > 0 /\ r.queue = <<>>
  <2>0. a = [r EXCEPT !.free = @ - 1, !.depth[o] = 1]
    BY <1>2 DEF Acquire
  <2>1. a = [free |-> r.free - 1, depth |-> [r.depth EXCEPT ![o] = 1], queue |-> r.queue]
    BY <2>0, <1>0 DEF GateRecord
  <2>2. /\ a \in GateRecord /\ a.free = r.free - 1 /\ a.queue = r.queue
        /\ \A p \in Tasks : a.depth[p] = IF p = o THEN 1 ELSE r.depth[p]
    BY <2>1, <1>0, <1>2 DEF GateRecord
  <2>3. Inside(a) = Inside(r) \cup {o} /\ o \notin Inside(r)
    BY <2>2, <1>2, <1>0 DEF Inside
  <2>4. IsFiniteSet(Inside(a)) /\ Cardinality(Inside(a)) = Cardinality(Inside(r)) + 1
    BY <2>3, <1>0, FS_AddElement
  <2>5. Cardinality(Inside(r)) \in Nat
    BY <1>0, FS_CardinalityType
  <2>6. Len(a.queue) = 0
    BY <2>2, <1>2
  <2> QED
    BY <2>2, <2>4, <2>5, <2>6, <1>0, <1>2 DEF Good, Conserved, IsQueued
<1>3. CASE r.depth[o] = 0 /\ ~(r.free > 0 /\ r.queue = <<>>)
  <2>0. a = [r EXCEPT !.queue = Append(@, o)]
    BY <1>3 DEF Acquire
  <2>1. a = [free |-> r.free, depth |-> r.depth, queue |-> Append(r.queue, o)]
    BY <2>0, <1>0 DEF GateRecord
  <2>2. a \in GateRecord /\ a.free = r.free /\ a.depth = r.depth /\ a.queue = Append(r.queue, o)
    BY <2>1, <1>0 DEF GateRecord
  <2>3. Inside(a) = Inside(r)
    BY <2>2 DEF Inside
  <2>4. /\ Len(a.queue) = Len(r.queue) + 1 /\ a.queue[Len(r.queue) + 1] = o
        /\ \A i \in 1 .. Len(r.queue) : a.queue[i] = r.queue[i]
        /\ Len(r.queue) \in Nat
    BY <2>2, <1>0
  <2>5. ~(a.free > 0)
    BY <1>3, <2>2, <1>0 DEF Conserved
  <2> DEFINE L == Len(r.queue)
             b == a.queue
  <2>a. /\ L \in Nat /\ Len(b) = L + 1 /\ b[L + 1] = o
        /\ \A i \in 1 .. L : b[i] = r.queue[i] /\ r.queue[i] # o
    BY <2>4 DEF IsQueued
  <2>b. /\ \A i \in 1 .. L : r.queue[i] \notin Inside(r)
        /\ \A i, j \in 1 .. L : r.queue[i] = r.queue[j] => i = j
    BY <1>0 DEF Conserved
  <2>c. o \notin Inside(r)
    BY <1>3 DEF Inside
  <2> HIDE DEF L, b
  <2>d. \A i \in 1 .. L + 1 : b[i] \notin Inside(r)
    <3> TAKE i \in 1 .. L + 1
    <3>1. i \in 1 .. L \/ i = L + 1
      BY <2>a
    <3> QED
      BY <3>1, <2>a, <2>b, <2>c
  <2>e. \A i, j \in 1 .. L + 1 : b[i] = b[j] => i = j
    <3> TAKE i, j \in 1 .. L + 1
    <3>1. (i \in 1 .. L \/ i = L + 1) /\ (j \in 1 .. L \/ j = L + 1)
      BY <2>a
    <3> QED
      BY <3>1, <2>a, <2>b
  <2>6. \A i \in 1 .. Len(a.queue) : a.queue[i] \notin Inside(a)
    BY <2>a, <2>d, <2>3 DEF b
  <2>7. \A i, j \in 1 .. Len(a.queue) : a.queue[i] = a.queue[j] => i = j
    BY <2>a, <2>e DEF b
  <2>8. Conserved(a, n)
    BY <2>2, <2>3, <2>5, <2>6, <2>7, <1>0 DEF Conserved
  <2>9. \A p \in Tasks : IsQueued(a, p) <=> IsQueued(r, p) \/ p = o
    BY <2>4 DEF IsQueued
  <2> QED
    BY <2>2, <2>3, <2>8, <2>9, <1>0 DEF Good
<1> QED
  BY <1>0, <1>1, <1>2, <1>3

(* A release hands the place to the first who waits, or frees it. *)
LEMMA ReleaseKeepsGood ==
  ASSUME NEW r, NEW n \in Nat, NEW o \in Tasks, Good(r, n)
  PROVE  /\ Good(Release(r, o), n)
         /\ \A p \in Tasks : p # o /\ r.depth[p] > 0 => Release(r, o).depth[p] > 0
         /\ \A p \in Tasks : IsQueued(Release(r, o), p) => IsQueued(r, p)
         /\ \A p \in Tasks : IsQueued(r, p) =>
              IsQueued(Release(r, o), p) \/ Release(r, o).depth[p] > 0
<1> DEFINE a == Release(r, o)
<1>0. /\ r \in GateRecord
      /\ r.depth \in [Tasks -> Nat] /\ r.free \in Nat /\ r.queue \in Seq(Tasks)
      /\ IsFiniteSet(Inside(r)) /\ Conserved(r, n) /\ Cardinality(Inside(r)) \in Nat
  BY FS_CardinalityType DEF Good, GateRecord
<1>1. CASE r.depth[o] = 0
  BY <1>1 DEF Release
<1>2. CASE r.depth[o] > 1
  <2>0. a = [r EXCEPT !.depth[o] = @ - 1]
    BY <1>2, <1>0 DEF Release
  <2>1. a = [free |-> r.free, depth |-> [r.depth EXCEPT ![o] = @ - 1], queue |-> r.queue]
    BY <2>0, <1>0 DEF GateRecord
  <2>2. /\ a \in GateRecord /\ a.free = r.free /\ a.queue = r.queue
        /\ \A p \in Tasks : a.depth[p] = IF p = o THEN r.depth[o] - 1 ELSE r.depth[p]
    BY <2>1, <1>0, <1>2 DEF GateRecord
  <2>3. Inside(a) = Inside(r)
    BY <2>2, <1>2, <1>0 DEF Inside
  <2> QED
    BY <2>2, <2>3, <1>0, <1>2 DEF Good, Conserved, IsQueued
<1>3. CASE r.depth[o] = 1 /\ r.queue = <<>>
  <2>0. a = [r EXCEPT !.depth[o] = 0, !.free = @ + 1]
    BY <1>3 DEF Release
  <2>1. a = [free |-> r.free + 1, depth |-> [r.depth EXCEPT ![o] = 0], queue |-> r.queue]
    BY <2>0, <1>0 DEF GateRecord
  <2>2. /\ a \in GateRecord /\ a.free = r.free + 1 /\ a.queue = r.queue
        /\ \A p \in Tasks : a.depth[p] = IF p = o THEN 0 ELSE r.depth[p]
    BY <2>1, <1>0 DEF GateRecord
  <2>3. Inside(a) = Inside(r) \ {o} /\ o \in Inside(r)
    BY <2>2, <1>3, <1>0 DEF Inside
  <2>4. IsFiniteSet(Inside(a)) /\ Cardinality(Inside(a)) = Cardinality(Inside(r)) - 1
    BY <2>3, <1>0, FS_RemoveElement
  <2>5. Len(a.queue) = 0
    BY <2>2, <1>3
  <2> QED
    BY <2>2, <2>4, <2>5, <1>0, <1>3 DEF Good, Conserved, IsQueued
<1>4. CASE r.depth[o] = 1 /\ r.queue # <<>>
  <2> DEFINE h == Head(r.queue)
  <2>1. a = [free |-> r.free, depth |-> [r.depth EXCEPT ![o] = 0, ![h] = 1], queue |-> Tail(r.queue)]
    BY <1>4 DEF Release
  <2>2. /\ h \in Tasks /\ h = r.queue[1] /\ Len(r.queue) \in Nat \ {0}
        /\ Tail(r.queue) \in Seq(Tasks) /\ Len(Tail(r.queue)) = Len(r.queue) - 1
        /\ \A i \in 1 .. Len(r.queue) - 1 : Tail(r.queue)[i] = r.queue[i + 1]
    BY <1>0, <1>4
  <2>3. h \notin Inside(r) /\ h # o /\ o \in Inside(r) /\ r.free = 0
    BY <2>2, <1>0, <1>4 DEF Conserved, Inside
  <2>40. /\ a.free = r.free /\ a.queue = Tail(r.queue)
         /\ a.depth = [r.depth EXCEPT ![o] = 0, ![h] = 1]
    BY <2>1
  <2> HIDE DEF h
  <2>41. /\ a.depth \in [Tasks -> Nat]
         /\ \A p \in Tasks : a.depth[p] = IF p = h THEN 1 ELSE IF p = o THEN 0 ELSE r.depth[p]
    BY <2>40, <2>2, <2>3, <1>0
  <2>42. a \in GateRecord
    BY <2>1, <2>40, <2>41, <2>2, <1>0 DEF GateRecord
  <2>4. /\ a \in GateRecord /\ a.free = r.free /\ a.queue = Tail(r.queue)
        /\ \A p \in Tasks : a.depth[p] = IF p = h THEN 1 ELSE IF p = o THEN 0 ELSE r.depth[p]
    BY <2>40, <2>41, <2>42
  <2>5. Inside(a) = (Inside(r) \ {o}) \cup {h}
    BY <2>4, <2>3, <2>2 DEF Inside
  <2>6. IsFiniteSet(Inside(r) \ {o}) /\ Cardinality(Inside(r) \ {o}) = Cardinality(Inside(r)) - 1
    BY <2>3, <1>0, FS_RemoveElement
  <2>60. h \notin Inside(r) \ {o}
    BY <2>3
  <2>61. /\ IsFiniteSet((Inside(r) \ {o}) \cup {h})
         /\ Cardinality((Inside(r) \ {o}) \cup {h}) = Cardinality(Inside(r) \ {o}) + 1
    BY <2>6, <2>60, FS_AddElement
  <2>7. IsFiniteSet(Inside(a)) /\ Cardinality(Inside(a)) = Cardinality(Inside(r))
    BY <2>5, <2>6, <2>61, <1>0
  <2>70. /\ \A i \in 1 .. Len(r.queue) : r.queue[i] \notin Inside(r)
         /\ \A i, j \in 1 .. Len(r.queue) : r.queue[i] = r.queue[j] => i = j
    BY <1>0 DEF Conserved
  <2>8. \A i \in 1 .. Len(a.queue) : a.queue[i] \notin Inside(a)
    <3> TAKE i \in 1 .. Len(a.queue)
    <3>1. /\ i + 1 \in 1 .. Len(r.queue) /\ 1 \in 1 .. Len(r.queue) /\ i + 1 # 1
          /\ a.queue[i] = r.queue[i + 1]
      BY <2>2, <2>4
    <3>2. r.queue[i + 1] \notin Inside(r) /\ r.queue[i + 1] # h
      BY <3>1, <2>2, <2>70
    <3> QED
      BY <3>1, <3>2, <2>5
  <2>9. \A i, j \in 1 .. Len(a.queue) : a.queue[i] = a.queue[j] => i = j
    <3> TAKE i, j \in 1 .. Len(a.queue)
    <3>1. /\ i + 1 \in 1 .. Len(r.queue) /\ a.queue[i] = r.queue[i + 1]
          /\ j + 1 \in 1 .. Len(r.queue) /\ a.queue[j] = r.queue[j + 1]
          /\ (i + 1 = j + 1) => i = j
      BY <2>2, <2>4
    <3> QED
      BY <3>1, <2>70
  <2>10. Good(a, n)
    BY <2>3, <2>4, <2>7, <2>8, <2>9, <1>0 DEF Good, Conserved
  <2>11. \A p \in Tasks : IsQueued(r, p) <=> IsQueued(a, p) \/ p = h
    <3> TAKE p \in Tasks
    <3>1. ASSUME NEW i \in 1 .. Len(r.queue), r.queue[i] = p, p # h
          PROVE  i - 1 \in 1 .. Len(a.queue) /\ a.queue[i - 1] = p
      BY <3>1, <2>2, <2>4
    <3>2. ASSUME NEW i \in 1 .. Len(a.queue), a.queue[i] = p
          PROVE  i + 1 \in 1 .. Len(r.queue) /\ r.queue[i + 1] = p
      BY <3>2, <2>2, <2>4
    <3>3. 1 \in 1 .. Len(r.queue) /\ r.queue[1] = h
      BY <2>2
    <3> QED
      BY <3>1, <3>2, <3>3 DEF IsQueued
  <2>12. \A p \in Tasks : p # o /\ r.depth[p] > 0 => a.depth[p] > 0
    BY <2>4
  <2>13. a.depth[h] > 0
    BY <2>4, <2>2
  <2> QED
    BY <2>10, <2>11, <2>12, <2>13
<1> QED
  BY <1>0, <1>1, <1>2, <1>3, <1>4

(* Who withdraws is not in the queue any more; the others stay. *)
LEMMA WithdrawKeepsGood ==
  ASSUME NEW r, NEW n \in Nat, NEW o \in Tasks, Good(r, n), IsQueued(r, o)
  PROVE  /\ Good(Withdraw(r, o), n)
         /\ Withdraw(r, o).depth = r.depth
         /\ \A p \in Tasks : IsQueued(Withdraw(r, o), p) <=> IsQueued(r, p) /\ p # o
<1> DEFINE k == CHOOSE i \in 1 .. Len(r.queue) : r.queue[i] = o
           q == SubSeq(r.queue, 1, k - 1) \o SubSeq(r.queue, k + 1, Len(r.queue))
           a == Withdraw(r, o)
<1>0. /\ r \in GateRecord /\ r.queue \in Seq(Tasks) /\ r.free \in Nat
      /\ IsFiniteSet(Inside(r)) /\ Conserved(r, n) /\ Len(r.queue) \in Nat
  BY DEF Good, GateRecord
<1>1. k \in 1 .. Len(r.queue) /\ r.queue[k] = o
  BY DEF IsQueued
<1>20. a = [r EXCEPT !.queue = q]
  BY DEF Withdraw
<1>2. a = [free |-> r.free, depth |-> r.depth, queue |-> q]
  BY <1>20, <1>0 DEF GateRecord
<1> DEFINE L == Len(r.queue)
           x == SubSeq(r.queue, 1, k - 1)
           y == SubSeq(r.queue, k + 1, L)
<1> HIDE DEF k
<1>30. /\ L \in Nat /\ k \in 1 .. L /\ r.queue[k] = o
       /\ \A i \in 1 .. L : r.queue[i] \notin Inside(r)
       /\ \A i, j \in 1 .. L : r.queue[i] = r.queue[j] => i = j
  BY <1>0, <1>1 DEF Conserved
<1>31. /\ x \in Seq(Tasks) /\ Len(x) = k - 1
       /\ \A i \in 1 .. k - 1 : x[i] = r.queue[i]
  BY <1>0, <1>1
<1>32. /\ y \in Seq(Tasks) /\ Len(y) = L - k
       /\ \A i \in 1 .. L - k : y[i] = r.queue[k + i]
  BY <1>0, <1>1
<1>33. q = x \o y
  OBVIOUS
<1> HIDE DEF q, x, y, L
<1>34. /\ q \in Seq(Tasks) /\ Len(q) = Len(x) + Len(y)
       /\ \A i \in 1 .. Len(x) + Len(y) : q[i] = IF i <= Len(x) THEN x[i] ELSE y[i - Len(x)]
  BY <1>31, <1>32, <1>33, ConcatProperties
<1>35. Len(q) = L - 1
  BY <1>30, <1>31, <1>32, <1>34
<1>36. \A i \in 1 .. L - 1 : q[i] = r.queue[IF i < k THEN i ELSE i + 1]
  <2> TAKE i \in 1 .. L - 1
  <2>1. CASE i < k
    <3>1. i \in 1 .. k - 1 /\ i <= Len(x) /\ i \in 1 .. Len(x) + Len(y)
      BY <2>1, <1>30, <1>31, <1>32
    <3> QED
      BY <3>1, <2>1, <1>31, <1>34
  <2>2. CASE ~(i < k)
    <3>1. /\ i - (k - 1) \in 1 .. L - k /\ ~(i <= Len(x)) /\ i \in 1 .. Len(x) + Len(y)
          /\ k + (i - (k - 1)) = i + 1
      BY <2>2, <1>30, <1>31, <1>32
    <3>2. q[i] = y[i - (k - 1)]
      BY <3>1, <1>31, <1>34
    <3> QED
      BY <3>1, <3>2, <2>2, <1>32
  <2> QED
    BY <2>1, <2>2
<1>4. a \in GateRecord /\ a.free = r.free /\ a.depth = r.depth /\ a.queue = q
  BY <1>2, <1>34, <1>0 DEF GateRecord
<1>5. Inside(a) = Inside(r)
  BY <1>4 DEF Inside
<1>6. \A i \in 1 .. L - 1 : (IF i < k THEN i ELSE i + 1) \in 1 .. L /\ (IF i < k THEN i ELSE i + 1) # k
  BY <1>30
<1>7. \A i \in 1 .. L - 1 : q[i] \notin Inside(r) /\ q[i] # o
  BY <1>30, <1>36, <1>6
<1>8. \A i, j \in 1 .. L - 1 : q[i] = q[j] => i = j
  <2> TAKE i, j \in 1 .. L - 1
  <2> HAVE q[i] = q[j]
  <2>1. (IF i < k THEN i ELSE i + 1) = (IF j < k THEN j ELSE j + 1)
    BY <1>30, <1>36, <1>6
  <2> QED
    BY <2>1, <1>30
<1>9. a.free > 0 => Len(q) = 0
  <2>1. a.free > 0 => L = 0
    BY <1>0, <1>4 DEF Conserved, L
  <2> QED
    BY <2>1, <1>30
<1>90. a.free > 0 => a.queue = <<>>
  BY <1>9, <1>34, <1>4
<1>91. /\ a.free + Cardinality(Inside(a)) = n
  BY <1>0, <1>4, <1>5 DEF Conserved
<1>10. Good(a, n)
  BY <1>0, <1>4, <1>5, <1>7, <1>8, <1>90, <1>91, <1>35 DEF Good, Conserved
<1>11. ASSUME NEW i \in 1 .. L, i # k
       PROVE  \E j \in 1 .. L - 1 : q[j] = r.queue[i]
  <2>1. CASE i < k
    <3>1. i \in 1 .. L - 1
      BY <2>1, <1>30
    <3> QED
      BY <3>1, <2>1, <1>36
  <2>2. CASE i > k
    <3>1. i - 1 \in 1 .. L - 1 /\ ~(i - 1 < k) /\ (i - 1) + 1 = i
      BY <2>2, <1>30
    <3>2. q[i - 1] = r.queue[i]
      BY <3>1, <1>36
    <3> QED
      BY <3>1, <3>2
  <2> QED
    BY <2>1, <2>2, <1>11, <1>30
<1>12. \A p \in Tasks : IsQueued(a, p) <=> IsQueued(r, p) /\ p # o
  <2> TAKE p \in Tasks
  <2>1. IsQueued(a, p) <=> \E i \in 1 .. L - 1 : q[i] = p
    BY <1>4, <1>35 DEF IsQueued
  <2>2. IsQueued(r, p) <=> \E i \in 1 .. L : r.queue[i] = p
    BY DEF IsQueued, L
  <2>3. ASSUME NEW i \in 1 .. L - 1, q[i] = p PROVE p # o /\ \E j \in 1 .. L : r.queue[j] = p
    BY <2>3, <1>36, <1>6, <1>7
  <2>4. ASSUME NEW i \in 1 .. L, r.queue[i] = p, p # o PROVE \E j \in 1 .. L - 1 : q[j] = p
    BY <2>4, <1>11, <1>30
  <2> QED
    BY <2>1, <2>2, <2>3, <2>4
<1> QED
  BY <1>4, <1>10, <1>12

-----------------------------------------------------------------------------
(* The inductive invariant: every gate is Good, a turn's tasks wait where  *)
(* it is about to enter and nowhere else, and a turn on its way in or at   *)
(* work is inside of every gate it entered.                                *)

TasksOf(t) == {t} \X {"main", "acquire", "chat"}

Outside == {"none", "queued", "done"}

HoldsFrame(t, i) == gate[Frames(t)[i].gate].depth[Frames(t)[i].enters] > 0

HeldBy(t) ==
  pc[t] \in Active \cup {"entering"} =>
    \A i \in 1 .. entered[t] : HoldsFrame(t, i) \/ (i = entered[t] /\ IsWaiting(t))

QueuedBy(t) ==
  \A g \in Gates : \A o \in TasksOf(t) : IsQueued(gate[g], o) =>
    /\ pc[t] = "entering" /\ entered[t] > 0
    /\ g = LastFrame(t).gate /\ o = LastFrame(t).enters

PlacedOK(t) ==
  /\ pc[t] \in Outside => entered[t] = 0
  /\ pc[t] \notin Outside => home[t] \in Sessions
  /\ entered[t] > 0 => entered[t] <= Len(Frames(t))
  /\ pc[t] \in Active => entered[t] = Len(Frames(t))
  /\ pc[t] = "leaving" => entered[t] > 0

Typed ==
  /\ gate \in [Gates -> GateRecord]
  /\ pc \in [Turns -> Places]
  /\ entered \in [Turns -> Nat]
  /\ home \in [Turns -> Sessions \cup {NoSession}]

GatesGood == \A g \in Gates : Good(gate[g], Size(g))

TurnOK(t) == PlacedOK(t) /\ QueuedBy(t) /\ HeldBy(t)

GInv == Typed /\ GatesGood /\ \A t \in Turns : TurnOK(t)

(* A turn is in its own session or in one that a compaction made. *)
SessionsOK ==
  /\ session \in [Turns -> Sessions \cup {NoSession}]
  /\ \A t \in Turns : session[t] = home[t] \/ session[t] \in rolled
  /\ \A t \in Turns : pc[t] = "rolling" => session[t] \in rolled

IInv == GInv /\ SessionsOK /\ TurnsMixOnRollOnly

-----------------------------------------------------------------------------
(* The frames of a turn that was started enter and leave gates, with tasks *)
(* of the turn; in the last but one it enters its agent's gate as "chat",  *)
(* and in the last its session's.                                          *)
LEMMA FrameFacts ==
  ASSUME NEW t \in Turns, home[t] \in Sessions
  PROVE  /\ Len(Frames(t)) \in Nat \ {0, 1}
         /\ \A i \in 1 .. Len(Frames(t)) :
              /\ Frames(t)[i].gate \in Gates
              /\ Frames(t)[i].enters \in TasksOf(t) /\ Frames(t)[i].leaves \in TasksOf(t)
         /\ Frames(t)[Len(Frames(t)) - 1] = Frame(AgentOf[home[t]], Task(t, "chat"), Task(t, "chat"))
         /\ Frames(t)[Len(Frames(t))] = Frame(home[t], Task(t, "chat"), Task(t, "chat"))
<1> DEFINE a == AgentOf[home[t]]
           main == Task(t, "main")
           chat == Task(t, "chat")
           Of == [gate : Gates, enters : TasksOf(t), leaves : TasksOf(t)]
           outer == IF t \in Jobs THEN <<Frame(a, Task(t, "acquire"), main)>>
                                  ELSE <<Frame(a, main, main), Frame(home[t], main, main)>>
           inner == <<Frame(a, chat, chat), Frame(home[t], chat, chat)>>
<1>1. a \in Gates /\ home[t] \in Gates
  BY GatesAssumption DEF Gates
<1>2. \A part \in {"main", "acquire", "chat"} : Task(t, part) \in TasksOf(t)
  BY DEF Task, TasksOf
<1>3. /\ Frame(a, Task(t, "acquire"), main) \in Of /\ Frame(a, main, main) \in Of
      /\ Frame(home[t], main, main) \in Of
      /\ Frame(a, chat, chat) \in Of /\ Frame(home[t], chat, chat) \in Of
  BY <1>1, <1>2 DEF Frame
<1> HIDE DEF Of
<1>4. outer \in Seq(Of) /\ Len(outer) \in {1, 2}
  <2>1. CASE t \in Jobs
    <3>1. outer = <<Frame(a, Task(t, "acquire"), main)>>
      BY <2>1
    <3> QED
      BY <3>1, <1>3
  <2>2. CASE t \notin Jobs
    <3>1. outer = <<Frame(a, main, main), Frame(home[t], main, main)>>
      BY <2>2
    <3> QED
      BY <3>1, <1>3
  <2> QED
    BY <2>1, <2>2
<1>5. inner \in Seq(Of) /\ Len(inner) = 2
      /\ inner[1] = Frame(a, chat, chat) /\ inner[2] = Frame(home[t], chat, chat)
  BY <1>3
<1>6. Frames(t) = outer \o inner
  BY DEF Frames
<1> HIDE DEF outer, inner
<1>7. /\ Frames(t) \in Seq(Of) /\ Len(Frames(t)) = Len(outer) + 2
      /\ \A i \in 1 .. Len(outer) + 2 :
           Frames(t)[i] = IF i <= Len(outer) THEN outer[i] ELSE inner[i - Len(outer)]
  <2>1. /\ outer \o inner \in Seq(Of) /\ Len(outer \o inner) = Len(outer) + Len(inner)
        /\ \A i \in 1 .. Len(outer) + Len(inner) :
             (outer \o inner)[i] = IF i <= Len(outer) THEN outer[i] ELSE inner[i - Len(outer)]
    BY <1>4, <1>5, ConcatProperties
  <2> QED
    BY <2>1, <1>5, <1>6
<1>8. \A i \in 1 .. Len(Frames(t)) : Frames(t)[i] \in Of
  BY <1>7
<1>9. /\ Frames(t)[Len(outer) + 1] = inner[1] /\ Frames(t)[Len(outer) + 2] = inner[2]
  BY <1>4, <1>7
<1> QED
  BY <1>4, <1>5, <1>7, <1>8, <1>9 DEF Of

(* The tasks of a turn are tasks, and no other turn's. *)
LEMMA TasksApart ==
  /\ \A t \in Turns : TasksOf(t) \subseteq Tasks
  /\ \A t, u \in Turns : \A o \in TasksOf(t) : t # u => o \notin TasksOf(u)
BY DEF TasksOf, Tasks

(* What one turn does at a gate does not disturb another turn: who was     *)
(* inside is inside, and who waited waits or was let in.                   *)
LEMMA OthersKeep ==
  ASSUME Typed, NEW u \in Turns, TurnOK(u),
         NEW g \in Gates, NEW r, gate' = [gate EXCEPT ![g] = r],
         \A p \in TasksOf(u) : gate[g].depth[p] > 0 => r.depth[p] > 0,
         \A p \in TasksOf(u) : IsQueued(r, p) => IsQueued(gate[g], p),
         \A p \in TasksOf(u) : IsQueued(gate[g], p) => IsQueued(r, p) \/ r.depth[p] > 0,
         pc'[u] = pc[u], entered'[u] = entered[u], home'[u] = home[u]
  PROVE  TurnOK(u)'
<1>1. Frames(u)' = Frames(u)
  BY DEF Frames
<1>2. LastFrame(u)' = LastFrame(u)
  BY <1>1 DEF LastFrame
<1>3. \A h \in Gates : gate'[h] = IF h = g THEN r ELSE gate[h]
  BY DEF Typed
<1>4. PlacedOK(u)'
  BY <1>1 DEF TurnOK, PlacedOK
<1>5. QueuedBy(u)'
  <2> SUFFICES ASSUME NEW h \in Gates, NEW o \in TasksOf(u), IsQueued(gate'[h], o)
               PROVE  /\ pc[u] = "entering" /\ entered[u] > 0
                      /\ h = LastFrame(u).gate /\ o = LastFrame(u).enters
    BY <1>2 DEF QueuedBy, IsQueued
  <2>1. IsQueued(gate[h], o)
    BY <1>3
  <2> QED
    BY <2>1 DEF TurnOK, QueuedBy
<1>6. HeldBy(u)'
  <2> SUFFICES ASSUME pc[u] \in Active \cup {"entering"}, NEW i \in 1 .. entered[u]
               PROVE  HoldsFrame(u, i)' \/ (i = entered[u] /\ IsWaiting(u)')
    BY DEF HeldBy
  <2>1. Frames(u)[i].gate \in Gates /\ Frames(u)[i].enters \in TasksOf(u)
    <3>1. home[u] \in Sessions
      BY DEF TurnOK, PlacedOK, Active, Outside
    <3>2. i \in 1 .. Len(Frames(u))
      BY <3>1, FrameFacts DEF TurnOK, PlacedOK, Typed
    <3> QED
      BY <3>1, <3>2, FrameFacts
  <2>2. ASSUME HoldsFrame(u, i) PROVE HoldsFrame(u, i)'
    BY <2>1, <2>2, <1>1, <1>3 DEF HoldsFrame
  <2>3. ASSUME i = entered[u], IsWaiting(u) PROVE HoldsFrame(u, i)' \/ IsWaiting(u)'
    <3> DEFINE h == LastFrame(u).gate
               o == LastFrame(u).enters
    <3>1. h = Frames(u)[i].gate /\ o = Frames(u)[i].enters
      BY <2>3 DEF LastFrame
    <3>2. IsQueued(gate[h], o)
      BY <2>3 DEF IsWaiting, Waits, IsQueued
    <3>3. IsQueued(gate'[h], o) \/ gate'[h].depth[o] > 0
      BY <3>1, <3>2, <2>1, <1>3
    <3>4. CASE IsQueued(gate'[h], o)
      BY <3>4, <2>3, <1>2 DEF IsWaiting, Waits, IsQueued
    <3>5. CASE gate'[h].depth[o] > 0
      BY <3>1, <3>5, <1>1 DEF HoldsFrame
    <3> QED
      BY <3>3, <3>4, <3>5
  <2> QED
    BY <2>2, <2>3 DEF TurnOK, HeldBy
<1> QED
  BY <1>4, <1>5, <1>6 DEF TurnOK

(* A step of the loop, or the start of a turn that is through its gates,   *)
(* leaves the gates as they are.                                           *)
QuietMove(u) ==
  \/ pc'[u] = pc[u]
  \/ pc[u] \in Active /\ pc'[u] \in Active \cup {"leaving"}
  \/ pc[u] = "none" /\ pc'[u] = "queued"
  \/ pc[u] = "entering" /\ ~IsWaiting(u) /\ entered[u] = Len(Frames(u)) /\ pc'[u] \in Active

LEMMA QuietStep ==
  ASSUME GInv, UNCHANGED <<gate, entered, home>>, pc' \in [Turns -> Places],
         \A u \in Turns : QuietMove(u)
  PROVE  GInv'
<1>1. Typed' /\ GatesGood'
  BY DEF GInv, Typed, GatesGood
<1>2. ASSUME NEW u \in Turns PROVE TurnOK(u)'
  <2>1. TurnOK(u) /\ QuietMove(u) /\ pc[u] \in Places /\ pc'[u] \in Places
    BY DEF GInv, Typed
  <2>2. Frames(u)' = Frames(u) /\ LastFrame(u)' = LastFrame(u) /\ IsWaiting(u)' = IsWaiting(u)
    BY DEF Frames, LastFrame, IsWaiting, Waits
  <2>3. \A i : HoldsFrame(u, i)' = HoldsFrame(u, i)
    BY <2>2 DEF HoldsFrame
  <2>4. PlacedOK(u)'
    <3>1. pc[u] \in Active => Len(Frames(u)) > 0
      BY <2>1, FrameFacts DEF TurnOK, PlacedOK, Active, Outside
    <3> QED
      BY <2>1, <2>2, <3>1 DEF TurnOK, PlacedOK, QuietMove, Active, Outside
  <2>5. QueuedBy(u)'
    <3> SUFFICES ASSUME NEW g \in Gates, NEW o \in TasksOf(u), IsQueued(gate[g], o)
                 PROVE  /\ pc'[u] = "entering" /\ entered[u] > 0
                        /\ g = LastFrame(u).gate /\ o = LastFrame(u).enters
      BY <2>2 DEF QueuedBy, IsQueued
    <3>1. /\ pc[u] = "entering" /\ entered[u] > 0
          /\ g = LastFrame(u).gate /\ o = LastFrame(u).enters
      BY <2>1 DEF TurnOK, QueuedBy
    <3>2. IsWaiting(u)
      BY <3>1 DEF IsWaiting, Waits, IsQueued
    <3> QED
      BY <3>1, <3>2, <2>1 DEF QuietMove, Active
  <2>6. HeldBy(u)'
    BY <2>1, <2>2, <2>3 DEF TurnOK, HeldBy, QuietMove, Active
  <2> QED
    BY <2>4, <2>5, <2>6 DEF TurnOK
<1> QED
  BY <1>1, <1>2 DEF GInv

(* A turn that is called, or a job that is started, has entered nothing.   *)
LEMMA ComesKeepsGInv ==
  ASSUME GInv, NEW t \in Turns, pc[t] \in {"none", "queued"}, NEW s \in Sessions,
         home' = [home EXCEPT ![t] = s], pc' = [pc EXCEPT ![t] = "entering"],
         UNCHANGED <<gate, entered>>
  PROVE  GInv'
<1>1. Typed' /\ GatesGood'
  BY DEF GInv, Typed, GatesGood, Places
<1>2. \A u \in Turns : TurnOK(u)
  BY DEF GInv
<1>3. ASSUME NEW u \in Turns, u # t PROVE TurnOK(u)'
  <2>1. home'[u] = home[u] /\ pc'[u] = pc[u]
    BY <1>3 DEF GInv, Typed
  <2>2. Frames(u)' = Frames(u)
    BY <2>1 DEF Frames
  <2>3. LastFrame(u)' = LastFrame(u)
    BY <2>2 DEF LastFrame
  <2>4. IsWaiting(u)' = IsWaiting(u)
    BY <2>3 DEF IsWaiting, Waits
  <2>5. \A i : HoldsFrame(u, i)' = HoldsFrame(u, i)
    BY <2>2 DEF HoldsFrame
  <2>6. PlacedOK(u)' /\ HeldBy(u)'
    BY <1>2, <2>1, <2>2, <2>4, <2>5 DEF TurnOK, PlacedOK, HeldBy
  <2>7. QueuedBy(u)'
    BY <1>2, <2>1, <2>3 DEF TurnOK, QueuedBy, IsQueued
  <2> QED
    BY <2>6, <2>7 DEF TurnOK
<1>4. TurnOK(t)'
  <2>1. pc'[t] = "entering" /\ home'[t] = s /\ entered[t] = 0
    BY <1>2 DEF GInv, Typed, TurnOK, PlacedOK, Outside
  <2>3. PlacedOK(t)'
    BY <2>1 DEF PlacedOK, Outside, Active
  <2>4. QueuedBy(t)'
    BY <1>2, <2>1 DEF TurnOK, QueuedBy, IsQueued
  <2>5. HeldBy(t)'
    BY <2>1 DEF HeldBy
  <2> QED
    BY <2>3, <2>4, <2>5 DEF TurnOK
<1> QED
  BY <1>1, <1>3, <1>4 DEF GInv

LEMMA EnterKeepsGInv ==
  ASSUME GInv, NEW t \in Turns, EnterNext(t)
  PROVE  GInv'
<1> DEFINE i == entered[t] + 1
           g == Frames(t)[i].gate
           o == Frames(t)[i].enters
           r == Acquire(gate[g], o)
<1>0. Typed /\ GatesGood /\ \A u \in Turns : TurnOK(u)
  BY DEF GInv
<1>1. /\ pc[t] = "entering" /\ ~IsWaiting(t) /\ entered[t] < Len(Frames(t))
      /\ gate' = [gate EXCEPT ![g] = r]
      /\ entered' = [entered EXCEPT ![t] = i]
      /\ UNCHANGED <<pc, home>>
  BY DEF EnterNext
<1>2. home[t] \in Sessions /\ entered[t] \in Nat /\ i \in 1 .. Len(Frames(t)) /\ entered'[t] = i
  BY <1>0, <1>1, FrameFacts DEF TurnOK, PlacedOK, Typed, Outside
<1>3. g \in Gates /\ o \in TasksOf(t) /\ o \in Tasks
  BY <1>2, FrameFacts, TasksApart
<1>4. ~IsQueued(gate[g], o)
  BY <1>0, <1>1, <1>3 DEF TurnOK, QueuedBy, IsWaiting, Waits, IsQueued
<1>5. Good(gate[g], Size(g)) /\ Size(g) \in Nat
  BY <1>0, <1>3, GatesAssumption DEF GatesGood, Size
<1>6. /\ Good(r, Size(g))
      /\ \A p \in Tasks : gate[g].depth[p] > 0 => r.depth[p] > 0
      /\ \A p \in Tasks : IsQueued(r, p) <=> IsQueued(gate[g], p) \/ (p = o /\ IsQueued(r, o))
      /\ r.depth[o] > 0 \/ IsQueued(r, o)
  <2> HIDE DEF g, o
  <2> QED
    BY <1>3, <1>4, <1>5, AcquireKeepsGood
<1> HIDE DEF r
<1>7. \A h \in Gates : gate'[h] = IF h = g THEN r ELSE gate[h]
  BY <1>0, <1>1 DEF Typed
<1>8. Typed' /\ GatesGood'
  BY <1>0, <1>1, <1>2, <1>3, <1>6, <1>7 DEF Typed, GatesGood, Good
<1>9. ASSUME NEW u \in Turns, u # t PROVE TurnOK(u)'
  <2>1. TasksOf(u) \subseteq Tasks /\ o \notin TasksOf(u)
    BY <1>3, <1>9, TasksApart
  <2>2. entered'[u] = entered[u]
    BY <1>0, <1>1, <1>9 DEF Typed
  <2>3. /\ \A p \in TasksOf(u) : gate[g].depth[p] > 0 => r.depth[p] > 0
        /\ \A p \in TasksOf(u) : IsQueued(r, p) => IsQueued(gate[g], p)
        /\ \A p \in TasksOf(u) : IsQueued(gate[g], p) => IsQueued(r, p) \/ r.depth[p] > 0
    BY <2>1, <1>6
  <2>4. /\ TurnOK(u) /\ Typed /\ g \in Gates /\ gate' = [gate EXCEPT ![g] = r]
        /\ pc'[u] = pc[u] /\ entered'[u] = entered[u] /\ home'[u] = home[u]
    BY <1>0, <1>1, <1>3, <2>2
  <2> HIDE DEF g, o
  <2> QED
    BY <2>3, <2>4, OthersKeep
<1>10. TurnOK(t)'
  <2>1. Frames(t)' = Frames(t)
    BY <1>1 DEF Frames
  <2>2. LastFrame(t)' = Frames(t)[i]
    BY <1>2, <2>1 DEF LastFrame
  <2>3. PlacedOK(t)'
    BY <1>0, <1>1, <1>2, <2>1 DEF TurnOK, PlacedOK, Outside, Active
  <2>4. QueuedBy(t)'
    <3> SUFFICES ASSUME NEW h \in Gates, NEW p \in TasksOf(t), IsQueued(gate'[h], p)
                 PROVE  h = g /\ p = o
      BY <1>1, <1>2, <2>2 DEF QueuedBy, IsQueued
    <3>1. ~IsQueued(gate[h], p)
      BY <1>0, <1>1 DEF TurnOK, QueuedBy, IsWaiting, Waits, IsQueued
    <3> QED
      BY <3>1, <1>6, <1>7, TasksApart
  <2>5. HeldBy(t)'
    <3> SUFFICES ASSUME NEW j \in 1 .. i PROVE HoldsFrame(t, j)' \/ (j = i /\ IsWaiting(t)')
      BY <1>2 DEF HeldBy
    <3>1. CASE j = i
      <4>1. CASE r.depth[o] > 0
        BY <3>1, <4>1, <2>1, <1>3, <1>7 DEF HoldsFrame
      <4>2. CASE IsQueued(r, o)
        BY <3>1, <4>2, <2>2, <1>2, <1>3, <1>7 DEF IsWaiting, Waits, IsQueued
      <4> QED
        BY <4>1, <4>2, <1>6
    <3>2. CASE j # i
      <4>1. j \in 1 .. entered[t] /\ j \in 1 .. Len(Frames(t))
        BY <3>2, <1>2
      <4>2. HoldsFrame(t, j)
        BY <4>1, <1>0, <1>1 DEF TurnOK, HeldBy
      <4>3. Frames(t)[j].gate \in Gates /\ Frames(t)[j].enters \in Tasks
        BY <4>1, <1>2, FrameFacts, TasksApart
      <4> QED
        BY <4>2, <4>3, <2>1, <1>6, <1>7 DEF HoldsFrame
    <3> QED
      BY <3>1, <3>2
  <2> QED
    BY <2>3, <2>4, <2>5 DEF TurnOK
<1> QED
  BY <1>8, <1>9, <1>10 DEF GInv

LEMMA LeaveKeepsGInv ==
  ASSUME GInv, NEW t \in Turns, LeaveNext(t)
  PROVE  GInv'
<1> DEFINE g == LastFrame(t).gate
           o == LastFrame(t).leaves
           r == Release(gate[g], o)
<1>0. Typed /\ GatesGood /\ \A u \in Turns : TurnOK(u)
  BY DEF GInv
<1>1. /\ pc[t] = "leaving"
      /\ gate' = [gate EXCEPT ![g] = r]
      /\ entered' = [entered EXCEPT ![t] = entered[t] - 1]
      /\ pc' = [pc EXCEPT ![t] = IF entered[t] = 1 THEN "done" ELSE "leaving"]
      /\ UNCHANGED home
  BY DEF LeaveNext
<1>2. home[t] \in Sessions /\ entered[t] \in 1 .. Len(Frames(t))
  BY <1>0, <1>1, FrameFacts DEF TurnOK, PlacedOK, Typed, Outside
<1>3. g \in Gates /\ o \in TasksOf(t) /\ o \in Tasks
  BY <1>2, FrameFacts, TasksApart DEF LastFrame
<1>5. Good(gate[g], Size(g)) /\ Size(g) \in Nat
  BY <1>0, <1>3, GatesAssumption DEF GatesGood, Size
<1>6. /\ Good(r, Size(g))
      /\ \A p \in Tasks : p # o /\ gate[g].depth[p] > 0 => r.depth[p] > 0
      /\ \A p \in Tasks : IsQueued(r, p) => IsQueued(gate[g], p)
      /\ \A p \in Tasks : IsQueued(gate[g], p) => IsQueued(r, p) \/ r.depth[p] > 0
  <2> HIDE DEF g, o
  <2> QED
    BY <1>3, <1>5, ReleaseKeepsGood
<1> HIDE DEF r, g, o
<1>7. \A h \in Gates : gate'[h] = IF h = g THEN r ELSE gate[h]
  BY <1>0, <1>1 DEF Typed
<1>8. Typed' /\ GatesGood'
  BY <1>0, <1>1, <1>2, <1>3, <1>6, <1>7 DEF Typed, GatesGood, Good, Places
<1>9. ASSUME NEW u \in Turns, u # t PROVE TurnOK(u)'
  <2>1. TasksOf(u) \subseteq Tasks /\ o \notin TasksOf(u)
    BY <1>3, <1>9, TasksApart
  <2>2. entered'[u] = entered[u] /\ pc'[u] = pc[u]
    BY <1>0, <1>1, <1>9 DEF Typed
  <2>3. /\ \A p \in TasksOf(u) : gate[g].depth[p] > 0 => r.depth[p] > 0
        /\ \A p \in TasksOf(u) : IsQueued(r, p) => IsQueued(gate[g], p)
        /\ \A p \in TasksOf(u) : IsQueued(gate[g], p) => IsQueued(r, p) \/ r.depth[p] > 0
    BY <2>1, <1>6
  <2>4. /\ TurnOK(u) /\ Typed /\ g \in Gates /\ gate' = [gate EXCEPT ![g] = r]
        /\ pc'[u] = pc[u] /\ entered'[u] = entered[u] /\ home'[u] = home[u]
    BY <1>0, <1>1, <1>3, <2>2
  <2> QED
    BY <2>3, <2>4, OthersKeep
<1>10. TurnOK(t)'
  <2>0. /\ entered'[t] = entered[t] - 1 /\ pc'[t] = (IF entered[t] = 1 THEN "done" ELSE "leaving")
    BY <1>0, <1>1 DEF Typed
  <2>1. Frames(t)' = Frames(t)
    BY <1>1 DEF Frames
  <2>3. PlacedOK(t)'
    BY <1>1, <1>2, <2>0, <2>1, FrameFacts DEF PlacedOK, Outside, Active
  <2>4. QueuedBy(t)'
    <3> SUFFICES ASSUME NEW h \in Gates, NEW p \in TasksOf(t), IsQueued(gate'[h], p)
                 PROVE  FALSE
      BY DEF QueuedBy, IsQueued
    <3>1. ~IsQueued(gate[h], p)
      BY <1>0, <1>1 DEF TurnOK, QueuedBy
    <3> QED
      BY <3>1, <1>6, <1>7, TasksApart
  <2>5. HeldBy(t)'
    BY <2>0 DEF HeldBy, Active
  <2> QED
    BY <2>3, <2>4, <2>5 DEF TurnOK
<1> QED
  BY <1>8, <1>9, <1>10 DEF GInv

LEMMA InterruptKeepsGInv ==
  ASSUME GInv, NEW t \in Turns, Interrupt(t)
  PROVE  GInv'
<1>0. Typed /\ GatesGood /\ \A u \in Turns : TurnOK(u)
  BY DEF GInv
<1>1. /\ pc[t] \in Active \cup {"entering"} /\ UNCHANGED home
      /\ home[t] \in Sessions /\ entered[t] \in Nat
      /\ entered[t] > 0 => entered[t] \in 1 .. Len(Frames(t))
      /\ pc' \in [Turns -> Places] /\ entered[t] <= Len(Frames(t))
  <2>1. pc[t] \in Active \cup {"entering"} /\ UNCHANGED home
    BY DEF Interrupt
  <2>2. home[t] \in Sessions /\ entered[t] \in Nat
    BY <2>1, <1>0 DEF TurnOK, PlacedOK, Typed, Outside, Active
  <2>3. (entered[t] > 0 => entered[t] \in 1 .. Len(Frames(t))) /\ entered[t] <= Len(Frames(t))
    BY <2>2, <1>0, FrameFacts DEF TurnOK, PlacedOK
  <2>4. pc' \in [Turns -> Places]
    BY <1>0 DEF Interrupt, Typed, Places
  <2> QED
    BY <2>1, <2>2, <2>3, <2>4
<1>2. Frames(t)' = Frames(t)
  BY <1>1 DEF Frames
<1>3. ASSUME NEW u \in Turns, u # t PROVE pc'[u] = pc[u] /\ entered'[u] = entered[u] /\ home'[u] = home[u]
  BY <1>0, <1>1, <1>3 DEF Interrupt, Typed
<1>4. CASE IsWaiting(t)
  <2> DEFINE g == LastFrame(t).gate
             o == LastFrame(t).enters
             r == Withdraw(gate[g], o)
  <2>1. /\ gate' = [gate EXCEPT ![g] = r]
        /\ entered' = [entered EXCEPT ![t] = entered[t] - 1]
        /\ pc' = [pc EXCEPT ![t] = IF entered[t] - 1 = 0 THEN "done" ELSE "leaving"]
    BY <1>4 DEF Interrupt
  <2>2. entered[t] \in 1 .. Len(Frames(t))
    BY <1>1, <1>4 DEF IsWaiting
  <2>3. g \in Gates /\ o \in TasksOf(t) /\ o \in Tasks
    BY <1>1, <2>2, FrameFacts, TasksApart DEF LastFrame
  <2>4. IsQueued(gate[g], o)
    BY <1>4 DEF IsWaiting, Waits, IsQueued
  <2>5. Good(gate[g], Size(g)) /\ Size(g) \in Nat
    BY <1>0, <2>3, GatesAssumption DEF GatesGood, Size
  <2>6. /\ Good(r, Size(g)) /\ r.depth = gate[g].depth
        /\ \A p \in Tasks : IsQueued(r, p) <=> IsQueued(gate[g], p) /\ p # o
    <3> HIDE DEF g, o
    <3> QED
      BY <2>3, <2>4, <2>5, WithdrawKeepsGood
  <2> HIDE DEF r, g, o
  <2>7. \A h \in Gates : gate'[h] = IF h = g THEN r ELSE gate[h]
    BY <1>0, <2>1 DEF Typed
  <2>8. Typed' /\ GatesGood'
    BY <1>0, <1>1, <2>1, <2>2, <2>3, <2>6, <2>7 DEF Typed, GatesGood, Good
  <2>9. ASSUME NEW u \in Turns, u # t PROVE TurnOK(u)'
    <3>1. TasksOf(u) \subseteq Tasks /\ o \notin TasksOf(u)
      BY <2>3, <2>9, TasksApart
    <3>2. /\ \A p \in TasksOf(u) : gate[g].depth[p] > 0 => r.depth[p] > 0
          /\ \A p \in TasksOf(u) : IsQueued(r, p) => IsQueued(gate[g], p)
          /\ \A p \in TasksOf(u) : IsQueued(gate[g], p) => IsQueued(r, p) \/ r.depth[p] > 0
      BY <3>1, <2>6
    <3>3. TurnOK(u) /\ Typed
      BY <1>0
    <3>4. pc'[u] = pc[u] /\ entered'[u] = entered[u] /\ home'[u] = home[u]
      BY <1>3, <2>9
    <3> QED
      BY <3>2, <3>3, <3>4, <2>1, <2>3, OthersKeep
  <2>10. TurnOK(t)'
    <3>0. /\ entered'[t] = entered[t] - 1
          /\ pc'[t] = (IF entered[t] - 1 = 0 THEN "done" ELSE "leaving")
      BY <1>0, <2>1 DEF Typed
    <3>1. PlacedOK(t)'
      BY <1>1, <1>2, <2>2, <3>0, FrameFacts DEF PlacedOK, Outside, Active
    <3>2. QueuedBy(t)'
      <4> SUFFICES ASSUME NEW h \in Gates, NEW p \in TasksOf(t), IsQueued(gate'[h], p)
                   PROVE  FALSE
        BY DEF QueuedBy, IsQueued
      <4>1. IsQueued(gate[h], p) => h = g /\ p = o
        BY <1>0 DEF TurnOK, QueuedBy, g, o
      <4> QED
        BY <4>1, <2>6, <2>7, TasksApart
    <3>3. HeldBy(t)'
      BY <3>0 DEF HeldBy, Active
    <3> QED
      BY <3>1, <3>2, <3>3 DEF TurnOK
  <2> QED
    BY <2>8, <2>9, <2>10 DEF GInv
<1>5. CASE ~IsWaiting(t)
  <2>1. /\ UNCHANGED gate
        /\ entered' = [entered EXCEPT ![t] = entered[t]]
        /\ pc' = [pc EXCEPT ![t] = IF entered[t] = 0 THEN "done" ELSE "leaving"]
    BY <1>5 DEF Interrupt
  <2>2. entered' = entered
    BY <1>0, <2>1 DEF Typed
  <2>3. Typed' /\ GatesGood'
    BY <1>0, <1>1, <2>1, <2>2 DEF Typed, GatesGood
  <2>4. ASSUME NEW u \in Turns, u # t PROVE TurnOK(u)'
    <3>0. /\ pc'[u] = pc[u] /\ entered'[u] = entered[u] /\ home'[u] = home[u] /\ TurnOK(u)
      BY <1>0, <1>3, <2>4
    <3>00. Frames(u)' = Frames(u)
      BY <3>0 DEF Frames
    <3>000. LastFrame(u)' = LastFrame(u)
      BY <3>0, <3>00 DEF LastFrame
    <3>1. /\ Frames(u)' = Frames(u) /\ LastFrame(u)' = LastFrame(u) /\ IsWaiting(u)' = IsWaiting(u)
          /\ pc'[u] = pc[u] /\ entered'[u] = entered[u] /\ home'[u] = home[u] /\ TurnOK(u)
      BY <3>0, <3>00, <3>000, <2>1 DEF IsWaiting, Waits
    <3>2. \A i : HoldsFrame(u, i)' = HoldsFrame(u, i)
      BY <3>1, <2>1 DEF HoldsFrame
    <3>3. PlacedOK(u)' /\ HeldBy(u)'
      BY <3>1, <3>2 DEF TurnOK, PlacedOK, HeldBy
    <3>4. QueuedBy(u)'
      BY <3>1, <2>1 DEF TurnOK, QueuedBy, IsQueued
    <3> QED
      BY <3>3, <3>4 DEF TurnOK
  <2>5. TurnOK(t)'
    <3>0. pc'[t] = (IF entered[t] = 0 THEN "done" ELSE "leaving")
      BY <1>0, <2>1 DEF Typed
    <3>1. PlacedOK(t)'
      BY <1>1, <1>2, <2>2, <3>0 DEF PlacedOK, Outside, Active
    <3>2. QueuedBy(t)'
      BY <1>0, <1>5, <2>1 DEF TurnOK, QueuedBy, IsWaiting, Waits, IsQueued
    <3>3. HeldBy(t)'
      BY <3>0 DEF HeldBy, Active
    <3> QED
      BY <3>1, <3>2, <3>3 DEF TurnOK
  <2> QED
    BY <2>3, <2>4, <2>5 DEF GInv
<1> QED
  BY <1>4, <1>5

LEMMA InitGInv == Init => GInv
<1> SUFFICES ASSUME Init PROVE GInv
  OBVIOUS
<1>1. \A g \in Gates : /\ Size(g) \in Nat /\ gate[g] = Open(g)
  BY GatesAssumption DEF Init, Size
<1>2. ASSUME NEW g \in Gates PROVE gate[g] \in GateRecord /\ Good(gate[g], Size(g))
  <2>1. /\ gate[g] \in GateRecord /\ gate[g].free = Size(g) /\ gate[g].queue = <<>>
        /\ \A o \in Tasks : gate[g].depth[o] = 0
    <3>1. gate[g] = [free |-> Size(g), depth |-> [o \in Tasks |-> 0], queue |-> <<>>]
      BY <1>1 DEF Open
    <3>2. [o \in Tasks |-> 0] \in [Tasks -> Nat] /\ <<>> \in Seq(Tasks)
      OBVIOUS
    <3>3. gate[g] \in GateRecord
      BY <3>1, <3>2, <1>1 DEF GateRecord
    <3> QED
      BY <3>1, <3>3
  <2>2. Inside(gate[g]) = {}
    BY <2>1 DEF Inside
  <2>3. IsFiniteSet({}) /\ Cardinality({}) = 0
    BY FS_EmptySet
  <2> QED
    BY <1>1, <2>1, <2>2, <2>3 DEF Good, Conserved
<1>3. Typed
  BY <1>2 DEF Init, Typed, Places
<1>4. ASSUME NEW t \in Turns PROVE TurnOK(t)
  <2>1. pc[t] = "none" /\ entered[t] = 0
    BY DEF Init
  <2>2. \A g \in Gates, o \in TasksOf(t) : ~IsQueued(gate[g], o)
    <3> TAKE g \in Gates, o \in TasksOf(t)
    <3>1. gate[g] = Open(g)
      BY <1>1
    <3>2. gate[g].queue = <<>>
      BY <3>1 DEF Open
    <3> QED
      BY <3>2 DEF IsQueued
  <2> QED
    BY <2>1, <2>2 DEF TurnOK, PlacedOK, QueuedBy, HeldBy, Outside, Active
<1> QED
  BY <1>2, <1>3, <1>4 DEF GInv, GatesGood

(* The steps that leave the gates alone. *)
Quiet(t) ==
  \/ Begin(t) \/ \E s \in Sessions : Roll(t, s)
  \/ Rolled(t) \/ Answer(t) \/ CallTools(t) \/ Dispatch(t) \/ ToolLimit(t)
  \/ ToolsDone(t) \/ ChildDone(t) \/ SyncTimeout(t)

LEMMA QuietKeepsGInv ==
  ASSUME GInv, NEW t \in Turns, Quiet(t)
  PROVE  GInv'
<1>0. pc \in [Turns -> Places]
  BY DEF GInv, Typed
<1>1. UNCHANGED <<gate, entered, home>>
  BY DEF Quiet, Begin, Roll, Rolled, Answer, CallTools, Dispatch, ToolLimit,
         ToolsDone, ChildDone, SyncTimeout, Results, Goes
<1>2. /\ pc' \in [Turns -> Places]
      /\ \A u \in Turns : QuietMove(u)
  <2>1. CASE Begin(t)
    BY <2>1, <1>0 DEF Begin, QuietMove, Active, Places
  <2>2. CASE Dispatch(t)
    <3>1. /\ Child[t] \in Turns /\ pc[Child[t]] = "none" /\ pc[t] = "turn"
          /\ pc' = [pc EXCEPT ![t] = "waiting", ![Child[t]] = "queued"]
      BY <2>2, GatesAssumption DEF Dispatch, Calls, Jobs
    <3> QED
      BY <3>1, <1>0 DEF QuietMove, Active, Places
  <2>3. CASE \E s \in Sessions : Roll(t, s)
    BY <2>3, <1>0 DEF Roll, QuietMove, Active, Places
  <2>4. ASSUME pc[t] \in Active, NEW p \in Active \cup {"leaving"}, pc' = [pc EXCEPT ![t] = p]
        PROVE  pc' \in [Turns -> Places] /\ \A u \in Turns : QuietMove(u)
    BY <2>4, <1>0 DEF QuietMove, Active, Places
  <2>5. CASE Rolled(t) \/ Answer(t) \/ CallTools(t) \/ ToolLimit(t) \/ ToolsDone(t) \/ ChildDone(t) \/ SyncTimeout(t)
    <3>1. /\ pc[t] \in Active
          /\ \E p \in Active \cup {"leaving"} : pc' = [pc EXCEPT ![t] = p]
      BY <2>5 DEF Rolled, Answer, CallTools, Calls, ToolLimit, ToolsDone, ChildDone,
                  SyncTimeout, Results, Goes, Active
    <3> QED
      BY <3>1, <2>4
  <2> QED
    BY <2>1, <2>2, <2>3, <2>5 DEF Quiet
<1> QED
  BY <1>1, <1>2, QuietStep

LEMMA NextGInv == GInv /\ [Next]_vars => GInv'
<1> SUFFICES ASSUME GInv, [Next]_vars PROVE GInv'
  OBVIOUS
<1>1. ASSUME NEW t \in Turns, NEW s \in Sessions, Arrive(t, s) PROVE GInv'
  BY <1>1, ComesKeepsGInv DEF Arrive
<1>2. ASSUME NEW c \in Jobs, StartJob(c) PROVE GInv'
  <2>1. ChildSession(c) \in Sessions /\ c \in Turns
    BY GatesAssumption DEF ChildSession, Jobs
  <2> QED
    BY <1>2, <2>1, ComesKeepsGInv DEF StartJob
<1>3. ASSUME NEW t \in Turns, Step(t) PROVE GInv'
  <2>1. EnterNext(t) \/ LeaveNext(t) \/ Quiet(t)
    BY <1>3 DEF Step, Quiet
  <2> QED
    BY <2>1, EnterKeepsGInv, LeaveKeepsGInv, QuietKeepsGInv
<1>4. ASSUME NEW t \in Turns, Interrupt(t) PROVE GInv'
  BY <1>4, InterruptKeepsGInv
<1>5. ASSUME UNCHANGED vars PROVE GInv'
  <2>1. UNCHANGED <<gate, entered, home, pc>>
    BY <1>5 DEF vars
  <2> QED
    BY <2>1, QuietStep DEF QuietMove, GInv, Typed
<1> QED
  BY <1>1, <1>2, <1>3, <1>4, <1>5 DEF Next, Rest

(* The gates, their queues and what each turn is inside of fit together.   *)
THEOREM GatesInvariant == Spec => []GInv
  BY InitGInv, NextGInv, PTL DEF Spec

(* The two gates lose no place and make none up, whatever turns come, wait *)
(* for each other, fail or are cancelled: context.py's semaphore and locks.*)
THEOREM PlacesConserved == Spec => []PlacesAreConserved
<1>1. GInv => PlacesAreConserved
  BY DEF GInv, GatesGood, Good, PlacesAreConserved
<1> QED
  BY <1>1, GatesInvariant, PTL

-----------------------------------------------------------------------------
(* What a turn at work holds. *)
LEMMA ActiveHolds ==
  ASSUME GInv, NEW t \in Turns,
         pc[t] \in Active \/ (pc[t] = "entering" /\ ~IsWaiting(t) /\ entered[t] = Len(Frames(t)))
  PROVE  /\ home[t] \in Sessions
         /\ Task(t, "chat") \in Inside(gate[home[t]])
         /\ Task(t, "chat") \in Inside(gate[AgentOf[home[t]]])
<1> DEFINE n == Len(Frames(t))
           c == Task(t, "chat")
<1>1. TurnOK(t) /\ Typed
  BY DEF GInv
<1>2. home[t] \in Sessions
  BY <1>1 DEF TurnOK, PlacedOK, Outside, Active
<1>3. /\ n \in Nat \ {0, 1} /\ c \in Tasks
      /\ Frames(t)[n - 1] = Frame(AgentOf[home[t]], c, c)
      /\ Frames(t)[n] = Frame(home[t], c, c)
  BY <1>2, FrameFacts DEF Tasks, Task
<1>4. entered[t] = n
  BY <1>1 DEF TurnOK, PlacedOK
<1>5. ~IsWaiting(t)
  <2>1. CASE pc[t] \in Active
    <3> SUFFICES ASSUME IsWaiting(t) PROVE FALSE
      OBVIOUS
    <3>1. LastFrame(t) = Frame(home[t], c, c)
      BY <1>3, <1>4 DEF LastFrame
    <3>2. IsQueued(gate[home[t]], c) /\ home[t] \in Gates /\ c \in TasksOf(t)
      BY <3>1, <1>2 DEF IsWaiting, Waits, IsQueued, Frame, Gates, TasksOf, Task
    <3> QED
      BY <3>2, <2>1, <1>1 DEF TurnOK, QueuedBy, Active
  <2> QED
    BY <2>1
<1>6. \A i \in 1 .. n : HoldsFrame(t, i)
  BY <1>1, <1>4, <1>5 DEF TurnOK, HeldBy
<1>7. HoldsFrame(t, n) /\ HoldsFrame(t, n - 1)
  <2> HIDE DEF n
  <2>1. n \in 1 .. n /\ n - 1 \in 1 .. n
    BY <1>3
  <2> QED
    BY <2>1, <1>6
<1> QED
  BY <1>2, <1>3, <1>7 DEF HoldsFrame, Inside, Frame

(* An agent's turns at work, of whichever worker, are never more than its  *)
(* max_concurrency: each is inside the agent's gate with a task of its own.*)
THEOREM AgentBudget == Spec => []BudgetHolds
<1>1. ASSUME GInv PROVE BudgetHolds
  <2> SUFFICES ASSUME NEW a \in Agents
               PROVE  Cardinality({t \in Turns : pc[t] \in Active /\ AgentOf[home[t]] = a}) <= Capacity[a]
    BY DEF BudgetHolds
  <2> DEFINE W == {t \in Turns : pc[t] \in Active /\ AgentOf[home[t]] = a}
             I == Inside(gate[a])
             f == [t \in W |-> Task(t, "chat")]
  <2>1. /\ IsFiniteSet(I) /\ gate[a].free \in Nat /\ gate[a].free + Cardinality(I) = Capacity[a]
    BY <1>1 DEF GInv, GatesGood, Good, GateRecord, Conserved, Gates, Size
  <2>2. \A t \in W : Task(t, "chat") \in I
    BY <1>1, ActiveHolds
  <2>3. f \in Injection(W, I)
    <3>1. f \in [W -> I]
      BY <2>2
    <3>2. \A t, u \in W : f[t] = f[u] => t = u
      BY DEF Task
    <3> QED
      BY <3>1, <3>2 DEF Injection, IsInjective
  <2>4. IsFiniteSet(W) /\ Cardinality(W) <= Cardinality(I)
    <3> HIDE DEF W, I, f
    <3> QED
      BY <2>1, <2>3, FS_Injection
  <2>5. Cardinality(W) \in Nat /\ Cardinality(I) \in Nat /\ Capacity[a] \in Nat
    BY <2>1, <2>4, FS_CardinalityType, GatesAssumption
  <2> QED
    BY <2>1, <2>4, <2>5
<1> QED
  BY <1>1, GatesInvariant, PTL

(* The lock of a session keeps two turns for it apart. *)
LEMMA LockExcludes ==
  ASSUME GInv, NEW t \in Turns, NEW u \in Turns, t # u,
         Task(t, "chat") \in Inside(gate[home[t]]), Task(u, "chat") \in Inside(gate[home[u]]),
         home[t] \in Sessions, home[u] = home[t]
  PROVE  FALSE
<1> DEFINE I == Inside(gate[home[t]])
           x == Task(t, "chat")
           y == Task(u, "chat")
<1>1. home[t] \in Gates /\ Size(home[t]) = 1
  BY GatesAssumption DEF Gates, Size
<1>2. IsFiniteSet(I) /\ gate[home[t]].free \in Nat /\ gate[home[t]].free + Cardinality(I) = 1
  BY <1>1 DEF GInv, GatesGood, Good, GateRecord, Conserved
<1>3. x # y /\ x \in I /\ y \in I
  BY DEF Task
<1> HIDE DEF x, y, I
<1>4. IsFiniteSet({x}) /\ Cardinality({x}) = 1
  BY FS_Singleton
<1>5. IsFiniteSet({x} \cup {y}) /\ Cardinality({x} \cup {y}) = 2
  <2>1. y \notin {x}
    BY <1>3
  <2>2. IsFiniteSet({x} \cup {y}) /\ Cardinality({x} \cup {y}) = Cardinality({x}) + 1
    BY <1>4, <2>1, FS_AddElement
  <2> QED
    BY <1>4, <2>2
<1>6. Cardinality({x} \cup {y}) <= Cardinality(I) /\ Cardinality(I) \in Nat
  BY <1>2, <1>3, FS_Subset, FS_CardinalityType
<1> QED
  BY <1>2, <1>5, <1>6

LEMMA InitSessions == Init => SessionsOK /\ TurnsMixOnRollOnly
  BY DEF Init, SessionsOK, TurnsMixOnRollOnly

LEMMA NextSessions == SessionsOK /\ GInv /\ [Next]_vars => SessionsOK'
<1> SUFFICES ASSUME SessionsOK, GInv, [Next]_vars PROVE SessionsOK'
  OBVIOUS
<1>0. /\ home \in [Turns -> Sessions \cup {NoSession}] /\ pc \in [Turns -> Places]
      /\ session \in [Turns -> Sessions \cup {NoSession}]
  BY DEF GInv, Typed, SessionsOK
<1>1. ASSUME NEW t \in Turns, NEW s \in Sessions, Arrive(t, s) PROVE SessionsOK'
  BY <1>0, <1>1 DEF Arrive, transcripts, SessionsOK
<1>2. ASSUME NEW c \in Jobs, StartJob(c) PROVE SessionsOK'
  <2>1. ChildSession(c) \in Sessions /\ c \in Turns
    BY GatesAssumption DEF ChildSession, Jobs
  <2> QED
    BY <1>0, <1>2, <2>1 DEF StartJob, SessionsOK
<1>3. ASSUME NEW t \in Turns, NEW s \in Sessions, Roll(t, s) PROVE SessionsOK'
  BY <1>0, <1>3 DEF Roll, SessionsOK
<1>4. ASSUME UNCHANGED <<home, session, rolled>>,
             \A t \in Turns : pc'[t] = "rolling" => pc[t] = "rolling"
      PROVE  SessionsOK'
  BY <1>0, <1>4 DEF SessionsOK
<1>5. ASSUME NEW t \in Turns,
             \/ EnterNext(t) \/ Begin(t) \/ Rolled(t) \/ Answer(t) \/ CallTools(t) \/ Dispatch(t)
             \/ ToolLimit(t) \/ ToolsDone(t) \/ ChildDone(t) \/ SyncTimeout(t)
             \/ LeaveNext(t) \/ Interrupt(t)
      PROVE  SessionsOK'
  <2>1. UNCHANGED <<home, session, rolled>>
    BY <1>5 DEF EnterNext, Begin, Rolled, Answer, CallTools, Dispatch, ToolLimit, ToolsDone,
                ChildDone, SyncTimeout, LeaveNext, Interrupt, Results, Goes, transcripts
  <2>2. CASE Dispatch(t)
    BY <1>0, <1>4, <2>1, <2>2, GatesAssumption DEF Dispatch
  <2>3. CASE EnterNext(t)
    BY <1>4, <2>1, <2>3 DEF EnterNext
  <2>4. ASSUME NEW p, p # "rolling", pc' = [pc EXCEPT ![t] = p] PROVE SessionsOK'
    BY <1>0, <1>4, <2>1, <2>4
  <2>5. CASE \/ Begin(t) \/ Rolled(t) \/ Answer(t) \/ CallTools(t)
             \/ ToolLimit(t) \/ ToolsDone(t) \/ ChildDone(t) \/ SyncTimeout(t)
    <3>1. \E p \in {"turn", "leaving", "tools"} : pc' = [pc EXCEPT ![t] = p]
      BY <2>5 DEF Begin, Rolled, Answer, CallTools, ToolLimit, ToolsDone,
                  ChildDone, SyncTimeout, Results, Goes
    <3> QED
      BY <3>1, <2>4
  <2>6. CASE LeaveNext(t) \/ Interrupt(t)
    <3>1. \E p \in {"done", "leaving"} : pc' = [pc EXCEPT ![t] = p]
      BY <2>6 DEF LeaveNext, Interrupt
    <3> QED
      BY <3>1, <2>4
  <2> QED
    BY <1>5, <2>2, <2>3, <2>5, <2>6
<1>6. CASE UNCHANGED vars
  BY <1>4, <1>6 DEF vars, transcripts
<1> QED
  BY <1>1, <1>2, <1>3, <1>5, <1>6 DEF Next, Step, Rest

(* A session gets a second turn at work only by a compaction. *)
LEMMA NextMixed ==
  TurnsMixOnRollOnly /\ SessionsOK /\ GInv /\ [Next]_vars => TurnsMixOnRollOnly'
<1> SUFFICES ASSUME TurnsMixOnRollOnly, SessionsOK, GInv, [Next]_vars PROVE TurnsMixOnRollOnly'
  OBVIOUS
<1>1. ASSUME NEW t \in Turns, Begin(t) PROVE TurnsMixOnRollOnly'
  <2>1. mixed' = MixedBy(t, home[t]) /\ rolled' = rolled
    BY <1>1 DEF Begin
  <2>2. ASSUME NEW u \in Turns \ {t}, pc[u] \in Active, session[u] = home[t]
        PROVE  home[t] \in rolled
    <3> SUFFICES ASSUME session[u] = home[u] PROVE FALSE
      BY <2>2 DEF SessionsOK
    <3>1. Task(t, "chat") \in Inside(gate[home[t]]) /\ home[t] \in Sessions
      BY <1>1, ActiveHolds DEF Begin
    <3>2. Task(u, "chat") \in Inside(gate[home[u]])
      BY <2>2, ActiveHolds
    <3> QED
      BY <2>2, <3>1, <3>2, LockExcludes
  <2> QED
    BY <2>1, <2>2 DEF MixedBy, Shared, TurnsMixOnRollOnly
<1>2. ASSUME NEW t \in Turns, Rolled(t) PROVE TurnsMixOnRollOnly'
  BY <1>2 DEF Rolled, MixedBy, SessionsOK, TurnsMixOnRollOnly
<1>3. ASSUME mixed' = mixed, rolled \subseteq rolled' PROVE TurnsMixOnRollOnly'
  BY <1>3 DEF TurnsMixOnRollOnly
<1>4. ASSUME NEW t \in Turns,
             \/ \E s \in Sessions : Arrive(t, s) \/ Roll(t, s)
             \/ t \in Jobs /\ StartJob(t)
             \/ EnterNext(t) \/ Answer(t) \/ CallTools(t) \/ Dispatch(t)
             \/ ToolLimit(t) \/ ToolsDone(t) \/ ChildDone(t) \/ SyncTimeout(t)
             \/ LeaveNext(t) \/ Interrupt(t)
      PROVE  TurnsMixOnRollOnly'
  <2>1. mixed' = mixed /\ rolled \subseteq rolled'
    BY <1>4 DEF Arrive, Roll, StartJob, EnterNext, Answer, CallTools, Dispatch, ToolLimit,
                ToolsDone, ChildDone, SyncTimeout, LeaveNext, Interrupt, Results, Goes, transcripts
  <2> QED
    BY <1>3, <2>1
<1>5. CASE UNCHANGED vars
  BY <1>3, <1>5 DEF vars, transcripts
<1> QED
  BY <1>1, <1>2, <1>4, <1>5 DEF Next, Step, Rest, Jobs

(* The per-session lock: all that happens in a session happens in one turn *)
(* at a time, except in sessions a compaction made.                        *)
THEOREM LocksSerialise == Spec => []TurnsMixOnRollOnly
<1>1. Init => IInv
  BY InitGInv, InitSessions DEF IInv
<1>2. IInv /\ [Next]_vars => IInv'
  BY NextGInv, NextSessions, NextMixed DEF IInv
<1>3. IInv => TurnsMixOnRollOnly
  BY DEF IInv
<1> QED
  BY <1>1, <1>2, <1>3, PTL DEF Spec

-----------------------------------------------------------------------------
(* What an acquire and a release do to the depths, and to the queue.       *)
LEMMA AcquireDepth ==
  ASSUME NEW r \in GateRecord, NEW o \in Tasks, ~IsQueued(r, o)
  PROVE  /\ \A p \in Tasks \ {o} : Acquire(r, o).depth[p] = r.depth[p]
         /\ \/ IsQueued(Acquire(r, o), o) /\ Acquire(r, o).depth[o] = r.depth[o]
            \/ ~IsQueued(Acquire(r, o), o) /\ Acquire(r, o).depth[o] = r.depth[o] + 1
<1> DEFINE a == Acquire(r, o)
<1>0. r.depth \in [Tasks -> Nat] /\ r.free \in Nat /\ r.queue \in Seq(Tasks)
  BY DEF GateRecord
<1>1. CASE r.depth[o] > 0
  <2>1. a = [free |-> r.free, depth |-> [r.depth EXCEPT ![o] = @ + 1], queue |-> r.queue]
    BY <1>1 DEF Acquire, GateRecord
  <2>2. a.queue = r.queue /\ a.depth = [r.depth EXCEPT ![o] = @ + 1]
    BY <2>1
  <2> QED
    BY <2>2, <1>0 DEF IsQueued
<1>2. CASE r.depth[o] = 0 /\ r.free > 0 /\ r.queue = <<>>
  <2>1. a = [r EXCEPT !.free = @ - 1, !.depth[o] = 1]
    BY <1>2 DEF Acquire
  <2>2. a.queue = r.queue /\ a.depth = [r.depth EXCEPT ![o] = 1]
    BY <2>1, <1>0 DEF GateRecord
  <2> QED
    BY <2>2, <1>0, <1>2 DEF IsQueued
<1>3. CASE r.depth[o] = 0 /\ ~(r.free > 0 /\ r.queue = <<>>)
  <2>1. a = [r EXCEPT !.queue = Append(@, o)]
    BY <1>3 DEF Acquire
  <2>2. a.depth = r.depth /\ a.queue = Append(r.queue, o)
    BY <2>1 DEF GateRecord
  <2>3. Len(a.queue) = Len(r.queue) + 1 /\ a.queue[Len(r.queue) + 1] = o /\ Len(r.queue) \in Nat
    BY <2>2, <1>0
  <2>4. IsQueued(a, o)
    BY <2>3 DEF IsQueued
  <2> QED
    BY <2>2, <2>4
<1> QED
  BY <1>0, <1>1, <1>2, <1>3

LEMMA ReleaseDepth ==
  ASSUME NEW r, NEW n \in Nat, NEW o \in Tasks, Good(r, n), r.depth[o] > 0
  PROVE  /\ Release(r, o).depth[o] = r.depth[o] - 1
         /\ \A p \in Tasks \ {o} :
              \/ /\ Release(r, o).depth[p] = r.depth[p]
                 /\ IsQueued(Release(r, o), p) <=> IsQueued(r, p)
              \/ /\ Release(r, o).depth[p] = r.depth[p] + 1
                 /\ IsQueued(r, p) /\ ~IsQueued(Release(r, o), p)
<1> DEFINE a == Release(r, o)
<1>0. /\ r \in GateRecord
      /\ r.depth \in [Tasks -> Nat] /\ r.free \in Nat /\ r.queue \in Seq(Tasks)
      /\ Conserved(r, n)
  BY DEF Good, GateRecord
<1>1. CASE r.depth[o] > 1
  <2>1. a = [r EXCEPT !.depth[o] = @ - 1]
    BY <1>1, <1>0 DEF Release
  <2>2. a.queue = r.queue /\ a.depth = [r.depth EXCEPT ![o] = @ - 1]
    BY <2>1, <1>0 DEF GateRecord
  <2> QED
    BY <2>2, <1>0 DEF IsQueued
<1>2. CASE r.depth[o] = 1 /\ r.queue = <<>>
  <2>1. a = [r EXCEPT !.depth[o] = 0, !.free = @ + 1]
    BY <1>2 DEF Release
  <2>2. a.queue = r.queue /\ a.depth = [r.depth EXCEPT ![o] = 0]
    BY <2>1, <1>0 DEF GateRecord
  <2> QED
    BY <2>2, <1>0, <1>2 DEF IsQueued
<1>3. CASE r.depth[o] = 1 /\ r.queue # <<>>
  <2> DEFINE h == Head(r.queue)
  <2>1. a = [free |-> r.free, depth |-> [r.depth EXCEPT ![o] = 0, ![h] = 1], queue |-> Tail(r.queue)]
    BY <1>3 DEF Release
  <2>2. /\ h \in Tasks /\ h = r.queue[1] /\ Len(r.queue) \in Nat \ {0}
        /\ Len(Tail(r.queue)) = Len(r.queue) - 1
        /\ \A i \in 1 .. Len(r.queue) - 1 : Tail(r.queue)[i] = r.queue[i + 1]
    BY <1>0, <1>3
  <2>3. /\ \A i \in 1 .. Len(r.queue) : r.queue[i] \notin Inside(r)
        /\ \A i, j \in 1 .. Len(r.queue) : r.queue[i] = r.queue[j] => i = j
    BY <1>0 DEF Conserved
  <2>4. h # o /\ r.depth[h] = 0
    BY <2>2, <2>3, <1>0, <1>3 DEF Inside
  <2>5. a.depth = [r.depth EXCEPT ![o] = 0, ![h] = 1] /\ a.queue = Tail(r.queue)
    BY <2>1
  <2> HIDE DEF h, a
  <2>6. \A p \in Tasks : a.depth[p] = IF p = h THEN 1 ELSE IF p = o THEN 0 ELSE r.depth[p]
    BY <2>5, <1>0
  <2>7. \A p \in Tasks : p # h => (IsQueued(a, p) <=> IsQueued(r, p))
    <3> TAKE p \in Tasks
    <3> HAVE p # h
    <3>1. ASSUME NEW i \in 1 .. Len(r.queue), r.queue[i] = p
          PROVE  i - 1 \in 1 .. Len(a.queue) /\ a.queue[i - 1] = p
      BY <3>1, <2>2, <2>5
    <3>2. ASSUME NEW i \in 1 .. Len(a.queue), a.queue[i] = p
          PROVE  i + 1 \in 1 .. Len(r.queue) /\ r.queue[i + 1] = p
      BY <3>2, <2>2, <2>5
    <3> QED
      BY <3>1, <3>2 DEF IsQueued
  <2>8. IsQueued(r, h)
    BY <2>2 DEF IsQueued
  <2>9. ~IsQueued(a, h)
    <3> SUFFICES ASSUME NEW i \in 1 .. Len(a.queue), a.queue[i] = h PROVE FALSE
      BY DEF IsQueued
    <3>1. i + 1 \in 1 .. Len(r.queue) /\ 1 \in 1 .. Len(r.queue) /\ r.queue[i + 1] = r.queue[1]
      BY <2>2, <2>5
    <3> QED
      BY <3>1, <2>3
  <2> QED
    BY <2>2, <2>4, <2>6, <2>7, <2>8, <2>9, <1>3 DEF a
<1> QED
  BY <1>0, <1>1, <1>2, <1>3

-----------------------------------------------------------------------------
(* Since Python 3.12 each turn is one task, and its depth at a gate is the *)
(* number of frames it has entered there.                                  *)
MainOf(t) == <<t, "main">>

Reached(t) == IF IsWaiting(t) THEN entered[t] - 1 ELSE entered[t]

(* How many of the first k frames are at gate g; there are at most four.   *)
One(frames, i, k, g) == IF i <= k /\ i <= Len(frames) /\ frames[i].gate = g THEN 1 ELSE 0
FramesAt(frames, k, g) ==
  One(frames, 1, k, g) + One(frames, 2, k, g) + One(frames, 3, k, g) + One(frames, 4, k, g)

CountedAt(t, g) ==
  /\ gate[g].depth[MainOf(t)] = FramesAt(Frames(t), Reached(t), g)
  /\ gate[g].depth[<<t, "acquire">>] = 0
  /\ gate[g].depth[<<t, "chat">>] = 0

Counted == \A t \in Turns : \A g \in Gates : CountedAt(t, g)

LEMMA FramesOfMain ==
  ASSUME ~WaitForTask, NEW t \in Turns, home[t] \in Sessions
  PROVE  /\ Len(Frames(t)) \in {3, 4}
         /\ \A i \in 1 .. Len(Frames(t)) :
              /\ Frames(t)[i].gate \in Gates
              /\ Frames(t)[i].enters = MainOf(t) /\ Frames(t)[i].leaves = MainOf(t)
<1> DEFINE a == AgentOf[home[t]]
           m == MainOf(t)
<1>1. a \in Gates /\ home[t] \in Gates
  BY GatesAssumption DEF Gates
<1>2. \A part : Task(t, part) = m
  BY DEF Task, MainOf
<1> DEFINE Of == [gate : Gates, enters : {m}, leaves : {m}]
           inner == <<Frame(a, m, m), Frame(home[t], m, m)>>
<1>3. Frame(a, m, m) \in Of /\ Frame(home[t], m, m) \in Of
  BY <1>1 DEF Frame
<1>4. PICK outer \in {<<Frame(a, m, m)>>, inner} : Frames(t) = outer \o inner
  BY <1>2 DEF Frames
<1> HIDE DEF Of
<1>5. inner \in Seq(Of) /\ Len(inner) = 2
  BY <1>3
<1>6. outer \in Seq(Of) /\ Len(outer) \in {1, 2}
  <2>1. <<Frame(a, m, m)>> \in Seq(Of) /\ Len(<<Frame(a, m, m)>>) = 1
    BY <1>3
  <2> QED
    BY <2>1, <1>4, <1>5
<1> HIDE DEF inner
<1>7. outer \o inner \in Seq(Of) /\ Len(outer \o inner) = Len(outer) + Len(inner)
  BY <1>5, <1>6, ConcatProperties
<1>8. Len(Frames(t)) \in {3, 4} /\ Frames(t) \in Seq(Of)
  <2> DEFINE l == Len(outer)
  <2>1. Len(Frames(t)) = l + 2 /\ l \in {1, 2}
    BY <1>4, <1>5, <1>6, <1>7
  <2> HIDE DEF l
  <2>2. l + 2 \in {3, 4}
    BY <2>1
  <2> QED
    BY <2>1, <2>2, <1>4, <1>7
<1>9. \A i \in 1 .. Len(Frames(t)) : Frames(t)[i] \in Of
  BY <1>8
<1> QED
  BY <1>8, <1>9 DEF Of

LEMMA FramesStep ==
  ASSUME ~WaitForTask, NEW t \in Turns, home[t] \in Sessions,
         NEW k \in Nat, k + 1 <= Len(Frames(t)), NEW g
  PROVE  /\ FramesAt(Frames(t), k, g) \in Nat
         /\ FramesAt(Frames(t), k + 1, g) = FramesAt(Frames(t), k, g) + (IF Frames(t)[k + 1].gate = g THEN 1 ELSE 0)
<1>1. Len(Frames(t)) \in {3, 4}
  BY FramesOfMain
<1>2. k \in {0, 1, 2, 3}
  <2>1. ASSUME NEW n \in {3, 4}, k + 1 <= n PROVE k \in {0, 1, 2, 3}
    BY <2>1
  <2> QED
    BY <1>1, <2>1
<1> DEFINE F(i) == Frames(t)[i].gate = g
           n == Len(Frames(t))
<1>3. \A i, j : One(Frames(t), i, j, g) = IF i <= j /\ i <= n /\ F(i) THEN 1 ELSE 0
  BY DEF One
<1> HIDE DEF F, n
<1>4. n \in {3, 4} /\ k + 1 <= n
  BY <1>1 DEF n
<1>5. /\ FramesAt(Frames(t), k, g) \in Nat
      /\ FramesAt(Frames(t), k + 1, g) = FramesAt(Frames(t), k, g) + (IF F(k + 1) THEN 1 ELSE 0)
  BY <1>2, <1>3, <1>4 DEF FramesAt
<1> QED
  BY <1>5 DEF F

LEMMA NoFrames == \A f, g : FramesAt(f, 0, g) = 0
  BY DEF FramesAt, One

(* What another turn does at gate g is right for turn u too: if it lets u  *)
(* in, u has entered the frame it waited at.                               *)
LEMMA OthersCounted ==
  ASSUME GInv, ~WaitForTask, NEW u \in Turns, \A h \in Gates : CountedAt(u, h),
         NEW g \in Gates, NEW r, gate' = [gate EXCEPT ![g] = r],
         \A p \in TasksOf(u) :
           \/ r.depth[p] = gate[g].depth[p] /\ (IsQueued(r, p) <=> IsQueued(gate[g], p))
           \/ r.depth[p] = gate[g].depth[p] + 1 /\ IsQueued(gate[g], p) /\ ~IsQueued(r, p),
         entered'[u] = entered[u], home'[u] = home[u]
  PROVE  \A h \in Gates : CountedAt(u, h)'
<1> DEFINE m == MainOf(u)
<1>0. TurnOK(u) /\ Typed /\ entered[u] \in Nat
  BY DEF GInv, Typed
<1>1. Frames(u)' = Frames(u)
  BY DEF Frames
<1>2. LastFrame(u)' = LastFrame(u)
  BY <1>1 DEF LastFrame
<1>3. \A h \in Gates : gate'[h] = IF h = g THEN r ELSE gate[h]
  BY <1>0 DEF Typed
<1>4. entered[u] > 0 => /\ home[u] \in Sessions /\ entered[u] <= Len(Frames(u))
                        /\ LastFrame(u).gate \in Gates /\ LastFrame(u).enters = m
  <2> SUFFICES ASSUME entered[u] > 0
               PROVE  /\ home[u] \in Sessions /\ entered[u] <= Len(Frames(u))
                      /\ LastFrame(u).gate \in Gates /\ LastFrame(u).enters = m
    OBVIOUS
  <2>1. home[u] \in Sessions /\ entered[u] <= Len(Frames(u))
    BY <1>0 DEF TurnOK, PlacedOK
  <2>2. Len(Frames(u)) \in {3, 4}
    BY <2>1, FramesOfMain
  <2>3. entered[u] \in 1 .. Len(Frames(u))
    BY <2>1, <2>2, <1>0
  <2> QED
    BY <2>1, <2>3, FramesOfMain DEF LastFrame
<1>5. m \in TasksOf(u) /\ <<u, "acquire">> \in TasksOf(u) /\ <<u, "chat">> \in TasksOf(u)
      /\ m # <<u, "acquire">> /\ m # <<u, "chat">>
  BY DEF TasksOf, MainOf
<1>6. \A h \in Gates : \A p \in TasksOf(u) : IsQueued(gate[h], p) =>
        entered[u] > 0 /\ h = LastFrame(u).gate /\ p = m /\ IsWaiting(u)
  <2> SUFFICES ASSUME NEW h \in Gates, NEW p \in TasksOf(u), IsQueued(gate[h], p)
               PROVE  entered[u] > 0 /\ h = LastFrame(u).gate /\ p = m /\ IsWaiting(u)
    OBVIOUS
  <2>1. entered[u] > 0 /\ h = LastFrame(u).gate /\ p = LastFrame(u).enters
    BY <1>0 DEF TurnOK, QueuedBy
  <2> QED
    BY <2>1, <1>4 DEF IsWaiting, Waits, IsQueued
<1>7. \A h \in Gates : /\ gate'[h].depth[<<u, "acquire">>] = gate[h].depth[<<u, "acquire">>]
                       /\ gate'[h].depth[<<u, "chat">>] = gate[h].depth[<<u, "chat">>]
  BY <1>3, <1>5, <1>6
<1>8. CASE IsQueued(gate[g], m) /\ ~IsQueued(r, m)
  <2>1. entered[u] > 0 /\ g = LastFrame(u).gate /\ IsWaiting(u) /\ r.depth[m] = gate[g].depth[m] + 1
    BY <1>5, <1>6, <1>8
  <2>2. ~IsWaiting(u)'
    BY <2>1, <1>2, <1>3, <1>4, <1>8 DEF IsWaiting, Waits, IsQueued
  <2>3. PICK k \in Nat : entered[u] = k + 1
    BY <2>1, <1>0
  <2>4. Reached(u) = k /\ Reached(u)' = k + 1
    BY <2>1, <2>2, <2>3 DEF Reached
  <2>5. \A h \in Gates : FramesAt(Frames(u), k + 1, h) =
                           FramesAt(Frames(u), k, h) + (IF g = h THEN 1 ELSE 0)
                         /\ FramesAt(Frames(u), k, h) \in Nat
    BY <2>1, <2>3, <1>4, FramesStep DEF LastFrame
  <2>6. ASSUME NEW h \in Gates PROVE gate'[h].depth[m] = FramesAt(Frames(u)', Reached(u)', h)
    <3>1. gate[h].depth[m] = FramesAt(Frames(u), k, h)
      BY <2>4 DEF CountedAt
    <3> QED
      BY <3>1, <2>1, <2>4, <2>5, <1>1, <1>3
  <2> QED
    BY <2>6, <1>7 DEF CountedAt, MainOf
<1>9. CASE ~(IsQueued(gate[g], m) /\ ~IsQueued(r, m))
  <2>1. r.depth[m] = gate[g].depth[m] /\ (IsQueued(r, m) <=> IsQueued(gate[g], m))
    BY <1>5, <1>9
  <2>2. IsWaiting(u)' <=> IsWaiting(u)
    <3>1. \A h \in Gates : IsQueued(gate'[h], m) <=> IsQueued(gate[h], m)
      BY <2>1, <1>3
    <3> QED
      BY <3>1, <1>2, <1>4 DEF IsWaiting, Waits, IsQueued
  <2>3. Reached(u)' = Reached(u)
    BY <2>2 DEF Reached
  <2> QED
    BY <2>1, <2>3, <1>1, <1>3, <1>7 DEF CountedAt, MainOf
<1> QED
  BY <1>8, <1>9

(* The gates are left alone: so are the depths. *)
LEMMA StillCounted ==
  ASSUME Counted, UNCHANGED <<gate, entered, home>>
  PROVE  Counted'
<1> SUFFICES ASSUME NEW u \in Turns, NEW g \in Gates PROVE CountedAt(u, g)'
  BY DEF Counted
<1>1. Frames(u)' = Frames(u)
  BY DEF Frames
<1>2. LastFrame(u)' = LastFrame(u)
  BY <1>1 DEF LastFrame
<1>3. Reached(u)' = Reached(u)
  BY <1>2 DEF Reached, IsWaiting, Waits
<1> QED
  BY <1>1, <1>3 DEF Counted, CountedAt, MainOf

LEMMA ComesKeepsCounted ==
  ASSUME GInv, Counted, NEW t \in Turns, pc[t] \in {"none", "queued"}, NEW s,
         home' = [home EXCEPT ![t] = s], UNCHANGED <<gate, entered>>
  PROVE  Counted'
<1> SUFFICES ASSUME NEW u \in Turns, NEW g \in Gates PROVE CountedAt(u, g)'
  BY DEF Counted
<1>1. TurnOK(u) /\ Typed /\ CountedAt(u, g)
  BY DEF GInv, Counted
<1>2. CASE u = t
  <2>1. entered[u] = 0
    BY <1>1, <1>2 DEF TurnOK, PlacedOK, Outside
  <2>2. Reached(u) = 0 /\ Reached(u)' = 0
    BY <2>1 DEF Reached, IsWaiting
  <2> QED
    BY <2>2, <1>1, NoFrames DEF CountedAt, MainOf
<1>3. CASE u # t
  <2>1. home'[u] = home[u]
    BY <1>1, <1>3 DEF Typed
  <2>2. Frames(u)' = Frames(u)
    BY <2>1 DEF Frames
  <2>3. LastFrame(u)' = LastFrame(u)
    BY <2>2 DEF LastFrame
  <2>4. Reached(u)' = Reached(u)
    BY <2>3 DEF Reached, IsWaiting, Waits
  <2> QED
    BY <2>2, <2>4, <1>1 DEF CountedAt, MainOf
<1> QED
  BY <1>2, <1>3

LEMMA EnterKeepsCounted ==
  ASSUME GInv, Counted, ~WaitForTask, NEW t \in Turns, EnterNext(t)
  PROVE  Counted'
<1> DEFINE g == Frames(t)[entered[t] + 1].gate
           m == MainOf(t)
           r == Acquire(gate[g], m)
<1>0. Typed /\ GatesGood /\ TurnOK(t)
  BY DEF GInv
<1>1. PICK k \in Nat : entered[t] = k
  BY <1>0 DEF Typed
<1>2. pc[t] = "entering" /\ ~IsWaiting(t) /\ home[t] \in Sessions /\ UNCHANGED <<pc, home>>
  BY <1>0 DEF EnterNext, TurnOK, PlacedOK, Outside
<1>3. k + 1 \in 1 .. Len(Frames(t)) /\ k + 1 <= Len(Frames(t))
  <2>1. k < Len(Frames(t)) /\ Len(Frames(t)) \in {3, 4}
    BY <1>1, <1>2, FramesOfMain DEF EnterNext
  <2> QED
    BY <2>1, <1>1
<1>4. g \in Gates /\ Frames(t)[k + 1].enters = m /\ m \in TasksOf(t) /\ m \in Tasks
  BY <1>1, <1>2, <1>3, FramesOfMain DEF MainOf, TasksOf, Tasks
<1>5. gate' = [gate EXCEPT ![g] = r] /\ entered' = [entered EXCEPT ![t] = k + 1]
  BY <1>1, <1>4 DEF EnterNext
<1>6. ~IsQueued(gate[g], m) /\ gate[g] \in GateRecord /\ Good(gate[g], Size(g)) /\ Size(g) \in Nat
  BY <1>0, <1>2, <1>4, GatesAssumption
     DEF TurnOK, QueuedBy, IsWaiting, Waits, IsQueued, Typed, GatesGood, Size
<1>7. /\ \A p \in Tasks \ {m} : r.depth[p] = gate[g].depth[p] /\ (IsQueued(r, p) <=> IsQueued(gate[g], p))
      /\ \/ IsQueued(r, m) /\ r.depth[m] = gate[g].depth[m]
         \/ ~IsQueued(r, m) /\ r.depth[m] = gate[g].depth[m] + 1
  <2> HIDE DEF g, m
  <2> QED
    BY <1>4, <1>6, AcquireDepth, AcquireKeepsGood
<1>8. \A h \in Gates : gate'[h] = IF h = g THEN r ELSE gate[h]
  BY <1>0, <1>5 DEF Typed
<1>9. Frames(t)' = Frames(t) /\ entered'[t] = k + 1
  BY <1>0, <1>2, <1>5 DEF Frames, Typed
<1>10. LastFrame(t)' = Frames(t)[k + 1]
  BY <1>9 DEF LastFrame
<1>11. IsWaiting(t)' <=> IsQueued(r, m)
  <2>1. gate'[g] = r
    BY <1>4, <1>8
  <2>2. LastFrame(t)'.gate = g /\ LastFrame(t)'.enters = m
    BY <1>1, <1>4, <1>10
  <2> QED
    BY <2>1, <2>2, <1>1, <1>9 DEF IsWaiting, Waits, IsQueued
<1>12. Reached(t) = k /\ Reached(t)' = IF IsQueued(r, m) THEN k ELSE k + 1
  BY <1>1, <1>2, <1>9, <1>11 DEF Reached
<1> HIDE DEF r
<1>13. ASSUME NEW h \in Gates PROVE CountedAt(t, h)'
  <2>1. /\ gate[h].depth[m] = FramesAt(Frames(t), k, h) /\ FramesAt(Frames(t), k, h) \in Nat
        /\ FramesAt(Frames(t), k + 1, h) = FramesAt(Frames(t), k, h) + (IF g = h THEN 1 ELSE 0)
        /\ gate[h].depth[<<t, "acquire">>] = 0 /\ gate[h].depth[<<t, "chat">>] = 0
    BY <1>1, <1>2, <1>3, <1>12, FramesStep DEF Counted, CountedAt
  <2>2. gate'[h].depth[m] = FramesAt(Frames(t)', Reached(t)', h)
    BY <2>1, <1>7, <1>8, <1>9, <1>12
  <2>3. gate'[h].depth[<<t, "acquire">>] = 0 /\ gate'[h].depth[<<t, "chat">>] = 0
    BY <2>1, <1>7, <1>8 DEF MainOf, Tasks
  <2> QED
    BY <2>2, <2>3 DEF CountedAt, MainOf
<1>14. ASSUME NEW u \in Turns, u # t PROVE \A h \in Gates : CountedAt(u, h)'
  <2>1. TasksOf(u) \subseteq Tasks \ {m}
    BY <1>4, <1>14, TasksApart
  <2>2. entered'[u] = entered[u] /\ home'[u] = home[u]
    BY <1>0, <1>2, <1>5, <1>14 DEF Typed
  <2>3. \A h \in Gates : CountedAt(u, h)
    BY DEF Counted
  <2>4. \A p \in TasksOf(u) :
           \/ r.depth[p] = gate[g].depth[p] /\ (IsQueued(r, p) <=> IsQueued(gate[g], p))
           \/ r.depth[p] = gate[g].depth[p] + 1 /\ IsQueued(gate[g], p) /\ ~IsQueued(r, p)
    BY <2>1, <1>7
  <2> HIDE DEF g
  <2> QED
    BY <2>2, <2>3, <2>4, <1>4, <1>5, OthersCounted
<1> QED
  BY <1>13, <1>14 DEF Counted

LEMMA LeaveKeepsCounted ==
  ASSUME GInv, Counted, ~WaitForTask, NEW t \in Turns, LeaveNext(t)
  PROVE  Counted'
<1> DEFINE g == LastFrame(t).gate
           m == MainOf(t)
           r == Release(gate[g], m)
<1>0. Typed /\ GatesGood /\ TurnOK(t)
  BY DEF GInv
<1>1. PICK k \in Nat : entered[t] = k + 1
  <2>1. entered[t] \in Nat /\ entered[t] > 0
    BY <1>0 DEF Typed, TurnOK, PlacedOK, LeaveNext
  <2>2. entered[t] - 1 \in Nat /\ entered[t] = (entered[t] - 1) + 1
    BY <2>1
  <2> QED
    BY <2>2
<1>2. pc[t] = "leaving" /\ home[t] \in Sessions /\ UNCHANGED home /\ ~IsWaiting(t)
  <2>1. pc[t] = "leaving" /\ home[t] \in Sessions /\ UNCHANGED home
    BY <1>0 DEF LeaveNext, TurnOK, PlacedOK, Outside
  <2>2. Len(Frames(t)) \in {3, 4} /\ k + 1 <= Len(Frames(t))
    BY <2>1, <1>0, <1>1, FramesOfMain DEF TurnOK, PlacedOK
  <2>3. LastFrame(t).gate \in Gates /\ LastFrame(t).enters \in TasksOf(t)
    <3>1. k + 1 \in 1 .. Len(Frames(t))
      BY <2>2
    <3>2. LastFrame(t) = Frames(t)[k + 1]
      BY <1>1 DEF LastFrame
    <3>3. Frames(t)[k + 1].gate \in Gates /\ Frames(t)[k + 1].enters = MainOf(t)
      BY <3>1, <2>1, FramesOfMain
    <3> QED
      BY <3>2, <3>3 DEF MainOf, TasksOf
  <2> QED
    BY <2>1, <2>3, <1>0 DEF TurnOK, QueuedBy, IsWaiting, Waits, IsQueued
<1>3. k + 1 \in 1 .. Len(Frames(t)) /\ k + 1 <= Len(Frames(t))
  <2>1. k + 1 <= Len(Frames(t)) /\ Len(Frames(t)) \in {3, 4}
    BY <1>0, <1>1, <1>2, FramesOfMain DEF TurnOK, PlacedOK
  <2> QED
    BY <2>1, <1>1
<1>4. g = Frames(t)[k + 1].gate /\ g \in Gates /\ LastFrame(t).leaves = m /\ m \in TasksOf(t) /\ m \in Tasks
  BY <1>1, <1>2, <1>3, FramesOfMain DEF LastFrame, MainOf, TasksOf, Tasks
<1>5. gate' = [gate EXCEPT ![g] = r] /\ entered' = [entered EXCEPT ![t] = k]
  <2>1. entered' = [entered EXCEPT ![t] = k]
    <3>1. entered[t] - 1 = k /\ entered' = [entered EXCEPT ![t] = entered[t] - 1]
      BY <1>1 DEF LeaveNext
    <3> QED
      BY <3>1
  <2>2. gate' = [gate EXCEPT ![g] = Release(gate[g], LastFrame(t).leaves)]
    BY DEF LeaveNext
  <2>3. LastFrame(t).leaves = m
    BY <1>4
  <2> QED
    BY <2>1, <2>2, <2>3
<1>6. Good(gate[g], Size(g)) /\ Size(g) \in Nat
  BY <1>0, <1>4, GatesAssumption DEF GatesGood, Size
<1>7. Reached(t) = k + 1
  BY <1>1, <1>2 DEF Reached
<1>8. ASSUME NEW h \in Gates
      PROVE  /\ gate[h].depth[m] = FramesAt(Frames(t), k, h) + (IF g = h THEN 1 ELSE 0)
             /\ FramesAt(Frames(t), k, h) \in Nat
             /\ gate[h].depth[<<t, "acquire">>] = 0 /\ gate[h].depth[<<t, "chat">>] = 0
  BY <1>1, <1>2, <1>3, <1>4, <1>7, FramesStep DEF Counted, CountedAt
<1>9. gate[g].depth[m] > 0
  BY <1>4, <1>8
<1>10. /\ r.depth[m] = gate[g].depth[m] - 1
       /\ \A p \in Tasks \ {m} :
           \/ r.depth[p] = gate[g].depth[p] /\ (IsQueued(r, p) <=> IsQueued(gate[g], p))
           \/ r.depth[p] = gate[g].depth[p] + 1 /\ IsQueued(gate[g], p) /\ ~IsQueued(r, p)
       /\ \A p \in Tasks : IsQueued(r, p) => IsQueued(gate[g], p)
  <2> HIDE DEF g, m
  <2> QED
    BY <1>4, <1>6, <1>9, ReleaseDepth, ReleaseKeepsGood
<1>11. \A h \in Gates : gate'[h] = IF h = g THEN r ELSE gate[h]
  BY <1>0, <1>5 DEF Typed
<1>12. Frames(t)' = Frames(t) /\ entered'[t] = k
  BY <1>0, <1>2, <1>5 DEF Frames, Typed
<1> HIDE DEF r, g
<1>13. \A h \in Gates : \A p \in TasksOf(t) : ~IsQueued(gate[h], p)
  BY <1>0, <1>2 DEF TurnOK, QueuedBy
<1>14. ~IsWaiting(t)'
  <2> SUFFICES ASSUME k > 0 PROVE ~IsWaiting(t)'
    BY <1>1, <1>12 DEF IsWaiting
  <2>1. LastFrame(t)' = Frames(t)[k]
    BY <1>12 DEF LastFrame
  <2>2. Frames(t)[k].gate \in Gates /\ Frames(t)[k].enters = m
    BY <1>2, <1>3, FramesOfMain
  <2>3. ~IsQueued(gate'[Frames(t)[k].gate], m)
    BY <2>2, <1>4, <1>10, <1>11, <1>13
  <2> QED
    BY <2>1, <2>2, <2>3 DEF IsWaiting, Waits, IsQueued
<1>15. Reached(t)' = k
  BY <1>12, <1>14 DEF Reached
<1>16. ASSUME NEW h \in Gates PROVE CountedAt(t, h)'
  <2>1. gate'[h].depth[m] = FramesAt(Frames(t)', Reached(t)', h)
    BY <1>8, <1>10, <1>11, <1>12, <1>15
  <2>2. /\ \/ gate'[h].depth[<<t, "acquire">>] = gate[h].depth[<<t, "acquire">>]
           \/ IsQueued(gate[h], <<t, "acquire">>)
        /\ \/ gate'[h].depth[<<t, "chat">>] = gate[h].depth[<<t, "chat">>]
           \/ IsQueued(gate[h], <<t, "chat">>)
    BY <1>10, <1>11 DEF MainOf, Tasks
  <2>3. ~IsQueued(gate[h], <<t, "acquire">>) /\ ~IsQueued(gate[h], <<t, "chat">>)
    BY <1>13 DEF TasksOf
  <2>4. gate'[h].depth[<<t, "acquire">>] = 0 /\ gate'[h].depth[<<t, "chat">>] = 0
    BY <2>2, <2>3, <1>8
  <2> QED
    BY <2>1, <2>4 DEF CountedAt, MainOf
<1>17. ASSUME NEW u \in Turns, u # t PROVE \A h \in Gates : CountedAt(u, h)'
  <2>1. TasksOf(u) \subseteq Tasks \ {m}
    BY <1>4, <1>17, TasksApart
  <2>2. entered'[u] = entered[u] /\ home'[u] = home[u]
    BY <1>0, <1>2, <1>5, <1>17 DEF Typed
  <2>3. \A h \in Gates : CountedAt(u, h)
    BY DEF Counted
  <2>4. \A p \in TasksOf(u) :
           \/ r.depth[p] = gate[g].depth[p] /\ (IsQueued(r, p) <=> IsQueued(gate[g], p))
           \/ r.depth[p] = gate[g].depth[p] + 1 /\ IsQueued(gate[g], p) /\ ~IsQueued(r, p)
    BY <2>1, <1>10
  <2> QED
    BY <2>2, <2>3, <2>4, <1>4, <1>5, OthersCounted
<1> QED
  BY <1>16, <1>17 DEF Counted

LEMMA InterruptKeepsCounted ==
  ASSUME GInv, Counted, ~WaitForTask, NEW t \in Turns, Interrupt(t)
  PROVE  Counted'
<1>0. Typed /\ GatesGood /\ TurnOK(t) /\ UNCHANGED home
  BY DEF GInv, Interrupt
<1>1. CASE ~IsWaiting(t)
  <2>1. gate' = gate /\ entered' = [entered EXCEPT ![t] = entered[t]]
    BY <1>1 DEF Interrupt
  <2>2. entered' = entered
    BY <2>1, <1>0 DEF Typed
  <2> QED
    BY <2>1, <2>2, <1>0, StillCounted
<1>2. CASE IsWaiting(t)
  <2> DEFINE g == LastFrame(t).gate
             m == MainOf(t)
             r == Withdraw(gate[g], m)
  <2>1. PICK k \in Nat : entered[t] = k + 1
    BY <1>0, <1>2 DEF Typed, IsWaiting
  <2>2. home[t] \in Sessions
    BY <1>0, <2>1 DEF TurnOK, PlacedOK
  <2>3. k + 1 \in 1 .. Len(Frames(t)) /\ k + 1 <= Len(Frames(t))
    <3>1. k + 1 <= Len(Frames(t)) /\ Len(Frames(t)) \in {3, 4}
      BY <1>0, <2>1, <2>2, FramesOfMain DEF TurnOK, PlacedOK
    <3> QED
      BY <3>1, <2>1
  <2>4. g = Frames(t)[k + 1].gate /\ g \in Gates /\ LastFrame(t).enters = m /\ m \in TasksOf(t) /\ m \in Tasks
    BY <2>1, <2>2, <2>3, FramesOfMain DEF LastFrame, MainOf, TasksOf, Tasks
  <2>5. gate' = [gate EXCEPT ![g] = r] /\ entered' = [entered EXCEPT ![t] = k]
    BY <1>2, <2>1, <2>4 DEF Interrupt
  <2>6. Good(gate[g], Size(g)) /\ Size(g) \in Nat /\ IsQueued(gate[g], m)
    BY <1>0, <1>2, <2>4, GatesAssumption DEF GatesGood, Size, IsWaiting, Waits, IsQueued
  <2>7. r.depth = gate[g].depth /\ \A p \in Tasks : IsQueued(r, p) <=> IsQueued(gate[g], p) /\ p # m
    <3> HIDE DEF g, m
    <3> QED
      BY <2>4, <2>6, WithdrawKeepsGood
  <2>8. \A h \in Gates : gate'[h] = IF h = g THEN r ELSE gate[h]
    BY <1>0, <2>5 DEF Typed
  <2>9. Frames(t)' = Frames(t) /\ entered'[t] = k
    BY <1>0, <2>5 DEF Frames, Typed
  <2>10. \A h \in Gates : \A p \in TasksOf(t) : IsQueued(gate[h], p) => h = g /\ p = m
    BY <1>0, <2>4 DEF TurnOK, QueuedBy
  <2> HIDE DEF r, g
  <2>11. ~IsWaiting(t)'
    <3> SUFFICES ASSUME k > 0 PROVE ~IsWaiting(t)'
      BY <2>1, <2>9 DEF IsWaiting
    <3>1. LastFrame(t)' = Frames(t)[k]
      BY <2>9 DEF LastFrame
    <3>2. Frames(t)[k].gate \in Gates /\ Frames(t)[k].enters = m
      BY <2>2, <2>3, FramesOfMain
    <3>3. ~IsQueued(gate'[Frames(t)[k].gate], m)
      BY <3>2, <2>4, <2>7, <2>8, <2>10
    <3> QED
      BY <3>1, <3>2, <3>3 DEF IsWaiting, Waits, IsQueued
  <2>12. Reached(t) = k /\ Reached(t)' = k
    BY <1>2, <2>1, <2>9, <2>11 DEF Reached
  <2>13. \A h \in Gates : gate'[h].depth = gate[h].depth
    BY <2>7, <2>8
  <2>14. \A h \in Gates : CountedAt(t, h)'
    BY <2>9, <2>12, <2>13 DEF Counted, CountedAt, MainOf
  <2>15. ASSUME NEW u \in Turns, u # t PROVE \A h \in Gates : CountedAt(u, h)'
    <3>1. TasksOf(u) \subseteq Tasks \ {m}
      BY <2>4, <2>15, TasksApart
    <3>2. entered'[u] = entered[u] /\ home'[u] = home[u]
      BY <1>0, <2>5, <2>15 DEF Typed
    <3>3. \A h \in Gates : CountedAt(u, h)
      BY DEF Counted
    <3>4. \A p \in TasksOf(u) :
             \/ r.depth[p] = gate[g].depth[p] /\ (IsQueued(r, p) <=> IsQueued(gate[g], p))
             \/ r.depth[p] = gate[g].depth[p] + 1 /\ IsQueued(gate[g], p) /\ ~IsQueued(r, p)
      BY <3>1, <2>7
    <3> QED
      BY <3>2, <3>3, <3>4, <2>4, <2>5, OthersCounted
  <2> QED
    BY <2>14, <2>15 DEF Counted
<1> QED
  BY <1>1, <1>2

LEMMA InitCounted == Init => Counted
<1> SUFFICES ASSUME Init, NEW t \in Turns, NEW g \in Gates PROVE CountedAt(t, g)
  BY DEF Counted
<1>1. entered[t] = 0 /\ gate[g] = Open(g)
  BY DEF Init
<1>2. Reached(t) = 0
  BY <1>1 DEF Reached, IsWaiting
<1>3. \A p \in Tasks : gate[g].depth[p] = 0
  BY <1>1 DEF Open
<1> QED
  BY <1>2, <1>3, NoFrames DEF CountedAt, MainOf, Tasks

LEMMA NextCounted == ~WaitForTask /\ GInv /\ Counted /\ [Next]_vars => Counted'
<1> SUFFICES ASSUME ~WaitForTask, GInv, Counted, [Next]_vars PROVE Counted'
  OBVIOUS
<1>1. ASSUME NEW t \in Turns, NEW s \in Sessions, Arrive(t, s) PROVE Counted'
  BY <1>1, ComesKeepsCounted DEF Arrive
<1>2. ASSUME NEW c \in Jobs, StartJob(c) PROVE Counted'
  BY <1>2, ComesKeepsCounted DEF StartJob, Jobs
<1>3. ASSUME NEW t \in Turns, Step(t) PROVE Counted'
  <2>1. CASE Quiet(t)
    <3>1. UNCHANGED <<gate, entered, home>>
      BY <2>1 DEF Quiet, Begin, Roll, Rolled, Answer, CallTools, Dispatch, ToolLimit,
                  ToolsDone, ChildDone, SyncTimeout, Results, Goes
    <3> QED
      BY <3>1, StillCounted
  <2>2. EnterNext(t) \/ LeaveNext(t) \/ Quiet(t)
    BY <1>3 DEF Step, Quiet
  <2> QED
    BY <2>1, <2>2, EnterKeepsCounted, LeaveKeepsCounted
<1>4. ASSUME NEW t \in Turns, Interrupt(t) PROVE Counted'
  BY <1>4, InterruptKeepsCounted
<1>5. ASSUME UNCHANGED vars PROVE Counted'
  BY <1>5, StillCounted DEF vars
<1> QED
  BY <1>1, <1>2, <1>3, <1>4, <1>5 DEF Next, Rest

(* Since Python 3.12, whatever cuts a turn short, at its work, at a gate   *)
(* or between two, it ends with no place at a gate and in no queue.        *)
THEOREM EndedTurnsAreOut == ASSUME ~WaitForTask PROVE Spec => []EndedTurnsHoldNothing
<1>1. Init => GInv /\ Counted
  BY InitGInv, InitCounted
<1>2. GInv /\ Counted /\ [Next]_vars => (GInv /\ Counted)'
  BY NextGInv, NextCounted
<1>3. ASSUME GInv, Counted PROVE EndedTurnsHoldNothing
  <2> SUFFICES ASSUME NEW t \in Turns, pc[t] \in Outside, NEW g \in Gates,
                      NEW part \in {"main", "acquire", "chat"}
               PROVE  gate[g].depth[<<t, part>>] = 0 /\ ~Waits(g, <<t, part>>)
    BY DEF EndedTurnsHoldNothing, Outside
  <2>1. TurnOK(t)
    BY <1>3 DEF GInv
  <2>2. entered[t] = 0
    BY <2>1 DEF TurnOK, PlacedOK
  <2>3. Reached(t) = 0
    BY <2>2 DEF Reached, IsWaiting
  <2>4. gate[g].depth[<<t, part>>] = 0
    BY <2>3, <1>3, NoFrames DEF Counted, CountedAt, MainOf
  <2>5. ~IsQueued(gate[g], <<t, part>>)
    BY <2>1, <2>2 DEF TurnOK, QueuedBy, TasksOf
  <2> QED
    BY <2>4, <2>5 DEF Waits, IsQueued
<1> QED
  BY <1>1, <1>2, <1>3, PTL DEF Spec

-----------------------------------------------------------------------------
(* What turns read.  A turn is in a session the history knows, a job in    *)
(* none but its own; two turns at work in a session have mixed it; a       *)
(* session is empty until its compaction is done; and a job's session does *)
(* not change between its load and its start.                              *)
Coming == {"none", "queued"}

PlacedIn(t) ==
  /\ pc[t] \notin Coming => home[t] \in Targets[t] \cap created /\ session[t] \in created
  /\ pc[t] = "entering" => session[t] = home[t]

SharedAreMixed ==
  \A t, u \in Turns : t # u /\ pc[t] \in Active /\ pc[u] \in Active /\ session[t] = session[u] =>
                        session[t] \in mixed

EmptyUntilRolled ==
  /\ \A t \in Turns : pc[t] = "rolling" /\ session[t] \notin mixed => hist[session[t]] = <<>>
  /\ \A s \in Sessions \ created : hist[s] = <<>>

JobsReadTheirOwn == \A c \in Jobs : pc[c] = "entering" => view[c] = hist[home[c]]

ReadTyped ==
  /\ view \in [Turns -> Seq(Message)] /\ hist \in [Sessions -> Seq(Message)]
  /\ created \subseteq Sessions /\ rolled \subseteq Spare \cap created

ReadInv ==
  /\ ReadTyped
  /\ \A t \in Turns : PlacedIn(t)
  /\ SharedAreMixed /\ EmptyUntilRolled /\ JobsReadTheirOwn /\ ViewIsTheTranscript

LEMMA InitReadInv == Init => ReadInv
<1> SUFFICES ASSUME Init PROVE ReadInv
  OBVIOUS
<1>1. \A t \in Turns : pc[t] = "none"
  BY DEF Init
<1>2. ReadTyped
  BY GatesAssumption DEF Init, ReadTyped
<1>3. \A t \in Turns : PlacedIn(t)
  BY <1>1 DEF PlacedIn, Coming
<1>4. EmptyUntilRolled
  BY <1>1 DEF Init, EmptyUntilRolled
<1>5. SharedAreMixed /\ ViewIsTheTranscript
  BY <1>1 DEF SharedAreMixed, ViewIsTheTranscript, Active
<1>6. JobsReadTheirOwn
  BY <1>1 DEF JobsReadTheirOwn, Jobs
<1> QED
  BY <1>2, <1>3, <1>4, <1>5, <1>6 DEF ReadInv

(* Turns end, or enter and leave gates. *)
LEMMA EndsKeepReadInv ==
  ASSUME ReadInv, UNCHANGED <<home, session, view, transcripts>>,
         \A t \in Turns : pc'[t] = pc[t] \/ (pc'[t] \in {"leaving", "done"} /\ pc[t] \notin Coming)
  PROVE  ReadInv'
<1>0. UNCHANGED <<home, session, view, created, hist, rolled, mixed>>
  BY DEF transcripts
<1>1. ReadTyped'
  BY <1>0 DEF ReadInv, ReadTyped
<1>2. \A t \in Turns : PlacedIn(t)'
  BY <1>0 DEF ReadInv, PlacedIn, Coming
<1>3. SharedAreMixed'
  BY <1>0 DEF ReadInv, SharedAreMixed, Active
<1>4. EmptyUntilRolled'
  BY <1>0 DEF ReadInv, EmptyUntilRolled
<1>5. JobsReadTheirOwn'
  BY <1>0 DEF ReadInv, JobsReadTheirOwn, Jobs
<1>6. ViewIsTheTranscript'
  BY <1>0 DEF ReadInv, ViewIsTheTranscript, Active
<1> QED
  BY <1>1, <1>2, <1>3, <1>4, <1>5, <1>6 DEF ReadInv

LEMMA ArriveKeepsReadInv ==
  ASSUME GInv, SessionsOK, ReadInv, NEW t \in Turns, NEW s \in Sessions, Arrive(t, s)
  PROVE  ReadInv'
<1>0. /\ t \notin Jobs /\ s \in Targets[t] \cap created
      /\ UNCHANGED <<view, created, hist, rolled, mixed>>
      /\ pc' = [pc EXCEPT ![t] = "entering"]
      /\ home' = [home EXCEPT ![t] = s] /\ session' = [session EXCEPT ![t] = s]
  BY DEF Arrive, transcripts
<1>1. /\ pc'[t] = "entering" /\ home'[t] = s /\ session'[t] = s
      /\ \A u \in Turns \ {t} : pc'[u] = pc[u] /\ home'[u] = home[u] /\ session'[u] = session[u]
  BY <1>0 DEF GInv, Typed, SessionsOK
<1>2. ReadTyped'
  BY <1>0 DEF ReadInv, ReadTyped
<1>3. \A u \in Turns : PlacedIn(u)'
  BY <1>0, <1>1 DEF ReadInv, PlacedIn, Coming
<1>4. SharedAreMixed'
  BY <1>0, <1>1 DEF ReadInv, SharedAreMixed, Active
<1>5. EmptyUntilRolled'
  BY <1>0, <1>1 DEF ReadInv, EmptyUntilRolled
<1>6. JobsReadTheirOwn'
  BY <1>0, <1>1 DEF ReadInv, JobsReadTheirOwn, Jobs
<1>7. ViewIsTheTranscript'
  BY <1>0, <1>1 DEF ReadInv, ViewIsTheTranscript, Active
<1> QED
  BY <1>2, <1>3, <1>4, <1>5, <1>6, <1>7 DEF ReadInv

LEMMA StartKeepsReadInv ==
  ASSUME GInv, SessionsOK, ReadInv, NEW c \in Jobs, StartJob(c)
  PROVE  ReadInv'
<1> DEFINE s == ChildSession(c)
<1>0. c \in Turns /\ s \in Targets[c] /\ s \in Sessions
  BY GatesAssumption DEF ChildSession, Jobs
<1>1. /\ created' = created \cup {s} /\ UNCHANGED <<hist, rolled, mixed>>
      /\ pc' = [pc EXCEPT ![c] = "entering"] /\ view' = [view EXCEPT ![c] = hist[s]]
      /\ home' = [home EXCEPT ![c] = s] /\ session' = [session EXCEPT ![c] = s]
  BY DEF StartJob
<1> HIDE DEF s
<1>2. view \in [Turns -> Seq(Message)] /\ hist \in [Sessions -> Seq(Message)]
  BY DEF ReadInv, ReadTyped
<1>3. /\ pc'[c] = "entering" /\ home'[c] = s /\ session'[c] = s /\ view'[c] = hist[s]
      /\ \A u \in Turns \ {c} : /\ pc'[u] = pc[u] /\ home'[u] = home[u]
                                /\ session'[u] = session[u] /\ view'[u] = view[u]
  BY <1>0, <1>1, <1>2 DEF GInv, Typed, SessionsOK
<1>4. ReadTyped'
  BY <1>0, <1>1, <1>2 DEF ReadInv, ReadTyped
<1>5. \A u \in Turns : PlacedIn(u)'
  BY <1>0, <1>1, <1>3 DEF ReadInv, PlacedIn, Coming
<1>6. SharedAreMixed'
  BY <1>0, <1>1, <1>3 DEF ReadInv, SharedAreMixed, Active
<1>7. EmptyUntilRolled'
  BY <1>0, <1>1, <1>3 DEF ReadInv, EmptyUntilRolled
<1>8. JobsReadTheirOwn'
  BY <1>0, <1>1, <1>3 DEF ReadInv, JobsReadTheirOwn, Jobs
<1>9. ViewIsTheTranscript'
  BY <1>0, <1>1, <1>3 DEF ReadInv, ViewIsTheTranscript, Active
<1> QED
  BY <1>4, <1>5, <1>6, <1>7, <1>8, <1>9 DEF ReadInv

(* A compaction goes to a session where nobody is. *)
LEMMA RollKeepsReadInv ==
  ASSUME GInv, SessionsOK, ReadInv, NEW t \in Turns, NEW s \in Sessions, Roll(t, s)
  PROVE  ReadInv'
<1>0. /\ pc[t] = "turn" /\ s \in Spare \ created
      /\ created' = created \cup {s} /\ rolled' = rolled \cup {s}
      /\ session' = [session EXCEPT ![t] = s] /\ pc' = [pc EXCEPT ![t] = "rolling"]
      /\ UNCHANGED <<home, view, hist, mixed>>
  BY DEF Roll
<1>1. /\ pc'[t] = "rolling" /\ session'[t] = s
      /\ \A u \in Turns \ {t} : pc'[u] = pc[u] /\ session'[u] = session[u]
  BY <1>0 DEF GInv, Typed, SessionsOK
<1>2. \A u \in Turns : pc[u] \in Active => session[u] # s
  BY <1>0 DEF ReadInv, PlacedIn, Active, Coming
<1>3. hist[s] = <<>>
  BY <1>0 DEF ReadInv, EmptyUntilRolled
<1>4. ReadTyped'
  BY <1>0 DEF ReadInv, ReadTyped
<1>5. \A u \in Turns : PlacedIn(u)'
  BY <1>0, <1>1 DEF ReadInv, PlacedIn, Coming
<1>6. SharedAreMixed'
  BY <1>0, <1>1, <1>2 DEF ReadInv, SharedAreMixed, Active
<1>7. EmptyUntilRolled'
  BY <1>0, <1>1, <1>3 DEF ReadInv, EmptyUntilRolled
<1>8. JobsReadTheirOwn'
  BY <1>0, <1>1 DEF ReadInv, JobsReadTheirOwn, Jobs
<1>9. ViewIsTheTranscript'
  BY <1>0, <1>1 DEF ReadInv, ViewIsTheTranscript, Active
<1> QED
  BY <1>4, <1>5, <1>6, <1>7, <1>8, <1>9 DEF ReadInv

(* A turn writes to its session what it takes into its view.               *)
(* Its session is no job's but its own.                                    *)
LEMMA WritesElsewhere ==
  ASSUME SessionsOK, ReadInv, NEW t \in Turns, pc[t] \notin Coming,
         NEW c \in Jobs, c # t, pc[c] = "entering"
  PROVE  home[c] # session[t]
<1>1. c \in Turns /\ home[c] \in Targets[c]
  BY DEF Jobs, ReadInv, PlacedIn, Coming
<1>2. session[t] \in Targets[t] \/ session[t] \in Spare
  BY DEF ReadInv, PlacedIn, SessionsOK, ReadTyped
<1> QED
  BY <1>1, <1>2, GatesAssumption

LEMMA WriteKeepsReadInv ==
  ASSUME SessionsOK, ReadInv, NEW t \in Turns, pc[t] \in Active \cup {"entering"},
         NEW new \in Seq(Message), NEW told \in Seq(Message),
         view' = [view EXCEPT ![t] = new],
         hist' = [hist EXCEPT ![session[t]] = @ \o told],
         UNCHANGED <<home, session, created, rolled>>,
         mixed \subseteq mixed',
         session[t] \notin mixed' => new = hist[session[t]] \o told,
         \A u \in Turns \ {t} : pc[u] \in Active /\ session[u] = session[t] => session[t] \in mixed',
         \A u \in Turns : \/ pc'[u] = pc[u] /\ (u = t => pc[t] \in Active \ {"rolling"})
                          \/ u = t /\ pc'[u] \in (Active \ {"rolling"}) \cup {"leaving"}
                          \/ pc[u] = "none" /\ pc'[u] = "queued"
  PROVE  ReadInv'
<1> DEFINE s == session[t]
<1>0. /\ view \in [Turns -> Seq(Message)] /\ hist \in [Sessions -> Seq(Message)]
      /\ s \in created /\ s \in Sessions
  BY DEF ReadInv, ReadTyped, PlacedIn, Active, Coming
<1>1. hist[s] \o told \in Seq(Message)
  BY <1>0
<1>2. /\ view'[t] = new /\ \A u \in Turns \ {t} : view'[u] = view[u]
      /\ hist'[s] = hist[s] \o told /\ \A x \in Sessions \ {s} : hist'[x] = hist[x]
  BY <1>0
<1>3. ReadTyped'
  BY <1>0, <1>1 DEF ReadInv, ReadTyped
<1>4. \A u \in Turns : PlacedIn(u)'
  BY DEF ReadInv, PlacedIn, Coming, Active
<1>5. SharedAreMixed'
  BY DEF ReadInv, SharedAreMixed, Active
<1>6. EmptyUntilRolled'
  <2>1. ASSUME NEW u \in Turns, pc'[u] = "rolling", session[u] \notin mixed'
        PROVE  hist'[session[u]] = <<>>
    <3>1. u # t /\ pc[u] = "rolling" /\ session[u] # s /\ session[u] \in Sessions
      BY <2>1 DEF Active, ReadInv, PlacedIn, ReadTyped, Coming
    <3> QED
      BY <3>1, <2>1, <1>2 DEF ReadInv, EmptyUntilRolled
  <2>2. ASSUME NEW x \in Sessions \ created PROVE hist'[x] = <<>>
    BY <2>2, <1>0, <1>2 DEF ReadInv, EmptyUntilRolled
  <2> QED
    BY <2>1, <2>2 DEF EmptyUntilRolled
<1>7. JobsReadTheirOwn'
  <2> SUFFICES ASSUME NEW c \in Jobs, pc'[c] = "entering" PROVE view'[c] = hist'[home[c]]
    BY DEF JobsReadTheirOwn, Jobs
  <2>1. c \in Turns /\ c # t /\ pc[c] = "entering"
    BY DEF Jobs, Active
  <2>2. home[c] # s /\ home[c] \in Sessions
    BY <2>1, WritesElsewhere DEF Active, Coming, ReadInv, PlacedIn, ReadTyped
  <2> QED
    BY <2>1, <2>2, <1>2 DEF ReadInv, JobsReadTheirOwn
<1>8. ViewIsTheTranscript'
  <2> SUFFICES ASSUME NEW u \in Turns, pc'[u] \in Active \ {"rolling"}, session[u] \notin mixed'
               PROVE  view'[u] = hist'[session[u]]
    BY DEF ViewIsTheTranscript
  <2>1. CASE u = t
    BY <2>1, <1>2
  <2>2. CASE u # t
    <3>1. pc[u] \in Active \ {"rolling"} /\ session[u] # s /\ session[u] \in Sessions
      BY <2>2 DEF Active, ReadInv, PlacedIn, ReadTyped, Coming
    <3> QED
      BY <3>1, <2>2, <1>2 DEF ReadInv, ViewIsTheTranscript
  <2> QED
    BY <2>1, <2>2
<1> QED
  BY <1>3, <1>4, <1>5, <1>6, <1>7, <1>8 DEF ReadInv

LEMMA MessagesTyped ==
  ASSUME NEW t \in Turns
  PROVE  /\ \A kind \in {"user", "calls", "results", "final", "unrun", "summary"} :
              /\ Says(t, kind) \in Message /\ Says(t, kind).kind = kind /\ Says(t, kind).by = t
              /\ <<Says(t, kind)>> \in Seq(Message)
         /\ <<Says(t, "calls"), Says(t, "results")>> \in Seq(Message)
         /\ <<Says(t, "summary"), Says(t, "summary")>> \in Seq(Message)
         /\ Opening(t) \in Seq(Message)
<1>1. \A kind \in {"user", "calls", "results", "final", "unrun", "summary"} :
        Says(t, kind) \in Message /\ Says(t, kind).kind = kind /\ Says(t, kind).by = t
  BY DEF Says, Message
<1> QED
  BY <1>1 DEF Opening

(* What a compaction keeps is an end of the view, or nothing of it. *)
LEMMA KeptIsAnEnd ==
  ASSUME NEW v \in Seq(Message)
  PROVE  \E m \in Nat : /\ m <= Len(v) /\ Kept(v) \in Seq(Message) /\ Len(Kept(v)) = Len(v) - m
                        /\ \A i \in 1 .. Len(v) - m : Kept(v)[i] = v[m + i]
<1> DEFINE n == Len(v)
           count == CompressCount(n)
           m == IF count >= 0 THEN count ELSE AtLeast(0, n + count)
<1>1. n \in Nat /\ n \div 2 \in Nat /\ n \div 5 \in Nat
  OBVIOUS
<1>2. Kept(v) = SubSeq(v, 1 + m, n)
  BY DEF Kept
<1> HIDE DEF n
<1>3. count \in Int /\ count <= n
  BY <1>1 DEF CompressCount, AtMost, AtLeast
<1> HIDE DEF count
<1>4. m \in Nat /\ m <= n
  BY <1>1, <1>3 DEF AtLeast
<1> HIDE DEF m
<1>5. 1 + m \in 1 .. n + 1 /\ n \in 0 .. n
  BY <1>1, <1>4
<1>6. /\ SubSeq(v, 1 + m, n) \in Seq(Message)
      /\ Len(SubSeq(v, 1 + m, n)) = IF 1 + m <= n THEN n - (1 + m) + 1 ELSE 0
      /\ \A i \in 1 .. n - (1 + m) + 1 : SubSeq(v, 1 + m, n)[i] = v[(1 + m) + i - 1]
  BY <1>5, SubSeqProperties DEF n
<1>7. Len(Kept(v)) = n - m /\ Kept(v) \in Seq(Message)
  BY <1>1, <1>2, <1>4, <1>6
<1>8. \A i \in 1 .. n - m : Kept(v)[i] = v[m + i]
  BY <1>1, <1>2, <1>4, <1>6
<1> QED
  BY <1>4, <1>7, <1>8 DEF n

LEMMA BeginKeepsReadInv ==
  ASSUME GInv, SessionsOK, ReadInv, NEW t \in Turns, Begin(t)
  PROVE  ReadInv'
<1> DEFINE s == home[t]
           loaded == IF t \in Jobs THEN view[t] ELSE hist[s]
           new == loaded \o Opening(t)
<1>0. /\ pc[t] = "entering" /\ session[t] = s /\ s \in Sessions
      /\ view' = [view EXCEPT ![t] = new] /\ hist' = [hist EXCEPT ![s] = @ \o Opening(t)]
      /\ mixed' = MixedBy(t, s) /\ pc' = [pc EXCEPT ![t] = "turn"]
      /\ UNCHANGED <<home, session, created, rolled>>
  BY DEF Begin, ReadInv, ReadTyped, PlacedIn, Coming
<1>1. loaded = hist[s]
  BY <1>0 DEF ReadInv, JobsReadTheirOwn
<1>2. Opening(t) \in Seq(Message) /\ hist[s] \in Seq(Message)
  BY <1>0, MessagesTyped DEF ReadInv, ReadTyped
<1> HIDE DEF loaded
<1>3. new = hist[s] \o Opening(t) /\ new \in Seq(Message)
  BY <1>1, <1>2
<1>4. mixed \subseteq mixed' /\ \A u \in Turns \ {t} : pc[u] \in Active /\ session[u] = s => s \in mixed'
  BY <1>0 DEF MixedBy, Shared
<1>5. \A u \in Turns : (u # t => pc'[u] = pc[u]) /\ (u = t => pc'[u] = "turn")
  BY <1>0 DEF GInv, Typed
<1> HIDE DEF new
<1> QED
  BY <1>0, <1>2, <1>3, <1>4, <1>5, WriteKeepsReadInv DEF Active

LEMMA RolledKeepsReadInv ==
  ASSUME GInv, SessionsOK, ReadInv, NEW t \in Turns, Rolled(t)
  PROVE  ReadInv'
<1> DEFINE new == <<Says(t, "summary"), Says(t, "summary")>> \o Kept(view[t])
<1>0. /\ pc[t] = "rolling" /\ session[t] \in Sessions
      /\ view' = [view EXCEPT ![t] = new] /\ hist' = [hist EXCEPT ![session[t]] = @ \o new]
      /\ mixed' = MixedBy(t, session[t]) /\ pc' = [pc EXCEPT ![t] = "turn"]
      /\ UNCHANGED <<home, session, created, rolled>>
  BY DEF Rolled, ReadInv, ReadTyped, PlacedIn, Coming
<1>1. new \in Seq(Message)
  <2>1. Kept(view[t]) \in Seq(Message)
    BY KeptIsAnEnd DEF ReadInv, ReadTyped
  <2> QED
    BY <2>1, MessagesTyped
<1> HIDE DEF new
<1>2. mixed \subseteq mixed' /\ \A u \in Turns \ {t} : pc[u] \in Active /\ session[u] = session[t] => session[t] \in mixed'
  BY <1>0 DEF MixedBy, Shared
<1>3. session[t] \notin mixed' => new = hist[session[t]] \o new
  <2> SUFFICES ASSUME session[t] \notin mixed PROVE new = hist[session[t]] \o new
    BY <1>2
  <2>1. hist[session[t]] = <<>>
    BY <1>0 DEF ReadInv, EmptyUntilRolled
  <2> QED
    BY <2>1, <1>1
<1>4. \A u \in Turns : (u # t => pc'[u] = pc[u]) /\ (u = t => pc'[u] = "turn")
  BY <1>0 DEF GInv, Typed
<1> QED
  BY <1>0, <1>1, <1>2, <1>3, <1>4, WriteKeepsReadInv DEF Active

LEMMA SavesKeepReadInv ==
  ASSUME GInv, SessionsOK, ReadInv, NEW t \in Turns, pc[t] \in Active \ {"rolling"},
         NEW told \in Seq(Message), Saves(t, told), UNCHANGED <<home, session, created, rolled, mixed>>,
         \A u \in Turns : \/ pc'[u] = pc[u]
                          \/ u = t /\ pc'[u] \in (Active \ {"rolling"}) \cup {"leaving"}
                          \/ pc[u] = "none" /\ pc'[u] = "queued"
  PROVE  ReadInv'
<1>0. /\ session[t] \in Sessions
      /\ view \in [Turns -> Seq(Message)] /\ hist \in [Sessions -> Seq(Message)]
  BY DEF ReadInv, ReadTyped, PlacedIn, Coming, Active
<1>1. /\ view' = [view EXCEPT ![t] = view[t] \o told]
      /\ hist' = [hist EXCEPT ![session[t]] = @ \o told]
      /\ view[t] \o told \in Seq(Message)
  BY <1>0 DEF Saves
<1>2. session[t] \notin mixed' => view[t] \o told = hist[session[t]] \o told
  BY DEF ReadInv, ViewIsTheTranscript
<1>3. \A u \in Turns \ {t} : pc[u] \in Active /\ session[u] = session[t] => session[t] \in mixed'
  BY DEF ReadInv, SharedAreMixed
<1> QED
  BY <1>1, <1>2, <1>3, WriteKeepsReadInv

(* The steps that save messages of a turn to its session. *)
SavingStep(t) ==
  \/ Answer(t) \/ CallTools(t) \/ Dispatch(t) \/ ToolLimit(t)
  \/ ToolsDone(t) \/ ChildDone(t) \/ SyncTimeout(t)

LEMMA SavingSteps ==
  ASSUME GInv, NEW t \in Turns, SavingStep(t)
  PROVE  /\ UNCHANGED <<home, session, created, rolled, mixed, interrupted>>
         /\ \A u \in Turns : \/ u # t /\ pc'[u] = pc[u]
                             \/ pc[u] = "none" /\ pc'[u] = "queued"
                             \/ u = t
         /\ \/ /\ pc[t] = "turn" /\ pc'[t] = "leaving"
               /\ \/ \E kind \in {"final", "unrun"} : Saves(t, <<Says(t, kind)>>)
                  \/ Saves(t, <<Says(t, "calls"), Says(t, "results")>>)
            \/ pc[t] = "turn" /\ pc'[t] \in {"tools", "waiting"} /\ Saves(t, <<Says(t, "calls")>>)
            \/ pc[t] \in {"tools", "waiting"} /\ pc'[t] = "turn" /\ Saves(t, <<Says(t, "results")>>)
<1>0. pc \in [Turns -> Places]
  BY DEF GInv, Typed
<1>1. CASE Dispatch(t)
  <2>1. /\ Child[t] \in Turns /\ pc[Child[t]] = "none" /\ pc[t] = "turn"
        /\ pc' = [pc EXCEPT ![t] = "waiting", ![Child[t]] = "queued"]
    BY <1>1, GatesAssumption DEF Dispatch, Calls, Jobs
  <2>2. Child[t] # t /\ pc'[t] = "waiting"
    BY <2>1, <1>0
  <2> QED
    BY <2>1, <2>2, <1>0, <1>1 DEF Dispatch, Calls
<1>2. CASE Answer(t) \/ ToolLimit(t)
  BY <1>0, <1>2 DEF Answer, ToolLimit, Goes
<1>3. CASE CallTools(t)
  BY <1>0, <1>3 DEF CallTools, Calls, Goes
<1>4. CASE ToolsDone(t) \/ ChildDone(t) \/ SyncTimeout(t)
  BY <1>0, <1>4 DEF ToolsDone, ChildDone, SyncTimeout, Results, Goes
<1> QED
  BY <1>1, <1>2, <1>3, <1>4 DEF SavingStep

LEMMA NextReadInv == GInv /\ SessionsOK /\ ReadInv /\ [Next]_vars => ReadInv'
<1> SUFFICES ASSUME GInv, SessionsOK, ReadInv, [Next]_vars PROVE ReadInv'
  OBVIOUS
<1>0. pc \in [Turns -> Places]
  BY DEF GInv, Typed
<1>1. ASSUME NEW t \in Turns, SavingStep(t) PROVE ReadInv'
  <2>1. /\ pc[t] \in Active \ {"rolling"} /\ UNCHANGED <<home, session, created, rolled, mixed>>
        /\ \A u \in Turns : \/ pc'[u] = pc[u]
                            \/ u = t /\ pc'[u] \in (Active \ {"rolling"}) \cup {"leaving"}
                            \/ pc[u] = "none" /\ pc'[u] = "queued"
    BY <1>1, SavingSteps DEF Active
  <2>2. \E told \in Seq(Message) : Saves(t, told)
    BY <1>1, SavingSteps, MessagesTyped
  <2> QED
    BY <2>1, <2>2, SavesKeepReadInv
<1>2. ASSUME NEW t \in Turns, EnterNext(t) \/ LeaveNext(t) \/ Interrupt(t) PROVE ReadInv'
  <2>1. /\ UNCHANGED <<home, session, view, transcripts>>
        /\ pc[t] \notin Coming
        /\ pc' = pc \/ \E p \in {"leaving", "done"} : pc' = [pc EXCEPT ![t] = p]
    BY <1>2 DEF EnterNext, LeaveNext, Interrupt, Active, Coming
  <2> QED
    BY <2>1, <1>0, EndsKeepReadInv
<1>3. CASE UNCHANGED vars
  BY <1>3, EndsKeepReadInv DEF vars
<1>4. ASSUME NEW t \in Turns, Step(t) \/ Interrupt(t) PROVE ReadInv'
  <2>1. \/ SavingStep(t) \/ EnterNext(t) \/ LeaveNext(t) \/ Interrupt(t)
        \/ Begin(t) \/ Rolled(t) \/ \E s \in Sessions : Roll(t, s)
    BY <1>4 DEF Step, SavingStep
  <2> QED
    BY <2>1, <1>1, <1>2, BeginKeepsReadInv, RolledKeepsReadInv, RollKeepsReadInv
<1> QED
  BY <1>3, <1>4, ArriveKeepsReadInv, StartKeepsReadInv DEF Next, Rest

(* A turn answers from what its session says: all that was written before  *)
(* it is in its view and nothing is written besides it, unless a           *)
(* compaction brought two turns together.                                  *)
THEOREM TurnsReadTheTranscript == Spec => []ViewIsTheTranscript
<1>1. Init => IInv /\ ReadInv
  BY InitGInv, InitSessions, InitReadInv DEF IInv
<1>2. IInv /\ ReadInv /\ [Next]_vars => (IInv /\ ReadInv)'
  BY NextGInv, NextSessions, NextMixed, NextReadInv DEF IInv
<1>3. IInv /\ ReadInv => ViewIsTheTranscript
  BY DEF ReadInv
<1> QED
  BY <1>1, <1>2, <1>3, PTL DEF Spec

-----------------------------------------------------------------------------
(* Messages whose exchanges are whole but for what was interrupted or cut  *)
(* off by a compaction, and for a last call that is open.                  *)
Exchanged(v, I, open) ==
  \A i \in 1 .. Len(v) :
    /\ Unanswered(v, i) => Excused(v[i], I) \/ (open /\ i = Len(v))
    /\ Orphaned(v, i) => i > 1 /\ v[i - 1].kind = "summary"

LEMMA Grows ==
  ASSUME NEW v \in Seq(Message), NEW x \in Message
  PROVE  /\ v \o <<x>> \in Seq(Message) /\ Len(v) \in Nat /\ Len(v \o <<x>>) = Len(v) + 1
         /\ (v \o <<x>>)[Len(v) + 1] = x
         /\ \A i \in 1 .. Len(v) : (v \o <<x>>)[i] = v[i]
<1>1. <<x>> \in Seq(Message) /\ Len(<<x>>) = 1 /\ <<x>>[1] = x
  OBVIOUS
<1>2. Len(v) \in Nat
  OBVIOUS
<1>3. /\ v \o <<x>> \in Seq(Message) /\ Len(v \o <<x>>) = Len(v) + Len(<<x>>)
      /\ \A i \in 1 .. Len(v) + Len(<<x>>) :
           (v \o <<x>>)[i] = IF i <= Len(v) THEN v[i] ELSE <<x>>[i - Len(v)]
  BY <1>1, ConcatProperties
<1> QED
  BY <1>1, <1>2, <1>3

(* A message that is no call and no result changes nothing; a call is open *)
(* until its results follow.                                               *)
LEMMA GrowsByOne ==
  ASSUME NEW v \in Seq(Message), NEW x \in Message, NEW I, NEW open \in BOOLEAN, Exchanged(v, I, open),
         open => Len(v) > 0 /\ v[Len(v)].kind = "calls",
         x.kind = "results" <=> open
  PROVE  Exchanged(v \o <<x>>, I, x.kind = "calls")
<1> DEFINE w == v \o <<x>>
           n == Len(v)
<1>1. /\ w \in Seq(Message) /\ n \in Nat /\ Len(w) = n + 1
      /\ w[n + 1] = x /\ \A i \in 1 .. n : w[i] = v[i]
  BY Grows
<1>2. \A i \in 1 .. n : /\ Unanswered(v, i) => Excused(v[i], I) \/ (open /\ i = n)
                        /\ Orphaned(v, i) => i > 1 /\ v[i - 1].kind = "summary"
  BY DEF Exchanged
<1>3. open => n > 0 /\ v[n].kind = "calls"
  OBVIOUS
<1> HIDE DEF w, n
<1>4. ASSUME NEW i \in 1 .. n
      PROVE  /\ Unanswered(w, i) => Excused(w[i], I)
             /\ Orphaned(w, i) => i > 1 /\ w[i - 1].kind = "summary"
  <2>1. i \in Nat /\ w[i] = v[i] /\ i # Len(w) /\ i >= 1 /\ i <= n
    BY <1>1
  <2>2. i > 1 => i - 1 \in 1 .. n
    BY <1>1
  <2>3. i > 1 => w[i - 1] = v[i - 1]
    BY <2>2, <1>1
  <2>4. Orphaned(w, i) => i > 1 /\ w[i - 1].kind = "summary"
    BY <2>1, <2>3, <1>2 DEF Orphaned
  <2>5. CASE i = n
    <3>1. w[i + 1] = x
      BY <2>5, <1>1
    <3>2. Unanswered(w, i) => x.kind # "results" /\ Unanswered(v, i)
      BY <3>1, <2>1, <2>5 DEF Unanswered, n
    <3> QED
      BY <3>2, <2>1, <2>4, <1>2
  <2>6. CASE i # n
    <3>1. i + 1 \in 1 .. n
      BY <2>1, <2>6, <1>1
    <3>2. w[i + 1] = v[i + 1]
      BY <3>1, <1>1
    <3>3. Unanswered(w, i) => Unanswered(v, i)
      BY <3>2, <2>1 DEF Unanswered
    <3> QED
      BY <3>3, <2>1, <2>4, <2>6, <1>2
  <2> QED
    BY <2>5, <2>6
<1>5. Orphaned(w, n + 1) => n + 1 > 1 /\ w[(n + 1) - 1].kind = "summary"
  <2>1. CASE x.kind = "results"
    <3>1. n > 0 /\ n + 1 # 1 /\ (n + 1) - 1 = n /\ n \in 1 .. n
      BY <2>1, <1>1, <1>3
    <3>2. w[n].kind = "calls"
      BY <3>1, <2>1, <1>1, <1>3
    <3> QED
      BY <3>1, <3>2 DEF Orphaned
  <2>2. CASE x.kind # "results"
    BY <2>2, <1>1 DEF Orphaned
  <2> QED
    BY <2>1, <2>2
<1>6. Unanswered(w, n + 1) => Excused(w[n + 1], I) \/ (x.kind = "calls" /\ n + 1 = Len(w))
  BY <1>1 DEF Unanswered, Excused
<1>7. ASSUME NEW i \in 1 .. Len(w)
      PROVE  /\ Unanswered(w, i) => Excused(w[i], I) \/ (x.kind = "calls" /\ i = Len(w))
             /\ Orphaned(w, i) => i > 1 /\ w[i - 1].kind = "summary"
  <2>1. i \in 1 .. n \/ i = n + 1
    BY <1>1
  <2> QED
    BY <2>1, <1>4, <1>5, <1>6
<1>8. Exchanged(w, I, x.kind = "calls")
  BY <1>7 DEF Exchanged
<1> QED
  BY <1>8 DEF w

LEMMA GrowsByTwo ==
  ASSUME NEW v \in Seq(Message), NEW x \in Message, NEW y \in Message, NEW I,
         Exchanged(v, I, FALSE), x.kind = "calls", y.kind = "results"
  PROVE  Exchanged(v \o <<x, y>>, I, FALSE)
<1> DEFINE w == v \o <<x>>
<1>1. w \in Seq(Message) /\ Len(w) = Len(v) + 1 /\ Len(v) \in Nat /\ w[Len(w)] = x
  BY Grows
<1>2. Exchanged(w, I, TRUE)
  <2>1. Exchanged(w, I, x.kind = "calls")
    BY GrowsByOne
  <2> QED
    BY <2>1
<1>3. v \o <<x, y>> = w \o <<y>>
  <2>2. /\ <<x>> \in Seq(Message) /\ Len(<<x>>) = 1 /\ <<x>>[1] = x
        /\ <<y>> \in Seq(Message) /\ Len(<<y>>) = 1 /\ <<y>>[1] = y
        /\ <<x, y>> \in Seq(Message) /\ Len(<<x, y>>) = 2 /\ <<x, y>>[1] = x /\ <<x, y>>[2] = y
    OBVIOUS
  <2>1. <<x, y>> = <<x>> \o <<y>>
    <3> DEFINE c == <<x>> \o <<y>>
               d == <<x, y>>
    <3>1. c \in Seq(Message) /\ Len(c) = Len(<<x>>) + Len(<<y>>)
          /\ \A i \in 1 .. Len(<<x>>) + Len(<<y>>) :
               c[i] = IF i <= Len(<<x>>) THEN <<x>>[i] ELSE <<y>>[i - Len(<<x>>)]
      BY <2>2, ConcatProperties
    <3>2. Len(c) = 2 /\ c[1] = x /\ c[2] = y
      BY <3>1, <2>2
    <3> HIDE DEF c, d
    <3>3. d \in Seq(Message) /\ Len(d) = 2 /\ d[1] = x /\ d[2] = y
      BY <2>2 DEF d
    <3>4. c = d
      BY <3>1, <3>2, <3>3, SeqEqual
    <3> QED
      BY <3>4 DEF c, d
  <2> QED
    BY <2>1, <2>2, ConcatAssociative
<1> HIDE DEF w
<1>4. Exchanged(w \o <<y>>, I, y.kind = "calls")
  <2>1. Len(w) > 0 /\ w[Len(w)].kind = "calls"
    BY <1>1
  <2> QED
    BY <2>1, <1>1, <1>2, GrowsByOne
<1> QED
  BY <1>3, <1>4

LEMMA RollsOn ==
  ASSUME NEW v \in Seq(Message), NEW a \in Message, NEW I, Exchanged(v, I, FALSE), a.kind = "summary"
  PROVE  Exchanged(<<a, a>> \o Kept(v), I, FALSE)
<1> DEFINE n == Len(v)
           k == Kept(v)
           w == <<a, a>> \o k
<1>1. PICK m \in Nat : m <= n /\ k \in Seq(Message) /\ Len(k) = n - m
                       /\ \A i \in 1 .. n - m : k[i] = v[m + i]
  BY KeptIsAnEnd
<1>2. n \in Nat
  OBVIOUS
<1>3. <<a, a>> \in Seq(Message) /\ Len(<<a, a>>) = 2 /\ <<a, a>>[1] = a /\ <<a, a>>[2] = a
  OBVIOUS
<1>4. \A i \in 1 .. n : /\ Unanswered(v, i) => Excused(v[i], I)
                        /\ Orphaned(v, i) => i > 1 /\ v[i - 1].kind = "summary"
  BY DEF Exchanged
<1> HIDE DEF k
<1>5. /\ Len(w) = 2 + Len(k)
      /\ \A i \in 1 .. 2 + Len(k) : w[i] = IF i <= 2 THEN <<a, a>>[i] ELSE k[i - 2]
  BY <1>1, <1>3, ConcatProperties
<1> DEFINE l == n - m
<1> HIDE DEF w
<1>6. l \in Nat /\ Len(w) = 2 + l /\ w[1] = a /\ w[2] = a
  BY <1>1, <1>2, <1>3, <1>5
<1>7. \A i \in 1 .. l : w[2 + i] = v[m + i]
  <2> TAKE i \in 1 .. l
  <2>1. 2 + i \in 1 .. 2 + Len(k) /\ ~(2 + i <= 2) /\ (2 + i) - 2 = i
    BY <1>1, <1>2
  <2> QED
    BY <2>1, <1>1, <1>5
<1>8. ASSUME NEW i \in 1 .. l
      PROVE  /\ Unanswered(w, 2 + i) => Excused(w[2 + i], I)
             /\ Orphaned(w, 2 + i) => 2 + i > 1 /\ w[(2 + i) - 1].kind = "summary"
  <2>1. m + i \in 1 .. n /\ w[2 + i] = v[m + i] /\ (2 + i = Len(w) <=> m + i = n) /\ 2 + i > 1
    BY <1>1, <1>2, <1>6, <1>7
  <2>2. Unanswered(w, 2 + i) => Unanswered(v, m + i)
    <3>1. CASE i = l
      <4>1. m + i = Len(v)
        BY <3>1, <2>1, <1>6
      <4> QED
        BY <4>1, <2>1 DEF Unanswered
    <3>2. CASE i # l
      <4> DEFINE q == i + 1
      <4>0. q \in 1 .. l
        BY <3>2, <1>6
      <4>1. 2 + q = (2 + i) + 1 /\ m + q = (m + i) + 1
        BY <1>1
      <4> HIDE DEF q
      <4>5. w[2 + q] = v[m + q]
        BY <4>0, <1>7
      <4>2. w[(2 + i) + 1] = v[(m + i) + 1]
        BY <4>1, <4>5
      <4>3. 2 + i # Len(w)
        BY <3>2, <1>6
      <4> QED
        BY <4>2, <4>3, <2>1 DEF Unanswered
    <3> QED
      BY <3>1, <3>2
  <2>3. Orphaned(w, 2 + i) => w[(2 + i) - 1].kind = "summary"
    <3>1. CASE i = 1
      <4>1. (2 + i) - 1 = 2
        BY <3>1
      <4> QED
        BY <4>1, <1>6
    <3>2. CASE i # 1
      <4> DEFINE q == i - 1
      <4>0. q \in 1 .. l
        BY <3>2, <1>6
      <4>1. 2 + q = (2 + i) - 1 /\ m + q = (m + i) - 1 /\ m + i # 1
        BY <3>2, <1>6, <1>1
      <4> HIDE DEF q
      <4>5. w[2 + q] = v[m + q]
        BY <4>0, <1>7
      <4>2. w[(2 + i) - 1] = v[(m + i) - 1]
        BY <4>1, <4>5
      <4>3. Orphaned(w, 2 + i) => Orphaned(v, m + i)
        BY <4>1, <4>2, <2>1 DEF Orphaned
      <4> QED
        BY <4>2, <4>3, <2>1, <1>4
    <3> QED
      BY <3>1, <3>2
  <2> QED
    BY <2>1, <2>2, <2>3, <1>4
<1>9. ASSUME NEW i \in 1 .. Len(w)
      PROVE  /\ Unanswered(w, i) => Excused(w[i], I)
             /\ Orphaned(w, i) => i > 1 /\ w[i - 1].kind = "summary"
  <2>1. CASE i \in {1, 2}
    BY <2>1, <1>6 DEF Unanswered, Orphaned
  <2>2. CASE i \notin {1, 2}
    <3>1. i - 2 \in 1 .. l /\ 2 + (i - 2) = i
      BY <2>2, <1>6
    <3>2. PICK j \in 1 .. l : i = 2 + j
      BY <3>1
    <3> QED
      BY <3>2, <1>8
  <2> QED
    BY <2>1, <2>2
<1>10. Exchanged(w, I, FALSE)
  BY <1>9 DEF Exchanged
<1> QED
  BY <1>10 DEF w, k

Asking == {"tools", "waiting"}
Asked(s) == \E t \in Turns : session[t] = s /\ pc[t] \in Asking

HistoriesExchanged == \A s \in Sessions : Exchanged(hist[s], interrupted, Asked(s))
RollingExchanged == \A t \in Turns : pc[t] = "rolling" => Exchanged(view[t], interrupted, FALSE)
EndsWithCalls(v, t) == Len(v) > 0 /\ v[Len(v)] = Says(t, "calls")
AskingAsked == \A t \in Turns : pc[t] \in Asking => EndsWithCalls(hist[session[t]], t)

ExchangeInv == mixed = {} => HistoriesExchanged /\ RollingExchanged /\ AskingAsked

(* While no session is mixed, a turn at work has its session for itself.   *)
LEMMA Alone ==
  ASSUME ReadInv, mixed = {}, NEW t \in Turns, NEW u \in Turns, t # u,
         pc[t] \in Active, pc[u] \in Active
  PROVE  session[t] # session[u]
  BY DEF ReadInv, SharedAreMixed

LEMMA AskedBySelf ==
  ASSUME ReadInv, mixed = {}, NEW t \in Turns, pc[t] \in Active
  PROVE  Asked(session[t]) <=> pc[t] \in Asking
  BY Alone DEF Asked, Asking, Active

LEMMA ExchangedMonotonic ==
  ASSUME NEW v, NEW I, NEW J, NEW open \in BOOLEAN, NEW wide \in BOOLEAN, Exchanged(v, I, open),
         I \subseteq J, open => wide
  PROVE  Exchanged(v, J, wide)
  BY DEF Exchanged, Excused

LEMMA InitExchangeInv == Init => ExchangeInv
<1> SUFFICES ASSUME Init PROVE HistoriesExchanged /\ RollingExchanged /\ AskingAsked
  BY DEF ExchangeInv
<1>1. \A s \in Sessions : hist[s] = <<>>
  BY DEF Init
<1>2. \A t \in Turns : pc[t] = "none"
  BY DEF Init
<1>3. HistoriesExchanged
  BY <1>1 DEF HistoriesExchanged, Exchanged
<1> QED
  BY <1>2, <1>3 DEF RollingExchanged, AskingAsked, Asking

(* Nothing is written, and nobody begins or stops to ask or to roll.       *)
LEMMA SilentKeepsExchangeInv ==
  ASSUME ExchangeInv, UNCHANGED <<hist, mixed, interrupted>>,
         \A t \in Turns : pc'[t] \in Asking <=> pc[t] \in Asking,
         \A t \in Turns : pc[t] \in Asking => session'[t] = session[t],
         \A t \in Turns : pc'[t] = "rolling" => pc[t] = "rolling" /\ view'[t] = view[t]
  PROVE  ExchangeInv'
<1> SUFFICES ASSUME mixed = {} PROVE HistoriesExchanged' /\ RollingExchanged' /\ AskingAsked'
  BY DEF ExchangeInv
<1>1. \A s : Asked(s)' <=> Asked(s)
  BY DEF Asked
<1>2. HistoriesExchanged'
  <2> SUFFICES ASSUME NEW s \in Sessions PROVE Exchanged(hist[s], interrupted, Asked(s)')
    BY DEF HistoriesExchanged
  <2>1. Exchanged(hist[s], interrupted, Asked(s))
    BY DEF ExchangeInv, HistoriesExchanged
  <2> QED
    BY <2>1, <1>1 DEF Exchanged
<1>3. RollingExchanged'
  BY DEF ExchangeInv, RollingExchanged
<1>4. AskingAsked'
  BY DEF ExchangeInv, AskingAsked
<1> QED
  BY <1>2, <1>3, <1>4

LEMMA RollKeepsExchangeInv ==
  ASSUME GInv, SessionsOK, ReadInv, ExchangeInv, NEW t \in Turns, NEW s \in Sessions, Roll(t, s)
  PROVE  ExchangeInv'
<1>0. /\ pc[t] = "turn" /\ session' = [session EXCEPT ![t] = s] /\ pc' = [pc EXCEPT ![t] = "rolling"]
      /\ UNCHANGED <<view, hist, mixed, interrupted>>
  BY DEF Roll
<1>1. /\ pc'[t] = "rolling"
      /\ \A u \in Turns \ {t} : pc'[u] = pc[u] /\ session'[u] = session[u]
  BY <1>0 DEF GInv, Typed, SessionsOK
<1> SUFFICES ASSUME mixed = {} PROVE HistoriesExchanged' /\ RollingExchanged' /\ AskingAsked'
  BY <1>0 DEF ExchangeInv
<1>2. \A x : Asked(x)' <=> Asked(x)
  BY <1>0, <1>1 DEF Asked, Asking
<1>3. HistoriesExchanged'
  <2> SUFFICES ASSUME NEW x \in Sessions PROVE Exchanged(hist[x], interrupted, Asked(x)')
    BY <1>0 DEF HistoriesExchanged
  <2>1. Exchanged(hist[x], interrupted, Asked(x))
    BY DEF ExchangeInv, HistoriesExchanged
  <2> QED
    BY <2>1, <1>2 DEF Exchanged
<1>4. RollingExchanged'
  <2>1. session[t] \in Sessions /\ ~Asked(session[t]) /\ view[t] = hist[session[t]]
    BY <1>0, AskedBySelf DEF ReadInv, ReadTyped, PlacedIn, ViewIsTheTranscript, Active, Coming, Asking
  <2>2. Exchanged(view[t], interrupted, FALSE)
    BY <2>1 DEF ExchangeInv, HistoriesExchanged, Exchanged
  <2> QED
    BY <2>2, <1>0, <1>1 DEF ExchangeInv, RollingExchanged
<1>5. AskingAsked'
  BY <1>0, <1>1 DEF ExchangeInv, AskingAsked, Asking
<1> QED
  BY <1>3, <1>4, <1>5

(* A turn that is cut off its tools is one that was interrupted. *)
LEMMA InterruptKeepsExchangeInv ==
  ASSUME GInv, SessionsOK, ReadInv, ExchangeInv, NEW t \in Turns, Interrupt(t)
  PROVE  ExchangeInv'
<1>0. /\ interrupted' = interrupted \cup {t} /\ UNCHANGED <<session, view, hist, mixed>>
      /\ pc[t] \in Active \cup {"entering"}
      /\ \E p \in {"done", "leaving"} : pc' = [pc EXCEPT ![t] = p]
  BY DEF Interrupt, transcripts
<1>1. /\ pc'[t] \in {"done", "leaving"} /\ \A u \in Turns \ {t} : pc'[u] = pc[u]
  BY <1>0 DEF GInv, Typed
<1> SUFFICES ASSUME mixed = {} PROVE HistoriesExchanged' /\ RollingExchanged' /\ AskingAsked'
  BY <1>0 DEF ExchangeInv
<1>2. HistoriesExchanged'
  <2> SUFFICES ASSUME NEW s \in Sessions PROVE Exchanged(hist[s], interrupted', Asked(s)')
    BY <1>0 DEF HistoriesExchanged
  <2>1. Exchanged(hist[s], interrupted, Asked(s))
    BY DEF ExchangeInv, HistoriesExchanged
  <2>2. CASE session[t] = s /\ pc[t] \in Asking
    <3>1. EndsWithCalls(hist[s], t)
      BY <2>2 DEF ExchangeInv, AskingAsked
    <3>2. hist[s][Len(hist[s])].by = t
      BY <3>1 DEF EndsWithCalls, Says
    <3> QED
      BY <3>2, <2>1, <1>0 DEF Exchanged, Excused
  <2>3. CASE ~(session[t] = s /\ pc[t] \in Asking)
    <3>1. Asked(s) => Asked(s)'
      BY <2>3, <1>0, <1>1 DEF Asked
    <3> QED
      BY <3>1, <2>1, <1>0 DEF Exchanged, Excused
  <2> QED
    BY <2>2, <2>3
<1>3. RollingExchanged'
  <2> SUFFICES ASSUME NEW u \in Turns, pc'[u] = "rolling" PROVE Exchanged(view[u], interrupted', FALSE)
    BY <1>0 DEF RollingExchanged
  <2>1. Exchanged(view[u], interrupted, FALSE)
    BY <1>1 DEF ExchangeInv, RollingExchanged
  <2> QED
    BY <2>1, <1>0 DEF Exchanged, Excused
<1>4. AskingAsked'
  BY <1>0, <1>1 DEF ExchangeInv, AskingAsked, Asking
<1> QED
  BY <1>2, <1>3, <1>4

(* A turn writes to a session that no other turn is at work in.            *)
LEMMA WriteKeepsExchangeInv ==
  ASSUME ReadInv, ExchangeInv, NEW t \in Turns, session[t] \in Sessions,
         NEW told \in Seq(Message),
         \A u \in Turns \ {t} : view'[u] = view[u],
         hist' = [hist EXCEPT ![session[t]] = @ \o told],
         UNCHANGED <<session, interrupted>>, mixed \subseteq mixed',
         \A u \in Turns \ {t} : pc[u] \in Active /\ session[u] = session[t] => session[t] \in mixed',
         \A u \in Turns \ {t} : pc'[u] = pc[u] \/ (pc[u] = "none" /\ pc'[u] = "queued"),
         pc'[t] \in {"turn", "leaving"} \cup Asking,
         mixed' = {} => Exchanged(hist[session[t]] \o told, interrupted, pc'[t] \in Asking),
         pc'[t] \in Asking => EndsWithCalls(hist[session[t]] \o told, t)
  PROVE  ExchangeInv'
<1> DEFINE s == session[t]
<1> SUFFICES ASSUME mixed' = {} PROVE HistoriesExchanged' /\ RollingExchanged' /\ AskingAsked'
  BY DEF ExchangeInv
<1>0. mixed = {} /\ hist \in [Sessions -> Seq(Message)]
  BY DEF ReadInv, ReadTyped
<1>1. hist'[s] = hist[s] \o told /\ \A x \in Sessions \ {s} : hist'[x] = hist[x]
  BY <1>0
<1>2. \A u \in Turns \ {t} : pc[u] \in Active => session[u] # s
  OBVIOUS
<1>3. HistoriesExchanged'
  <2> SUFFICES ASSUME NEW x \in Sessions PROVE Exchanged(hist'[x], interrupted, Asked(x)')
    BY DEF HistoriesExchanged
  <2>1. CASE x = s
    <3>1. Exchanged(hist'[x], interrupted, pc'[t] \in Asking)
      BY <2>1, <1>1
    <3>2. pc'[t] \in Asking => Asked(x)'
      BY <2>1 DEF Asked
    <3> QED
      BY <3>1, <3>2 DEF Exchanged
  <2>2. CASE x # s
    <3>1. Exchanged(hist'[x], interrupted, Asked(x))
      BY <2>2, <1>0, <1>1 DEF ExchangeInv, HistoriesExchanged
    <3>2. Asked(x) => Asked(x)'
      <4> SUFFICES ASSUME NEW u \in Turns, session[u] = x, pc[u] \in Asking PROVE Asked(x)'
        BY DEF Asked
      <4>1. u # t /\ pc'[u] = pc[u]
        BY <2>2 DEF Asking
      <4> QED
        BY <4>1 DEF Asked
    <3> QED
      BY <3>1, <3>2 DEF Exchanged
  <2> QED
    BY <2>1, <2>2
<1>4. RollingExchanged'
  BY <1>0 DEF ExchangeInv, RollingExchanged, Asking
<1>5. AskingAsked'
  <2> SUFFICES ASSUME NEW u \in Turns, pc'[u] \in Asking PROVE EndsWithCalls(hist'[session[u]], u)
    BY DEF AskingAsked
  <2>1. CASE u = t
    BY <2>1, <1>1
  <2>2. CASE u # t
    <3>1. pc[u] \in Asking /\ pc[u] \in Active
      BY <2>2 DEF Asking, Active
    <3>2. session[u] # s /\ session[u] \in Sessions
      BY <3>1, <2>2, <1>2 DEF ReadInv, ReadTyped, PlacedIn, Active, Coming
    <3> QED
      BY <3>1, <3>2, <1>0, <1>1 DEF ExchangeInv, AskingAsked
  <2> QED
    BY <2>1, <2>2
<1> QED
  BY <1>3, <1>4, <1>5

LEMMA BeginKeepsExchangeInv ==
  ASSUME GInv, SessionsOK, ReadInv, ExchangeInv, NEW t \in Turns, Begin(t)
  PROVE  ExchangeInv'
<1> DEFINE s == home[t]
<1>0. /\ pc[t] = "entering" /\ session[t] = s /\ s \in Sessions
      /\ \A u \in Turns \ {t} : view'[u] = view[u]
      /\ hist' = [hist EXCEPT ![s] = @ \o Opening(t)]
      /\ mixed' = MixedBy(t, s) /\ pc' = [pc EXCEPT ![t] = "turn"]
      /\ UNCHANGED <<session, interrupted>>
  BY DEF Begin, ReadInv, ReadTyped, PlacedIn, Coming
<1>1. mixed \subseteq mixed' /\ \A u \in Turns \ {t} : pc[u] \in Active /\ session[u] = s => s \in mixed'
  BY <1>0 DEF MixedBy, Shared
<1>2. pc'[t] = "turn" /\ \A u \in Turns \ {t} : pc'[u] = pc[u]
  BY <1>0 DEF GInv, Typed
<1>3. hist[s] \in Seq(Message) /\ Opening(t) \in Seq(Message)
  BY <1>0, MessagesTyped DEF ReadInv, ReadTyped
<1>4. ASSUME mixed' = {} PROVE Exchanged(hist[s] \o Opening(t), interrupted, FALSE)
  <2>1. mixed = {}
    BY <1>1, <1>4
  <2>2. ~Asked(s)
    BY <1>0, <1>1, <1>4 DEF Asked, Asking, Active
  <2>3. Exchanged(hist[s], interrupted, Asked(s))
    BY <1>0, <2>1 DEF ExchangeInv, HistoriesExchanged
  <2>4. Exchanged(hist[s], interrupted, FALSE)
    BY <2>2, <2>3 DEF Exchanged
  <2>5. CASE Kind[t] = "resume"
    <3>1. Opening(t) = <<Says(t, "calls"), Says(t, "results")>>
      BY <2>5 DEF Opening
    <3>2. Exchanged(hist[s] \o <<Says(t, "calls"), Says(t, "results")>>, interrupted, FALSE)
      BY <2>4, <1>3, MessagesTyped, GrowsByTwo
    <3> QED
      BY <3>1, <3>2
  <2>6. CASE Kind[t] # "resume"
    <3>1. Opening(t) = <<Says(t, "user")>>
      BY <2>6 DEF Opening
    <3>2. Says(t, "user") \in Message /\ Says(t, "user").kind = "user"
      BY MessagesTyped
    <3>3. Exchanged(hist[s] \o <<Says(t, "user")>>, interrupted, Says(t, "user").kind = "calls")
      BY <3>2, <2>4, <1>3, GrowsByOne
    <3>4. Exchanged(hist[s] \o <<Says(t, "user")>>, interrupted, FALSE)
      BY <3>2, <3>3 DEF Exchanged
    <3> QED
      BY <3>1, <3>4
  <2> QED
    BY <2>5, <2>6
<1>5. (pc'[t] \in Asking) = FALSE
  BY <1>2 DEF Asking
<1> QED
  BY <1>0, <1>1, <1>2, <1>3, <1>4, <1>5, WriteKeepsExchangeInv

LEMMA RolledKeepsExchangeInv ==
  ASSUME GInv, SessionsOK, ReadInv, ExchangeInv, NEW t \in Turns, Rolled(t)
  PROVE  ExchangeInv'
<1> DEFINE s == session[t]
           a == Says(t, "summary")
           new == <<a, a>> \o Kept(view[t])
<1>0. /\ pc[t] = "rolling" /\ s \in Sessions
      /\ \A u \in Turns \ {t} : view'[u] = view[u]
      /\ hist' = [hist EXCEPT ![s] = @ \o new]
      /\ mixed' = MixedBy(t, s) /\ pc' = [pc EXCEPT ![t] = "turn"]
      /\ UNCHANGED <<session, interrupted>>
  BY DEF Rolled, ReadInv, ReadTyped, PlacedIn, Coming
<1>1. new \in Seq(Message) /\ view[t] \in Seq(Message) /\ a \in Message /\ a.kind = "summary"
  <2>1. view[t] \in Seq(Message) /\ Kept(view[t]) \in Seq(Message)
    BY KeptIsAnEnd DEF ReadInv, ReadTyped
  <2> QED
    BY <2>1, MessagesTyped
<1>2. mixed \subseteq mixed' /\ \A u \in Turns \ {t} : pc[u] \in Active /\ session[u] = s => s \in mixed'
  BY <1>0 DEF MixedBy, Shared
<1>3. pc'[t] = "turn" /\ \A u \in Turns \ {t} : pc'[u] = pc[u]
  BY <1>0 DEF GInv, Typed
<1>4. ASSUME mixed' = {} PROVE Exchanged(hist[s] \o new, interrupted, FALSE)
  <2>1. mixed = {}
    BY <1>2, <1>4
  <2>2. hist[s] = <<>>
    BY <1>0, <2>1 DEF ReadInv, EmptyUntilRolled
  <2>3. Exchanged(view[t], interrupted, FALSE)
    BY <1>0, <2>1 DEF ExchangeInv, RollingExchanged
  <2>4. Exchanged(new, interrupted, FALSE)
    BY <2>3, <1>1, RollsOn
  <2>5. hist[s] \o new = new
    <3> HIDE DEF new
    <3> QED
      BY <2>2, <1>1, ConcatEmptySeq
  <2> QED
    BY <2>4, <2>5
<1>5. (pc'[t] \in Asking) = FALSE
  BY <1>3 DEF Asking
<1> HIDE DEF new
<1> QED
  BY <1>0, <1>1, <1>2, <1>3, <1>4, <1>5, WriteKeepsExchangeInv

LEMMA SavingKeepsExchangeInv ==
  ASSUME GInv, ReadInv, ExchangeInv, NEW t \in Turns, SavingStep(t)
  PROVE  ExchangeInv'
<1> DEFINE s == session[t]
           v == hist[s]
<1>0. /\ UNCHANGED <<session, mixed, interrupted>>
      /\ \A u \in Turns \ {t} : pc'[u] = pc[u] \/ (pc[u] = "none" /\ pc'[u] = "queued")
      /\ pc[t] \in {"turn"} \cup Asking
  BY SavingSteps DEF Asking
<1>1. /\ pc[t] \in Active /\ s \in Sessions /\ v \in Seq(Message)
      /\ view \in [Turns -> Seq(Message)]
  BY <1>0 DEF ReadInv, ReadTyped, PlacedIn, Active, Asking, Coming
<1>2. \A u \in Turns \ {t} : pc[u] \in Active /\ session[u] = s => s \in mixed'
  BY <1>0, <1>1 DEF ReadInv, SharedAreMixed
<1>3. mixed = {} => /\ Exchanged(v, interrupted, pc[t] \in Asking)
                    /\ pc[t] \in Asking => Len(v) > 0 /\ v[Len(v)].kind = "calls"
  <2> SUFFICES ASSUME mixed = {}
               PROVE  /\ Exchanged(v, interrupted, pc[t] \in Asking)
                      /\ pc[t] \in Asking => Len(v) > 0 /\ v[Len(v)].kind = "calls"
    OBVIOUS
  <2>1. Exchanged(v, interrupted, Asked(s))
    BY <1>1 DEF ExchangeInv, HistoriesExchanged
  <2>2. Asked(s) => pc[t] \in Asking
    BY <1>1, AskedBySelf
  <2>3. Exchanged(v, interrupted, pc[t] \in Asking)
    BY <2>1, <2>2 DEF Exchanged
  <2>4. pc[t] \in Asking => EndsWithCalls(v, t)
    BY DEF ExchangeInv, AskingAsked
  <2> QED
    BY <2>3, <2>4, MessagesTyped DEF EndsWithCalls
<1> HIDE DEF v
<1>4. ASSUME NEW told \in Seq(Message), Saves(t, told),
             pc'[t] \in {"turn", "leaving"} \cup Asking,
             mixed = {} => Exchanged(v \o told, interrupted, pc'[t] \in Asking),
             pc'[t] \in Asking => EndsWithCalls(v \o told, t)
      PROVE  ExchangeInv'
  <2>1. /\ \A u \in Turns \ {t} : view'[u] = view[u]
        /\ hist' = [hist EXCEPT ![s] = @ \o told]
    BY <1>1, <1>4 DEF Saves
  <2> QED
    BY <2>1, <1>0, <1>1, <1>2, <1>4, WriteKeepsExchangeInv DEF v
<1>5. ASSUME NEW kind \in {"calls", "results", "final", "unrun"}, Saves(t, <<Says(t, kind)>>),
             pc'[t] \in {"turn", "leaving"} \cup Asking,
             pc'[t] \in Asking <=> kind = "calls",
             pc[t] \in Asking <=> kind = "results"
      PROVE  ExchangeInv'
  <2> DEFINE x == Says(t, kind)
  <2>1. x \in Message /\ x.kind = kind /\ <<x>> \in Seq(Message)
    BY MessagesTyped
  <2> HIDE DEF x
  <2>2. ASSUME mixed = {} PROVE Exchanged(v \o <<x>>, interrupted, pc'[t] \in Asking)
    <3> DEFINE open == pc[t] \in Asking
    <3>1. open \in BOOLEAN /\ Exchanged(v, interrupted, open)
          /\ (open => Len(v) > 0 /\ v[Len(v)].kind = "calls") /\ (x.kind = "results" <=> open)
      BY <2>1, <2>2, <1>3, <1>5
    <3> HIDE DEF open
    <3>2. Exchanged(v \o <<x>>, interrupted, x.kind = "calls")
      BY <3>1, <2>1, <1>1, GrowsByOne
    <3> QED
      BY <3>2, <2>1, <1>5
  <2>3. ASSUME pc'[t] \in Asking PROVE EndsWithCalls(v \o <<x>>, t)
    <3>1. x = Says(t, "calls")
      BY <2>3, <1>5 DEF x
    <3>2. Len(v \o <<x>>) = Len(v) + 1 /\ Len(v) \in Nat /\ (v \o <<x>>)[Len(v) + 1] = x
      BY <2>1, <1>1, Grows
    <3> QED
      BY <3>1, <3>2 DEF EndsWithCalls
  <2> QED
    BY <2>1, <2>2, <2>3, <1>4, <1>5 DEF x
<1>6. ASSUME Saves(t, <<Says(t, "calls"), Says(t, "results")>>), pc[t] = "turn", pc'[t] = "leaving"
      PROVE  ExchangeInv'
  <2>1. pc[t] \notin Asking /\ pc'[t] \notin Asking
    BY <1>6 DEF Asking
  <2>2. ASSUME mixed = {}
        PROVE  Exchanged(v \o <<Says(t, "calls"), Says(t, "results")>>, interrupted, pc'[t] \in Asking)
    <3>1. Exchanged(v, interrupted, FALSE)
      BY <2>1, <2>2, <1>3 DEF Exchanged
    <3>2. Exchanged(v \o <<Says(t, "calls"), Says(t, "results")>>, interrupted, FALSE)
      BY <3>1, <1>1, MessagesTyped, GrowsByTwo
    <3> QED
      BY <3>2, <2>1 DEF Exchanged
  <2> QED
    BY <2>1, <2>2, <1>4, <1>6, MessagesTyped
<1> QED
  <2>1. \/ /\ pc[t] = "turn" /\ pc'[t] = "leaving"
           /\ \E kind \in {"final", "unrun"} : Saves(t, <<Says(t, kind)>>)
        \/ pc[t] = "turn" /\ pc'[t] = "leaving" /\ Saves(t, <<Says(t, "calls"), Says(t, "results")>>)
        \/ pc[t] = "turn" /\ pc'[t] \in {"tools", "waiting"} /\ Saves(t, <<Says(t, "calls")>>)
        \/ pc[t] \in {"tools", "waiting"} /\ pc'[t] = "turn" /\ Saves(t, <<Says(t, "results")>>)
    BY SavingSteps
  <2> QED
    BY <2>1, <1>5, <1>6 DEF Asking

LEMMA NextExchangeInv ==
  GInv /\ SessionsOK /\ ReadInv /\ ExchangeInv /\ [Next]_vars => ExchangeInv'
<1> SUFFICES ASSUME GInv, SessionsOK, ReadInv, ExchangeInv, [Next]_vars PROVE ExchangeInv'
  OBVIOUS
<1>0. /\ pc \in [Turns -> Places] /\ view \in [Turns -> Seq(Message)]
      /\ session \in [Turns -> Sessions \cup {NoSession}]
  BY DEF GInv, Typed, ReadInv, ReadTyped, SessionsOK
<1>1. ASSUME NEW t \in Turns, NEW s \in Sessions, Arrive(t, s) PROVE ExchangeInv'
  <2>1. /\ UNCHANGED <<view, hist, mixed, interrupted>> /\ pc[t] = "none"
        /\ pc' = [pc EXCEPT ![t] = "entering"] /\ session' = [session EXCEPT ![t] = s]
    BY <1>1 DEF Arrive, transcripts
  <2> QED
    BY <2>1, <1>0, SilentKeepsExchangeInv DEF Asking
<1>2. ASSUME NEW c \in Jobs, StartJob(c) PROVE ExchangeInv'
  <2>1. c \in Turns /\ pc[c] = "queued" /\ UNCHANGED <<hist, mixed, interrupted>>
        /\ pc' = [pc EXCEPT ![c] = "entering"]
        /\ \E s : session' = [session EXCEPT ![c] = s]
        /\ \E v : view' = [view EXCEPT ![c] = v]
    BY <1>2 DEF StartJob, Jobs
  <2>2. /\ pc'[c] = "entering"
        /\ \A u \in Turns \ {c} : pc'[u] = pc[u] /\ session'[u] = session[u] /\ view'[u] = view[u]
    BY <2>1, <1>0
  <2> QED
    BY <2>1, <2>2, SilentKeepsExchangeInv DEF Asking
<1>3. ASSUME NEW t \in Turns, EnterNext(t) \/ LeaveNext(t) PROVE ExchangeInv'
  <2>1. /\ UNCHANGED <<session, view, hist, mixed, interrupted>>
        /\ pc' = pc \/ (pc[t] = "leaving" /\ \E p \in {"leaving", "done"} : pc' = [pc EXCEPT ![t] = p])
    BY <1>3 DEF EnterNext, LeaveNext, transcripts
  <2> QED
    BY <2>1, <1>0, SilentKeepsExchangeInv DEF Asking
<1>4. CASE UNCHANGED vars
  BY <1>4, SilentKeepsExchangeInv DEF vars, transcripts
<1>5. ASSUME NEW t \in Turns, Step(t) \/ Interrupt(t) PROVE ExchangeInv'
  <2>1. \/ SavingStep(t) \/ EnterNext(t) \/ LeaveNext(t) \/ Interrupt(t)
        \/ Begin(t) \/ Rolled(t) \/ \E s \in Sessions : Roll(t, s)
    BY <1>5 DEF Step, SavingStep
  <2> QED
    BY <2>1, <1>3, SavingKeepsExchangeInv, BeginKeepsExchangeInv, RolledKeepsExchangeInv,
       RollKeepsExchangeInv, InterruptKeepsExchangeInv
<1> QED
  BY <1>1, <1>2, <1>4, <1>5 DEF Next, Rest

(* While no two turns mixed in a session, the model is given calls with    *)
(* their results: what is missing was lost to an interruption or cut off   *)
(* by a compaction, whatever came before.                                  *)
THEOREM ExchangesBreakForACause == Spec => []BrokenExchangesHaveACause
<1> DEFINE I == IInv /\ ReadInv /\ ExchangeInv
<1>1. Init => I
  BY InitGInv, InitSessions, InitReadInv, InitExchangeInv DEF IInv
<1>2. I /\ [Next]_vars => I'
  BY NextGInv, NextSessions, NextMixed, NextReadInv, NextExchangeInv DEF IInv
<1>3. I => BrokenExchangesHaveACause
  <2> SUFFICES ASSUME ReadInv, ExchangeInv, mixed = {}, NEW t \in Turns, pc[t] = "turn",
                      NEW i \in 1 .. Len(view[t])
               PROVE  /\ Unanswered(view[t], i) => Excused(view[t][i], interrupted)
                      /\ Orphaned(view[t], i) => i > 1 /\ view[t][i - 1].kind = "summary"
    BY DEF BrokenExchangesHaveACause
  <2>1. pc[t] \in Active /\ pc[t] \notin Asking
    BY DEF Active, Asking
  <2>2. view[t] = hist[session[t]] /\ session[t] \in Sessions /\ ~Asked(session[t])
    BY <2>1, AskedBySelf DEF ReadInv, ReadTyped, PlacedIn, ViewIsTheTranscript, Active, Coming
  <2>3. Exchanged(view[t], interrupted, Asked(session[t]))
    BY <2>2 DEF ExchangeInv, HistoriesExchanged
  <2> QED
    BY <2>2, <2>3 DEF Exchanged
<1> QED
  BY <1>1, <1>2, <1>3, PTL DEF Spec
=============================================================================
