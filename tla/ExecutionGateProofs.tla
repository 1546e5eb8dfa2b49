------------------------ MODULE ExecutionGateProofs ------------------------
(***************************************************************************)
(* Proofs about the execution gate, for every set of waiters and every     *)
(* number of permits.  GateInvariant is inductive; the properties that the *)
(* runs of MCExecutionGate check on an instance follow from it, and so     *)
(* does the refinement of Turnstile.                                       *)
(***************************************************************************)
EXTENDS ExecutionGate, FiniteSetTheorems, SequenceTheorems, TLAPS

States == {"new", "queued", "held", "released"}
Answers == {"pending", "granted", "aborted"}

(***************************************************************************)
(* What release() and request() may call pump() with - a queue q, waiter   *)
(* states st, deferreds rd, a permit count used - and what it leaves.      *)
(***************************************************************************)
PumpInput(q, st, rd, used) ==
  /\ q \in Seq(Waiter)
  /\ st \in [Waiter -> States]
  /\ rd \in [Waiter -> Answers]
  /\ used \in Nat
  /\ used = Cardinality({w \in Waiter : st[w] = "held"})
  /\ \A i \in 1..Len(q) : st[q[i]] \in {"queued", "released"}
  /\ \A i, j \in 1..Len(q) : q[i] = q[j] => i = j
  /\ \A w \in Waiter : st[w] = "queued" => \E i \in 1..Len(q) : q[i] = w

PumpOutput(st, rd) ==
  /\ queue' \in Seq(Waiter)
  /\ active' \in Nat
  /\ state' \in [Waiter -> States]
  /\ ready' \in [Waiter -> Answers]
  /\ active' = Cardinality(Held') /\ active' <= limit
  /\ \A i \in DOMAIN queue' : state'[queue'[i]] \in {"queued", "released"}
  /\ \A i, j \in DOMAIN queue' : queue'[i] = queue'[j] => i = j
  /\ active' < limit => queue' = <<>>
  /\ \A w \in Waiter : state'[w] = "queued" =>
       st[w] = "queued" /\ ready'[w] = rd[w]
       /\ \E i \in DOMAIN queue' : queue'[i] = w
  /\ \A w \in Waiter :
       \/ state'[w] = st[w] /\ ready'[w] = rd[w]
       \/ st[w] = "queued" /\ state'[w] = "held" /\ ready'[w] = "granted"

\* pump() makes of a queue and the states, answers and permits of its waiters, as
\* request() and release() hand them over, a gate that is consistent again.
LEMMA PumpLemma ==
  ASSUME NEW q, NEW st, NEW rd, NEW used,
         PumpInput(q, st, rd, used), Pump(q, st, rd, used)
  PROVE  PumpOutput(st, rd)
<1>a. /\ q \in Seq(Waiter) /\ st \in [Waiter -> States] /\ rd \in [Waiter -> Answers]
      /\ used \in Nat /\ used = Cardinality({w \in Waiter : st[w] = "held"})
  BY DEF PumpInput
<1>b. \A i \in 1..Len(q) : st[q[i]] \in {"queued", "released"}
  BY DEF PumpInput
<1>c. \A i, j \in 1..Len(q) : q[i] = q[j] => i = j
  BY DEF PumpInput
<1>d. \A w \in Waiter : st[w] = "queued" => \E i \in 1..Len(q) : q[i] = w
  BY DEF PumpInput
<1>1. PICK k \in 0..Len(q) :
        /\ PumpStops(q, st, used, k)
        /\ queue' = SubSeq(q, k + 1, Len(q))
        /\ active' = used + Cardinality(Taken(q, st, k))
        /\ state' = [w \in Waiter |-> IF w \in Taken(q, st, k) THEN "held" ELSE st[w]]
        /\ ready' = [w \in Waiter |-> IF w \in Taken(q, st, k) THEN "granted" ELSE rd[w]]
  BY DEF Pump
<1> DEFINE A == {w \in Waiter : st[w] = "held"}
           G == Taken(q, st, k)
<1>2. /\ IsFiniteSet(A) /\ IsFiniteSet(G)
      /\ Cardinality(A) \in Nat /\ Cardinality(G) \in Nat
      /\ A \cap G = {}
  <2>1. A \in SUBSET Waiter /\ G \in SUBSET Waiter /\ A \cap G = {}
    BY DEF Taken
  <2>2. IsFiniteSet(A) /\ IsFiniteSet(G)
    BY <2>1, FS_Subset, GateAssumption
  <2>3. QED
    BY <2>1, <2>2, FS_CardinalityType
<1>3. /\ Len(q) \in Nat
      /\ \A i \in 1..Len(q) : q[i] \in Waiter
      /\ queue' \in Seq(Waiter)
      /\ Len(queue') = Len(q) - k
      /\ \A i \in 1..Len(queue') : queue'[i] = q[k + i]
      /\ DOMAIN queue' = 1..Len(queue')
  <2>1. Len(q) \in Nat /\ \A i \in 1..Len(q) : q[i] \in Waiter
    BY <1>a, LenProperties, ElementOfSeq
  <2>2. k + 1 \in Int /\ Len(q) \in Int /\ \A i \in (k + 1)..Len(q) : q[i] \in Waiter
    BY <2>1
  <2>3. /\ queue' \in Seq(Waiter)
        /\ Len(queue') = IF k + 1 <= Len(q) THEN Len(q) - (k + 1) + 1 ELSE 0
        /\ \A i \in 1..(Len(q) - (k + 1) + 1) : queue'[i] = q[(k + 1) + i - 1]
    BY <1>a, <1>1, <2>2, SubSeqProperties
  <2>4. DOMAIN queue' = 1..Len(queue')
    BY <2>3, LenProperties
  <2>5. k \in Nat /\ k <= Len(q)
    BY <2>1
  <2>6. Len(queue') = Len(q) - k /\ (Len(q) - (k + 1)) + 1 = Len(q) - k
    BY <2>1, <2>3, <2>5
  <2>7. ASSUME NEW i \in 1..Len(queue') PROVE queue'[i] = q[k + i]
    <3>1. i \in Int /\ (k + 1) + i - 1 = k + i
      BY <2>5
    <3>2. QED
      BY <2>3, <2>6, <3>1
  <2>8. QED
    BY <2>1, <2>3, <2>4, <2>6, <2>7
<1>k. k \in Nat /\ k <= Len(q) /\ \A i \in 1..Len(queue') : k + i \in 1..Len(q)
  BY <1>3
<1>4. active' = Cardinality(Held') /\ active' <= limit /\ active' \in Nat
  <2>1. Held' = A \cup G
    BY <1>1 DEF Held, Taken
  <2>2. Cardinality(A \cap G) = 0
    BY <1>2, FS_EmptySet
  <2>3. Cardinality(A \cup G) = Cardinality(A) + Cardinality(G) - Cardinality(A \cap G)
    BY <1>2, FS_Union
  <2>4. active' <= limit
    BY <1>1 DEF PumpStops
  <2>5. QED
    BY <1>a, <1>1, <1>2, <2>1, <2>2, <2>3, <2>4
<1>5. state' \in [Waiter -> States] /\ ready' \in [Waiter -> Answers]
  BY <1>a, <1>1 DEF States, Answers
<1>6. \A i \in 1..Len(queue') : queue'[i] \notin G
  <2>1. SUFFICES ASSUME NEW i \in 1..Len(queue'), NEW j \in 1..k, q[k + i] = q[j]
                 PROVE  FALSE
    BY <1>3 DEF Taken
  <2>2. j \in 1..Len(q) /\ k + i \in 1..Len(q)
    BY <1>3, <1>k
  <2>3. QED
    BY <1>c, <1>k, <2>1, <2>2
<1>7. \A i \in DOMAIN queue' : state'[queue'[i]] \in {"queued", "released"}
  <2>1. SUFFICES ASSUME NEW i \in 1..Len(queue')
                 PROVE  state'[queue'[i]] \in {"queued", "released"}
    BY <1>3
  <2>2. st[queue'[i]] \in {"queued", "released"} /\ queue'[i] \in Waiter
    BY <1>b, <1>3, <1>k
  <2>3. QED
    BY <1>1, <1>6, <2>2
<1>8. \A i, j \in DOMAIN queue' : queue'[i] = queue'[j] => i = j
  BY <1>c, <1>3, <1>k
<1>9. active' < limit => queue' = <<>>
  <2>1. SUFFICES ASSUME active' < limit PROVE queue' = <<>>
    OBVIOUS
  <2>2. k = Len(q)
    BY <1>1, <2>1 DEF PumpStops
  <2>3. Len(queue') = 0
    BY <1>3, <2>2
  <2>4. QED
    BY <1>3, <2>3, EmptySeq
<1>10. ASSUME NEW w \in Waiter, state'[w] = "queued"
       PROVE  /\ st[w] = "queued" /\ ready'[w] = rd[w]
              /\ \E i \in DOMAIN queue' : queue'[i] = w
  <2>1. w \notin G /\ st[w] = "queued" /\ ready'[w] = rd[w]
    BY <1>1, <1>10
  <2>2. PICK i \in 1..Len(q) : q[i] = w
    BY <1>d, <2>1
  <2>3. i \notin 1..k
    BY <2>1, <2>2 DEF Taken
  <2>4. i - k \in 1..Len(queue') /\ queue'[i - k] = w
    BY <1>3, <1>k, <2>2, <2>3
  <2>5. QED
    BY <1>3, <2>1, <2>4
<1>11. \A w \in Waiter :
         \/ state'[w] = st[w] /\ ready'[w] = rd[w]
         \/ st[w] = "queued" /\ state'[w] = "held" /\ ready'[w] = "granted"
  BY <1>1 DEF Taken
<1>12. QED
  BY <1>3, <1>4, <1>5, <1>7, <1>8, <1>9, <1>10, <1>11 DEF PumpOutput

----------------------------------------------------------------------------
\* The new gate, with no request made of it, satisfies the invariant.
LEMMA InitInvariant == Init => GateInvariant
<1> SUFFICES ASSUME Init PROVE GateInvariant
  OBVIOUS
<1>1. TypeOK
  BY EmptySeq DEF Init, TypeOK
<1>2. ActiveCountsHolders
  <2>1. Held = {}
    BY DEF Init, Held
  <2>2. QED
    BY <2>1, FS_EmptySet, GateAssumption DEF Init, ActiveCountsHolders
<1>3. QueueConsistent
  BY DEF Init, QueueConsistent
<1>4. \A w \in Waiter : Consistent(w)
  BY DEF Init, Consistent
<1>5. QED
  BY <1>1, <1>2, <1>3, <1>4 DEF GateInvariant

\* What request() hands to pump(): the queue with the newcomer at its end.
LEMMA RequestInput ==
  ASSUME GateInvariant, NEW r \in Waiter, RequestOpen(r)
  PROVE  /\ state[r] = "new" /\ ready[r] = "pending" /\ scopeOpen[r] /\ ~closed
         /\ PumpInput(Append(queue, r), [state EXCEPT ![r] = "queued"], ready, active)
<1> DEFINE q == Append(queue, r)
           st == [state EXCEPT ![r] = "queued"]
<1> USE DEF GateInvariant, TypeOK, States, Answers
<1>1. /\ queue \in Seq(Waiter) /\ Len(queue) \in Nat /\ DOMAIN queue = 1..Len(queue)
      /\ \A i \in 1..Len(queue) : queue[i] \in Waiter
  BY LenProperties, ElementOfSeq
<1>2. /\ q \in Seq(Waiter) /\ Len(q) = Len(queue) + 1
      /\ \A i \in 1..Len(queue) : q[i] = queue[i]
      /\ q[Len(queue) + 1] = r
  BY <1>1, AppendProperties
<1>3. state[r] = "new" /\ ready[r] = "pending" /\ scopeOpen[r] /\ ~closed
  BY DEF RequestOpen, Consistent
<1>4. \A i \in 1..Len(queue) : queue[i] # r
  BY <1>1, <1>3 DEF QueueConsistent
<1>5. active = Cardinality({w \in Waiter : st[w] = "held"})
  <2>1. {w \in Waiter : st[w] = "held"} = Held
    BY <1>3 DEF Held
  <2>2. QED
    BY <2>1 DEF ActiveCountsHolders
<1>6. /\ \A i \in 1..Len(q) : st[q[i]] \in {"queued", "released"}
      /\ \A i, j \in 1..Len(q) : q[i] = q[j] => i = j
  BY <1>1, <1>2, <1>4 DEF QueueConsistent
<1>7. \A w \in Waiter : st[w] = "queued" => \E i \in 1..Len(q) : q[i] = w
  <2>1. SUFFICES ASSUME NEW w \in Waiter, st[w] = "queued"
                 PROVE  \E i \in 1..Len(q) : q[i] = w
    OBVIOUS
  <2>2. CASE w = r
    BY <1>1, <1>2, <2>2
  <2>3. CASE w # r
    <3>1. PICK i \in 1..Len(queue) : queue[i] = w
      BY <1>1, <2>1, <2>3 DEF Consistent
    <3>2. i \in 1..Len(q) /\ q[i] = w
      BY <1>1, <1>2, <3>1
    <3>3. QED
      BY <3>2
  <2>4. QED
    BY <2>2, <2>3
<1>8. st \in [Waiter -> States] /\ ready \in [Waiter -> Answers] /\ active \in Nat
  OBVIOUS
<1>9. QED
  BY <1>2, <1>3, <1>5, <1>6, <1>7, <1>8 DEF PumpInput

\* A newcomer joins an open gate: pump() runs on the queue it was added to.
LEMMA RequestOpenInvariant ==
  ASSUME GateInvariant, NEW r \in Waiter, RequestOpen(r)
  PROVE  GateInvariant'
<1> DEFINE q == Append(queue, r)
           st == [state EXCEPT ![r] = "queued"]
<1> USE DEF GateInvariant, TypeOK, States, Answers
<1>1. state[r] = "new" /\ ready[r] = "pending" /\ scopeOpen[r] /\ ~closed
  BY RequestInput
<1>2. PumpOutput(st, ready)
  <2>1. PumpInput(q, st, ready, active) /\ Pump(q, st, ready, active)
    BY RequestInput DEF RequestOpen
  <2> HIDE DEF q, st
  <2>2. QED
    BY <2>1, PumpLemma
<1> HIDE DEF q, st
<1> USE DEF PumpOutput
<1>3. TypeOK' /\ ActiveCountsHolders' /\ QueueConsistent'
  BY <1>2 DEF RequestOpen, ActiveCountsHolders, QueueConsistent
<1>4. ASSUME NEW w \in Waiter PROVE Consistent(w)'
  <2>1. /\ fiber' = [fiber EXCEPT ![r] = "awaiting"]
        /\ scopeOpen' = scopeOpen /\ closed' = closed
    BY DEF RequestOpen
  <2>2. CASE w = r
    BY <1>1, <1>2, <2>1, <2>2 DEF Consistent, st
  <2>3. CASE w # r
    <3>1. st[w] = state[w] /\ fiber'[w] = fiber[w]
      BY <2>1, <2>3 DEF st
    <3>2. QED
      BY <1>1, <1>2, <2>1, <2>3, <3>1 DEF Consistent
  <2>4. QED
    BY <2>2, <2>3
<1>5. QED
  BY <1>3, <1>4

\* On a closed gate a newcomer is turned away and the queue stays as it is.
LEMMA RequestClosedInvariant ==
  ASSUME GateInvariant, NEW r \in Waiter, RequestClosed(r)
  PROVE  GateInvariant'
<1> USE DEF GateInvariant
<1>1. state[r] = "new" /\ ready[r] = "pending" /\ scopeOpen[r] /\ closed
  BY DEF RequestClosed, Consistent
<1>2. TypeOK'
  BY DEF RequestClosed, Fail, TypeOK
<1>3. ActiveCountsHolders'
  <2>1. Held' = Held
    BY <1>1 DEF RequestClosed, Held, TypeOK
  <2>2. QED
    BY <2>1 DEF RequestClosed, ActiveCountsHolders
<1>4. QueueConsistent'
  BY LenProperties, ElementOfSeq DEF RequestClosed, QueueConsistent, TypeOK
<1>5. ASSUME NEW w \in Waiter PROVE Consistent(w)'
  BY <1>1 DEF RequestClosed, Fail, Consistent, TypeOK
<1>6. QED
  BY <1>2, <1>3, <1>4, <1>5

\* A woken fiber changes nothing but itself.
LEMMA ResumeInvariant ==
  ASSUME GateInvariant, NEW r \in Waiter, Resume(r)
  PROVE  GateInvariant'
<1> USE DEF GateInvariant
<1>1. TypeOK'
  BY DEF Resume, TypeOK
<1>2. ActiveCountsHolders' /\ QueueConsistent'
  BY DEF Resume, ActiveCountsHolders, Held, QueueConsistent
<1>3. ASSUME NEW w \in Waiter PROVE Consistent(w)'
  BY DEF Resume, CheckOpen, Consistent, TypeOK
<1>4. QED
  BY <1>1, <1>2, <1>3

\* close(): the queue is emptied and everyone in it refused.
LEMMA CloseInvariant ==
  ASSUME GateInvariant, Close
  PROVE  GateInvariant'
<1> USE DEF GateInvariant
<1>1. TypeOK'
  BY EmptySeq DEF Close, TypeOK
<1>2. Held' = Held
  BY DEF Close, Held, TypeOK, QueueConsistent
<1>3. ActiveCountsHolders' /\ QueueConsistent'
  BY <1>2 DEF Close, ActiveCountsHolders, QueueConsistent
<1>4. ASSUME NEW w \in Waiter PROVE Consistent(w)'
  BY DEF Close, Consistent, QueueConsistent, TypeOK
<1>5. QED
  BY <1>1, <1>3, <1>4

\* What release() hands to pump(): the queue, with the waiter in it released.
LEMMA ReleaseInput ==
  ASSUME GateInvariant, NEW r \in Waiter, state[r] \in {"queued", "held"},
         NEW st, st = [state EXCEPT ![r] = "released"],
         NEW rd, rd = Fail(ready, r),
         NEW used, used = IF state[r] = "held" THEN active - 1 ELSE active
  PROVE  /\ PumpInput(queue, st, rd, used)
         /\ rd[r] # "pending" /\ st[r] = "released" /\ used <= active
         /\ \A w \in Waiter : w # r => st[w] = state[w] /\ rd[w] = ready[w]
<1> USE DEF GateInvariant
<1>1. /\ st \in [Waiter -> States] /\ rd \in [Waiter -> Answers]
      /\ rd[r] # "pending"
      /\ \A w \in Waiter : w # r => st[w] = state[w] /\ rd[w] = ready[w]
      /\ st[r] = "released"
  BY DEF TypeOK, States, Answers, Fail
<1>2. /\ used \in Nat /\ used = Cardinality({w \in Waiter : st[w] = "held"})
      /\ used <= active
  <2>1. IsFiniteSet(Held) /\ active = Cardinality(Held)
    BY GateAssumption, FS_Subset DEF Held, ActiveCountsHolders
  <2>2. CASE state[r] = "held"
    <3>1. {w \in Waiter : st[w] = "held"} = Held \ {r} /\ r \in Held
      BY <1>1, <2>2 DEF Held
    <3>2. Cardinality(Held \ {r}) = Cardinality(Held) - 1
      BY <2>1, <3>1, FS_RemoveElement
    <3>3. Cardinality(Held \ {r}) \in Nat
      BY <2>1, FS_RemoveElement, FS_CardinalityType
    <3>4. used = active - 1 /\ active \in Nat
      BY <2>2 DEF TypeOK
    <3>5. used = Cardinality(Held \ {r})
      BY <2>1, <3>2, <3>4
    <3>6. Cardinality({w \in Waiter : st[w] = "held"}) = Cardinality(Held \ {r})
      BY <3>1
    <3> HIDE DEF GateInvariant
    <3>7. QED
      BY <3>3, <3>4, <3>5, <3>6
  <2>3. CASE state[r] # "held"
    <3>1. {w \in Waiter : st[w] = "held"} = Held
      BY <1>1, <2>3 DEF Held
    <3>2. used = active /\ active \in Nat
      BY <2>3 DEF TypeOK
    <3>3. QED
      BY <2>1, <3>1, <3>2
  <2>4. QED
    BY <2>2, <2>3
<1>3. /\ queue \in Seq(Waiter) /\ DOMAIN queue = 1..Len(queue)
      /\ \A i \in 1..Len(queue) : st[queue[i]] \in {"queued", "released"}
      /\ \A i, j \in 1..Len(queue) : queue[i] = queue[j] => i = j
  BY <1>1, LenProperties, ElementOfSeq DEF QueueConsistent, TypeOK
<1>4. \A w \in Waiter : st[w] = "queued" => \E i \in 1..Len(queue) : queue[i] = w
  BY <1>1, <1>3 DEF Consistent
<1>5. QED
  BY <1>1, <1>2, <1>3, <1>4 DEF PumpInput

\* A scope closes: release() gives back what the waiter has, once.
LEMMA CloseScopeInvariant ==
  ASSUME GateInvariant, NEW r \in Waiter, CloseScope(r)
  PROVE  GateInvariant'
<1> DEFINE st == [state EXCEPT ![r] = "released"]
           rd == Fail(ready, r)
           used == IF state[r] = "held" THEN active - 1 ELSE active
<1> USE DEF GateInvariant
<1>1. /\ scopeOpen' = [scopeOpen EXCEPT ![r] = FALSE]
      /\ fiber' = [fiber EXCEPT ![r] = IF @ = "awaiting" THEN @ ELSE "done"]
      /\ closed' = closed
      /\ scopeOpen[r]
  BY DEF CloseScope
<1>2. CASE state[r] \in {"new", "released"}
  <2>1. UNCHANGED <<queue, active, state, ready>>
    BY <1>2 DEF CloseScope, Release
  <2>2. TypeOK' /\ ActiveCountsHolders' /\ QueueConsistent'
    BY <1>1, <2>1 DEF TypeOK, ActiveCountsHolders, Held, QueueConsistent
  <2>3. ASSUME NEW w \in Waiter PROVE Consistent(w)'
    BY <1>1, <1>2, <2>1 DEF Consistent, TypeOK
  <2>4. QED
    BY <2>2, <2>3
<1>3. CASE state[r] \notin {"new", "released"}
  <2>1. state[r] \in {"queued", "held"}
    BY <1>3 DEF TypeOK
  <2>2. /\ PumpInput(queue, st, rd, used)
        /\ rd[r] # "pending" /\ st[r] = "released" /\ used <= active
        /\ \A w \in Waiter : w # r => st[w] = state[w] /\ rd[w] = ready[w]
    BY <2>1, ReleaseInput
  <2>3. /\ st \in [Waiter -> States] /\ rd \in [Waiter -> Answers]
        /\ used \in Nat /\ used = Cardinality({w \in Waiter : st[w] = "held"})
        /\ used <= active
    BY <2>2 DEF PumpInput
  <2>4. CASE closed
    <3>1. active' = used /\ state' = st /\ ready' = rd /\ queue' = queue
      BY <1>3, <2>4 DEF CloseScope, Release
    <3>2. TypeOK'
      BY <1>1, <2>3, <3>1 DEF TypeOK, States, Answers
    <3>3. ActiveCountsHolders'
      <4>1. active' <= limit
        BY <2>3, <3>1, GateAssumption DEF ActiveCountsHolders, TypeOK
      <4>2. Held' = {w \in Waiter : st[w] = "held"}
        BY <3>1 DEF Held
      <4>3. QED
        BY <2>3, <3>1, <4>1, <4>2 DEF ActiveCountsHolders
    <3>4. QueueConsistent'
      <4>1. \A i \in DOMAIN queue : st[queue[i]] \in {"queued", "released"}
        BY <2>2, LenProperties, ElementOfSeq DEF QueueConsistent, TypeOK
      <4>2. QED
        BY <1>1, <2>4, <3>1, <4>1 DEF QueueConsistent
    <3>5. ASSUME NEW w \in Waiter PROVE Consistent(w)'
      BY <1>1, <2>1, <2>2, <2>4, <3>1 DEF Consistent, TypeOK
    <3>6. QED
      BY <3>2, <3>3, <3>4, <3>5
  <2>5. CASE ~closed
    <3>1. Pump(queue, st, rd, used)
      BY <1>3, <2>5 DEF CloseScope, Release
    <3>4. PumpOutput(st, rd)
      <4> HIDE DEF st, rd, used
      <4>1. QED
        BY <2>2, <3>1, PumpLemma
    <3> HIDE DEF st, rd, used
    <3> USE DEF PumpOutput
    <3>5. TypeOK' /\ ActiveCountsHolders' /\ QueueConsistent'
      BY <1>1, <3>4 DEF TypeOK, States, Answers, ActiveCountsHolders, QueueConsistent
    <3>6. ASSUME NEW w \in Waiter PROVE Consistent(w)'
      <4>1. CASE w = r
        <5>1. state'[r] = "released" /\ ready'[r] = rd[r]
          BY <2>2, <3>4
        <5>2. fiber'[r] # "idle" /\ fiber'[r] # "using" /\ scopeOpen'[r] = FALSE
          BY <1>1, <2>1 DEF Consistent, TypeOK
        <5>3. QED
          BY <2>2, <4>1, <5>1, <5>2 DEF Consistent
      <4>2. CASE w # r
        <5>1. /\ st[w] = state[w] /\ rd[w] = ready[w]
              /\ fiber'[w] = fiber[w] /\ scopeOpen'[w] = scopeOpen[w]
          BY <1>1, <2>2, <4>2 DEF TypeOK
        <5>2. /\ Consistent(w) /\ closed' = closed /\ ~closed
              /\ state[w] \in States /\ state'[w] = "queued" =>
                   ready'[w] = ready[w] /\ \E i \in DOMAIN queue' : queue'[i] = w
              /\ \/ state'[w] = state[w] /\ ready'[w] = ready[w]
                 \/ state[w] = "queued" /\ state'[w] = "held" /\ ready'[w] = "granted"
          BY <1>1, <2>5, <3>4, <5>1 DEF TypeOK, States
        <5>3. QED
          BY <5>1, <5>2 DEF Consistent, States
      <4>3. QED
        BY <4>1, <4>2
    <3>7. QED
      BY <3>5, <3>6
  <2>6. QED
    BY <2>4, <2>5
<1>4. QED
  BY <1>2, <1>3

\* Every step of the gate, and every stutter, preserves the invariant.
LEMMA InvariantStep == GateInvariant /\ [Next]_vars => GateInvariant'
<1> SUFFICES ASSUME GateInvariant, [Next]_vars PROVE GateInvariant'
  OBVIOUS
<1>1. ASSUME NEW w \in Waiter, RequestOpen(w) PROVE GateInvariant'
  BY <1>1, RequestOpenInvariant
<1>2. ASSUME NEW w \in Waiter, RequestClosed(w) PROVE GateInvariant'
  BY <1>2, RequestClosedInvariant
<1>3. ASSUME NEW w \in Waiter, Resume(w) PROVE GateInvariant'
  BY <1>3, ResumeInvariant
<1>4. ASSUME NEW w \in Waiter, CloseScope(w) PROVE GateInvariant'
  BY <1>4, CloseScopeInvariant
<1>5. CASE Close
  BY <1>5, CloseInvariant
<1>6. CASE UNCHANGED vars
  BY <1>6 DEF vars, GateInvariant, TypeOK, ActiveCountsHolders, Held,
    QueueConsistent, Consistent
<1>7. QED
  BY <1>1, <1>2, <1>3, <1>4, <1>5, <1>6 DEF Next, Finished

----------------------------------------------------------------------------
(***************************************************************************)
(* The refinement of Turnstile.  What pump() does depends on the permits   *)
(* that are free: none, and it does nothing; or one, which release() has   *)
(* made free, and the first who waits is served.                           *)
(***************************************************************************)
\* Cardinality means the same in the turnstile and here.
LEMMA SameCardinality == ASSUME NEW S PROVE Line!Cardinality(S) = Cardinality(S)
BY DEF Line!Cardinality, Cardinality, Line!IsFiniteSet, IsFiniteSet

\* u is before v in the queue q.
Before(q, u, v) == \E i, j \in 1..Len(q) : i < j /\ q[i] = u /\ q[j] = v

\* How many pump() takes, and what it leaves of the queue.
LEMMA PumpTakes ==
  ASSUME NEW q, NEW st, NEW rd, NEW used,
         PumpInput(q, st, rd, used), Pump(q, st, rd, used)
  PROVE  \E k \in 0..Len(q) :
           /\ PumpStops(q, st, used, k)
           /\ queue' = SubSeq(q, k + 1, Len(q))
           /\ DOMAIN queue' = 1..(Len(q) - k)
           /\ \A i \in 1..(Len(q) - k) : queue'[i] = q[k + i]
           /\ state' = [w \in Waiter |-> IF w \in Taken(q, st, k) THEN "held" ELSE st[w]]
<1>1. q \in Seq(Waiter) /\ Len(q) \in Nat
  BY LenProperties DEF PumpInput
<1>2. PICK k \in 0..Len(q) :
        /\ PumpStops(q, st, used, k)
        /\ queue' = SubSeq(q, k + 1, Len(q))
        /\ state' = [w \in Waiter |-> IF w \in Taken(q, st, k) THEN "held" ELSE st[w]]
  BY DEF Pump
<1>3. DOMAIN queue' = 1..(Len(q) - k) /\ \A i \in 1..(Len(q) - k) : queue'[i] = q[k + i]
  BY <1>1, <1>2
<1>4. QED
  BY <1>2, <1>3

\* Those whom pump() leaves in line keep their order.
LEMMA PumpOrder ==
  ASSUME NEW q, NEW st, NEW rd, NEW used,
         PumpInput(q, st, rd, used), Pump(q, st, rd, used),
         NEW u \in Waiter, NEW v \in Waiter, state'[u] = "queued", state'[v] = "queued"
  PROVE  Precedes(u, v)' <=> Before(q, u, v)
<1>1. Len(q) \in Nat
  BY LenProperties DEF PumpInput
<1>a. PICK k \in 0..Len(q) :
        /\ PumpStops(q, st, used, k)
        /\ queue' = SubSeq(q, k + 1, Len(q))
        /\ DOMAIN queue' = 1..(Len(q) - k)
        /\ \A i \in 1..(Len(q) - k) : queue'[i] = q[k + i]
        /\ state' = [w \in Waiter |-> IF w \in Taken(q, st, k) THEN "held" ELSE st[w]]
  BY PumpTakes
<1>2. /\ DOMAIN queue' = 1..(Len(q) - k)
      /\ \A i \in 1..(Len(q) - k) : queue'[i] = q[k + i]
      /\ state' = [w \in Waiter |-> IF w \in Taken(q, st, k) THEN "held" ELSE st[w]]
  BY <1>a
<1>3. \A i \in 1..Len(q) : q[i] \in {u, v} => k < i
  BY <1>1, <1>2 DEF Taken
<1>4. ASSUME Precedes(u, v)' PROVE Before(q, u, v)
  <2>1. PICK i \in 1..(Len(q) - k), j \in 1..(Len(q) - k) :
          i < j /\ q[k + i] = u /\ q[k + j] = v
    BY <1>2, <1>4 DEF Precedes
  <2>2. k + i \in 1..Len(q) /\ k + j \in 1..Len(q) /\ k + i < k + j
    BY <1>1, <2>1
  <2>3. QED
    BY <2>1, <2>2 DEF Before
<1>5. ASSUME Before(q, u, v) PROVE Precedes(u, v)'
  <2>1. PICK i \in 1..Len(q), j \in 1..Len(q) : i < j /\ q[i] = u /\ q[j] = v
    BY <1>5 DEF Before
  <2>2. k < i /\ k < j
    BY <1>3, <2>1
  <2>3. /\ i - k \in 1..(Len(q) - k) /\ j - k \in 1..(Len(q) - k) /\ i - k < j - k
        /\ k + (i - k) = i /\ k + (j - k) = j
    BY <1>1, <2>1, <2>2
  <2>4. queue'[i - k] = u /\ queue'[j - k] = v
    BY <1>2, <2>1, <2>3
  <2>5. QED
    BY <1>2, <2>3, <2>4 DEF Precedes
<1>6. QED
  BY <1>4, <1>5

\* Who is taken is counted.
LEMMA TakenCounted ==
  ASSUME NEW q, NEW st, NEW k
  PROVE  IsFiniteSet(Taken(q, st, k)) /\ Cardinality(Taken(q, st, k)) \in Nat
<1>1. Taken(q, st, k) \in SUBSET Waiter
  BY DEF Taken
<1>2. QED
  BY <1>1, GateAssumption, FS_Subset, FS_CardinalityType

\* With all permits in use, pump() takes nobody out of the queue.
LEMMA PumpFull ==
  ASSUME NEW q, NEW st, NEW rd,
         PumpInput(q, st, rd, limit), Pump(q, st, rd, limit)
  PROVE  queue' = q /\ state' = st
<1>1. q \in Seq(Waiter) /\ Len(q) \in Nat /\ st \in [Waiter -> States]
      /\ \A i \in 1..Len(q) : q[i] \in Waiter
  BY LenProperties, ElementOfSeq DEF PumpInput
<1>2. PICK k \in 0..Len(q) :
        /\ PumpStops(q, st, limit, k)
        /\ queue' = SubSeq(q, k + 1, Len(q))
        /\ DOMAIN queue' = 1..(Len(q) - k)
        /\ \A i \in 1..(Len(q) - k) : queue'[i] = q[k + i]
        /\ state' = [w \in Waiter |-> IF w \in Taken(q, st, k) THEN "held" ELSE st[w]]
  BY PumpTakes
<1> DEFINE G == Taken(q, st, k)
<1>3. IsFiniteSet(G) /\ Cardinality(G) \in Nat
  BY TakenCounted
<1>4. limit + Cardinality(G) <= limit
  BY <1>2 DEF PumpStops
<1>5. Cardinality(G) = 0
  BY <1>3, <1>4, GateAssumption
<1>6. G = {}
  BY <1>3, <1>5, FS_EmptySet
<1>7. k = 0
  <2>1. SUFFICES ASSUME k > 0 PROVE FALSE
    BY <1>1
  <2>2. limit + Cardinality(G) = limit
    BY <1>5, GateAssumption
  <2>3. st[q[k]] = "queued" /\ k \in 1..k /\ k \in 1..Len(q)
    BY <1>1, <1>2, <2>1, <2>2 DEF PumpStops
  <2>4. q[k] \in G
    BY <1>1, <2>3 DEF Taken
  <2>5. QED
    BY <1>6, <2>4
<1>8. QED
  BY <1>1, <1>2, <1>6, <1>7

\* With nobody in line, pump() gives no permit.
LEMMA PumpNobody ==
  ASSUME NEW q, NEW st, NEW rd, NEW used,
         PumpInput(q, st, rd, used), Pump(q, st, rd, used),
         \A w \in Waiter : st[w] # "queued"
  PROVE  state' = st
<1>1. PICK k \in 0..Len(q) :
        state' = [w \in Waiter |-> IF w \in Taken(q, st, k) THEN "held" ELSE st[w]]
  BY PumpTakes
<1>2. QED
  BY <1>1 DEF Taken, PumpInput

\* With one permit free and somebody in line, pump() gives it to the first in line.
LEMMA PumpOne ==
  ASSUME NEW q, NEW st, NEW rd, NEW used,
         PumpInput(q, st, rd, used), Pump(q, st, rd, used),
         used = limit - 1, \E w \in Waiter : st[w] = "queued"
  PROVE  \E u \in Waiter :
           /\ st[u] = "queued" /\ state' = [st EXCEPT ![u] = "held"]
           /\ \A w \in Waiter : st[w] = "queued" => ~ Before(q, w, u)
<1>1. q \in Seq(Waiter) /\ Len(q) \in Nat /\ st \in [Waiter -> States]
      /\ \A i \in 1..Len(q) : q[i] \in Waiter
  BY LenProperties, ElementOfSeq DEF PumpInput
<1>2. PICK k \in 0..Len(q) :
        /\ PumpStops(q, st, used, k)
        /\ state' = [w \in Waiter |-> IF w \in Taken(q, st, k) THEN "held" ELSE st[w]]
  BY PumpTakes
<1> DEFINE G == Taken(q, st, k)
<1>3. IsFiniteSet(G) /\ Cardinality(G) \in Nat /\ k \in Nat /\ k <= Len(q)
  BY <1>1, TakenCounted
<1>4. used + Cardinality(G) = limit
  <2>1. SUFFICES ASSUME used + Cardinality(G) # limit PROVE FALSE
    OBVIOUS
  <2>2. used + Cardinality(G) < limit /\ k = Len(q)
    BY <1>2, <1>3, <2>1, GateAssumption DEF PumpStops
  <2>3. PICK w \in Waiter : st[w] = "queued"
    OBVIOUS
  <2>4. w \in G
    BY <2>2, <2>3 DEF PumpInput, Taken
  <2>5. Cardinality(G) = 0
    BY <1>3, <2>2, GateAssumption
  <2>6. G = {}
    BY <1>3, <2>5, FS_EmptySet
  <2>7. QED
    BY <2>4, <2>6
<1>5. Cardinality(G) = 1
  BY <1>3, <1>4, GateAssumption
<1>6. PICK u : G = {u}
  BY <1>3, <1>5, FS_Singleton
<1>7. u \in Waiter /\ st[u] = "queued" /\ \E i \in 1..k : q[i] = u
  BY <1>6 DEF Taken
<1>8. q[k] = u /\ k \in 1..Len(q)
  <2>1. k > 0 /\ st[q[k]] = "queued"
    BY <1>2, <1>3, <1>4, <1>7 DEF PumpStops
  <2>2. q[k] \in G /\ k \in 1..Len(q)
    BY <1>1, <1>3, <2>1 DEF Taken
  <2>3. QED
    BY <1>6, <2>2
<1>9. state' = [st EXCEPT ![u] = "held"]
  BY <1>1, <1>2, <1>6
<1>10. ASSUME NEW w \in Waiter, st[w] = "queued", Before(q, w, u) PROVE FALSE
  <2>1. PICK i \in 1..Len(q), j \in 1..Len(q) : i < j /\ q[i] = w /\ q[j] = u
    BY <1>10 DEF Before
  <2>2. j = k
    BY <1>8, <2>1 DEF PumpInput
  <2>3. i \in 1..k
    BY <1>3, <2>1, <2>2
  <2>4. w \in G
    BY <1>10, <2>1, <2>3 DEF Taken
  <2>5. w = u
    BY <1>6, <2>4
  <2>6. i = j
    BY <2>1, <2>5 DEF PumpInput
  <2>7. QED
    BY <2>1, <2>6
<1>11. QED
  BY <1>7, <1>9, <1>10

\* The queue of an open gate, and what Before() says of it.
LEMMA BeforeIsPrecedes ==
  ASSUME TypeOK, NEW u, NEW v
  PROVE  Before(queue, u, v) <=> Precedes(u, v)
BY LenProperties DEF TypeOK, Before, Precedes

\* The order of the line after pump() is that of the queue it ran on.
LEMMA LineAfterPump ==
  ASSUME NEW q, NEW st, NEW rd, NEW used,
         PumpInput(q, st, rd, used), Pump(q, st, rd, used)
  PROVE  \A u, v : <<u, v>> \in QueueOrder' <=>
           u \in QueuedWaiters' /\ v \in QueuedWaiters' /\ Before(q, u, v)
<1>1. SUFFICES ASSUME NEW u, NEW v
               PROVE  <<u, v>> \in QueueOrder' <=>
                        u \in QueuedWaiters' /\ v \in QueuedWaiters' /\ Before(q, u, v)
  OBVIOUS
<1>2. <<u, v>> \in QueueOrder' <=>
        u \in QueuedWaiters' /\ v \in QueuedWaiters' /\ Precedes(u, v)'
  BY DEF QueueOrder
<1>3. ASSUME u \in QueuedWaiters', v \in QueuedWaiters'
      PROVE  Precedes(u, v)' <=> Before(q, u, v)
  <2>1. u \in Waiter /\ v \in Waiter /\ state'[u] = "queued" /\ state'[v] = "queued"
    BY <1>3 DEF QueuedWaiters
  <2>2. QED
    BY <2>1, PumpOrder
<1>4. QED
  BY <1>2, <1>3

\* The order of the line before a step.
LEMMA LineBefore ==
  ASSUME TypeOK
  PROVE  /\ QueueOrder \in SUBSET (Waiter \X Waiter)
         /\ \A u, v : <<u, v>> \in QueueOrder <=>
              u \in QueuedWaiters /\ v \in QueuedWaiters /\ Before(queue, u, v)
<1>1. QueueOrder \in SUBSET (Waiter \X Waiter)
  BY DEF QueueOrder, QueuedWaiters
<1>2. ASSUME NEW u, NEW v
      PROVE  <<u, v>> \in QueueOrder <=>
               u \in QueuedWaiters /\ v \in QueuedWaiters /\ Before(queue, u, v)
  BY BeforeIsPrecedes DEF QueueOrder
<1>3. QED
  BY <1>1, <1>2

\* On an open gate with a permit free nobody waits, and with none free all are held.
LEMMA LineOfOpenGate ==
  ASSUME GateInvariant, ~closed
  PROVE  /\ active < limit => queue = <<>> /\ QueuedWaiters = {}
         /\ QueuedWaiters # {} => active = limit
<1>1. active \in Nat /\ limit \in Nat /\ active <= limit
  BY GateAssumption DEF GateInvariant, TypeOK, ActiveCountsHolders
<1>2. ASSUME active < limit PROVE queue = <<>> /\ QueuedWaiters = {}
  <2>1. queue = <<>>
    BY <1>2 DEF GateInvariant, QueueConsistent
  <2>2. \A i \in DOMAIN queue : FALSE
    BY <2>1
  <2>3. QED
    BY <2>1, <2>2 DEF GateInvariant, Consistent, QueuedWaiters
<1>3. QED
  BY <1>1, <1>2

\* request() on an open gate goes in when a permit is free, and joins the line
\* at its end when none is.
LEMMA RequestOpenRefines ==
  ASSUME GateInvariant, NEW r \in Waiter, RequestOpen(r)
  PROVE  Line!Enter(r) \/ Line!Wait(r)
<1> DEFINE q == Append(queue, r)
           st == [state EXCEPT ![r] = "queued"]
<1>1. /\ state[r] = "new" /\ ~closed /\ closed' = closed
      /\ PumpInput(q, st, ready, active) /\ Pump(q, st, ready, active)
  BY RequestInput DEF RequestOpen
<1>2. /\ state \in [Waiter -> States] /\ st[r] = "queued"
      /\ \A w \in Waiter : w # r => st[w] = state[w]
  BY DEF GateInvariant, TypeOK, States
<1>3. r \notin Held /\ r \notin QueuedWaiters
  BY <1>1 DEF Held, QueuedWaiters
<1>4. /\ active = Cardinality(Held) /\ active <= limit /\ active \in Nat /\ limit \in Nat
      /\ Line!Cardinality(Held) = active
  BY GateAssumption, SameCardinality DEF GateInvariant, TypeOK, ActiveCountsHolders
<1>5. /\ queue \in Seq(Waiter) /\ Len(queue) \in Nat /\ Len(q) = Len(queue) + 1
      /\ q[Len(queue) + 1] = r /\ \A i \in 1..Len(queue) : q[i] = queue[i]
  BY LenProperties, AppendProperties DEF GateInvariant, TypeOK
<1>6. \A i, j \in 1..Len(q) : q[i] = q[j] => i = j
  BY <1>1 DEF PumpInput
<1> HIDE DEF q, st
<1>7. CASE active < limit
  <2>1. queue = <<>> /\ QueuedWaiters = {}
    BY <1>1, <1>7, LineOfOpenGate
  <2>2. PumpOutput(st, ready)
    BY <1>1, PumpLemma
  <2>3. \A w \in Waiter : w # r => state[w] # "queued" /\ state'[w] = state[w]
    BY <1>2, <2>1, <2>2 DEF PumpOutput, QueuedWaiters
  <2>4. state'[r] = "held"
    <3>1. SUFFICES ASSUME state'[r] # "held" PROVE FALSE
      OBVIOUS
    <3>2. state'[r] = "queued" /\ \E i \in DOMAIN queue' : queue'[i] = r
      BY <1>2, <2>2, <3>1 DEF PumpOutput
    <3>3. Held' = Held
      BY <1>1, <2>3, <3>2 DEF Held
    <3>4. active' < limit
      BY <1>4, <1>7, <2>2, <3>3 DEF PumpOutput
    <3>5. queue' = <<>>
      BY <2>2, <3>4 DEF PumpOutput
    <3>6. QED
      BY <3>2, <3>5
  <2>5. Held' = Held \cup {r} /\ QueuedWaiters' = {}
    BY <2>3, <2>4 DEF Held, QueuedWaiters
  <2>6. QueueOrder = {} /\ QueueOrder' = {}
    BY <2>1, <2>5 DEF QueueOrder
  <2>7. Line!Enter(r)
    BY <1>1, <1>3, <1>4, <1>7, <2>1, <2>5, <2>6 DEF Line!Enter
  <2>8. QED
    BY <2>7
<1>8. CASE active = limit
  <2>1. state' = st
    BY <1>1, <1>8, PumpFull
  <2>2. Held' = Held /\ QueuedWaiters' = QueuedWaiters \cup {r}
    BY <1>1, <1>2, <2>1 DEF Held, QueuedWaiters
  <2>3. \A u, v : <<u, v>> \in QueueOrder' <=>
          u \in QueuedWaiters' /\ v \in QueuedWaiters' /\ Before(q, u, v)
    BY <1>1, LineAfterPump
  <2>4. /\ QueueOrder \in SUBSET (Waiter \X Waiter)
        /\ \A u, v : <<u, v>> \in QueueOrder <=>
             u \in QueuedWaiters /\ v \in QueuedWaiters /\ Before(queue, u, v)
    BY LineBefore DEF GateInvariant
  <2>5. QueueOrder' \in SUBSET (Waiter \X Waiter)
    BY DEF QueueOrder, QueuedWaiters
  <2>6. ASSUME NEW u \in QueuedWaiters PROVE Before(q, u, r)
    <3>1. PICK i \in 1..Len(queue) : queue[i] = u
      BY LenProperties DEF GateInvariant, TypeOK, Consistent, QueuedWaiters
    <3>2. /\ i \in 1..Len(q) /\ Len(queue) + 1 \in 1..Len(q) /\ i < Len(queue) + 1
          /\ q[i] = u
      BY <1>5, <3>1
    <3>3. QED
      BY <1>5, <3>2 DEF Before
  <2>7. ASSUME NEW v, Before(q, r, v) PROVE FALSE
    <3>1. PICK i \in 1..Len(q), j \in 1..Len(q) : i < j /\ q[i] = r /\ q[j] = v
      BY <2>7 DEF Before
    <3>2. i = Len(queue) + 1
      BY <1>5, <1>6, <3>1
    <3>3. QED
      BY <1>5, <3>1, <3>2
  <2>8. ASSUME NEW u, NEW v, u # r, v # r PROVE Before(q, u, v) <=> Before(queue, u, v)
    <3>1. ASSUME NEW i \in 1..Len(q), q[i] # r PROVE i \in 1..Len(queue)
      BY <1>5, <3>1
    <3>2. 1..Len(queue) \subseteq 1..Len(q)
      BY <1>5
    <3>3. QED
      BY <1>5, <2>8, <3>1, <3>2 DEF Before
  <2>9. ASSUME NEW u, NEW v
        PROVE  <<u, v>> \in QueueOrder' <=>
                 <<u, v>> \in QueueOrder \/ (u \in QueuedWaiters /\ v = r)
    <3>1. CASE u = r
      BY <1>3, <2>3, <2>4, <2>7, <3>1
    <3>2. CASE u # r /\ v = r
      BY <1>3, <2>2, <2>3, <2>4, <2>6, <3>2
    <3>3. CASE u # r /\ v # r
      BY <2>2, <2>3, <2>4, <2>8, <3>3
    <3>4. QED
      BY <3>1, <3>2, <3>3
  <2>10. QueueOrder' = QueueOrder \cup (QueuedWaiters \X {r})
    BY <2>4, <2>5, <2>9
  <2>11. Line!Wait(r)
    BY <1>1, <1>3, <1>4, <1>8, <2>2, <2>10 DEF Line!Wait
  <2>12. QED
    BY <2>11
<1>9. QED
  BY <1>4, <1>7, <1>8

\* Who is turned away, and who wakes, was not in line and is not inside.
LEMMA StuttersRefine ==
  ASSUME GateInvariant, NEW r \in Waiter, RequestClosed(r) \/ Resume(r)
  PROVE  UNCHANGED Line!vars
<1>1. queue' = queue /\ closed' = closed
  BY DEF RequestClosed, Resume
<1>2. Held' = Held /\ QueuedWaiters' = QueuedWaiters
  BY DEF RequestClosed, Resume, GateInvariant, TypeOK, Consistent, Held, QueuedWaiters
<1>3. QueueOrder' = QueueOrder
  BY <1>1, <1>2 DEF QueueOrder, Precedes
<1>4. QED
  BY <1>1, <1>2, <1>3 DEF Line!vars

\* close() sends the whole line away and leaves those inside where they are.
LEMMA CloseRefines ==
  ASSUME GateInvariant, Close
  PROVE  Line!Shut
<1>1. Held' = Held
  BY DEF Close, Held, GateInvariant, TypeOK, QueueConsistent
<1>2. QueuedWaiters' = {}
  BY DEF Close, QueuedWaiters, GateInvariant, TypeOK, Consistent
<1>3. QueueOrder' = {}
  BY <1>2 DEF QueueOrder
<1>4. QED
  BY <1>1, <1>2, <1>3 DEF Line!Shut, Close

\* release() of a queued waiter lets it step out of the line; of a holder, it
\* lets the head of the line in.
LEMMA CloseScopeRefines ==
  ASSUME GateInvariant, NEW r \in Waiter, CloseScope(r)
  PROVE  Line!GiveUp(r) \/ Line!Leave(r) \/ UNCHANGED Line!vars
<1> DEFINE st == [state EXCEPT ![r] = "released"]
           rd == Fail(ready, r)
           used == IF state[r] = "held" THEN active - 1 ELSE active
<1>1. Release(r) /\ closed' = closed
  BY DEF CloseScope
<1>2. /\ state \in [Waiter -> States] /\ st[r] = "released"
      /\ \A w \in Waiter : w # r => st[w] = state[w]
  BY DEF GateInvariant, TypeOK, States
<1>3. CASE state[r] \in {"new", "released"}
  <2>1. state' = state /\ queue' = queue
    BY <1>1, <1>3 DEF Release
  <2>2. QED
    BY <1>1, <2>1 DEF Line!vars, Held, QueuedWaiters, QueueOrder, Precedes
<1>4. CASE state[r] \in {"queued", "held"} /\ closed
  <2>1. QueuedWaiters = {}
    BY <1>4 DEF GateInvariant, Consistent, QueuedWaiters
  <2>2. state[r] = "held" /\ state' = st
    BY <1>1, <1>4, <2>1 DEF Release, QueuedWaiters
  <2>3. r \in Held /\ Held' = Held \ {r} /\ QueuedWaiters' = {}
    BY <1>2, <2>1, <2>2 DEF Held, QueuedWaiters
  <2>4. QueueOrder = {} /\ QueueOrder' = {}
    BY <2>1, <2>3 DEF QueueOrder
  <2>5. Line!Leave(r)
    BY <1>1, <2>1, <2>3, <2>4 DEF Line!Leave
  <2>6. QED
    BY <2>5
<1>5. ASSUME state[r] \in {"queued", "held"}, ~closed
      PROVE  PumpInput(queue, st, rd, used) /\ Pump(queue, st, rd, used)
  BY <1>1, <1>5, ReleaseInput DEF Release
<1>6. /\ active \in Nat /\ limit \in Nat
      /\ state[r] = "queued" => used = active /\ r \in QueuedWaiters
      /\ state[r] = "held" => used = active - 1 /\ r \in Held
  BY GateAssumption DEF GateInvariant, TypeOK, QueuedWaiters, Held
<1>7. /\ QueueOrder \in SUBSET (Waiter \X Waiter)
      /\ \A u, v : <<u, v>> \in QueueOrder <=>
           u \in QueuedWaiters /\ v \in QueuedWaiters /\ Before(queue, u, v)
  BY LineBefore DEF GateInvariant
<1>8. QueueOrder' \in SUBSET (Waiter \X Waiter)
  BY DEF QueueOrder, QueuedWaiters
<1> HIDE DEF st, rd, used
<1>9. ASSUME state[r] \in {"queued", "held"}, ~closed,
             NEW x, QueuedWaiters' = QueuedWaiters \ {x}
      PROVE  Line!StepsOut(x)
  <2>1. \A u, v : <<u, v>> \in QueueOrder' <=>
          u \in QueuedWaiters' /\ v \in QueuedWaiters' /\ Before(queue, u, v)
    BY <1>5, <1>9, LineAfterPump
  <2>2. \A u, v : <<u, v>> \in QueueOrder' <=> <<u, v>> \in QueueOrder /\ x \notin {u, v}
    BY <1>7, <1>9, <2>1
  <2>3. ASSUME NEW pair \in Waiter \X Waiter
        PROVE  pair \in QueueOrder' <=>
                 pair \in QueueOrder /\ x \notin {pair[1], pair[2]}
    <3>1. pair = <<pair[1], pair[2]>>
      OBVIOUS
    <3>2. QED
      BY <2>2, <3>1
  <2>4. QueueOrder' = {pair \in QueueOrder : x \notin {pair[1], pair[2]}}
    BY <1>7, <1>8, <2>3
  <2>5. QED
    BY <1>9, <2>4 DEF Line!StepsOut
<1>10. CASE state[r] = "queued" /\ ~closed
  <2>1. active = limit
    BY <1>6, <1>10, LineOfOpenGate
  <2>2. PumpInput(queue, st, rd, limit) /\ Pump(queue, st, rd, limit)
    BY <1>5, <1>6, <1>10, <2>1
  <2>3. state' = st
    BY <2>2, PumpFull
  <2>4. Held' = Held /\ QueuedWaiters' = QueuedWaiters \ {r}
    BY <1>2, <1>10, <2>3 DEF Held, QueuedWaiters
  <2>5. Line!StepsOut(r)
    BY <1>9, <1>10, <2>4
  <2>6. Line!GiveUp(r)
    BY <1>1, <1>6, <1>10, <2>4, <2>5 DEF Line!GiveUp
  <2>7. QED
    BY <2>6
<1>11. CASE state[r] = "held" /\ ~closed /\ QueuedWaiters = {}
  <2>1. PumpInput(queue, st, rd, used) /\ Pump(queue, st, rd, used)
    BY <1>5, <1>11
  <2>2. \A w \in Waiter : st[w] # "queued"
    BY <1>2, <1>11 DEF QueuedWaiters
  <2>3. state' = st
    BY <2>1, <2>2, PumpNobody
  <2>4. Held' = Held \ {r} /\ QueuedWaiters' = {}
    BY <1>2, <2>2, <2>3 DEF Held, QueuedWaiters
  <2>5. QueueOrder = {} /\ QueueOrder' = {}
    BY <1>11, <2>4 DEF QueueOrder
  <2>6. Line!Leave(r)
    BY <1>1, <1>6, <1>11, <2>4, <2>5 DEF Line!Leave
  <2>7. QED
    BY <2>6
<1>12. CASE state[r] = "held" /\ ~closed /\ QueuedWaiters # {}
  <2>1. PumpInput(queue, st, rd, used) /\ Pump(queue, st, rd, used) /\ used = limit - 1
    BY <1>5, <1>6, <1>12, LineOfOpenGate
  <2>2. \E w \in Waiter : st[w] = "queued"
    BY <1>2, <1>12 DEF QueuedWaiters
  <2>3. PICK u \in Waiter :
          /\ st[u] = "queued" /\ state' = [st EXCEPT ![u] = "held"]
          /\ \A w \in Waiter : st[w] = "queued" => ~ Before(queue, w, u)
    BY <2>1, <2>2, PumpOne
  <2>4. st \in [Waiter -> States] /\ u # r /\ u \in QueuedWaiters
    BY <1>2, <2>1, <2>3 DEF PumpInput, QueuedWaiters
  <2>5. Held' = (Held \ {r}) \cup {u} /\ QueuedWaiters' = QueuedWaiters \ {u}
    BY <1>2, <1>12, <2>3, <2>4 DEF Held, QueuedWaiters
  <2>6. Line!StepsOut(u)
    BY <1>9, <1>12, <2>5
  <2>7. Line!IsHead(u)
    BY <1>2, <1>7, <1>12, <2>3, <2>4 DEF Line!IsHead, QueuedWaiters
  <2>8. Line!Leave(r)
    BY <1>1, <1>6, <1>12, <2>5, <2>6, <2>7 DEF Line!Leave
  <2>9. QED
    BY <2>8
<1>13. state[r] \in States
  BY <1>2
<1>14. QED
  BY <1>3, <1>4, <1>10, <1>11, <1>12, <1>13 DEF States

\* A new gate is an empty turnstile.
LEMMA InitRefines == Init => Line!Init
BY DEF Init, Line!Init, QueuedWaiters, QueueOrder, Held

\* Every step of the gate is a step of the turnstile, or none.
LEMMA StepRefines == GateInvariant /\ [Next]_vars => [Line!Next]_Line!vars
<1> SUFFICES ASSUME GateInvariant, [Next]_vars PROVE Line!Next \/ UNCHANGED Line!vars
  OBVIOUS
<1>1. ASSUME NEW w \in Waiter, RequestOpen(w) PROVE Line!Next
  BY <1>1, RequestOpenRefines DEF Line!Next
<1>2. ASSUME NEW w \in Waiter, RequestClosed(w) \/ Resume(w)
      PROVE  UNCHANGED Line!vars
  BY <1>2, StuttersRefine
<1>3. ASSUME NEW w \in Waiter, CloseScope(w) PROVE Line!Next \/ UNCHANGED Line!vars
  BY <1>3, CloseScopeRefines DEF Line!Next
<1>4. CASE Close
  BY <1>4, CloseRefines DEF Line!Next
<1>5. CASE UNCHANGED vars
  BY <1>5 DEF vars, Line!vars, Held, QueuedWaiters, QueueOrder, Precedes
<1>6. QED
  BY <1>1, <1>2, <1>3, <1>4, <1>5 DEF Next, Finished

----------------------------------------------------------------------------
(***************************************************************************)
(* The theorems.  Each is a property that the runs of MCExecutionGate      *)
(* check on an instance, for every finite set of waiters and every limit.  *)
(***************************************************************************)

\* The inductive invariant of the gate.
THEOREM InvariantCorrect == Spec => []GateInvariant
  BY InitInvariant, InvariantStep, PTL DEF Spec

\* The variables of the gate keep their types.
THEOREM TypeCorrect == Spec => []TypeOK
<1>1. GateInvariant => TypeOK
  BY DEF GateInvariant
<1>2. QED
  BY <1>1, InvariantCorrect, PTL

\* pump() compares an exact count of the holders with the limit.
THEOREM CountCorrect == Spec => []ActiveCountsHolders
<1>1. GateInvariant => ActiveCountsHolders
  BY DEF GateInvariant
<1>2. QED
  BY <1>1, InvariantCorrect, PTL

\* No more agents run at once than the run's concurrency allows, however
\* requests, releases, closing scopes and the abort interleave.
THEOREM BoundCorrect == Spec => []PermitsBoundAgents
<1>1. ASSUME GateInvariant PROVE PermitsBoundAgents
  <2>1. \A w \in Using : state[w] = "held" /\ scopeOpen[w]
    BY <1>1 DEF GateInvariant, Consistent, Using
  <2>2. Using \subseteq Held /\ IsFiniteSet(Held)
    BY <2>1, GateAssumption, FS_Subset DEF Using, Held
  <2>3. Cardinality(Using) <= Cardinality(Held) /\ IsFiniteSet(Using)
    BY <2>2, FS_Subset
  <2>4. Cardinality(Using) \in Nat /\ Cardinality(Held) \in Nat
    BY <2>2, <2>3, FS_CardinalityType
  <2>5. Cardinality(Held) <= limit
    BY <1>1 DEF GateInvariant, ActiveCountsHolders
  <2>6. QED
    BY <2>1, <2>3, <2>4, <2>5, GateAssumption DEF PermitsBoundAgents
<1>2. QED
  BY <1>1, InvariantCorrect, PTL

\* A free permit is never left while a live waiter is in the queue.
THEOREM NoIdleCorrect == Spec => []NoIdlePermit
<1>1. ASSUME GateInvariant PROVE NoIdlePermit
  <2>1. SUFFICES ASSUME ~closed, active < limit PROVE QueuedWaiters = {}
    BY DEF NoIdlePermit
  <2>2. queue = <<>>
    BY <1>1, <2>1 DEF GateInvariant, QueueConsistent
  <2>3. \A i \in DOMAIN queue : FALSE
    BY <2>2
  <2>4. QED
    BY <1>1, <2>3 DEF GateInvariant, Consistent, QueuedWaiters
<1>2. QED
  BY <1>1, InvariantCorrect, PTL

\* After close() no fiber is left asleep without an answer.
THEOREM AbortReachesAll == Spec => []CloseAnswersAll
<1>1. ASSUME GateInvariant PROVE CloseAnswersAll
  BY <1>1 DEF GateInvariant, Consistent, CloseAnswersAll, TypeOK
<1>2. QED
  BY <1>1, InvariantCorrect, PTL

\* Neither a release nor an abort leaves a fiber behind in the queue.
THEOREM ForgottenCorrect == Spec => []NobodyForgotten
<1>1. NoIdlePermit /\ CloseAnswersAll => NobodyForgotten
  BY DEF NobodyForgotten
<1> QED
  BY <1>1, NoIdleCorrect, AbortReachesAll, PTL

\* After close() nobody is given a permit and nobody starts to use one.
THEOREM NoGrantCorrect == Spec => NoGrantAfterClose
<1>1. ASSUME GateInvariant, [Next]_vars
      PROVE  [closed => Held' \subseteq Held /\ Using' \subseteq Using]_vars
  <2>1. SUFFICES ASSUME closed, Next PROVE Held' \subseteq Held /\ Using' \subseteq Using
    BY <1>1 DEF vars, Held, Using
  <2>2. ASSUME NEW w \in Waiter, RequestClosed(w)
        PROVE  Held' \subseteq Held /\ Using' \subseteq Using
    BY <1>1, <2>2 DEF RequestClosed, Held, Using, GateInvariant, TypeOK
  <2>3. ASSUME NEW w \in Waiter, Resume(w)
        PROVE  Held' \subseteq Held /\ Using' \subseteq Using
    BY <1>1, <2>1, <2>3 DEF Resume, CheckOpen, Held, Using, GateInvariant, TypeOK
  <2>4. ASSUME NEW w \in Waiter, CloseScope(w)
        PROVE  Held' \subseteq Held /\ Using' \subseteq Using
    BY <1>1, <2>1, <2>4 DEF CloseScope, Release, Held, Using, GateInvariant, TypeOK
  <2>5. QED
    BY <2>1, <2>2, <2>3, <2>4 DEF Next, RequestOpen, Close, Finished, vars, Held, Using
<1>2. QED
  BY <1>1, InvariantCorrect, PTL DEF Spec, NoGrantAfterClose

\* The gate of runtime.ts is a turnstile: a permit that is given back goes to
\* whoever has waited longest, in the same step, and nobody overtakes.
THEOREM TurnstileCorrect == Spec => ImplementsTurnstile
<1>1. GateInvariant /\ [Next]_vars => [Line!Next]_Line!vars
  BY StepRefines
<1>2. QED
  BY <1>1, InitRefines, InvariantCorrect, PTL DEF Spec, ImplementsTurnstile, Line!Spec
=============================================================================
