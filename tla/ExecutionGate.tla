--------------------------- MODULE ExecutionGate ---------------------------
(***************************************************************************)
(* The execution gate of src/workflow/runtime.ts: a FIFO of waiters over a *)
(* fixed number of permits.  One instance bounds the agents that run at    *)
(* once (limit = the run's concurrency); one instance with limit = 1 per   *)
(* repository serialises the application of worktree patches.              *)
(*                                                                         *)
(* request(), release() and close() run to completion on the JavaScript    *)
(* thread, so each is one action here.  What interleaves with them is the  *)
(* fiber that asked: it sleeps on the waiter's deferred (ready), is woken  *)
(* some time after the deferred is settled, and its agent scope may close  *)
(* or the run may be aborted in between.                                   *)
(***************************************************************************)
EXTENDS Naturals, Sequences, FiniteSets

CONSTANTS
  Waiter,   \* the requests that fibers make of this gate
  limit     \* the number of permits

ASSUME GateAssumption ==
  /\ IsFiniteSet(Waiter)
  /\ limit \in Nat \ {0}

VARIABLES
  queue,      \* the unbounded queue of waiters, oldest first
  active,     \* the number of permits handed out
  closed,     \* the run was aborted or has finished
  state,      \* of a waiter: "new" (not made yet), "queued", "held", "released"
  ready,      \* of its deferred: "pending", "granted", "aborted"
  fiber,      \* of its fiber: "idle", "awaiting", "using", "done"
  scopeOpen   \* the agent's scope, whose finalizer releases the request

vars == <<queue, active, closed, state, ready, fiber, scopeOpen>>

Held == {w \in Waiter : state[w] = "held"}
QueuedWaiters == {w \in Waiter : state[w] = "queued"}
Using == {w \in Waiter : fiber[w] = "using"}

TypeOK ==
  /\ queue \in Seq(Waiter)
  /\ active \in Nat
  /\ closed \in BOOLEAN
  /\ state \in [Waiter -> {"new", "queued", "held", "released"}]
  /\ ready \in [Waiter -> {"pending", "granted", "aborted"}]
  /\ fiber \in [Waiter -> {"idle", "awaiting", "using", "done"}]
  /\ scopeOpen \in [Waiter -> BOOLEAN]

Init ==
  /\ queue = <<>>
  /\ active = 0
  /\ closed = FALSE
  /\ state = [w \in Waiter |-> "new"]
  /\ ready = [w \in Waiter |-> "pending"]
  /\ fiber = [w \in Waiter |-> "idle"]
  /\ scopeOpen = [w \in Waiter |-> TRUE]

----------------------------------------------------------------------------
(***************************************************************************)
(* pump(): take waiters from the front until the permits are used up or    *)
(* the queue is empty; a waiter released while it queued is dropped.  The  *)
(* loop has taken the first k elements, the last of them being the one     *)
(* that used the last permit unless permits remain.                        *)
(***************************************************************************)
Taken(q, st, k) == {w \in Waiter : st[w] = "queued" /\ \E i \in 1..k : q[i] = w}

\* Mutant: the loop returns at an abandoned waiter instead of skipping it.
PumpStopsAtAbandoned(q, st, used, k) ==
  LET held == used + Cardinality(Taken(q, st, k))
  IN  /\ held <= limit
      /\ \A i \in 1..(k - 1) : st[q[i]] = "queued"
      /\ held < limit => k = Len(q) \/ (k > 0 /\ st[q[k]] # "queued")
      /\ held = limit /\ k > 0 => st[q[k]] = "queued"

PumpStops(q, st, used, k) ==
  LET held == used + Cardinality(Taken(q, st, k))
  IN  /\ held <= limit
      /\ held < limit => k = Len(q)
      /\ held = limit /\ k > 0 => st[q[k]] = "queued"

Pump(q, st, rd, used) ==
  \E k \in 0..Len(q) :
    /\ PumpStops(q, st, used, k)
    /\ queue' = SubSeq(q, k + 1, Len(q))
    /\ active' = used + Cardinality(Taken(q, st, k))
    /\ state' = [w \in Waiter |-> IF w \in Taken(q, st, k) THEN "held" ELSE st[w]]
    /\ ready' = [w \in Waiter |-> IF w \in Taken(q, st, k) THEN "granted" ELSE rd[w]]

\* Deferred.doneUnsafe settles a deferred once; later calls do nothing.
Fail(rd, w) == [rd EXCEPT ![w] = IF @ = "pending" THEN "aborted" ELSE @]

----------------------------------------------------------------------------
\* Mutant: the newcomer is put in front of those who already wait.
RequestBarges(w) ==
  /\ fiber[w] = "idle"
  /\ scopeOpen[w]
  /\ ~closed
  /\ Pump(<<w>> \o queue, [state EXCEPT ![w] = "queued"], ready, active)
  /\ fiber' = [fiber EXCEPT ![w] = "awaiting"]
  /\ UNCHANGED <<closed, scopeOpen>>

\* request() on an open gate: the waiter joins the end of the queue.
RequestOpen(w) ==
  /\ fiber[w] = "idle"
  /\ scopeOpen[w]
  /\ ~closed
  /\ Pump(Append(queue, w), [state EXCEPT ![w] = "queued"], ready, active)
  /\ fiber' = [fiber EXCEPT ![w] = "awaiting"]
  /\ UNCHANGED <<closed, scopeOpen>>

\* request() on a closed gate: the waiter is turned away at once.
RequestClosed(w) ==
  /\ fiber[w] = "idle"
  /\ scopeOpen[w]
  /\ closed
  /\ state' = [state EXCEPT ![w] = "released"]
  /\ ready' = Fail(ready, w)
  /\ fiber' = [fiber EXCEPT ![w] = "awaiting"]
  /\ UNCHANGED <<queue, active, closed, scopeOpen>>

\* Mutant: checkOpen() forgets the scope.
CheckOpenIgnoresScope(w) == ~closed
\* checkOpen(): the agent's scope is open and the run is not aborted.
CheckOpen(w) == scopeOpen[w] /\ ~closed

\* The fiber wakes after its deferred was settled, and looks again before it
\* runs the agent.
Resume(w) ==
  /\ fiber[w] = "awaiting"
  /\ ready[w] # "pending"
  /\ fiber' = [fiber EXCEPT
       ![w] = IF ready[w] = "granted" /\ CheckOpen(w) THEN "using" ELSE "done"]
  /\ UNCHANGED <<queue, active, closed, state, ready, scopeOpen>>

ReleaseWithoutPump(w) ==
  /\ active' = IF state[w] = "held" THEN active - 1 ELSE active
  /\ state' = [state EXCEPT ![w] = "released"]
  /\ ready' = Fail(ready, w)
  /\ UNCHANGED queue

\* release(): give back what the waiter has; a queued waiter stays in the queue
\* for pump() to drop, and a released one is left alone.
Release(w) ==
  LET st == [state EXCEPT ![w] = "released"]
      rd == Fail(ready, w)
      used == IF state[w] = "held" THEN active - 1 ELSE active
  IN  IF state[w] \in {"new", "released"}
      THEN UNCHANGED <<queue, active, state, ready>>
      ELSE IF closed
      THEN /\ active' = used
           /\ state' = st
           /\ ready' = rd
           /\ UNCHANGED queue
      ELSE Pump(queue, st, rd, used)

\* The agent's scope closes: when its work is over, when the fiber is
\* interrupted, or while a runner that never awaited still sleeps on the permit.
CloseScope(w) ==
  /\ scopeOpen[w]
  /\ scopeOpen' = [scopeOpen EXCEPT ![w] = FALSE]
  /\ fiber' = [fiber EXCEPT ![w] = IF @ = "awaiting" THEN @ ELSE "done"]
  /\ Release(w)
  /\ UNCHANGED closed

\* close(): every waiter still queued is released and refused.
Close ==
  /\ ~closed
  /\ closed' = TRUE
  /\ queue' = <<>>
  /\ state' = [w \in Waiter |-> IF \E i \in DOMAIN queue : queue[i] = w
                                THEN "released" ELSE state[w]]
  /\ ready' = [w \in Waiter |-> IF /\ \E i \in DOMAIN queue : queue[i] = w
                                   /\ ready[w] = "pending"
                                THEN "aborted" ELSE ready[w]]
  /\ UNCHANGED <<active, fiber, scopeOpen>>

\* Every fiber has ended: nothing is left to happen.
Finished ==
  /\ \A w \in Waiter : fiber[w] = "done" /\ ~scopeOpen[w]
  /\ closed
  /\ UNCHANGED vars

Next ==
  \/ \E w \in Waiter : RequestOpen(w)
  \/ \E w \in Waiter : RequestClosed(w)
  \/ \E w \in Waiter : Resume(w)
  \/ \E w \in Waiter : CloseScope(w)
  \/ Close
  \/ Finished

Spec == Init /\ [][Next]_vars

(***************************************************************************)
(* A settled fiber is resumed by the Effect scheduler, and an agent that   *)
(* holds a permit finishes or is cancelled, which closes its scope.        *)
(* Nothing makes a fiber ask, give up or abort.                            *)
(***************************************************************************)
Fairness ==
  \A w \in Waiter : /\ WF_vars(Resume(w))
                    /\ WF_vars(fiber[w] = "using" /\ CloseScope(w))

FairSpec == Spec /\ Fairness

----------------------------------------------------------------------------
(***************************************************************************)
(* Properties                                                              *)
(***************************************************************************)

\* The concurrency bound: the agents whose scopes are open and that run never
\* exceed the permits, and each of them holds one.  (A release that counted a
\* waiter twice, or a fiber that woke after its scope closed, would break it.)
PermitsBoundAgents ==
  /\ Cardinality(Using) <= limit
  /\ \A w \in Using : state[w] = "held" /\ scopeOpen[w]

\* The counter that pump() compares with the limit is the number of holders.
ActiveCountsHolders == active = Cardinality(Held) /\ active <= limit

\* No permit idles while someone waits for it: abandoned waiters at the front
\* of the queue are skipped within the same release.
NoIdlePermit == ~closed /\ active < limit => QueuedWaiters = {}

\* Abort reaches everyone: nobody stays queued on a closed gate, and a fiber
\* that sleeps has an answer waiting for it.
CloseAnswersAll ==
  closed => \A w \in Waiter : fiber[w] = "awaiting" => ready[w] # "pending"

\* Nobody is forgotten in the queue, by a release or by an abort.
NobodyForgotten == NoIdlePermit /\ CloseAnswersAll

\* Once closed, the gate never hands out a permit and no agent starts to run.
NoGrantAfterClose ==
  [][closed => Held' \subseteq Held /\ Using' \subseteq Using]_vars

\* A fiber that waits is eventually woken: it runs, or learns that it may not.
EveryWaiterAnswered ==
  \A w \in Waiter : (fiber[w] = "awaiting") ~> (fiber[w] # "awaiting")

(***************************************************************************)
(* The gate implements a turnstile: waiters released while they queued are *)
(* not in line any more.                                                   *)
(***************************************************************************)
Precedes(u, v) == \E i, j \in DOMAIN queue : i < j /\ queue[i] = u /\ queue[j] = v
QueueOrder ==
  {pair \in QueuedWaiters \X QueuedWaiters : Precedes(pair[1], pair[2])}

Line == INSTANCE Turnstile WITH
  Visitor <- Waiter,
  places <- limit,
  line <- QueuedWaiters,
  ahead <- QueueOrder,
  inside <- Held,
  shut <- closed

\* The gate of runtime.ts is a FIFO turnstile: permits pass directly to the
\* oldest waiter and no caller barges in between a release and its wake-up.
ImplementsTurnstile == Line!Spec

\* What every reachable state satisfies, strong enough to be preserved by each
\* action: the proofs start from it.
Consistent(w) ==
  /\ state[w] = "new" => ready[w] = "pending" /\ fiber[w] \in {"idle", "done"}
  /\ state[w] = "queued" => ready[w] = "pending" /\ ~closed
                            /\ \E i \in DOMAIN queue : queue[i] = w
  /\ state[w] = "held" => ready[w] = "granted"
  /\ state[w] = "released" => /\ ready[w] # "pending" /\ fiber[w] # "idle"
                              /\ scopeOpen[w] => closed
  /\ fiber[w] = "idle" => state[w] = "new" /\ scopeOpen[w]
  /\ fiber[w] = "using" => state[w] = "held" /\ scopeOpen[w]
  /\ ~scopeOpen[w] => state[w] \in {"new", "released"}

QueueConsistent ==
  /\ \A i \in DOMAIN queue : state[queue[i]] \in {"queued", "released"}
  /\ \A i, j \in DOMAIN queue : queue[i] = queue[j] => i = j
  /\ ~closed /\ active < limit => queue = <<>>

GateInvariant ==
  /\ TypeOK
  /\ ActiveCountsHolders
  /\ QueueConsistent
  /\ \A w \in Waiter : Consistent(w)
=============================================================================
