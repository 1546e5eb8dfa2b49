----------------------------- MODULE RunRegistry -----------------------------
(***************************************************************************)
(* The registry of one session (src/workflow/registry.ts), through which   *)
(* the user sees and aborts runs: a bounded list of handles, to which the  *)
(* runs of the session are added and the manifests on disk are restored,   *)
(* after a crash or to show older runs.  The leases of ToolHost bound the  *)
(* runs under way.                                                         *)
(***************************************************************************)
EXTENDS Integers, Sequences, FiniteSets

CONSTANTS
  Run,        \* the runs of the session
  capacity,   \* the handles that the registry keeps, 50
  maxActive,  \* MAX_ACTIVE_WORKFLOWS_PER_SESSION, 4
  timeBound   \* bounds the clock

\* What an instance of this module assumes of its constants.
RegistryAssumption ==
  /\ IsFiniteSet(Run)
  /\ capacity \in Nat /\ maxActive \in Nat /\ timeBound \in Nat
  /\ maxActive < capacity

Status == {"running", "completed", "aborted"}

VARIABLES
  runs,     \* the handles: status, startedAt, and whether abort() is the run's
  order,    \* the order of registration
  stage,    \* of a run in this process: "none", "executing", its outcome before
            \* its details are closed, "closed"
  asked,    \* the runs whose abort() was called
  disk,     \* what the manifest of a run says, "none" without one
  mtime,    \* when it was written
  now       \* the clock

registry == <<runs, order>>
manifests == <<disk, mtime>>
vars == <<registry, stage, asked, manifests, now>>

Handle == [status : Status, startedAt : 0..timeBound, own : BOOLEAN]

TypeOK ==
  /\ DOMAIN runs \subseteq Run /\ \A r \in DOMAIN runs : runs[r] \in Handle
  /\ Cardinality(DOMAIN runs) <= capacity
  /\ order \in Seq(Run)
  /\ stage \in [Run -> {"none", "executing", "completed", "aborted", "closed"}]
  /\ asked \subseteq Run
  /\ disk \in [Run -> Status \cup {"none"}]
  /\ mtime \in [Run -> 0..timeBound]
  /\ now \in 0..timeBound

Init ==
  /\ runs = [r \in {} |-> 0] /\ order = << >>
  /\ stage = [r \in Run |-> "none"] /\ asked = {}
  /\ disk = [r \in Run |-> "none"] /\ mtime = [r \in Run |-> 0]
  /\ now = 0

Tick == now < timeBound /\ now' = now + 1

----------------------------------------------------------------------------
(***************************************************************************)
(* The bounded list.                                                       *)
(***************************************************************************)
\* Mutant: the oldest handle goes, active or not.
GoesByAge(h, k) == h.startedAt <= k.startedAt

\* What trimRuns() removes first: a run that is not active, then the oldest.
GoesBefore(h, k) ==
  \/ h.status # "running" /\ k.status = "running"
  \/ (h.status = "running") = (k.status = "running") /\ h.startedAt <= k.startedAt

\* trimRuns(): which of the handles h may remain.
Remaining(h) ==
  {kept \in SUBSET DOMAIN h :
     /\ Cardinality(kept) <= capacity
     /\ kept # DOMAIN h => Cardinality(kept) = capacity
     /\ \A r \in DOMAIN h \ kept, k \in kept : GoesBefore(h[r], h[k])}

\* These places in increasing order, which is one function.
InOrder(places) ==
  {at \in [1..Cardinality(places) -> places] :
     \A i, k \in DOMAIN at : i < k => at[i] < at[k]}

\* Of the ids at these places of a list those remain whose handles do.
Trimmed(h, list, places) ==
  \E kept \in Remaining(h) :
    /\ runs' = [r \in kept |-> h[r]]
    /\ \E at \in InOrder({i \in places : list[i] \in kept}) :
         order' = [i \in DOMAIN at |-> list[at[i]]]

Extended(h, s, handle(_)) ==
  [r \in DOMAIN h \cup s |-> IF r \in s THEN handle(r) ELSE h[r]]

----------------------------------------------------------------------------
(***************************************************************************)
(* Runs of this process.                                                   *)
(***************************************************************************)
UnderWay == {r \in Run : stage[r] \notin {"none", "closed"}}

\* register(): a new run, or the resumption of one that is listed or not.
Register(r) ==
  LET handle(q) == [status |-> "running", startedAt |-> now', own |-> TRUE]
  IN  /\ stage[r] \in {"none", "closed"}
      /\ Cardinality(UnderWay) < maxActive
      /\ Tick
      /\ Trimmed(Extended(runs, {r}, handle), Append(order, r),
                 {i \in DOMAIN order : order[i] # r} \cup {Len(order) + 1})
      /\ stage' = [stage EXCEPT ![r] = "executing"]
      /\ asked' = asked \ {r}
      /\ UNCHANGED manifests

\* persist() while the run is under way.
Persist(r) ==
  /\ stage[r] = "executing" /\ Tick
  /\ disk' = [disk EXCEPT ![r] = "running"]
  /\ mtime' = [mtime EXCEPT ![r] = now']
  /\ UNCHANGED <<registry, stage, asked>>

\* The run's outcome is set in its handle, where that still is in the list.
End(r) ==
  /\ stage[r] = "executing"
  /\ \E status \in {"completed"} \cup (IF r \in asked THEN {"aborted"} ELSE {}) :
       /\ stage' = [stage EXCEPT ![r] = status]
       /\ runs' = [q \in DOMAIN runs |->
                     IF q = r /\ runs[q].own THEN [runs[q] EXCEPT !.status = status]
                     ELSE runs[q]]
  /\ UNCHANGED <<order, asked, manifests, now>>

\* close() of its details; the lease is released afterwards.
Close(r) ==
  /\ stage[r] \in {"completed", "aborted"} /\ Tick
  /\ stage' = [stage EXCEPT ![r] = "closed"]
  /\ disk' = [disk EXCEPT ![r] = stage[r]]
  /\ mtime' = [mtime EXCEPT ![r] = now']
  /\ UNCHANGED <<registry, asked>>

\* The process ends; manifests stay as they are.
Crash ==
  /\ runs # [r \in {} |-> 0]
  /\ runs' = [r \in {} |-> 0] /\ order' = << >>
  /\ stage' = [r \in Run |-> "none"] /\ asked' = {}
  /\ UNCHANGED <<manifests, now>>

----------------------------------------------------------------------------
(***************************************************************************)
(* The user.                                                               *)
(***************************************************************************)
\* The manifests that are looked at: the newest ones.
Newest ==
  LET files == {r \in Run : disk[r] # "none"}
  IN  {s \in SUBSET files :
         /\ Cardinality(s) <= capacity
         /\ s # files => Cardinality(s) = capacity
         /\ \A r \in files \ s, q \in s : mtime[r] <= mtime[q]}

\* The runs that are not listed yet.
Unlisted(s) == s \ DOMAIN runs

\* A run that was interrupted has been aborted.
RestoredStatus(r) == IF disk[r] = "running" THEN "aborted" ELSE disk[r]

\* restoreRuns(), when the overlay opens: older runs get handles without an
\* abort(), and the interrupted ones new manifests.
RestoreRuns ==
  \E s \in Newest :
    LET restored == Unlisted(s)
        interrupted == {r \in restored : disk[r] = "running"}
        handle(r) == [status |-> RestoredStatus(r), startedAt |-> mtime'[r], own |-> FALSE]
    IN  /\ restored # {}
        /\ IF interrupted = {} THEN UNCHANGED now ELSE Tick
        /\ disk' = [r \in Run |-> IF r \in interrupted THEN RestoredStatus(r) ELSE disk[r]]
        /\ mtime' = [r \in Run |-> IF r \in interrupted THEN now' ELSE mtime[r]]
        /\ \E added \in [1..Cardinality(restored) -> restored] :
             /\ \A i, k \in DOMAIN added :
                  i < k => added[i] # added[k] /\ mtime[added[i]] <= mtime[added[k]]
             /\ Trimmed(Extended(runs, restored, handle), order \o added,
                        1..(Len(order) + Len(added)))
        /\ UNCHANGED <<stage, asked>>

\* abortAll(), of /workflows abort.
AbortAll ==
  /\ asked' = asked \cup {r \in DOMAIN runs : runs[r].status = "running" /\ runs[r].own}
  /\ UNCHANGED <<registry, stage, manifests, now>>

Next ==
  \/ \E r \in Run : Register(r) \/ Persist(r) \/ End(r) \/ Close(r)
  \/ Crash \/ RestoreRuns \/ AbortAll

Spec == Init /\ [][Next]_vars

----------------------------------------------------------------------------
(***************************************************************************)
(* Properties.                                                             *)
(***************************************************************************)
\* A run under way is listed with its own abort(), however full the list and
\* whatever is restored into it: `/workflows abort' reaches every run.
AbortReaches ==
  \A r \in Run : stage[r] = "executing" =>
    r \in DOMAIN runs /\ runs[r].own /\ runs[r].status = "running"

\* Only runs under way are shown as running: neither a run that a crash
\* interrupted nor one that has ended.
NoGhosts ==
  \A r \in DOMAIN runs : runs[r].status = "running" => stage[r] = "executing"

\* list() shows every handle once.
OrderIsRuns ==
  /\ {order[i] : i \in DOMAIN order} = DOMAIN runs
  /\ Len(order) = Cardinality(DOMAIN runs)

\* So the list is sound: a run that is under way is not restored either, and its
\* manifest is not overwritten with "aborted".
RegistrySound == TypeOK /\ AbortReaches /\ NoGhosts /\ OrderIsRuns
=============================================================================
