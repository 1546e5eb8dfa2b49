---------------------------- MODULE MCAdmission ----------------------------
(* Model-checking instances of Admission: the parallel() calls of a script. *)
EXTENDS Admission

\* First runs: a pair with no spare slot, one branch with a spare slot.
Fresh == {[needs |-> <<TRUE, TRUE>>, reserve |-> 2, credit |-> 0],
          [needs |-> <<TRUE>>, reserve |-> 2, credit |-> 0]}

\* Replays: of a pair one branch is cached and its slot is drawn upstream when
\* the cache misses; and a branch cached with more calls than it declared.
Replayed == {[needs |-> <<FALSE, TRUE>>, reserve |-> 2, credit |-> 1],
             [needs |-> <<FALSE>>, reserve |-> 1, credit |-> 2]}

FreshAndReplayed == Fresh \cup Replayed

Symmetry == Permutations(Slot)
=============================================================================
