----------------------------- MODULE AtomicPatch -----------------------------
(***************************************************************************)
(* What applyPatch() promises its caller: the patch takes effect as a      *)
(* whole, or it is rejected and the tree is as it was.  Only when undoing  *)
(* it fails too may the tree differ in another way, within the patch's     *)
(* reach, and then the caller is told so.                                  *)
(*                                                                         *)
(* A tree assigns to each path a directory, the contents of a file, or     *)
(* nothing; a path is a sequence of names.                                 *)
(***************************************************************************)
EXTENDS SequencesExt

CONSTANT Path

VARIABLES tree, patch, result

vars == <<tree, patch, result>>

Node == {"absent", "dir"}
IsFile(node) == node \notin Node

Touched(p) == {x \in Path : p.old[x] # p.new[x]}
Parents(x) == {a \in Path : IsStrictPrefix(a, x)}
Within(x, S) == \E r \in S : IsPrefix(r, x)

\* What a patch may disturb: the touched paths, all that is under them, and the
\* directories they are in.
Reach(p) == {x \in Path : Within(x, Touched(p)) \/ \E t \in Touched(p) : x \in Parents(t)}

\* The file at a path before and after, and the directories that stay for their
\* own sake: the empty ones that the patch has nothing to do with.
FileAt(t, x) == IF IsFile(t[x]) THEN t[x] ELSE "absent"
FileAfter(t, p, x) == IF x \in Touched(p) THEN p.new[x] ELSE FileAt(t, x)
Stays(t, p, x) ==
  t[x] = "dir" /\ x \notin Touched(p) /\ \A y \in Touched(p) : x \notin Parents(y)
Occupied(t, p, x) ==
  \E y \in Path : IsStrictPrefix(x, y) /\ (IsFile(FileAfter(t, p, y)) \/ Stays(t, p, y))

Patched(t, p) ==
  [x \in Path |-> CASE IsFile(FileAfter(t, p, x)) -> FileAfter(t, p, x)
                    [] OTHER -> IF Occupied(t, p, x) \/ Stays(t, p, x) THEN "dir" ELSE "absent"]

\* The touched files are what the patch was made from, and nothing that the
\* patch does not remove is under a path where it puts a file.
Applicable(t, p) ==
  /\ \A x \in Touched(p) : FileAt(t, x) = p.old[x]
  /\ \A x \in Path : IsFile(FileAfter(t, p, x)) => ~ Occupied(t, p, x)

Init == result = "none"

Apply ==
  /\ result = "none" /\ Applicable(tree, patch)
  /\ tree' = Patched(tree, patch)
  /\ result' = "applied"
  /\ UNCHANGED patch

Reject ==
  /\ result = "none"
  /\ result' = "rejected"
  /\ UNCHANGED <<tree, patch>>

Damage ==
  /\ result = "none"
  /\ result' = "uncertain"
  /\ \A x \in Path \ Reach(patch) : tree'[x] = tree[x]
  /\ UNCHANGED patch

Next == Apply \/ Reject \/ Damage

Spec == Init /\ [][Next]_vars
=============================================================================
