--------------------------- MODULE WorktreeProofs ---------------------------
(***************************************************************************)
(* Proofs about what src/workflow/worktree.ts does with files.             *)
(*                                                                         *)
(* The application of a patch (PatchApply), for all sets of paths, trees   *)
(* and patches and all numbers of edits and faults: what the user saves    *)
(* survives, and, while nobody else writes into the tree, the patch is     *)
(* applied as a whole or not at all, which makes PatchApply implement      *)
(* AtomicPatch.                                                            *)
(*                                                                         *)
(* The worktree of an agent: its removal (WorktreeOwnership) takes only    *)
(* what is the worktree's own, and stops where what is left can still be   *)
(* found, whatever others do to the directories before and between its     *)
(* steps and however often.  The patch captured from it (WorktreeDiff) is  *)
(* the agent's work, for all sets of paths and contents and all numbers of *)
(* steps.                                                                  *)
(***************************************************************************)
EXTENDS PatchApply, Worktrees, FiniteSetTheorems, TLAPS

----------------------------------------------------------------------------
(***************************************************************************)
(* Paths. A prefix of a path is a directory above it.                      *)
(***************************************************************************)
\* A directory of a directory is a directory of the path.
LEMMA PrefixTransitive ==
  ASSUME NEW s \in Seq(STRING), NEW t \in Seq(STRING), NEW u \in Seq(STRING),
         IsPrefix(s, t), IsPrefix(t, u)
  PROVE  IsPrefix(s, u)
<1>1. /\ Len(s) <= Len(t) /\ Len(t) <= Len(u) /\ Len(s) \in Nat /\ Len(t) \in Nat
      /\ Len(u) \in Nat
  BY DEF IsPrefix
<1>2. /\ SubSeq(s, 1, Len(s)) = SubSeq(t, 1, Len(s))
      /\ SubSeq(t, 1, Len(t)) = SubSeq(u, 1, Len(t))
  BY DEF IsPrefix
<1>3. \A i \in 1..Len(s) : t[i] = s[i]
  <2>1. TAKE i \in 1..Len(s)
  <2>2. SubSeq(s, 1, Len(s))[i] = s[i] /\ SubSeq(t, 1, Len(s))[i] = t[i]
    BY <1>1
  <2>3. QED
    BY <1>2, <2>2
<1>4. \A i \in 1..Len(t) : u[i] = t[i]
  <2>1. TAKE i \in 1..Len(t)
  <2>2. SubSeq(t, 1, Len(t))[i] = t[i] /\ SubSeq(u, 1, Len(t))[i] = u[i]
    BY <1>1
  <2>3. QED
    BY <1>2, <2>2
<1>5. \A i \in 1..Len(s) : s[i] = u[i]
  BY <1>1, <1>3, <1>4
<1>6. SubSeq(s, 1, Len(s)) = SubSeq(u, 1, Len(s))
  <2>1. SubSeq(s, 1, Len(s)) = [i \in 1..Len(s) |-> s[i]]
    BY <1>1
  <2>2. SubSeq(u, 1, Len(s)) = [i \in 1..Len(s) |-> u[i]]
    BY <1>1
  <2>3. QED
    BY <1>5, <2>1, <2>2
<1>7. QED
  BY <1>1, <1>6 DEF IsPrefix

\* A path is its own prefix.
LEMMA PrefixOfItself ==
  ASSUME NEW s \in Seq(STRING)
  PROVE  IsPrefix(s, s)
BY DEF IsPrefix

\* Two paths that are prefixes of each other are one.
LEMMA PrefixAntisymmetric ==
  ASSUME NEW s \in Seq(STRING), NEW t \in Seq(STRING), IsPrefix(s, t), IsPrefix(t, s)
  PROVE  s = t
<1>1. Len(s) <= Len(t) /\ Len(t) <= Len(s) /\ Len(s) \in Nat /\ Len(t) \in Nat
  BY DEF IsPrefix
<1>2. Len(s) = Len(t) /\ SubSeq(s, 1, Len(s)) = SubSeq(t, 1, Len(s))
  BY <1>1 DEF IsPrefix
<1>3. SubSeq(s, 1, Len(s)) = s /\ SubSeq(t, 1, Len(t)) = t
  OBVIOUS
<1>4. QED
  BY <1>2, <1>3

\* Of two directories above one path, one is above the other.
LEMMA PrefixesComparable ==
  ASSUME NEW s \in Seq(STRING), NEW t \in Seq(STRING), NEW u \in Seq(STRING),
         IsPrefix(s, u), IsPrefix(t, u)
  PROVE  IsPrefix(s, t) \/ IsPrefix(t, s)
<1>1. ASSUME NEW a \in Seq(STRING), NEW b \in Seq(STRING), IsPrefix(a, u), IsPrefix(b, u),
             Len(a) <= Len(b)
      PROVE  IsPrefix(a, b)
  <2>1. /\ Len(a) <= Len(u) /\ Len(b) <= Len(u) /\ Len(a) \in Nat /\ Len(b) \in Nat
        /\ Len(u) \in Nat
    BY <1>1 DEF IsPrefix
  <2>2. /\ SubSeq(a, 1, Len(a)) = SubSeq(u, 1, Len(a))
        /\ SubSeq(b, 1, Len(b)) = SubSeq(u, 1, Len(b))
    BY <1>1 DEF IsPrefix
  <2>3. \A i \in 1..Len(a) : a[i] = u[i]
    <3>1. TAKE i \in 1..Len(a)
    <3>2. SubSeq(a, 1, Len(a))[i] = a[i] /\ SubSeq(u, 1, Len(a))[i] = u[i]
      BY <2>1
    <3>3. QED
      BY <2>2, <3>2
  <2>4. \A i \in 1..Len(b) : b[i] = u[i]
    <3>1. TAKE i \in 1..Len(b)
    <3>2. SubSeq(b, 1, Len(b))[i] = b[i] /\ SubSeq(u, 1, Len(b))[i] = u[i]
      BY <2>1
    <3>3. QED
      BY <2>2, <3>2
  <2>5. \A i \in 1..Len(a) : a[i] = b[i]
    BY <1>1, <2>1, <2>3, <2>4
  <2>6. /\ SubSeq(a, 1, Len(a)) = [i \in 1..Len(a) |-> a[i]]
        /\ SubSeq(b, 1, Len(a)) = [i \in 1..Len(a) |-> b[i]]
    BY <1>1, <2>1
  <2>7. SubSeq(a, 1, Len(a)) = SubSeq(b, 1, Len(a))
    BY <2>5, <2>6
  <2>8. QED
    BY <1>1, <2>7 DEF IsPrefix
<1>2. Len(s) \in Nat /\ Len(t) \in Nat
  OBVIOUS
<1>3. QED
  BY <1>1, <1>2

\* A directory above a path has fewer names.
LEMMA StrictlyShorter ==
  ASSUME NEW s \in Seq(STRING), NEW t \in Seq(STRING), IsStrictPrefix(s, t)
  PROVE  Len(s) < Len(t)
<1>1. Len(s) <= Len(t) /\ s # t /\ SubSeq(s, 1, Len(s)) = SubSeq(t, 1, Len(s))
  BY DEF IsStrictPrefix, IsPrefix
<1> SUFFICES ASSUME Len(s) = Len(t) PROVE FALSE
  BY <1>1
<1>2. SubSeq(s, 1, Len(s)) = s /\ SubSeq(t, 1, Len(t)) = t
  OBVIOUS
<1>3. QED
  BY <1>1, <1>2

\* A set of numbers has a least one: a descent through initial segments, which are
\* finite.
LEMMA LeastNatural ==
  ASSUME NEW S \in SUBSET Nat, S # {}
  PROVE  \E n \in S : \A m \in S : n <= m
<1>1. PICK k \in S : TRUE
  OBVIOUS
<1> DEFINE T == {1..n : n \in {m \in S : m <= k}}
           R == StrictSubsetOrdering(1..k)
<1>2. T \subseteq FiniteSubsetsOf(1..k)
  <2>1. ASSUME NEW n \in Nat, n <= k PROVE (1..n) \in FiniteSubsetsOf(1..k)
    <3>1. IsFiniteSet(1..n)
      BY FS_Interval
    <3>2. QED
      BY <2>1, <3>1 DEF FiniteSubsetsOf
  <2>2. QED
    BY <2>1
<1>3. T # {}
  BY <1>1
<1>4. IsWellFoundedOn(R, FiniteSubsetsOf(1..k))
  BY FS_StrictSubsetOrderingWellFounded
<1>5. PICK X \in T : \A Y \in T : ~ (<<Y, X>> \in R)
  BY <1>2, <1>3, <1>4, WFMin
<1>6. PICK n \in S : n <= k /\ X = 1..n
  BY <1>5
<1>7. ASSUME NEW m \in S, m < n PROVE FALSE
  <2>1. m <= k /\ (1..m) \in T
    BY <1>6, <1>7
  <2>2. (1..m) \subseteq (1..n) /\ n \in 1..n /\ n \notin 1..m
    BY <1>7
  <2>3. (1..m) \subseteq (1..k) /\ (1..n) \subseteq (1..k)
    BY <1>6, <2>1
  <2>4. <<1..m, 1..n>> \in R
    BY <2>2, <2>3 DEF StrictSubsetOrdering
  <2>5. QED
    BY <1>5, <1>6, <2>1, <2>4
<1>8. QED
  BY <1>7

\* The four laws for the paths of the repository.
LEMMA PathOrder ==
  \A x, y, z \in Path :
    /\ IsPrefix(x, x)
    /\ IsPrefix(x, y) /\ IsPrefix(y, x) => x = y
    /\ IsPrefix(x, y) /\ IsPrefix(y, z) => IsPrefix(x, z)
    /\ IsPrefix(x, z) /\ IsPrefix(y, z) => IsPrefix(x, y) \/ IsPrefix(y, x)
<1> SUFFICES ASSUME NEW x \in Path, NEW y \in Path, NEW z \in Path
             PROVE /\ IsPrefix(x, x)
                   /\ IsPrefix(x, y) /\ IsPrefix(y, x) => x = y
                   /\ IsPrefix(x, y) /\ IsPrefix(y, z) => IsPrefix(x, z)
                   /\ IsPrefix(x, z) /\ IsPrefix(y, z) => IsPrefix(x, y) \/ IsPrefix(y, x)
  OBVIOUS
<1>1. x \in Seq(STRING) /\ y \in Seq(STRING) /\ z \in Seq(STRING)
  BY PatchAssumption
<1>2. QED
  BY <1>1, PrefixOfItself, PrefixAntisymmetric, PrefixTransitive, PrefixesComparable

\* The same of the paths that are properly above others.
LEMMA StrictOrder ==
  \A x, y, z \in Path :
    /\ ~ IsStrictPrefix(x, x)
    /\ IsStrictPrefix(x, y) => ~ IsStrictPrefix(y, x)
    /\ IsStrictPrefix(x, y) /\ IsPrefix(y, z) => IsStrictPrefix(x, z)
    /\ IsPrefix(x, y) /\ IsStrictPrefix(y, z) => IsStrictPrefix(x, z)
    /\ IsStrictPrefix(x, y) /\ IsStrictPrefix(y, z) => IsStrictPrefix(x, z)
BY PathOrder DEF IsStrictPrefix

\* minimalPaths() forgets nothing: above every touched path, or at it, is one that has
\* no other above it.
LEMMA TouchedUnderRoots ==
  Touched \subseteq UnderRoots
<1> SUFFICES ASSUME NEW x \in Touched PROVE x \in UnderRoots
  OBVIOUS
<1> DEFINE A == {a \in Touched : IsPrefix(a, x)}
           lengths == {Len(a) : a \in A}
<1>1. Touched \subseteq Path /\ Path \subseteq Seq(STRING)
  BY PatchAssumption DEF Touched
<1>2. x \in A
  BY <1>1, PrefixOfItself
<1>3. lengths \in SUBSET Nat /\ lengths # {}
  <2>1. \A a \in A : Len(a) \in Nat
    <3>1. ASSUME NEW a \in Seq(STRING) PROVE Len(a) \in Nat
      OBVIOUS
    <3>2. QED
      BY <1>1, <3>1
  <2>2. QED
    BY <1>2, <2>1
<1>4. PICK n \in lengths : \A m \in lengths : n <= m
  <2> HIDE DEF lengths
  <2>1. QED
    BY <1>3, LeastNatural
<1>5. PICK a \in A : Len(a) = n
  BY <1>4
<1>6. ASSUME NEW b \in Touched, IsStrictPrefix(b, a) PROVE FALSE
  <2>1. IsPrefix(b, x)
    BY <1>1, <1>6, PrefixTransitive DEF IsStrictPrefix
  <2>2. Len(b) \in lengths
    BY <2>1
  <2>3. Len(b) < Len(a)
    BY <1>1, <1>6, StrictlyShorter
  <2>4. n <= Len(b) /\ n \in Nat /\ Len(b) \in Nat
    BY <1>3, <1>4, <2>2
  <2>5. QED
    BY <1>5, <2>3, <2>4
<1>7. a \in Roots
  BY <1>6 DEF Roots, Parents
<1>8. QED
  BY <1>1, <1>7 DEF UnderRoots

\* The directories above what the patch touches.
AboveTouched == UNION {Parents(x) : x \in Touched}

\* How roots, touched paths and the directories above them lie: what is under a root
\* stays under it, and what is above it is under no other.
LEMMA Geometry ==
  /\ Roots \subseteq Touched /\ Touched \subseteq Path /\ UnderRoots \subseteq Path
  /\ Above \subseteq Path /\ AboveTouched \subseteq Path
  /\ Touched \subseteq UnderRoots
  /\ Above \cap UnderRoots = {}
  /\ Above \subseteq AboveTouched
  /\ \A x \in Path, y \in UnderRoots : IsStrictPrefix(x, y) => x \in UnderRoots \cup Above
  /\ \A x \in UnderRoots, y \in Path : IsPrefix(x, y) => y \in UnderRoots
<1>1. Roots \subseteq Touched /\ Touched \subseteq Path /\ UnderRoots \subseteq Path
      /\ Above \subseteq Path /\ AboveTouched \subseteq Path
  BY DEF Roots, Touched, UnderRoots, Above, AboveTouched, Parents
<1>2. ASSUME NEW x \in Above, x \in UnderRoots PROVE FALSE
  <2>1. PICK r \in Roots : x \in Path /\ IsStrictPrefix(x, r)
    BY DEF Above, Parents
  <2>2. PICK q \in Roots : IsPrefix(q, x)
    BY <1>2 DEF UnderRoots
  <2>3. IsStrictPrefix(q, r)
    BY <1>1, <2>1, <2>2, StrictOrder
  <2>4. QED
    BY <1>1, <2>3 DEF Roots, Parents
<1>3. Above \subseteq AboveTouched
  BY <1>1 DEF Above, AboveTouched
<1>4. ASSUME NEW x \in Path, NEW y \in UnderRoots, IsStrictPrefix(x, y)
      PROVE  x \in UnderRoots \cup Above
  <2>1. PICK r \in Roots : y \in Path /\ IsPrefix(r, y)
    BY DEF UnderRoots
  <2>2. IsPrefix(x, r) \/ IsPrefix(r, x)
    BY <1>1, <1>4, <2>1, PathOrder DEF IsStrictPrefix
  <2>3. CASE IsPrefix(r, x)
    BY <2>3 DEF UnderRoots
  <2>4. CASE ~ IsPrefix(r, x)
    <3>1. x # r
      BY <2>4, PathOrder
    <3>2. QED
      BY <2>2, <2>4, <3>1 DEF Above, Parents, IsStrictPrefix
  <2>5. QED
    BY <2>3, <2>4
<1>5. ASSUME NEW x \in UnderRoots, NEW y \in Path, IsPrefix(x, y) PROVE y \in UnderRoots
  BY <1>1, <1>5, PathOrder DEF UnderRoots
<1>6. QED
  BY <1>1, <1>2, <1>3, <1>4, <1>5, TouchedUnderRoots

\* A directory of a touched path is under a root or above one.
LEMMA AboveTouchedReach ==
  AboveTouched \subseteq UnderRoots \cup Above
BY Geometry DEF AboveTouched, Parents

\* No touched path, and no directory that a file replaces, is above a root.
LEMMA AboveIsFixed ==
  /\ Above \cap Touched = {}
  /\ Replaced \subseteq AboveTouched
  /\ Replaced \cap Above = {}
<1>1. Replaced \subseteq AboveTouched
  BY DEF Replaced, AboveTouched
<1>2. Replaced \subseteq UnderRoots
  <2> SUFFICES ASSUME NEW d \in Replaced PROVE d \in UnderRoots
    OBVIOUS
  <2>1. PICK x \in Touched : d \in Path /\ IsPrefix(x, d)
    BY DEF Replaced
  <2>2. QED
    BY <2>1, Geometry
<1>3. QED
  BY <1>1, <1>2, Geometry

----------------------------------------------------------------------------
(***************************************************************************)
(* The inductive invariant for the edits of the user. Outside of the       *)
(* window of a path, an edit stays where it was made: applyPatch() sees it *)
(* before it writes there, or saves it before it removes it.               *)
(***************************************************************************)
\* An edit to a touched path that has not been read, or was read, is what the index
\* holds; and then the patch does not apply.
ReadAsEdited ==
  pc = "index" =>
    \A x \in safe \cap Touched : fs[x] = "edit" /\ (x \notin todo => index[x] = "edit")

\* From then on no edit to a touched path counts as safe.
Untouched == pc \in {"snapshot"} \cup Written => safe \cap Touched = {}

\* The edits are in place; while the snapshot is restored, those beside the roots.
InPlace ==
  /\ pc \in {"index", "snapshot"} \cup Written => \A x \in safe : fs[x] = "edit"
  /\ pc \in {"remove", "recreate"} => \A x \in safe : fs[x] = "edit" \/ x \in UnderRoots

\* Those under the roots are in the snapshot.
SavedForRollback ==
  /\ pc = "snapshot" =>
       \A x \in safe \cap UnderRoots :
         (\A r \in todo : ~ IsPrefix(r, x)) => snapshot[x] = "edit"
  /\ pc \in Written \cup {"remove", "recreate"} =>
       \A x \in safe \cap UnderRoots : snapshot[x] = "edit"

\* Which paths a phase visits.
Visits ==
  /\ pc = "snapshot" => todo \subseteq Roots
  /\ pc \in {"delete", "write"} => todo \subseteq Touched
  /\ pc = "remove" => todo \subseteq Roots

PatchInvariant ==
  /\ TypeOK /\ ReadAsEdited /\ Untouched /\ InPlace /\ SavedForRollback /\ Visits
  /\ EditsSurvive

\* What is derived from the patch changes with the patch only.
LEMMA PatchFixed ==
  ASSUME UNCHANGED patch
  PROVE  Touched' = Touched /\ Roots' = Roots /\ UnderRoots' = UnderRoots
<1>1. Touched' = Touched
  BY DEF Touched
<1>2. Roots' = Roots
  BY <1>1 DEF Roots, Parents
<1>3. QED
  BY <1>1, <1>2 DEF UnderRoots

\* Before applyPatch() has read anything every edit is in place.
LEMMA PatchInitHolds ==
  ASSUME Init
  PROVE  PatchInvariant
<1> USE DEF Init
<1>1. DOMAIN fs = Path
  BY PatchAssumption
<1>2. todo \subseteq Path
  BY DEF Touched
<1>3. 0 \in 0..faultBound /\ 0 \in 0..userBound
  BY PatchAssumption
<1>4. TypeOK
  BY <1>1, <1>2, <1>3 DEF TypeOK, Phase
<1>5. QED
  BY <1>4
    DEF PatchInvariant, ReadAsEdited, Untouched, InPlace, SavedForRollback, Visits,
      EditsSurvive, Written

\* An edit that is read enters the index.
LEMMA ReadIndexKeeps ==
  ASSUME PatchInvariant, NEW x \in Path, ReadIndex(x)
  PROVE  PatchInvariant'
<1>1. /\ pc = "index" /\ todo' = todo \ {x}
      /\ UNCHANGED <<fs, patch, pc, snapshot, result, faults, edits, before, safe>>
  BY DEF ReadIndex, history
<1>2. index' = [y \in Path |-> IF y \in Parents(x) \cup {x} /\ IsFile(fs[y])
                               THEN fs[y] ELSE index[y]]
  BY DEF ReadIndex
<1>3. TypeOK /\ ReadAsEdited /\ InPlace
  BY DEF PatchInvariant
<1>4. Touched' = Touched
  BY <1>1, PatchFixed
<1>5. TypeOK'
  BY <1>1, <1>2, <1>3 DEF TypeOK
<1>6. ReadAsEdited'
  <2> SUFFICES ASSUME NEW y \in safe \cap Touched
               PROVE  fs[y] = "edit" /\ (y \notin todo' => index'[y] = "edit")
    BY <1>1, <1>4 DEF ReadAsEdited
  <2>1. y \in Path /\ fs[y] = "edit" /\ (y \notin todo => index[y] = "edit")
    BY <1>1, <1>3 DEF ReadAsEdited, Touched
  <2>2. IsFile(fs[y])
    BY <2>1 DEF IsFile
  <2>3. QED
    BY <1>1, <1>2, <2>1, <2>2
<1>7. InPlace'
  BY <1>1, <1>3 DEF InPlace, Written
<1>8. QED
  BY <1>1, <1>5, <1>6, <1>7
    DEF PatchInvariant, Untouched, SavedForRollback, Visits, EditsSurvive, Written

\* A patch that applies was not made from an edit: no safe edit is to a touched path.
LEMMA CheckKeeps ==
  ASSUME PatchInvariant, Check
  PROVE  PatchInvariant'
<1>1. /\ pc = "index" /\ todo = {}
      /\ UNCHANGED <<fs, patch, index, snapshot, faults, edits, before, safe>>
  BY DEF Check, history
<1>2. TypeOK /\ ReadAsEdited /\ InPlace
  BY DEF PatchInvariant
<1>3. Touched' = Touched /\ Roots' = Roots /\ UnderRoots' = UnderRoots
  BY <1>1, PatchFixed
<1>4. \A y \in safe : fs[y] = "edit"
  BY <1>1, <1>2 DEF InPlace
<1>5. Roots \subseteq Path
  BY DEF Roots, Touched
<1>6. CASE Applies /\ Enter("snapshot", Roots) /\ UNCHANGED result
  <2>1. safe \cap Touched = {}
    <3> SUFFICES ASSUME NEW y \in safe \cap Touched PROVE FALSE
      OBVIOUS
    <3>1. index[y] = "edit" /\ index[y] = patch.old[y]
      BY <1>1, <1>2, <1>6 DEF ReadAsEdited, Applies
    <3>2. patch \in Patches /\ y \in Path
      BY <1>2 DEF TypeOK, Touched
    <3>3. QED
      BY <3>1, <3>2, PatchAssumption
  <2>2. pc' = "snapshot" /\ todo' = Roots /\ result' = result
    BY <1>6 DEF Enter
  <2>3. TypeOK'
    BY <1>1, <1>2, <1>5, <2>2 DEF TypeOK, Phase
  <2>4. \A y \in UnderRoots : \E r \in Roots : IsPrefix(r, y)
    BY DEF UnderRoots
  <2>5. SavedForRollback'
    BY <1>3, <2>2, <2>4 DEF SavedForRollback, Written
  <2>6. QED
    BY <1>1, <1>3, <1>4, <2>1, <2>2, <2>3, <2>5
      DEF PatchInvariant, ReadAsEdited, Untouched, InPlace, Visits, EditsSurvive, Written
<1>7. CASE Finish("rejected")
  <2>1. pc' = "done" /\ todo' = {} /\ result' = "rejected"
    BY <1>7 DEF Finish
  <2>2. TypeOK'
    BY <1>1, <1>2, <2>1 DEF TypeOK, Phase
  <2>3. QED
    BY <1>1, <1>4, <2>1, <2>2
      DEF PatchInvariant, ReadAsEdited, Untouched, InPlace, SavedForRollback, Visits,
        EditsSurvive, Written
<1>8. QED
  BY <1>6, <1>7 DEF Check

\* The snapshot of a root has the edits under it.
LEMMA SnapshotKeeps ==
  ASSUME PatchInvariant, NEW r \in Path, Snapshot(r)
  PROVE  PatchInvariant'
<1>1. /\ pc = "snapshot" /\ r \in todo
      /\ UNCHANGED <<fs, patch, index, result, faults, edits, before, safe>>
  BY DEF Snapshot, history
<1>2. snapshot' = [x \in Path |-> IF IsPrefix(r, x)
                                        \/ (x \in Parents(r) /\ snapshot[x] = "unsaved")
                                  THEN fs[x] ELSE snapshot[x]]
  BY DEF Snapshot
<1>3. TypeOK /\ Untouched /\ InPlace /\ SavedForRollback /\ Visits
  BY DEF PatchInvariant
<1>4. Touched' = Touched /\ Roots' = Roots /\ UnderRoots' = UnderRoots
  BY <1>1, PatchFixed
<1>5. \A y \in safe : fs[y] = "edit"
  BY <1>1, <1>3 DEF InPlace
<1>6. safe \cap Touched = {}
  BY <1>1, <1>3 DEF Untouched
<1>7. \A y \in safe \cap UnderRoots :
        (\A q \in todo \ {r} : ~ IsPrefix(q, y)) => snapshot'[y] = "edit"
  <2> SUFFICES ASSUME NEW y \in safe \cap UnderRoots,
                      \A q \in todo \ {r} : ~ IsPrefix(q, y)
               PROVE  snapshot'[y] = "edit"
    OBVIOUS
  <2>1. y \in Path /\ fs[y] = "edit"
    BY <1>3, <1>5 DEF TypeOK
  <2>2. CASE IsPrefix(r, y)
    BY <1>2, <2>1, <2>2
  <2>3. CASE ~ IsPrefix(r, y)
    <3>1. snapshot[y] = "edit"
      BY <1>1, <1>3, <2>3 DEF SavedForRollback
    <3>2. QED
      BY <1>2, <2>1, <3>1
  <2>4. QED
    BY <2>2, <2>3
<1>8. Touched \subseteq Path
  BY DEF Touched
<1>9. CASE todo = {r} /\ Enter("delete", {x \in Touched : ~ IsFile(patch.new[x])})
  <2>1. pc' = "delete" /\ todo' \subseteq Touched
    BY <1>9 DEF Enter
  <2>2. TypeOK'
    BY <1>1, <1>2, <1>3, <1>8, <2>1 DEF TypeOK, Phase, Written
  <2>3. \A y \in safe \cap UnderRoots : snapshot'[y] = "edit"
    BY <1>7, <1>9
  <2>4. QED
    BY <1>1, <1>4, <1>5, <1>6, <2>1, <2>2, <2>3
      DEF PatchInvariant, ReadAsEdited, Untouched, InPlace, SavedForRollback, Visits,
        EditsSurvive, Written
<1>10. CASE todo' = todo \ {r} /\ UNCHANGED pc
  <2>1. TypeOK'
    BY <1>1, <1>2, <1>3, <1>10 DEF TypeOK
  <2>2. todo' \subseteq Roots
    BY <1>1, <1>3, <1>10 DEF Visits
  <2>3. QED
    BY <1>1, <1>4, <1>5, <1>6, <1>7, <1>10, <2>1, <2>2
      DEF PatchInvariant, ReadAsEdited, Untouched, InPlace, SavedForRollback, Visits,
        EditsSurvive, Written
<1>11. QED
  BY <1>9, <1>10 DEF Snapshot

\* A step of materializePatchIndex() that leaves the edits beside the touched paths
\* alone.
LEMMA WrittenKeeps ==
  ASSUME PatchInvariant, pc \in Written, pc' \in Written,
         DOMAIN fs' = Path, todo' \subseteq Path,
         pc' \in {"delete", "write"} => todo' \subseteq Touched,
         \A y \in Path \ Touched : fs[y] = "edit" => fs'[y] = "edit",
         UNCHANGED <<patch, index, snapshot, result, faults, edits, before, safe>>
  PROVE  PatchInvariant'
<1>1. TypeOK /\ Untouched /\ InPlace /\ SavedForRollback /\ Visits
  BY DEF PatchInvariant
<1>2. Touched' = Touched /\ Roots' = Roots /\ UnderRoots' = UnderRoots
  BY PatchFixed
<1>3. \A y \in safe : fs'[y] = "edit"
  <2>1. safe \subseteq Path \ Touched
    BY <1>1 DEF TypeOK, Untouched
  <2>2. QED
    BY <1>1, <2>1 DEF InPlace
<1>4. TypeOK'
  BY <1>1 DEF TypeOK, Phase, Written
<1>5. Untouched'
  BY <1>1, <1>2 DEF Untouched
<1>6. InPlace'
  BY <1>3 DEF InPlace, Written
<1>7. SavedForRollback'
  BY <1>1, <1>2 DEF SavedForRollback, Written
<1>8. Visits'
  BY <1>2 DEF Visits, Written
<1>9. QED
  BY <1>4, <1>5, <1>6, <1>7, <1>8 DEF PatchInvariant, ReadAsEdited, EditsSurvive, Written

\* They all do: a file is written at a touched path, its parents were directories, and
\* only empty directories are removed.
LEMMA MaterializeKeeps ==
  ASSUME PatchInvariant,
         (\E x \in Path : Delete(x) \/ Write(x)) \/ Prune \/ Sweep \/ Verify
  PROVE  PatchInvariant'
<1>1. TypeOK /\ Visits
  BY DEF PatchInvariant
<1>2. UNCHANGED <<patch, index, snapshot, result, faults, edits, before, safe>>
  BY DEF Delete, Write, Prune, Sweep, Verify, MaterialUnchanged, history
<1>3. Touched \subseteq Path
  BY DEF Touched
<1>4. ASSUME NEW S PROVE /\ DOMAIN WithoutEmpty(fs, S) = Path
                         /\ \A y \in Path :
                               fs[y] = "edit" => WithoutEmpty(fs, S)[y] = "edit"
  BY DEF WithoutEmpty
<1>5. CASE \E x \in Path : Delete(x)
  <2>1. PICK x \in Path : Delete(x)
    BY <1>5
  <2>2. /\ pc = "delete" /\ pc' = "delete" /\ x \in todo /\ todo' = todo \ {x}
        /\ fs' = fs \/ fs' = [fs EXCEPT ![x] = "absent"]
    BY <2>1 DEF Delete, Put
  <2>3. todo \subseteq Touched
    BY <1>1, <2>2 DEF Visits
  <2>4. DOMAIN fs' = Path /\ \A y \in Path \ Touched : fs'[y] = fs[y]
    BY <1>1, <2>2, <2>3 DEF TypeOK
  <2>5. QED
    BY <1>2, <1>3, <2>2, <2>3, <2>4, WrittenKeeps DEF Written
<1>6. CASE \E x \in Path : Write(x)
  <2>1. PICK x \in Path : Write(x)
    BY <1>6
  <2>2. pc = "write" /\ pc' = "write" /\ x \in todo /\ todo' = todo \ {x} /\ ~ Blocked(x)
    BY <2>1 DEF Write
  <2>3. todo \subseteq Touched
    BY <1>1, <2>2 DEF Visits
  <2>4. /\ DOMAIN fs' = Path
        /\ \A y \in Path : y # x /\ y \notin Parents(x) => fs'[y] = fs[y]
    BY <2>1 DEF Write, WriteFile
  <2>5. ASSUME NEW y \in Path \ Touched, fs[y] = "edit" PROVE fs'[y] = "edit"
    <3>1. y # x
      BY <2>2, <2>3
    <3>2. y \notin Parents(x)
      BY <2>2, <2>5 DEF Blocked, IsFile
    <3>3. QED
      BY <2>4, <2>5, <3>1, <3>2
  <2>6. QED
    BY <1>2, <1>3, <2>2, <2>3, <2>4, <2>5, WrittenKeeps DEF Written
<1>7. CASE Prune
  <2>1. /\ pc = "delete" /\ pc' = "write" /\ todo' \subseteq Touched
        /\ fs' = WithoutEmpty(fs, Replaced)
    BY <1>7 DEF Prune, Enter
  <2>2. QED
    BY <1>2, <1>3, <1>4, <2>1, WrittenKeeps DEF Written
<1>8. CASE Sweep
  <2>1. /\ pc = "write" /\ pc' = "verify" /\ todo' = {}
        /\ fs' = WithoutEmpty(fs, UNION {Parents(x) : x \in Touched})
    BY <1>8 DEF Sweep, Enter
  <2>2. QED
    BY <1>2, <1>4, <2>1, WrittenKeeps DEF Written
<1>9. CASE Verify
  <2>1. pc = "verify" /\ pc' = "sync" /\ todo' = {} /\ fs' = fs
    BY <1>9 DEF Verify, Enter
  <2>2. QED
    BY <1>1, <1>2, <2>1, WrittenKeeps DEF Written, TypeOK
<1>10. QED
  BY <1>5, <1>6, <1>7, <1>8, <1>9

\* The patch is applied, and the safe edits are in place.
LEMMA SyncKeeps ==
  ASSUME PatchInvariant, Sync
  PROVE  PatchInvariant'
<1>1. /\ pc = "sync" /\ pc' = "done" /\ todo' = {} /\ result' = "applied"
      /\ UNCHANGED <<fs, patch, index, snapshot, faults, edits, before, safe>>
  BY DEF Sync, Finish, history
<1>2. TypeOK /\ InPlace
  BY DEF PatchInvariant
<1>3. TypeOK'
  BY <1>1, <1>2 DEF TypeOK, Phase
<1>4. \A y \in safe : fs[y] = "edit"
  BY <1>1, <1>2 DEF InPlace, Written
<1>5. QED
  BY <1>1, <1>3, <1>4
    DEF PatchInvariant, ReadAsEdited, Untouched, InPlace, SavedForRollback, Visits,
      EditsSurvive, Written

\* A failure that leaves the safe edits in place starts the rollback, or ends.
LEMMA ThrowKeeps ==
  ASSUME PatchInvariant, Throw, pc \in Written \cup {"index", "snapshot"},
         DOMAIN fs' = Path, faults' \in 0..faultBound,
         \A y \in safe : fs'[y] = "edit"
  PROVE  PatchInvariant'
<1>1. UNCHANGED <<patch, index, snapshot, edits, before, safe>>
  BY DEF Throw, history
<1>2. TypeOK /\ SavedForRollback
  BY DEF PatchInvariant
<1>3. Touched' = Touched /\ Roots' = Roots /\ UnderRoots' = UnderRoots
  BY <1>1, PatchFixed
<1>4. Roots \subseteq Path
  BY DEF Roots, Touched
<1>5. CASE pc \in Written
  <2>1. pc' = "remove" /\ todo' = Roots /\ result' = result
    BY <1>5 DEF Throw, Enter
  <2>2. TypeOK'
    BY <1>1, <1>2, <1>4, <1>5, <2>1 DEF TypeOK, Phase, Written
  <2>3. \A y \in safe \cap UnderRoots : snapshot[y] = "edit"
    BY <1>2, <1>5 DEF SavedForRollback
  <2>4. QED
    BY <1>1, <1>3, <2>1, <2>2, <2>3
      DEF PatchInvariant, ReadAsEdited, Untouched, InPlace, SavedForRollback, Visits,
        EditsSurvive, Written
<1>6. CASE pc \notin Written
  <2>1. pc' = "done" /\ todo' = {} /\ result' = "rejected"
    BY <1>6 DEF Throw, Finish
  <2>2. TypeOK'
    BY <1>1, <1>2, <2>1 DEF TypeOK, Phase
  <2>3. QED
    BY <1>1, <2>1, <2>2
      DEF PatchInvariant, ReadAsEdited, Untouched, InPlace, SavedForRollback, Visits,
        EditsSurvive, Written
<1>7. QED
  BY <1>5, <1>6

\* The file that is removed to be written again is of a touched path.
LEMMA FailureKeeps ==
  ASSUME PatchInvariant, Obstruct \/ Fault
  PROVE  PatchInvariant'
<1>1. TypeOK /\ InPlace /\ Untouched /\ Visits
  BY DEF PatchInvariant
<1>2. Throw /\ pc \in Written \cup {"index", "snapshot"}
  BY DEF Obstruct, Obstructed, Fault, Written
<1>3. faults' \in 0..faultBound
  BY <1>1, PatchAssumption DEF Obstruct, Fault, TypeOK
<1>4. \A y \in safe : fs[y] = "edit"
  BY <1>1, <1>2 DEF InPlace
<1>5. CASE UNCHANGED fs
  BY <1>1, <1>2, <1>3, <1>4, <1>5, ThrowKeeps DEF TypeOK
<1>6. CASE pc = "write" /\ \E x \in todo : Put(x, "absent")
  <2>1. PICK x \in todo : fs' = [fs EXCEPT ![x] = "absent"]
    BY <1>6 DEF Put
  <2>2. x \in Touched /\ safe \cap Touched = {}
    BY <1>1, <1>6 DEF Visits, Untouched, Written
  <2>3. DOMAIN fs' = Path /\ \A y \in safe : fs'[y] = "edit"
    BY <1>1, <1>4, <2>1, <2>2 DEF TypeOK
  <2>4. QED
    BY <1>2, <1>3, <2>3, ThrowKeeps
<1>7. QED
  BY <1>5, <1>6 DEF Obstruct, Fault

\* What is removed with a root was saved.
LEMMA RemoveRootKeeps ==
  ASSUME PatchInvariant, NEW r \in Path, RemoveRoot(r)
  PROVE  PatchInvariant'
<1>1. /\ pc = "remove" /\ r \in todo /\ todo' = todo \ {r}
      /\ pc' \in {"remove", "recreate"}
      /\ fs' = [x \in Path |-> IF IsPrefix(r, x) THEN "absent" ELSE fs[x]]
      /\ UNCHANGED <<patch, index, snapshot, result, faults, edits, before, safe>>
  BY DEF RemoveRoot, history
<1>2. TypeOK /\ InPlace /\ SavedForRollback /\ Visits
  BY DEF PatchInvariant
<1>3. Touched' = Touched /\ Roots' = Roots /\ UnderRoots' = UnderRoots
  BY <1>1, PatchFixed
<1>4. r \in Roots
  BY <1>1, <1>2 DEF Visits
<1>5. TypeOK'
  BY <1>1, <1>2 DEF TypeOK, Phase
<1>6. InPlace'
  <2> SUFFICES ASSUME NEW y \in safe, y \notin UnderRoots PROVE fs'[y] = "edit"
    BY <1>1, <1>3 DEF InPlace, Written
  <2>1. y \in Path /\ fs[y] = "edit"
    BY <1>1, <1>2 DEF TypeOK, InPlace
  <2>2. ~ IsPrefix(r, y)
    BY <1>4, <2>1 DEF UnderRoots
  <2>3. QED
    BY <1>1, <2>1, <2>2
<1>7. todo' \subseteq Roots
  BY <1>1, <1>2 DEF Visits
<1>8. QED
  BY <1>1, <1>2, <1>3, <1>5, <1>6, <1>7
    DEF PatchInvariant, ReadAsEdited, Untouched, SavedForRollback, Visits, EditsSurvive,
      Written

\* restoreApplySnapshot() puts back the edits that were saved, and removes or
\* overwrites none of the others.
LEMMA RestoredKeepsEdits ==
  ASSUME PatchInvariant, pc = "recreate", ~ RestoreFails
  PROVE  /\ DOMAIN Restored = Path
         /\ \A y \in safe : Restored[y] = "edit"
<1> DEFINE back == [x \in Path |-> CASE Saved(x) -> snapshot[x]
                                     [] ~ Saved(x) /\ \E y \in Below(x) : Saved(y)
                                          -> "dir"
                                     [] OTHER -> fs[x]]
<1>1. TypeOK /\ InPlace /\ SavedForRollback
  BY DEF PatchInvariant
<1>2. DOMAIN Restored = Path
  BY DEF Restored, WithoutEmpty
<1>3. ASSUME NEW y \in safe PROVE Restored[y] = "edit"
  <2>1. y \in Path
    BY <1>1 DEF TypeOK
  <2>2. CASE y \in UnderRoots
    <3>1. snapshot[y] = "edit"
      BY <1>1, <2>2 DEF SavedForRollback
    <3>2. Saved(y)
      BY <2>2, <3>1 DEF Saved
    <3>3. QED
      BY <2>1, <3>1, <3>2 DEF Restored, WithoutEmpty
  <2>3. CASE y \notin UnderRoots
    <3>1. fs[y] = "edit"
      BY <1>1, <2>3 DEF InPlace
    <3>2. ~ Saved(y)
      BY <2>3 DEF Saved
    <3>3. ASSUME NEW z \in Below(y), Saved(z) PROVE FALSE
      <4>1. z \in Path /\ y \in Parents(z)
        BY <2>1, <3>3 DEF Below, Parents
      <4>2. Blocked(z)
        BY <3>1, <4>1 DEF Blocked, IsFile
      <4>3. QED
        BY <3>3, <4>1, <4>2 DEF RestoreFails
    <3>4. back[y] = fs[y]
      BY <2>1, <3>2, <3>3
    <3>5. back[y] = "edit"
      BY <3>1, <3>4
    <3> HIDE DEF back
    <3>6. Restored = WithoutEmpty(back, {x \in Above : snapshot[x] = "absent"})
      BY DEF Restored, back
    <3>7. QED
      BY <2>1, <3>5, <3>6 DEF WithoutEmpty
  <2>4. QED
    BY <2>2, <2>3
<1>4. QED
  BY <1>2, <1>3

\* After the rollback every safe edit is in place.
LEMMA RecreateKeeps ==
  ASSUME PatchInvariant, Recreate
  PROVE  PatchInvariant'
<1>1. /\ pc = "recreate" /\ pc' = "done" /\ todo' = {} /\ result' = "rejected"
      /\ fs' = Restored /\ ~ RestoreFails
      /\ UNCHANGED <<patch, index, snapshot, faults, edits, before, safe>>
  BY DEF Recreate, Finish, history
<1>2. DOMAIN Restored = Path /\ \A y \in safe : Restored[y] = "edit"
  BY <1>1, RestoredKeepsEdits
<1>3. TypeOK'
  BY <1>1, <1>2 DEF PatchInvariant, TypeOK, Phase
<1>4. QED
  BY <1>1, <1>2, <1>3
    DEF PatchInvariant, ReadAsEdited, Untouched, InPlace, SavedForRollback, Visits,
      EditsSurvive, Written

\* When it fails, every safe edit beside the roots is.
LEMMA RollbackFailsKeeps ==
  ASSUME PatchInvariant, RollbackFails
  PROVE  PatchInvariant'
<1>1. /\ pc \in {"remove", "recreate"} /\ pc' = "done" /\ todo' = {}
      /\ result' = "uncertain"
      /\ UNCHANGED <<patch, index, snapshot, edits, before, safe>>
  BY DEF RollbackFails, Finish, history
<1>2. TypeOK /\ InPlace
  BY DEF PatchInvariant
<1>3. UnderRoots' = UnderRoots
  BY <1>1, PatchFixed
<1>4. UNCHANGED fs \/ (pc = "recreate" /\ ~ RestoreFails /\ fs' = Restored)
  BY DEF RollbackFails
<1>5. DOMAIN fs' = Path /\ \A y \in safe : fs'[y] = "edit" \/ y \in UnderRoots
  BY <1>1, <1>2, <1>4, RestoredKeepsEdits DEF TypeOK, InPlace
<1>6. faults' \in 0..faultBound
  BY <1>2, PatchAssumption DEF RollbackFails, TypeOK
<1>7. TypeOK'
  BY <1>1, <1>2, <1>5, <1>6 DEF TypeOK, Phase
<1>8. QED
  BY <1>1, <1>3, <1>5, <1>7
    DEF PatchInvariant, ReadAsEdited, Untouched, InPlace, SavedForRollback, Visits,
      EditsSurvive, Written

\* An edit outside of the window of its path becomes safe, one within it is not.
LEMMA EditKeeps ==
  ASSUME PatchInvariant, NEW x \in UserPath, Edit(x)
  PROVE  PatchInvariant'
<1>1. /\ pc # "done" /\ fs' = [fs EXCEPT ![x] = "edit"] /\ edits < userBound
      /\ edits' = edits + 1
      /\ UNCHANGED <<patch, pc, todo, index, snapshot, result, faults, before>>
  BY DEF Edit, Put, program
<1>2. safe' = IF x \in Exposed THEN safe \ {x} ELSE safe \cup {x}
  BY DEF Edit
<1>3. TypeOK /\ ReadAsEdited /\ Untouched /\ InPlace /\ SavedForRollback /\ Visits
  BY DEF PatchInvariant
<1>4. Touched' = Touched /\ Roots' = Roots /\ UnderRoots' = UnderRoots
  BY <1>1, PatchFixed
<1>5. x \in Path
  BY PatchAssumption
<1>6. fs'[x] = "edit" /\ \A y \in Path \ {x} : fs'[y] = fs[y]
  BY <1>1, <1>3, <1>5 DEF TypeOK
<1>7. TypeOK'
  BY <1>1, <1>2, <1>3, <1>5, PatchAssumption DEF TypeOK
<1>8. safe' \subseteq Path
  BY <1>7 DEF TypeOK
<1>9. CASE pc = "index"
  <2>1. Exposed = Touched \ todo
    BY <1>9 DEF Exposed
  <2>2. ReadAsEdited'
    BY <1>1, <1>2, <1>3, <1>4, <1>6, <1>8, <1>9, <2>1 DEF ReadAsEdited
  <2>3. InPlace'
    BY <1>1, <1>2, <1>3, <1>6, <1>8, <1>9 DEF InPlace, Written
  <2>4. QED
    BY <1>1, <1>7, <1>9, <2>2, <2>3
      DEF PatchInvariant, Untouched, SavedForRollback, Visits, EditsSurvive, Written
<1>10. CASE pc = "snapshot"
  <2>1. Exposed = Touched \cup {y \in UnderRoots : \A r \in todo : ~ IsPrefix(r, y)}
    BY <1>10 DEF Exposed
  <2>2. Untouched'
    BY <1>1, <1>2, <1>3, <1>4, <1>10, <2>1 DEF Untouched
  <2>3. InPlace'
    BY <1>1, <1>2, <1>3, <1>6, <1>8, <1>10 DEF InPlace, Written
  <2>4. SavedForRollback'
    BY <1>1, <1>2, <1>3, <1>4, <1>10, <2>1 DEF SavedForRollback, Written
  <2>5. Visits'
    BY <1>1, <1>3, <1>4, <1>10 DEF Visits
  <2>6. QED
    BY <1>1, <1>7, <1>10, <2>2, <2>3, <2>4, <2>5
      DEF PatchInvariant, ReadAsEdited, EditsSurvive
<1>11. CASE pc \in Written \cup {"remove", "recreate"}
  <2>1. Exposed = UnderRoots
    BY <1>11 DEF Exposed, Written
  <2>2. Untouched'
    BY <1>1, <1>2, <1>3, <1>4, <1>11, <2>1, TouchedUnderRoots DEF Untouched
  <2>3. InPlace'
    BY <1>1, <1>2, <1>3, <1>4, <1>6, <1>8, <1>11 DEF InPlace
  <2>4. SavedForRollback'
    BY <1>1, <1>2, <1>3, <1>4, <1>11, <2>1 DEF SavedForRollback, Written
  <2>5. Visits'
    BY <1>1, <1>3, <1>4, <1>11 DEF Visits
  <2>6. QED
    BY <1>1, <1>7, <1>11, <2>2, <2>3, <2>4, <2>5
      DEF PatchInvariant, ReadAsEdited, EditsSurvive, Written
<1>12. QED
  BY <1>1, <1>3, <1>9, <1>10, <1>11 DEF TypeOK, Phase

\* Every step keeps the invariant.
LEMMA PatchNextKeeps ==
  ASSUME PatchInvariant, [Next]_vars
  PROVE  PatchInvariant'
<1>1. CASE UNCHANGED vars
  BY <1>1
    DEF vars, program, history, PatchInvariant, TypeOK, ReadAsEdited, Untouched,
      InPlace, SavedForRollback, Visits, EditsSurvive, Touched, Roots, UnderRoots, Parents
<1>2. CASE \E x \in Path : ReadIndex(x) \/ Snapshot(x) \/ RemoveRoot(x)
  BY <1>2, ReadIndexKeeps, SnapshotKeeps, RemoveRootKeeps
<1>3. CASE (\E x \in Path : Delete(x) \/ Write(x)) \/ Prune \/ Sweep \/ Verify
  BY <1>3, MaterializeKeeps
<1>4. CASE Check \/ Sync
  BY <1>4, CheckKeeps, SyncKeeps
<1>5. CASE Obstruct \/ Fault
  BY <1>5, FailureKeeps
<1>6. CASE Recreate \/ RollbackFails
  BY <1>6, RecreateKeeps, RollbackFailsKeeps
<1>7. CASE \E x \in UserPath : Edit(x)
  BY <1>7, EditKeeps
<1>8. CASE Done
  BY <1>1, <1>8 DEF Done
<1>9. QED
  BY <1>1, <1>2, <1>3, <1>4, <1>5, <1>6, <1>7, <1>8 DEF Next

\* The invariant holds whatever the user edits and the system fails.
THEOREM PatchApplyCorrect == Spec => []PatchInvariant
<1>1. Init => PatchInvariant
  BY PatchInitHolds
<1>2. PatchInvariant /\ [Next]_vars => PatchInvariant'
  BY PatchNextKeeps
<1>3. QED
  BY <1>1, <1>2, PTL DEF Spec

\* An edit of the user survives unless it was made in the window of its path.
THEOREM EditsKept == Spec => []EditsSurvive
<1>1. PatchInvariant => EditsSurvive
  BY DEF PatchInvariant
<1>2. QED
  BY <1>1, PatchApplyCorrect, PTL

----------------------------------------------------------------------------
(***************************************************************************)
(* The inductive invariant for atomicity: as long as the user has not      *)
(* edited, the working tree is at each phase what the code takes it for.   *)
(***************************************************************************)
\* The file at a path, as git sees it.
AtPath(t, x) == IF IsFile(t[x]) THEN t[x] ELSE "absent"

\* The directories that stay for their own sake.
Staying(x) == before[x] = "dir" /\ x \notin Touched /\ x \notin AboveTouched

\* What `git apply' has established of the tree from the private index.
Accepted ==
  /\ \A x \in Touched : AtPath(before, x) = patch.old[x]
  /\ \A x, y \in Touched : IsFile(patch.new[x]) /\ y \in Below(x)
       => ~ IsFile(patch.new[y])
  /\ \A x \in AboveTouched \ Touched : ~ IsFile(before[x])

IsTreeOf(t) == \A x, y \in Path : IsStrictPrefix(x, y) /\ t[y] # "absent" => t[x] = "dir"

\* The tree that applyPatch() was called on.
StartedFrom ==
  /\ IsTreeOf(before)
  /\ before = [x \in Path |-> before[x]]
  /\ \A x \in Path : before[x] # "unsaved"

\* The index holds files that are there, and all that are in the way of the touched
\* paths that were read.
AsRead ==
  pc = "index" =>
    /\ \A x \in Path : index[x] # "absent" => IsFile(before[x]) /\ index[x] = before[x]
    /\ \A x \in Touched \ todo : \A y \in Parents(x) \cup {x} :
         IsFile(before[y]) => index[y] = before[y]

\* The snapshot holds the tree under the roots, and the directories above them.
AsSaved ==
  /\ pc = "index" => \A x \in Path : snapshot[x] = "unsaved"
  /\ pc = "snapshot" =>
       /\ \A x \in Path : snapshot[x] \in {"unsaved", before[x]}
       /\ \A r \in Roots \ todo : \A x \in Path :
            IsPrefix(r, x) \/ x \in Parents(r) => snapshot[x] = before[x]
  /\ pc \in Written \cup {"remove", "recreate"} =>
       \A x \in UnderRoots \cup Above : snapshot[x] = before[x]

\* Nothing is written before all is saved.
Unwritten == pc \in {"index", "snapshot"} => fs = before

\* Beside the roots nothing changes but directories above them.
Beside ==
  pc \in Written \cup {"remove", "recreate"} =>
    /\ \A x \in Path \ (UnderRoots \cup Above) : fs[x] = before[x]
    /\ \A x \in Above : ~ IsFile(fs[x])

\* While the patch is written the tree is one, files that it does not touch and
\* directories that stay are as they were, and no directory is new but for a file.
AsATree ==
  pc \in Written =>
    /\ fs = [x \in Path |-> fs[x]]
    /\ IsTreeOf(fs)
    /\ \A x \in Path \ Touched : AtPath(fs, x) = AtPath(before, x)
    /\ \A x \in Path : Staying(x) => fs[x] = "dir"
    /\ \A x \in Path : fs[x] = "dir" => before[x] = "dir" \/ x \in AboveTouched

\* Nothing that the patch leaves alone is under the path.
Clear(x) == \A y \in Below(x) : ~ Staying(y) /\ (y \notin Touched => ~ IsFile(before[y]))

\* What was visited is written; and it could be written because the path was clear.
WrittenSoFar ==
  /\ pc = "write" =>
       \A x \in Touched \ todo : IsFile(patch.new[x]) => fs[x] = patch.new[x] /\ Clear(x)
  /\ pc \in {"verify", "sync"} => \A x \in Touched : IsFile(patch.new[x]) => Clear(x)

\* After the sweep a directory above touched paths has something in it that stays.
Swept ==
  /\ pc \in {"verify", "sync"} =>
       \A x \in AboveTouched : fs[x] = "dir" =>
         \E y \in Below(x) : IsFile(fs[y]) \/ (fs[y] = "dir" /\ y \notin AboveTouched)
  /\ pc = "sync" => PostCondition

\* A directory above a root can only be lost to the sweep, and then the patch had
\* removed the file at that root: putting it back makes the directory again.
DirectoryLost(x) == \E r \in Roots : x \in Parents(r) /\ ~ IsFile(patch.new[r])

Directories ==
  /\ pc \in {"delete", "write"} => \A x \in Above : before[x] = "dir" => fs[x] = "dir"
  /\ pc \in {"verify", "sync", "remove", "recreate"} =>
       \A x \in Above : before[x] = "dir" => fs[x] = "dir" \/ DirectoryLost(x)

\* The rollback has removed the roots that it visited.
Removed ==
  /\ pc = "remove" => \A r \in Roots \ todo : \A x \in Path :
                        IsPrefix(r, x) => fs[x] = "absent"
  /\ pc = "recreate" => \A x \in UnderRoots : fs[x] = "absent"

Faithful ==
  /\ pc \notin {"index", "done"} => Accepted
  /\ AsRead /\ AsSaved /\ Unwritten /\ Beside /\ AsATree /\ WrittenSoFar /\ Swept
  /\ Directories /\ Removed

AtomicInvariant == StartedFrom /\ (edits = 0 => Faithful)

\* applyPatch() starts from the tree, with nothing read and nothing saved.
LEMMA AtomicInitHolds ==
  ASSUME Init
  PROVE  AtomicInvariant
<1>1. StartedFrom
  BY PatchAssumption DEF Init, StartedFrom, IsTreeOf
<1>2. Faithful
  BY
    DEF Init, Faithful, AsRead, AsSaved, Unwritten, Beside, AsATree, WrittenSoFar,
      Swept, Directories, Removed, Written
<1>3. QED
  BY <1>1, <1>2 DEF AtomicInvariant

\* What is derived from the patch and from the tree before it changes with them only.
LEMMA SamePatch ==
  ASSUME UNCHANGED <<patch, before>>
  PROVE  /\ Touched' = Touched /\ Roots' = Roots /\ UnderRoots' = UnderRoots
         /\ Above' = Above
         /\ AboveTouched' = AboveTouched
         /\ \A x : Staying(x)' <=> Staying(x)
         /\ \A x : DirectoryLost(x)' <=> DirectoryLost(x)
         /\ \A x : Clear(x)' <=> Clear(x)
         /\ Accepted' <=> Accepted
         /\ StartedFrom' <=> StartedFrom
<1>1. Touched' = Touched /\ Roots' = Roots /\ UnderRoots' = UnderRoots
  BY PatchFixed
<1>2. Above' = Above /\ AboveTouched' = AboveTouched
  BY <1>1 DEF Above, AboveTouched
<1>3. \A x : Staying(x)' <=> Staying(x)
  BY <1>1, <1>2 DEF Staying
<1>4. \A x : DirectoryLost(x)' <=> DirectoryLost(x)
  BY <1>1 DEF DirectoryLost
<1>5. \A x : Clear(x)' <=> Clear(x)
  BY <1>1, <1>3 DEF Clear
<1>6. Accepted' <=> Accepted
  BY <1>1, <1>2 DEF Accepted, AtPath
<1>7. StartedFrom' <=> StartedFrom
  BY DEF StartedFrom, IsTreeOf
<1>8. QED
  BY <1>1, <1>2, <1>3, <1>4, <1>5, <1>6, <1>7

\* Removing the empty directories of a set removes nothing else, and leaves a tree.
LEMMA Emptied ==
  ASSUME NEW t, NEW S
  PROVE  /\ WithoutEmpty(t, S) = [x \in Path |-> WithoutEmpty(t, S)[x]]
         /\ \A x \in Path : \/ WithoutEmpty(t, S)[x] = t[x]
                            \/ WithoutEmpty(t, S)[x] = "absent" /\ x \in S /\ t[x] = "dir"
         /\ \A x \in Path : x \in S /\ t[x] = "dir" =>
              (WithoutEmpty(t, S)[x] = "absent" <=>
                 \A y \in Below(x) : t[y] = "absent" \/ (y \in S /\ t[y] = "dir"))
         /\ IsTreeOf(t) => IsTreeOf(WithoutEmpty(t, S))
<1> DEFINE W == WithoutEmpty(t, S)
<1>1. W = [x \in Path |-> W[x]]
  BY DEF WithoutEmpty
<1>2. \A x \in Path : W[x] = t[x] \/ (W[x] = "absent" /\ x \in S /\ t[x] = "dir")
  BY DEF WithoutEmpty
<1>3. \A x \in Path : x \in S /\ t[x] = "dir" =>
        (W[x] = "absent" <=>
           \A y \in Below(x) : t[y] = "absent" \/ (y \in S /\ t[y] = "dir"))
  BY DEF WithoutEmpty
<1>4. ASSUME IsTreeOf(t), NEW a \in Path, NEW b \in Path, IsStrictPrefix(a, b),
             W[b] # "absent"
      PROVE  W[a] = "dir"
  <2> HIDE DEF W
  <2>1. W[b] = t[b] /\ t[a] = "dir"
    BY <1>2, <1>4 DEF IsTreeOf
  <2> SUFFICES ASSUME W[a] = "absent" PROVE FALSE
    BY <1>2, <2>1
  <2>2. a \in S /\ \A y \in Below(a) : t[y] = "absent" \/ (y \in S /\ t[y] = "dir")
    BY <1>2, <1>3, <2>1
  <2>3. b \in S /\ t[b] = "dir"
    BY <1>4, <2>1, <2>2 DEF Below
  <2>4. PICK c \in Below(b) : ~ (t[c] = "absent" \/ (c \in S /\ t[c] = "dir"))
    BY <1>3, <1>4, <2>3
  <2>5. c \in Below(a)
    BY <1>4, StrictOrder DEF Below
  <2>6. QED
    BY <2>2, <2>4, <2>5
<1>5. QED
  BY <1>1, <1>2, <1>3, <1>4 DEF IsTreeOf

\* populatePatchIndex() reads what is there.
LEMMA ReadIndexFaithful ==
  ASSUME PatchInvariant, StartedFrom, Faithful, NEW x \in Path, ReadIndex(x)
  PROVE  Faithful'
<1>1. /\ pc = "index" /\ todo' = todo \ {x}
      /\ index' = [y \in Path |-> IF y \in Parents(x) \cup {x} /\ IsFile(fs[y])
                                   THEN fs[y] ELSE index[y]]
      /\ UNCHANGED <<fs, patch, pc, snapshot, before>>
  BY DEF ReadIndex, history
<1>2. fs = before /\ AsRead /\ AsSaved /\ TypeOK
  BY <1>1 DEF Faithful, Unwritten, PatchInvariant
<1>3. Touched' = Touched /\ Touched \subseteq Path
  BY <1>1, SamePatch, Geometry
<1>4. \A y \in Path : index'[y] # "absent" => IsFile(before[y]) /\ index'[y] = before[y]
  BY <1>1, <1>2 DEF AsRead
<1>5. \A z \in Touched \ todo' : \A y \in Parents(z) \cup {z} : IsFile(before[y])
        => index'[y] = before[y]
  <2> SUFFICES ASSUME NEW z \in Touched \ todo', NEW y \in Parents(z) \cup {z},
                      IsFile(before[y])
               PROVE  index'[y] = before[y]
    OBVIOUS
  <2>1. y \in Path
    BY <1>3 DEF Parents
  <2>2. CASE z = x
    BY <1>1, <1>2, <2>1, <2>2
  <2>3. CASE z # x
    <3>1. index[y] = before[y]
      BY <1>1, <1>2, <2>3 DEF AsRead
    <3>2. QED
      BY <1>1, <1>2, <2>1, <3>1
  <2>4. QED
    BY <2>2, <2>3
<1>6. AsRead'
  BY <1>1, <1>3, <1>4, <1>5 DEF AsRead
<1>7. QED
  BY <1>1, <1>2, <1>6
    DEF Faithful, AsSaved, Unwritten, Beside, AsATree, WrittenSoFar, Swept, Directories,
      Removed, Written

\* What applies to the index applies to the tree.
LEMMA CheckFaithful ==
  ASSUME PatchInvariant, StartedFrom, Faithful, Check
  PROVE  Faithful'
<1>1. pc = "index" /\ todo = {} /\ UNCHANGED <<fs, patch, index, snapshot, before>>
  BY DEF Check, history
<1>2. fs = before /\ AsRead /\ AsSaved
  BY <1>1 DEF Faithful, Unwritten
<1>3. Touched' = Touched /\ Roots' = Roots /\ UnderRoots' = UnderRoots /\ Above' = Above
      /\ (Accepted' <=> Accepted)
  BY <1>1, SamePatch
<1>4. CASE Applies /\ Enter("snapshot", Roots)
  <2>1. pc' = "snapshot" /\ todo' = Roots
    BY <1>4 DEF Enter
  <2>2. \A x \in Touched : AtPath(before, x) = patch.old[x]
    <3> SUFFICES ASSUME NEW x \in Touched PROVE AtPath(before, x) = patch.old[x]
      OBVIOUS
    <3>1. index[x] = patch.old[x]
      BY <1>4 DEF Applies
    <3>2. index[x] # "absent" => IsFile(before[x]) /\ index[x] = before[x]
      BY <1>1, <1>2, Geometry DEF AsRead
    <3>3. IsFile(before[x]) => index[x] = before[x]
      BY <1>1, <1>2 DEF AsRead
    <3>4. QED
      BY <3>1, <3>2, <3>3 DEF AtPath
  <2>3. \A x, y \in Touched : IsFile(patch.new[x]) /\ y \in Below(x)
          => ~ IsFile(patch.new[y])
    BY <1>4, Geometry DEF Applies, Result
  <2>4. \A x \in AboveTouched \ Touched : ~ IsFile(before[x])
    <3> SUFFICES ASSUME NEW x \in AboveTouched, x \notin Touched, IsFile(before[x])
                 PROVE  FALSE
      OBVIOUS
    <3>1. PICK y \in Touched : x \in Parents(y)
      BY DEF AboveTouched
    <3>2. x \in Path /\ index[x] = before[x]
      BY <1>1, <1>2, <3>1 DEF AsRead, Parents
    <3>3. Result[x] = index[x]
      BY <3>2 DEF Result
    <3>4. QED
      BY <1>4, <3>2, <3>3 DEF Applies
  <2>5. Accepted
    BY <2>2, <2>3, <2>4 DEF Accepted
  <2>6. AsSaved'
    BY <1>1, <1>2, <1>3, <2>1 DEF AsSaved, Written
  <2>7. QED
    BY <1>1, <1>2, <1>3, <2>1, <2>5, <2>6
      DEF Faithful, AsRead, Unwritten, Beside, AsATree, WrittenSoFar, Swept,
        Directories, Removed, Written
<1>5. CASE Finish("rejected")
  BY <1>5
    DEF Finish, Faithful, AsRead, AsSaved, Unwritten, Beside, AsATree, WrittenSoFar,
      Swept, Directories, Removed, Written
<1>6. QED
  BY <1>4, <1>5 DEF Check

\* snapshotApplyPaths() saves what is under a root, and above it.
LEMMA SnapshotFaithful ==
  ASSUME PatchInvariant, StartedFrom, Faithful, NEW r \in Path, Snapshot(r)
  PROVE  Faithful'
<1>1. /\ pc = "snapshot" /\ r \in todo /\ UNCHANGED <<fs, patch, index, before>>
      /\ snapshot' = [x \in Path |-> IF IsPrefix(r, x)
                                              \/ (x \in Parents(r) /\ snapshot[x] = "unsaved")
                                     THEN fs[x] ELSE snapshot[x]]
  BY DEF Snapshot, history
<1>2. fs = before /\ Accepted /\ AsSaved /\ todo \subseteq Roots
  BY <1>1 DEF Faithful, Unwritten, PatchInvariant, Visits
<1>3. Touched' = Touched /\ Roots' = Roots /\ UnderRoots' = UnderRoots /\ Above' = Above
      /\ AboveTouched' = AboveTouched /\ (Accepted' <=> Accepted)
      /\ \A x : Staying(x)' <=> Staying(x)
  BY <1>1, SamePatch
<1>4. \A x \in Path : snapshot'[x] \in {"unsaved", before[x]}
  BY <1>1, <1>2 DEF AsSaved
<1>5. \A q \in Roots \ (todo \ {r}) : \A x \in Path :
        IsPrefix(q, x) \/ x \in Parents(q) => snapshot'[x] = before[x]
  <2> SUFFICES ASSUME NEW q \in Roots, q \notin todo \ {r}, NEW x \in Path,
                      IsPrefix(q, x) \/ x \in Parents(q)
               PROVE  snapshot'[x] = before[x]
    OBVIOUS
  <2>1. CASE q = r
    BY <1>1, <1>2, <2>1 DEF AsSaved
  <2>2. CASE q # r
    <3>1. snapshot[x] = before[x]
      BY <1>1, <1>2, <2>2 DEF AsSaved
    <3>2. QED
      BY <1>1, <1>2, <3>1
  <2>3. QED
    BY <2>1, <2>2
<1>6. CASE todo = {r} /\ Enter("delete", {x \in Touched : ~ IsFile(patch.new[x])})
  <2>1. pc' = "delete"
    BY <1>6 DEF Enter
  <2>2. \A x \in UnderRoots \cup Above : snapshot'[x] = before[x]
    <3> SUFFICES ASSUME NEW x \in UnderRoots \cup Above PROVE snapshot'[x] = before[x]
      OBVIOUS
    <3>1. PICK q \in Roots : x \in Path /\ (IsPrefix(q, x) \/ x \in Parents(q))
      BY Geometry DEF UnderRoots, Above
    <3>2. QED
      BY <1>5, <1>6, <3>1
  <2>3. AsSaved'
    BY <1>1, <1>3, <2>1, <2>2 DEF AsSaved, Written
  <2>4. \A x \in Above : ~ IsFile(before[x])
    BY <1>2, Geometry, AboveIsFixed DEF Accepted
  <2>5. Beside'
    BY <1>1, <1>2, <1>3, <2>4 DEF Beside
  <2>6. AsATree'
    BY <1>1, <1>2, <1>3 DEF AsATree, StartedFrom, IsTreeOf, AtPath, Staying
  <2>7. Directories'
    BY <1>1, <1>2, <1>3, <2>1 DEF Directories
  <2>8. QED
    BY <1>2, <1>3, <2>1, <2>3, <2>5, <2>6, <2>7
      DEF Faithful, AsRead, Unwritten, WrittenSoFar, Swept, Removed
<1>7. CASE todo' = todo \ {r} /\ UNCHANGED pc
  <2>1. AsSaved'
    BY <1>1, <1>3, <1>4, <1>5, <1>7 DEF AsSaved, Written
  <2>2. QED
    BY <1>1, <1>2, <1>3, <1>7, <2>1
      DEF Faithful, AsRead, Unwritten, Beside, AsATree, WrittenSoFar, Swept,
        Directories, Removed, Written
<1>8. QED
  BY <1>6, <1>7 DEF Snapshot

\* A path that is deleted leaves a tree.
LEMMA DeleteFaithful ==
  ASSUME PatchInvariant, StartedFrom, Faithful, NEW x \in Path, Delete(x)
  PROVE  Faithful'
<1>1. /\ pc = "delete" /\ pc' = "delete" /\ x \in todo
      /\ UNCHANGED <<patch, index, snapshot, before>>
      /\ \/ fs' = fs
         \/ fs' = [fs EXCEPT ![x] = "absent"] /\ ~ (fs[x] = "dir" /\ ~ Empty(x))
  BY DEF Delete, Put, MaterialUnchanged, history
<1>2. /\ Accepted /\ AsSaved /\ Beside /\ AsATree /\ Directories /\ x \in Touched
      /\ DOMAIN fs = Path
  BY <1>1 DEF Faithful, PatchInvariant, Visits, TypeOK
<1>3. Touched' = Touched /\ Roots' = Roots /\ UnderRoots' = UnderRoots /\ Above' = Above
      /\ AboveTouched' = AboveTouched /\ (Accepted' <=> Accepted)
      /\ \A y : Staying(y)' <=> Staying(y)
  BY <1>1, SamePatch
<1>4. \A y \in Path : fs'[y] = fs[y] \/ (y = x /\ fs'[y] = "absent")
  BY <1>1, <1>2
<1>5. x \in UnderRoots /\ x \notin Above
  BY <1>2, Geometry, AboveIsFixed
<1>6. Beside'
  BY <1>1, <1>2, <1>3, <1>4, <1>5, Geometry DEF Beside, Written
<1>7. IsTreeOf(fs') /\ fs' = [y \in Path |-> fs'[y]]
  <2>1. IsTreeOf(fs) /\ fs = [y \in Path |-> fs[y]]
    BY <1>1, <1>2 DEF AsATree, Written
  <2>2. ASSUME fs' = [fs EXCEPT ![x] = "absent"], ~ (fs[x] = "dir" /\ ~ Empty(x)),
               NEW a \in Path, NEW b \in Path, IsStrictPrefix(a, b), fs'[b] # "absent"
        PROVE  fs'[a] = "dir"
    <3>1. b # x /\ fs[b] # "absent"
      BY <1>2, <2>2
    <3>2. fs[a] = "dir"
      BY <2>1, <2>2, <3>1 DEF IsTreeOf
    <3>3. a # x
      BY <2>2, <3>1, <3>2 DEF Empty, Below
    <3>4. QED
      BY <1>2, <2>2, <3>2, <3>3
  <2>3. fs' = [y \in Path |-> fs'[y]]
    BY <1>1, <2>1
  <2>4. QED
    BY <1>1, <2>1, <2>2, <2>3 DEF IsTreeOf
<1>8. AsATree'
  BY <1>1, <1>2, <1>3, <1>4, <1>7 DEF AsATree, AtPath, Staying, Written
<1>9. Directories'
  BY <1>1, <1>2, <1>3, <1>4, <1>5, Geometry DEF Directories
<1>10. AsSaved'
  BY <1>1, <1>2, <1>3 DEF AsSaved, Written
<1>11. QED
  BY <1>1, <1>2, <1>3, <1>6, <1>8, <1>9, <1>10
    DEF Faithful, AsRead, Unwritten, WrittenSoFar, Swept, Removed

\* Both prunings leave a tree, and all that is not above a touched path.
LEMMA EmptiedFaithful ==
  ASSUME StartedFrom, Beside, AsATree, pc \in Written, pc' \in Written,
         UNCHANGED <<patch, before>>,
         NEW S, S \subseteq AboveTouched, fs' = WithoutEmpty(fs, S)
  PROVE  Beside' /\ AsATree'
<1>1. Touched' = Touched /\ Roots' = Roots /\ UnderRoots' = UnderRoots /\ Above' = Above
      /\ AboveTouched' = AboveTouched /\ \A y : Staying(y)' <=> Staying(y)
  BY SamePatch
<1>2. \A y \in Path : fs'[y] = fs[y] \/ (fs'[y] = "absent" /\ y \in S /\ fs[y] = "dir")
  BY Emptied
<1>3. fs' = [y \in Path |-> fs'[y]] /\ IsTreeOf(fs')
  BY Emptied DEF AsATree
<1>4. Beside'
  BY <1>1, <1>2, AboveTouchedReach, Geometry DEF Beside, Written, IsFile
<1>5. \A y \in Path \ Touched : AtPath(fs', y) = AtPath(before, y)
  BY <1>2 DEF AsATree, AtPath, IsFile
<1>6. \A y \in Path : Staying(y) => fs'[y] = "dir"
  BY <1>2 DEF AsATree, Staying
<1>7. \A y \in Path : fs'[y] = "dir" => before[y] = "dir" \/ y \in AboveTouched
  BY <1>2 DEF AsATree
<1>8. AsATree'
  BY <1>1, <1>3, <1>5, <1>6, <1>7 DEF AsATree, AtPath
<1>9. QED
  BY <1>4, <1>8

\* Directories above the roots survive the pruning before the files are written.
LEMMA PruneFaithful ==
  ASSUME PatchInvariant, StartedFrom, Faithful, Prune
  PROVE  Faithful'
<1>1. /\ pc = "delete" /\ pc' = "write" /\ UNCHANGED <<patch, index, snapshot, before>>
      /\ fs' = WithoutEmpty(fs, Replaced)
      /\ todo' = {x \in Touched : IsFile(patch.new[x])}
  BY DEF Prune, Enter, MaterialUnchanged, history
<1>2. Accepted /\ AsSaved /\ Beside /\ AsATree /\ Directories
  BY <1>1 DEF Faithful
<1>3. /\ Touched' = Touched /\ UnderRoots' = UnderRoots /\ Above' = Above
      /\ (Accepted' <=> Accepted)
  BY <1>1, SamePatch
<1>4. Beside' /\ AsATree'
  BY <1>1, <1>2, AboveIsFixed, EmptiedFaithful DEF Written
<1>5. WrittenSoFar'
  BY <1>1, <1>3 DEF WrittenSoFar
<1>6. Directories'
  <2>1. \A x \in Above : fs'[x] = fs[x]
    BY <1>1, Emptied, AboveIsFixed, Geometry
  <2>2. QED
    BY <1>1, <1>2, <1>3, <2>1 DEF Directories
<1>7. AsSaved'
  BY <1>1, <1>2, <1>3 DEF AsSaved, Written
<1>8. QED
  BY <1>1, <1>2, <1>3, <1>4, <1>5, <1>6, <1>7
    DEF Faithful, AsRead, Unwritten, Swept, Removed

\* A file can only be written where nothing else is left under its path.
LEMMA WriteFaithful ==
  ASSUME PatchInvariant, StartedFrom, Faithful, NEW x \in Path, Write(x)
  PROVE  Faithful'
<1>1. /\ pc = "write" /\ pc' = "write" /\ x \in todo /\ todo' = todo \ {x} /\ ~ Blocked(x)
      /\ fs[x] = "dir" => Empty(x)
      /\ UNCHANGED <<patch, index, snapshot, before>>
  BY DEF Write, MaterialUnchanged, history
<1>2. /\ Accepted /\ AsSaved /\ Beside /\ AsATree /\ Directories /\ WrittenSoFar
      /\ x \in Touched
      /\ patch \in Patches
  BY <1>1 DEF Faithful, PatchInvariant, Visits, TypeOK
<1>3. Touched' = Touched /\ Roots' = Roots /\ UnderRoots' = UnderRoots /\ Above' = Above
      /\ AboveTouched' = AboveTouched /\ (Accepted' <=> Accepted)
      /\ (\A y : Staying(y)' <=> Staying(y)) /\ (\A y : Clear(y)' <=> Clear(y))
  BY <1>1, SamePatch
<1>4. /\ fs' = [y \in Path |-> fs'[y]]
      /\ fs'[x] = patch.new[x]
      /\ \A y \in Path : y # x /\ y \in Parents(x) => fs'[y] = "dir"
      /\ \A y \in Path : y # x /\ y \notin Parents(x) => fs'[y] = fs[y]
  <2> DEFINE node(y) == CASE y = x -> patch.new[x]
                         [] y \in Parents(x) -> "dir"
                         [] OTHER -> fs[y]
  <2>1. fs' = [y \in Path |-> node(y)]
    BY DEF Write, WriteFile
  <2>2. x \notin Parents(x)
    BY StrictOrder DEF Parents
  <2>3. node(x) = patch.new[x]
    BY <2>2
  <2>4. \A y \in Path : y # x /\ y \notin Parents(x) => node(y) = fs[y]
    OBVIOUS
  <2>5. \A y \in Path : y # x /\ y \in Parents(x) => node(y) = "dir"
    OBVIOUS
  <2> HIDE DEF node
  <2>6. QED
    BY <2>1, <2>3, <2>4, <2>5
<1>5. /\ x \notin Parents(x) /\ x \in UnderRoots /\ x \notin Above
      /\ Parents(x) \subseteq AboveTouched
  BY <1>2, StrictOrder, Geometry, AboveIsFixed DEF Parents, AboveTouched
<1>6. IsTreeOf(fs) /\ (\A y \in Path \ Touched : AtPath(fs, y) = AtPath(before, y))
      /\ (\A y \in Path : Staying(y) => fs[y] = "dir")
  BY <1>1, <1>2 DEF AsATree, Written
<1>7. \A y \in Below(x) : fs[y] = "absent"
  BY <1>1, <1>6 DEF IsTreeOf, Empty, Below
<1>8. \A a \in Parents(x) : ~ IsFile(fs[a])
  BY <1>1 DEF Blocked
<1>9. Beside'
  <2>1. \A y \in Path \ (UnderRoots \cup Above) : fs'[y] = fs[y]
    BY <1>4, <1>5, AboveTouchedReach
  <2>2. \A y \in Above : fs'[y] = fs[y] \/ fs'[y] = "dir"
    BY <1>4, <1>5, Geometry
  <2>3. QED
    BY <1>1, <1>2, <1>3, <2>1, <2>2 DEF Beside, Written, IsFile
<1>10. IsTreeOf(fs')
  <2> SUFFICES ASSUME NEW a \in Path, NEW b \in Path, IsStrictPrefix(a, b),
                      fs'[b] # "absent"
               PROVE  fs'[a] = "dir"
    BY DEF IsTreeOf
  <2>1. CASE a \in Parents(x)
    BY <1>4, <1>5, <2>1
  <2>2. CASE a = x
    <3>1. b # x /\ b \notin Parents(x)
      BY <2>2, StrictOrder DEF Parents
    <3>2. QED
      BY <1>4, <1>7, <2>2, <3>1 DEF Below
  <2>3. CASE a # x /\ a \notin Parents(x)
    <3>1. b # x /\ b \notin Parents(x)
      BY <2>3, StrictOrder DEF Parents
    <3>2. QED
      BY <1>4, <1>6, <2>3, <3>1 DEF IsTreeOf
  <2>4. QED
    BY <2>1, <2>2, <2>3
<1>11. \A y \in Path \ Touched : AtPath(fs', y) = AtPath(before, y)
  BY <1>2, <1>4, <1>6, <1>8 DEF AtPath, IsFile
<1>12. \A y \in Path : Staying(y) => fs'[y] = "dir"
  BY <1>2, <1>4, <1>6 DEF Staying
<1>13. patch.new[x] # "dir"
  BY <1>2, PatchAssumption
<1>14. \A y \in Path : fs'[y] = "dir" => before[y] = "dir" \/ y \in AboveTouched
  <2> SUFFICES ASSUME NEW y \in Path, fs'[y] = "dir"
               PROVE  before[y] = "dir" \/ y \in AboveTouched
    OBVIOUS
  <2>1. y # x
    BY <1>4, <1>13
  <2>2. CASE y \in Parents(x)
    BY <1>5, <2>2
  <2>3. CASE y \notin Parents(x)
    BY <1>1, <1>2, <1>4, <2>1, <2>3 DEF AsATree, Written
  <2>4. QED
    BY <2>2, <2>3
<1>15. AsATree'
  BY <1>1, <1>3, <1>4, <1>10, <1>11, <1>12, <1>14 DEF AsATree, AtPath
<1>16. Clear(x)
  <2> SUFFICES ASSUME NEW y \in Below(x)
               PROVE  ~ Staying(y) /\ (y \notin Touched => ~ IsFile(before[y]))
    BY DEF Clear
  <2>1. y \in Path /\ fs[y] = "absent"
    BY <1>7 DEF Below
  <2>2. y \notin Touched => ~ IsFile(before[y])
    BY <1>6, <2>1 DEF AtPath, IsFile
  <2>3. QED
    BY <1>6, <2>1, <2>2
<1>17. \A y \in Touched \ todo' : IsFile(patch.new[y])
         => fs'[y] = patch.new[y] /\ Clear(y)
  <2> SUFFICES ASSUME NEW y \in Touched \ todo', IsFile(patch.new[y])
               PROVE  fs'[y] = patch.new[y] /\ Clear(y)
    OBVIOUS
  <2>1. CASE y = x
    BY <1>4, <1>16, <2>1
  <2>2. CASE y # x
    <3>1. fs[y] = patch.new[y] /\ Clear(y)
      BY <1>1, <1>2, <2>2 DEF WrittenSoFar
    <3>2. y \notin Parents(x) /\ y \in Path
      BY <1>8, <3>1, Geometry
    <3>3. QED
      BY <1>4, <2>2, <3>1, <3>2
  <2>3. QED
    BY <2>1, <2>2
<1>18. WrittenSoFar'
  BY <1>1, <1>3, <1>17 DEF WrittenSoFar
<1>19. Directories'
  <2>1. \A y \in Above : fs[y] = "dir" => fs'[y] = "dir"
    BY <1>4, <1>5, Geometry
  <2>2. QED
    BY <1>1, <1>2, <1>3, <2>1 DEF Directories
<1>20. AsSaved'
  BY <1>1, <1>2, <1>3 DEF AsSaved, Written
<1>21. QED
  BY <1>1, <1>2, <1>3, <1>9, <1>15, <1>18, <1>19, <1>20
    DEF Faithful, AsRead, Unwritten, Swept, Removed

\* The pruning of the empty parents takes what has nothing in it.
LEMMA SweepFaithful ==
  ASSUME PatchInvariant, StartedFrom, Faithful, Sweep
  PROVE  Faithful'
<1>1. /\ pc = "write" /\ todo = {} /\ pc' = "verify"
      /\ UNCHANGED <<patch, index, snapshot, before>>
      /\ fs' = WithoutEmpty(fs, AboveTouched)
  BY DEF Sweep, Enter, MaterialUnchanged, history, AboveTouched
<1>2. Accepted /\ AsSaved /\ Beside /\ AsATree /\ Directories /\ WrittenSoFar
  BY <1>1 DEF Faithful
<1>3. Touched' = Touched /\ Roots' = Roots /\ UnderRoots' = UnderRoots /\ Above' = Above
      /\ AboveTouched' = AboveTouched /\ (Accepted' <=> Accepted)
      /\ (\A y : Clear(y)' <=> Clear(y))
      /\ (\A y : DirectoryLost(y)' <=> DirectoryLost(y))
  BY <1>1, SamePatch
<1>4. Beside' /\ AsATree'
  BY <1>1, <1>2, EmptiedFaithful DEF Written
<1>5. \A y \in Path : \/ fs'[y] = fs[y]
                      \/ fs'[y] = "absent" /\ y \in AboveTouched /\ fs[y] = "dir"
  BY <1>1, Emptied
<1>6. \A y \in AboveTouched : fs[y] = "dir" =>
        (fs'[y] = "absent" <=>
           \A z \in Below(y) : fs[z] = "absent" \/ (z \in AboveTouched /\ fs[z] = "dir"))
  BY <1>1, Emptied, Geometry
<1>7. WrittenSoFar'
  BY <1>1, <1>2, <1>3 DEF WrittenSoFar
<1>8. Swept'
  <2> SUFFICES ASSUME NEW x \in AboveTouched, fs'[x] = "dir"
               PROVE  \E y \in Below(x) :
                        IsFile(fs'[y]) \/ (fs'[y] = "dir" /\ y \notin AboveTouched)
    BY <1>1, <1>3 DEF Swept
  <2>1. fs[x] = "dir"
    BY <1>5, Geometry
  <2>2. PICK y \in Below(x) :
               ~ (fs[y] = "absent" \/ (y \in AboveTouched /\ fs[y] = "dir"))
    BY <1>6, <2>1
  <2>3. fs'[y] = fs[y]
    BY <1>5, <2>2 DEF Below
  <2>4. QED
    BY <2>2, <2>3 DEF IsFile
<1>9. Directories'
  <2> SUFFICES ASSUME NEW x \in Above, before[x] = "dir", fs'[x] # "dir"
               PROVE  DirectoryLost(x)
    BY <1>1, <1>3 DEF Directories
  <2>1. x \in AboveTouched /\ x \in Path /\ fs[x] = "dir"
    BY <1>1, <1>2, Geometry DEF Directories
  <2>2. fs'[x] = "absent"
    BY <1>5, <2>1
  <2>3. \A z \in Below(x) : ~ IsFile(fs[z])
    BY <1>6, <2>1, <2>2 DEF IsFile
  <2>4. PICK r \in Roots : x \in Parents(r)
    BY DEF Above
  <2>5. r \in Below(x) /\ r \in Touched
    BY <2>1, <2>4, Geometry DEF Parents, Below
  <2>6. ~ IsFile(patch.new[r])
    BY <1>1, <1>2, <2>3, <2>5 DEF WrittenSoFar
  <2>7. QED
    BY <2>4, <2>6 DEF DirectoryLost
<1>10. AsSaved'
  BY <1>1, <1>2, <1>3 DEF AsSaved, Written
<1>11. QED
  BY <1>1, <1>2, <1>3, <1>4, <1>7, <1>8, <1>9, <1>10
    DEF Faithful, AsRead, Unwritten, Removed

\* The assertions on modes and contents hold when they pass.
LEMMA VerifyFaithful ==
  ASSUME PatchInvariant, StartedFrom, Faithful, Verify
  PROVE  Faithful'
<1>1. /\ pc = "verify" /\ pc' = "sync" /\ PostCondition
      /\ UNCHANGED <<fs, patch, index, snapshot, before>>
  BY DEF Verify, Enter, MaterialUnchanged, history
<1>2. Accepted /\ AsSaved /\ Beside /\ AsATree /\ Directories /\ WrittenSoFar /\ Swept
  BY <1>1 DEF Faithful
<1>3. Touched' = Touched /\ Roots' = Roots /\ UnderRoots' = UnderRoots /\ Above' = Above
      /\ AboveTouched' = AboveTouched /\ (Accepted' <=> Accepted)
      /\ (\A y : Clear(y)' <=> Clear(y))
      /\ (\A y : DirectoryLost(y)' <=> DirectoryLost(y))
      /\ (\A y : Staying(y)' <=> Staying(y))
  BY <1>1, SamePatch
<1>4. PostCondition'
  BY <1>1, <1>3 DEF PostCondition
<1>5. Swept'
  BY <1>1, <1>2, <1>3, <1>4 DEF Swept
<1>6. AsATree'
  BY <1>1, <1>2, <1>3 DEF AsATree, AtPath, IsTreeOf, Written
<1>7. WrittenSoFar'
  BY <1>1, <1>2, <1>3 DEF WrittenSoFar
<1>8. Beside'
  BY <1>1, <1>2, <1>3 DEF Beside, Written
<1>9. Directories'
  BY <1>1, <1>2, <1>3 DEF Directories
<1>10. AsSaved'
  BY <1>1, <1>2, <1>3 DEF AsSaved, Written
<1>11. QED
  BY <1>1, <1>2, <1>3, <1>5, <1>6, <1>7, <1>8, <1>9, <1>10
    DEF Faithful, AsRead, Unwritten, Removed

\* A failure begins the rollback from any of these trees.
LEMMA FailureFaithful ==
  ASSUME PatchInvariant, StartedFrom, Faithful, Obstruct \/ Fault
  PROVE  Faithful'
<1>1. Throw /\ pc \in Written \cup {"index", "snapshot"}
  BY DEF Obstruct, Obstructed, Fault, Written
<1>2. UNCHANGED <<patch, index, snapshot, before>>
  BY <1>1 DEF Throw, history
<1>3. /\ UnderRoots' = UnderRoots /\ Above' = Above /\ Roots' = Roots
      /\ (Accepted' <=> Accepted)
      /\ (\A y : DirectoryLost(y)' <=> DirectoryLost(y))
  BY <1>2, SamePatch
<1>4. CASE pc \in Written
  <2>1. pc' = "remove" /\ todo' = Roots
    BY <1>1, <1>4 DEF Throw, Enter
  <2>2. Accepted /\ AsSaved /\ Beside /\ Directories
    BY <1>4 DEF Faithful, Written
  <2>3. \A y \in Path \ Touched : fs'[y] = fs[y]
    <3>1. CASE UNCHANGED fs
      BY <3>1
    <3>2. CASE pc = "write" /\ \E x \in todo : Put(x, "absent")
      <4>1. PICK x \in todo : fs' = [fs EXCEPT ![x] = "absent"]
        BY <3>2 DEF Put
      <4>2. x \in Touched
        BY <3>2 DEF PatchInvariant, Visits
      <4>3. QED
        BY <4>1, <4>2
    <3>3. QED
      BY <3>1, <3>2 DEF Obstruct, Fault
  <2>4. Beside'
    BY <1>2, <1>3, <1>4, <2>1, <2>2, <2>3, Geometry, AboveIsFixed DEF Beside
  <2>5. Directories'
    <3>1. \A y \in Above : fs'[y] = fs[y]
      BY <2>3, Geometry, AboveIsFixed
    <3>2. QED
      BY <1>2, <1>3, <1>4, <2>1, <2>2, <3>1 DEF Directories, Written
  <2>6. AsSaved'
    BY <1>2, <1>3, <1>4, <2>1, <2>2 DEF AsSaved, Written
  <2>7. Removed'
    BY <1>3, <2>1 DEF Removed
  <2>8. QED
    BY <1>3, <2>1, <2>2, <2>4, <2>5, <2>6, <2>7
      DEF Faithful, AsRead, Unwritten, AsATree, WrittenSoFar, Swept, Written
<1>5. CASE pc \notin Written
  BY <1>1, <1>5
    DEF Throw, Finish, Faithful, AsRead, AsSaved, Unwritten, Beside, AsATree,
      WrittenSoFar, Swept, Directories, Removed, Written
<1>6. QED
  BY <1>4, <1>5

\* The rollback removes the roots one by one.
LEMMA RemoveRootFaithful ==
  ASSUME PatchInvariant, StartedFrom, Faithful, NEW r \in Path, RemoveRoot(r)
  PROVE  Faithful'
<1>1. /\ pc = "remove" /\ r \in todo /\ todo' = todo \ {r}
      /\ pc' = (IF todo = {r} THEN "recreate" ELSE "remove")
      /\ fs' = [x \in Path |-> IF IsPrefix(r, x) THEN "absent" ELSE fs[x]]
      /\ UNCHANGED <<patch, index, snapshot, before>>
  BY DEF RemoveRoot, history
<1>2. Accepted /\ AsSaved /\ Beside /\ Directories /\ Removed /\ r \in Roots
  BY <1>1 DEF Faithful, PatchInvariant, Visits
<1>3. /\ UnderRoots' = UnderRoots /\ Above' = Above /\ Roots' = Roots
      /\ (Accepted' <=> Accepted)
      /\ (\A y : DirectoryLost(y)' <=> DirectoryLost(y))
  BY <1>1, SamePatch
<1>4. \A y \in Path \ UnderRoots : fs'[y] = fs[y]
  BY <1>1, <1>2 DEF UnderRoots
<1>5. Beside'
  BY <1>1, <1>2, <1>3, <1>4, Geometry DEF Beside
<1>6. Directories'
  <2>1. \A y \in Above : fs'[y] = fs[y]
    BY <1>4, Geometry
  <2>2. QED
    BY <1>1, <1>2, <1>3, <2>1 DEF Directories
<1>7. \A q \in Roots \ todo' : \A x \in Path : IsPrefix(q, x) => fs'[x] = "absent"
  BY <1>1, <1>2 DEF Removed
<1>8. Removed'
  BY <1>1, <1>3, <1>7 DEF Removed, UnderRoots
<1>9. AsSaved'
  BY <1>1, <1>2, <1>3 DEF AsSaved, Written
<1>10. QED
  BY <1>1, <1>2, <1>3, <1>5, <1>6, <1>8, <1>9
    DEF Faithful, AsRead, Unwritten, AsATree, WrittenSoFar, Swept, Written

\* Every step keeps the invariant.
LEMMA AtomicNextKeeps ==
  ASSUME PatchInvariant, AtomicInvariant, [Next]_vars
  PROVE  AtomicInvariant'
<1>1. UNCHANGED <<patch, before>>
  BY
    DEF Next, vars, program, history, ReadIndex, Snapshot, Delete, Write, RemoveRoot,
      Check, Prune, Sweep, Verify, Sync, Obstruct, Fault, Throw, Recreate,
      RollbackFails, Edit, Done, MaterialUnchanged
<1>2. StartedFrom /\ StartedFrom'
  BY <1>1, SamePatch DEF AtomicInvariant
<1> SUFFICES ASSUME edits' = 0 PROVE Faithful'
  BY <1>2 DEF AtomicInvariant
<1>3. CASE \E x \in UserPath : Edit(x)
  BY <1>3 DEF Edit, PatchInvariant, TypeOK
<1>4. CASE UNCHANGED vars
  <2>1. Faithful
    BY <1>4 DEF vars, history, AtomicInvariant
  <2>2. Touched' = Touched /\ UnderRoots' = UnderRoots /\ Above' = Above /\ Roots' = Roots
        /\ AboveTouched' = AboveTouched
        /\ (Accepted' <=> Accepted) /\ (\A y : DirectoryLost(y)' <=> DirectoryLost(y))
        /\ (\A y : Clear(y)' <=> Clear(y)) /\ (\A y : Staying(y)' <=> Staying(y))
    BY <1>1, SamePatch
  <2>3. UNCHANGED <<fs, patch, pc, todo, index, snapshot, before>>
    BY <1>4 DEF vars, program, history
  <2>4. AsRead'
    BY <2>1, <2>2, <2>3 DEF Faithful, AsRead
  <2>5. AsSaved'
    BY <2>1, <2>2, <2>3 DEF Faithful, AsSaved, Written
  <2>6. Unwritten'
    BY <2>1, <2>3 DEF Faithful, Unwritten
  <2>7. Beside'
    BY <2>1, <2>2, <2>3 DEF Faithful, Beside
  <2>8. AsATree'
    BY <2>1, <2>2, <2>3 DEF Faithful, AsATree, IsTreeOf, AtPath
  <2>9. WrittenSoFar'
    BY <2>1, <2>2, <2>3 DEF Faithful, WrittenSoFar
  <2>10. Swept'
    BY <2>1, <2>2, <2>3 DEF Faithful, Swept, PostCondition
  <2>11. Directories'
    BY <2>1, <2>2, <2>3 DEF Faithful, Directories
  <2>12. Removed'
    BY <2>1, <2>2, <2>3 DEF Faithful, Removed
  <2>13. QED
    BY <2>1, <2>2, <2>3, <2>4, <2>5, <2>6, <2>7, <2>8, <2>9, <2>10, <2>11, <2>12
      DEF Faithful
<1>5. CASE Next /\ ~ (\E x \in UserPath : Edit(x)) /\ ~ UNCHANGED vars
  <2>1. edits' = edits
    BY <1>5
      DEF Next, vars, program, history, ReadIndex, Snapshot, Delete, Write, RemoveRoot,
        Check, Prune, Sweep, Verify, Sync, Obstruct, Fault, Throw, Recreate,
        RollbackFails, Done, MaterialUnchanged
  <2>2. Faithful
    BY <2>1 DEF AtomicInvariant
  <2>3. CASE \E x \in Path :
               ReadIndex(x) \/ Snapshot(x) \/ Delete(x) \/ Write(x) \/ RemoveRoot(x)
    BY <1>2, <2>2, <2>3, ReadIndexFaithful, SnapshotFaithful, DeleteFaithful,
      WriteFaithful, RemoveRootFaithful
  <2>4. CASE Check \/ Prune \/ Sweep \/ Verify \/ Obstruct \/ Fault
    BY <1>2, <2>2, <2>4, CheckFaithful, PruneFaithful, SweepFaithful, VerifyFaithful,
      FailureFaithful
  <2>5. CASE Sync \/ Recreate \/ RollbackFails
    <3>1. pc' = "done"
      BY <2>5 DEF Sync, Recreate, RollbackFails, Finish
    <3>2. QED
      BY <3>1
        DEF Faithful, AsRead, AsSaved, Unwritten, Beside, AsATree, WrittenSoFar, Swept,
          Directories, Removed, Written
  <2>6. QED
    BY <1>5, <2>3, <2>4, <2>5 DEF Next, Done
<1>6. QED
  BY <1>3, <1>4, <1>5

----------------------------------------------------------------------------
(***************************************************************************)
(* The rollback, and the refinement.                                       *)
(***************************************************************************)
\* The rollback meets nothing that stops it: no file above a root, and no directory
\* that it cannot make again.
LEMMA NothingInTheWay ==
  ASSUME PatchInvariant, StartedFrom, Faithful
  PROVE  /\ pc = "remove" => \A r \in todo : ~ Blocked(r)
         /\ pc = "recreate" => ~ RestoreFails
<1>1. ASSUME pc = "remove", NEW r \in todo PROVE ~ Blocked(r)
  <2>1. r \in Roots /\ \A x \in Above : ~ IsFile(fs[x])
    BY <1>1 DEF PatchInvariant, Visits, Faithful, Beside
  <2>2. QED
    BY <2>1 DEF Blocked, Above
<1>2. ASSUME pc = "recreate" PROVE ~ RestoreFails
  <2>1. /\ \A x \in Above : ~ IsFile(fs[x])
        /\ \A x \in UnderRoots : fs[x] = "absent"
        /\ \A x \in UnderRoots \cup Above : snapshot[x] = before[x]
        /\ Accepted
    BY <1>2 DEF Faithful, Beside, Removed, AsSaved
  <2>2. ASSUME NEW x \in Path, Saved(x) PROVE ~ Blocked(x) /\ ~ IsFile(fs[x])
    <3>1. x \in UnderRoots
      BY <2>2 DEF Saved
    <3>2. \A a \in Parents(x) : a \in UnderRoots \cup Above
      BY <3>1, Geometry DEF Parents
    <3>3. QED
      BY <2>1, <3>1, <3>2 DEF Blocked, IsFile
  <2>3. ASSUME NEW x \in Above, snapshot[x] = "dir", Restored[x] = "absent" PROVE FALSE
    <3>1. x \in Path /\ x \notin UnderRoots /\ before[x] = "dir"
      BY <2>1, <2>3, Geometry
    <3> DEFINE back == [y \in Path |-> CASE Saved(y) -> snapshot[y]
                                         [] ~ Saved(y) /\ \E z \in Below(y) : Saved(z)
                                              -> "dir"
                                         [] OTHER -> fs[y]]
    <3>2. ~ Saved(x)
      BY <3>1 DEF Saved
    <3>3. back[x] = IF \E z \in Below(x) : Saved(z) THEN "dir" ELSE fs[x]
      BY <3>1, <3>2
    <3>4. Restored = WithoutEmpty(back, {y \in Above : snapshot[y] = "absent"})
      BY DEF Restored
    <3> HIDE DEF back
    <3>5. back[x] = "absent"
      BY <2>3, <3>1, <3>4, Emptied
    <3>6. fs[x] = "absent" /\ ~ \E z \in Below(x) : Saved(z)
      BY <3>3, <3>5
    <3>7. PICK r \in Roots : x \in Parents(r) /\ ~ IsFile(patch.new[r])
      BY <1>2, <3>1, <3>6 DEF Faithful, Directories, DirectoryLost
    <3>8. r \in Touched /\ r \in UnderRoots /\ r \in Below(x) /\ patch \in Patches
      BY <3>1, <3>7, Geometry DEF Parents, Below, PatchInvariant, TypeOK
    <3>9. patch.new[r] = "absent"
      BY <3>7, <3>8, Geometry, PatchAssumption DEF IsFile
    <3>10. IsFile(patch.old[r])
      BY <3>8, <3>9, Geometry, PatchAssumption DEF IsFile, Touched
    <3>11. before[r] = patch.old[r] /\ IsFile(before[r])
      BY <2>1, <3>8, <3>10 DEF Accepted, AtPath, IsFile
    <3>12. Saved(r)
      BY <2>1, <3>8, <3>11, Geometry DEF Saved, StartedFrom, IsFile
    <3>13. QED
      BY <3>6, <3>8, <3>12
  <2>4. QED
    BY <2>2, <2>3 DEF RestoreFails
<1>3. QED
  BY <1>1, <1>2

\* What restoreApplySnapshot() leaves is the tree before the call.
LEMMA RestoredIsBefore ==
  ASSUME PatchInvariant, StartedFrom, Faithful, pc = "recreate"
  PROVE  Restored = before
<1> DEFINE back == [y \in Path |-> CASE Saved(y) -> snapshot[y]
                                     [] ~ Saved(y) /\ \E z \in Below(y) : Saved(z)
                                          -> "dir"
                                     [] OTHER -> fs[y]]
           S == {y \in Above : snapshot[y] = "absent"}
<1>1. /\ \A x \in Path \ (UnderRoots \cup Above) : fs[x] = before[x]
      /\ \A x \in Above : ~ IsFile(fs[x])
      /\ \A x \in UnderRoots : fs[x] = "absent"
      /\ \A x \in UnderRoots \cup Above : snapshot[x] = before[x]
      /\ Accepted /\ ~ RestoreFails
  BY NothingInTheWay DEF Faithful, Beside, Removed, AsSaved
<1>2. Restored = WithoutEmpty(back, S)
  BY DEF Restored
<1>3. \A x \in Path : Saved(x) => back[x] = before[x]
  BY <1>1 DEF Saved
<1>4. \A x \in Path : ~ Saved(x) => back[x] = IF \E z \in Below(x) : Saved(z)
                                                   THEN "dir" ELSE fs[x]
  OBVIOUS
<1>5. \A x \in Path : Saved(x) <=> x \in UnderRoots /\ before[x] # "absent"
  BY <1>1, Geometry DEF Saved, StartedFrom
<1>6. ASSUME NEW x \in Path, NEW z \in Below(x), Saved(z)
      PROVE  before[x] = "dir" /\ x \in UnderRoots \cup Above
  <2>1. z \in Path /\ z \in UnderRoots /\ before[z] # "absent" /\ IsStrictPrefix(x, z)
    BY <1>5, <1>6 DEF Below
  <2>2. QED
    BY <2>1, Geometry DEF StartedFrom, IsTreeOf
<1> HIDE DEF back
<1>7. ASSUME NEW x \in UnderRoots PROVE back[x] = before[x]
  <2>1. x \in Path
    BY Geometry
  <2>2. CASE Saved(x)
    BY <1>3, <2>1, <2>2
  <2>3. CASE ~ Saved(x)
    <3>1. before[x] = "absent" /\ fs[x] = "absent"
      BY <1>1, <1>5, <2>1, <2>3
    <3>2. ~ \E z \in Below(x) : Saved(z)
      BY <1>6, <2>1, <3>1
    <3>3. QED
      BY <1>4, <2>1, <2>3, <3>1, <3>2
  <2>4. QED
    BY <2>2, <2>3
<1>8. ASSUME NEW x \in Path, x \notin UnderRoots \cup Above PROVE back[x] = before[x]
  <2>1. ~ Saved(x) /\ ~ \E z \in Below(x) : Saved(z)
    BY <1>5, <1>6, <1>8
  <2>2. QED
    BY <1>1, <1>4, <1>8, <2>1
<1>9. ASSUME NEW x \in Above
      PROVE  /\ x \in Path /\ before[x] \in {"absent", "dir"}
             /\ back[x] \in {"absent", "dir"}
             /\ (x \in S <=> before[x] = "absent")
  <2>1. x \in Path /\ x \notin UnderRoots /\ x \in AboveTouched /\ x \notin Touched
    BY Geometry, AboveIsFixed
  <2>2. before[x] \in {"absent", "dir"}
    BY <1>1, <2>1 DEF Accepted, IsFile
  <2>3. back[x] \in {"absent", "dir"}
    BY <1>1, <1>4, <1>5, <2>1 DEF IsFile
  <2>4. QED
    BY <1>1, <2>1, <2>2, <2>3
<1>10. S \subseteq Above
  OBVIOUS
<1> HIDE DEF S
<1>11. ASSUME NEW x \in Path PROVE Restored[x] = before[x]
  <2>1. CASE x \in UnderRoots \/ x \notin UnderRoots \cup Above
    <3>1. x \notin S
      BY <1>10, <2>1, Geometry
    <3>2. QED
      BY <1>2, <1>7, <1>8, <2>1, <3>1, Emptied
  <2>2. CASE x \in Above /\ before[x] = "dir"
    <3>1. x \notin S /\ Restored[x] = back[x]
      BY <1>2, <1>9, <2>2, Emptied
    <3>2. Restored[x] # "absent"
      BY <1>1, <2>2 DEF RestoreFails
    <3>3. QED
      BY <1>9, <2>2, <3>1, <3>2
  <2>3. CASE x \in Above /\ before[x] = "absent"
    <3>1. x \in S
      BY <1>9, <2>3
    <3>2. ASSUME NEW y \in Below(x)
          PROVE  back[y] = "absent" \/ (y \in S /\ back[y] = "dir")
      <4>1. y \in Path /\ before[y] = "absent"
        BY <2>3, <3>2 DEF Below, StartedFrom, IsTreeOf
      <4>2. CASE y \in Above
        BY <1>9, <4>1, <4>2
      <4>3. CASE y \notin Above
        BY <1>7, <1>8, <4>1, <4>3
      <4>4. QED
        BY <4>2, <4>3
    <3>3. CASE back[x] = "dir"
      BY <1>2, <2>3, <3>1, <3>2, <3>3, Emptied
    <3>4. CASE back[x] = "absent"
      BY <1>2, <2>3, <3>4, Emptied
    <3>5. QED
      BY <1>9, <2>3, <3>3, <3>4
  <2>4. QED
    BY <1>9, <2>1, <2>2, <2>3
<1>12. Restored = [x \in Path |-> Restored[x]]
  BY <1>2, Emptied
<1>13. QED
  BY <1>11, <1>12 DEF StartedFrom

\* AtomicPatch says the same of trees and patches.
LEMMA SameWords ==
  /\ \A n : Atomic!IsFile(n) <=> IsFile(n)
  /\ \A x, y : Atomic!IsStrictPrefix(x, y) <=> IsStrictPrefix(x, y)
  /\ \A x, y : Atomic!IsPrefix(x, y) <=> IsPrefix(x, y)
  /\ \A x : Atomic!Parents(x) = Parents(x)
  /\ Atomic!Touched(patch) = Touched
  /\ \A t, x : Atomic!FileAt(t, x) = AtPath(t, x)
  /\ \A x \in Path : Atomic!Stays(before, patch, x) <=> Staying(x)
<1>1. \A n : Atomic!IsFile(n) <=> IsFile(n)
  BY DEF Atomic!IsFile, Atomic!Node, IsFile
<1>2. \A x, y : Atomic!IsPrefix(x, y) <=> IsPrefix(x, y)
  BY DEF Atomic!IsPrefix, IsPrefix
<1>3. \A x, y : Atomic!IsStrictPrefix(x, y) <=> IsStrictPrefix(x, y)
  BY <1>2 DEF Atomic!IsStrictPrefix, IsStrictPrefix
<1>4. \A x : Atomic!Parents(x) = Parents(x)
  BY <1>3 DEF Atomic!Parents, Parents
<1>5. Atomic!Touched(patch) = Touched
  BY DEF Atomic!Touched, Touched
<1>6. \A t, x : Atomic!FileAt(t, x) = AtPath(t, x)
  BY <1>1 DEF Atomic!FileAt, AtPath
<1>7. \A x \in Path : Atomic!Stays(before, patch, x) <=> Staying(x)
  BY <1>4, <1>5 DEF Atomic!Stays, Staying, AboveTouched
<1>8. QED
  BY <1>1, <1>2, <1>3, <1>4, <1>5, <1>6, <1>7

\* What the postconditions have established is the tree that the patch describes.
LEMMA AppliedIsPatched ==
  ASSUME PatchInvariant, StartedFrom, Faithful, pc = "sync"
  PROVE  Atomic!Applicable(before, patch) /\ fs = Atomic!Patched(before, patch)
<1> DEFINE after(x) == IF x \in Touched THEN patch.new[x] ELSE AtPath(before, x)
           occupied(x) == \E y \in Path : IsStrictPrefix(x, y)
                                                   /\ (IsFile(after(y)) \/ Staying(y))
<1>1. /\ Accepted /\ PostCondition /\ patch \in Patches
      /\ IsTreeOf(fs) /\ fs = [x \in Path |-> fs[x]]
      /\ \A x \in Path \ Touched : AtPath(fs, x) = AtPath(before, x)
      /\ \A x \in Path : Staying(x) => fs[x] = "dir"
      /\ \A x \in Path : fs[x] = "dir" => before[x] = "dir" \/ x \in AboveTouched
      /\ \A x \in Touched : IsFile(patch.new[x]) => Clear(x)
      /\ \A x \in AboveTouched : fs[x] = "dir" =>
           \E y \in Below(x) : IsFile(fs[y]) \/ (fs[y] = "dir" /\ y \notin AboveTouched)
  BY DEF Faithful, AsATree, WrittenSoFar, Swept, Written, PatchInvariant, TypeOK
<1>2. \A x \in Path : Atomic!FileAfter(before, patch, x) = after(x)
  BY SameWords DEF Atomic!FileAfter
<1>3. \A x \in Path : Atomic!Occupied(before, patch, x) <=> occupied(x)
  BY <1>2, SameWords DEF Atomic!Occupied
<1>4. \A x \in Path : ~ IsFile(AtPath(before, x)) => AtPath(before, x) = "absent"
  BY DEF AtPath
<1>5. ASSUME NEW x \in Path
      PROVE  (IsFile(after(x)) <=> IsFile(fs[x])) /\ (IsFile(fs[x]) => fs[x] = after(x))
  <2>1. CASE x \in Touched
    BY <1>1, <2>1 DEF PostCondition
  <2>2. CASE x \notin Touched
    BY <1>1, <2>2 DEF AtPath, IsFile
  <2>3. QED
    BY <2>1, <2>2
<1>6. ASSUME NEW x \in Path, IsFile(after(x)), occupied(x) PROVE FALSE
  <2>1. PICK y \in Path : IsStrictPrefix(x, y) /\ (IsFile(after(y)) \/ Staying(y))
    BY <1>6
  <2>2. fs[y] # "absent"
    BY <1>1, <1>5, <2>1 DEF IsFile
  <2>3. fs[x] = "dir"
    BY <1>1, <2>1, <2>2 DEF IsTreeOf
  <2>4. QED
    BY <1>5, <1>6, <2>3 DEF IsFile
<1>7. ASSUME NEW x \in Path, fs[x] = "dir", x \notin AboveTouched PROVE Staying(x)
  <2>1. before[x] = "dir"
    BY <1>1, <1>7
  <2>2. ASSUME x \in Touched PROVE FALSE
    <3>1. patch.old[x] = "absent"
      BY <1>1, <2>1, <2>2 DEF Accepted, AtPath, IsFile
    <3>2. patch.new[x] # "absent" /\ patch.new[x] # "dir"
      BY <1>1, <2>2, <3>1, PatchAssumption DEF Touched
    <3>3. fs[x] = patch.new[x]
      BY <1>1, <2>2, <3>2 DEF PostCondition, IsFile
    <3>4. QED
      BY <1>7, <3>2, <3>3
  <2>3. QED
    BY <1>7, <2>1, <2>2 DEF Staying
<1>8. ASSUME NEW x \in Path, fs[x] = "dir" PROVE occupied(x) \/ Staying(x)
  <2>1. CASE x \in AboveTouched
    <3>1. PICK y \in Below(x) : IsFile(fs[y]) \/ (fs[y] = "dir" /\ y \notin AboveTouched)
      BY <1>1, <1>8, <2>1
    <3>2. y \in Path /\ IsStrictPrefix(x, y)
      BY <3>1 DEF Below
    <3>3. IsFile(after(y)) \/ Staying(y)
      BY <1>5, <1>7, <3>1, <3>2
    <3>4. QED
      BY <3>2, <3>3
  <2>2. CASE x \notin AboveTouched
    BY <1>7, <1>8, <2>2
  <2>3. QED
    BY <2>1, <2>2
<1>9. ASSUME NEW x \in Path, occupied(x) \/ Staying(x) PROVE fs[x] = "dir"
  <2>1. CASE Staying(x)
    BY <1>1, <2>1
  <2>2. CASE occupied(x)
    <3>1. PICK y \in Path : IsStrictPrefix(x, y) /\ (IsFile(after(y)) \/ Staying(y))
      BY <2>2
    <3>2. fs[y] # "absent"
      BY <1>1, <1>5, <3>1 DEF IsFile
    <3>3. QED
      BY <1>1, <3>1, <3>2 DEF IsTreeOf
  <2>3. QED
    BY <1>9, <2>1, <2>2
<1>10. Atomic!Applicable(before, patch)
  <2>1. \A x \in Atomic!Touched(patch) : Atomic!FileAt(before, x) = patch.old[x]
    BY <1>1, SameWords DEF Accepted
  <2>2. \A x \in Path : Atomic!IsFile(Atomic!FileAfter(before, patch, x))
          => ~ Atomic!Occupied(before, patch, x)
    <3> HIDE DEF after, occupied
    <3>1. QED
      BY <1>2, <1>3, <1>6, SameWords
  <2>3. QED
    BY <2>1, <2>2 DEF Atomic!Applicable
<1> HIDE DEF after, occupied
<1>11. Atomic!Patched(before, patch) =
         [x \in Path |-> IF IsFile(after(x)) THEN after(x)
                         ELSE IF occupied(x) \/ Staying(x) THEN "dir" ELSE "absent"]
  <2> DEFINE node(x) == CASE Atomic!IsFile(Atomic!FileAfter(before, patch, x))
                              -> Atomic!FileAfter(before, patch, x)
                          [] OTHER -> IF Atomic!Occupied(before, patch, x)
                                         \/ Atomic!Stays(before, patch, x)
                                      THEN "dir" ELSE "absent"
  <2>1. Atomic!Patched(before, patch) = [x \in Path |-> node(x)]
    BY DEF Atomic!Patched
  <2>2. ASSUME NEW x \in Path, IsFile(after(x)) PROVE node(x) = after(x)
    <3>1. Atomic!IsFile(Atomic!FileAfter(before, patch, x))
      BY <1>2, <2>2, SameWords
    <3>2. node(x) = Atomic!FileAfter(before, patch, x)
      BY <3>1
    <3>3. QED
      BY <1>2, <3>2
  <2>3. ASSUME NEW x \in Path, ~ IsFile(after(x))
        PROVE  node(x) = IF occupied(x) \/ Staying(x) THEN "dir" ELSE "absent"
    <3>1. ~ Atomic!IsFile(Atomic!FileAfter(before, patch, x))
      BY <1>2, <2>3, SameWords
    <3>2. node(x) = IF Atomic!Occupied(before, patch, x) \/ Atomic!Stays(before, patch, x)
                    THEN "dir" ELSE "absent"
      BY <3>1
    <3> HIDE DEF node
    <3>3. QED
      BY <1>3, <3>2, SameWords
  <2> HIDE DEF node
  <2>4. QED
    BY <2>1, <2>2, <2>3
<1>12. ASSUME NEW x \in Path
       PROVE  fs[x] = IF IsFile(after(x)) THEN after(x)
                      ELSE IF occupied(x) \/ Staying(x) THEN "dir" ELSE "absent"
  <2>1. CASE IsFile(after(x))
    BY <1>5, <2>1
  <2>2. CASE ~ IsFile(after(x)) /\ fs[x] = "dir"
    BY <1>8, <2>2
  <2>3. CASE ~ IsFile(after(x)) /\ fs[x] # "dir"
    <3>1. fs[x] = "absent"
      BY <1>5, <2>3 DEF IsFile
    <3>2. QED
      BY <1>9, <2>3, <3>1
  <2>4. QED
    BY <2>1, <2>2, <2>3
<1>13. fs = Atomic!Patched(before, patch)
  BY <1>1, <1>11, <1>12
<1>14. QED
  BY <1>10, <1>13

\* What is neither under a root nor above one is out of the reach of the patch.
LEMMA OutsideReach ==
  \A x \in Path \ Atomic!Reach(patch) : x \notin UnderRoots \cup Above
<1> SUFFICES ASSUME NEW x \in Path, x \in UnderRoots \cup Above
             PROVE  x \in Atomic!Reach(patch)
  OBVIOUS
<1>1. CASE x \in UnderRoots
  <2>1. PICK r \in Roots : IsPrefix(r, x)
    BY <1>1 DEF UnderRoots
  <2>2. QED
    BY <2>1, Geometry, SameWords DEF Atomic!Reach, Atomic!Within
<1>2. CASE x \in Above
  <2>1. PICK r \in Roots : x \in Parents(r)
    BY <1>2 DEF Above
  <2>2. QED
    BY <2>1, Geometry, SameWords DEF Atomic!Reach
<1>3. QED
  BY <1>1, <1>2

\* Every step is one of AtomicPatch, or changes nothing that the caller can see.
LEMMA StepIsAtomic ==
  ASSUME PatchInvariant, AtomicInvariant, [Next]_vars
  PROVE  [Atomic!Next]_Atomic!vars
<1> DEFINE tree == IF pc = "done" /\ edits = 0 THEN fs ELSE before
           outcome == IF edits = 0 THEN result ELSE "none"
<1>0. TypeOK /\ StartedFrom /\ (edits = 0 => Faithful)
  BY DEF PatchInvariant, AtomicInvariant
<1>1. UNCHANGED <<patch, before>>
  BY
    DEF Next, vars, program, history, ReadIndex, Snapshot, Delete, Write, RemoveRoot,
      Check, Prune, Sweep, Verify, Sync, Obstruct, Fault, Throw, Recreate,
      RollbackFails, Edit, Done, MaterialUnchanged
<1>2. CASE UNCHANGED <<fs, pc, result, edits>>
  BY <1>1, <1>2 DEF Atomic!vars
<1>3. CASE pc # "done" /\ pc' # "done" /\ UNCHANGED <<result, edits>>
  BY <1>1, <1>3 DEF Atomic!vars
<1>4. CASE edits # 0 /\ edits' # 0
  BY <1>1, <1>4 DEF Atomic!vars
<1>5. CASE \E x \in UserPath : Edit(x)
  <2>1. pc # "done" /\ pc' = pc /\ result' = result /\ edits' = edits + 1
    BY <1>5 DEF Edit, program
  <2>2. result = "none" /\ edits' # 0
    BY <1>0, <2>1, PatchAssumption DEF TypeOK
  <2>3. QED
    BY <1>1, <2>1, <2>2 DEF Atomic!vars
<1>6. ASSUME pc # "done", pc' = "done", edits = 0, edits' = 0
      PROVE  /\ tree = before /\ tree' = fs' /\ outcome = "none" /\ outcome' = result'
             /\ Faithful
  BY <1>0, <1>6 DEF TypeOK
<1>7. CASE edits = 0 /\ Sync
  <2>1. pc = "sync" /\ pc' = "done" /\ result' = "applied" /\ fs' = fs /\ edits' = 0
    BY <1>7 DEF Sync, Finish, history
  <2>2. Atomic!Applicable(before, patch) /\ fs = Atomic!Patched(before, patch)
    BY <1>0, <1>6, <1>7, <2>1, AppliedIsPatched
  <2>3. QED
    BY <1>1, <1>6, <1>7, <2>1, <2>2 DEF Atomic!Next, Atomic!Apply
<1>8. ASSUME edits = 0, edits' = 0, pc # "done", pc' = "done", result' = "rejected",
             fs' = before
      PROVE  [Atomic!Next]_Atomic!vars
  BY <1>1, <1>6, <1>8 DEF Atomic!Next, Atomic!Reject
<1>9. CASE edits = 0 /\ Recreate
  <2>1. /\ pc = "recreate" /\ pc' = "done" /\ result' = "rejected" /\ fs' = Restored
        /\ edits' = 0
    BY <1>9 DEF Recreate, Finish, history
  <2>2. QED
    BY <1>0, <1>8, <1>9, <2>1, RestoredIsBefore
<1>10. CASE edits = 0 /\ (Check \/ Obstruct \/ Fault) /\ pc' = "done"
  <2>1. pc \in {"index", "snapshot"} /\ result' = "rejected" /\ fs' = fs /\ edits' = 0
    BY <1>10
      DEF Check, Obstruct, Obstructed, Fault, Throw, Enter, Finish, Written, history
  <2>2. fs = before
    BY <1>0, <1>10, <2>1 DEF Faithful, Unwritten
  <2>3. QED
    BY <1>8, <1>10, <2>1, <2>2
<1>11. CASE edits = 0 /\ RollbackFails
  <2>1. /\ pc \in {"remove", "recreate"} /\ pc' = "done" /\ result' = "uncertain"
        /\ edits' = 0
        /\ fs' = fs \/ (pc = "recreate" /\ fs' = Restored)
    BY <1>11 DEF RollbackFails, Finish, history
  <2>2. \A x \in Path \ (UnderRoots \cup Above) : fs[x] = before[x]
    BY <1>0, <1>11, <2>1 DEF Faithful, Beside
  <2>3. \A x \in Path \ Atomic!Reach(patch) : fs'[x] = before[x]
    BY <1>0, <1>11, <2>1, <2>2, OutsideReach, RestoredIsBefore
  <2>4. QED
    BY <1>1, <1>6, <1>11, <2>1, <2>3 DEF Atomic!Next, Atomic!Damage
<1>12. CASE UNCHANGED vars
  BY <1>2, <1>12 DEF vars, program, history
<1>13. CASE \E x \in Path :
               ReadIndex(x) \/ Snapshot(x) \/ Delete(x) \/ Write(x) \/ RemoveRoot(x)
  <2>1. pc # "done" /\ pc' # "done" /\ UNCHANGED <<result, edits>>
    BY <1>13
      DEF ReadIndex, Snapshot, Delete, Write, RemoveRoot, Enter, MaterialUnchanged,
        history
  <2>2. QED
    BY <1>3, <2>1
<1>14. CASE Prune \/ Sweep \/ Verify
  <2>1. pc # "done" /\ pc' # "done" /\ UNCHANGED <<result, edits>>
    BY <1>14 DEF Prune, Sweep, Verify, Enter, MaterialUnchanged, history
  <2>2. QED
    BY <1>3, <2>1
<1>15. CASE (Check \/ Obstruct \/ Fault) /\ pc' # "done"
  <2>1. pc # "done" /\ UNCHANGED <<result, edits>>
    BY <1>15
      DEF Check, Obstruct, Obstructed, Fault, Throw, Enter, Finish, Written, history
  <2>2. QED
    BY <1>3, <1>15, <2>1
<1>16. CASE edits # 0 /\ (Sync \/ Recreate \/ RollbackFails \/ Check \/ Obstruct \/ Fault)
  <2>1. edits' = edits
    BY <1>16 DEF Sync, Recreate, RollbackFails, Check, Obstruct, Fault, Throw, history
  <2>2. QED
    BY <1>4, <1>16, <2>1
<1>17. Next \/ UNCHANGED vars
  OBVIOUS
<1>18. QED
  BY <1>5, <1>7, <1>9, <1>10, <1>11, <1>12, <1>13, <1>14, <1>15, <1>16, <1>17
    DEF Next, Done

\* Both invariants hold, for every tree and every patch.
THEOREM PatchInvariants == Spec => [](PatchInvariant /\ AtomicInvariant)
<1>1. Init => PatchInvariant /\ AtomicInvariant
  BY PatchInitHolds, AtomicInitHolds
<1>2. PatchInvariant /\ AtomicInvariant /\ [Next]_vars
        => (PatchInvariant /\ AtomicInvariant)'
  BY PatchNextKeeps, AtomicNextKeeps
<1>3. QED
  BY <1>1, <1>2, PTL DEF Spec

\* Only a failure of the rollback itself makes applyPatch() throw: whatever was written
\* when it failed can be undone.
THEOREM UndoneUnlessFaulty == Spec => AlwaysUndone
<1> DEFINE Undone == edits = 0 /\ result = "none" /\ result' = "uncertain"
             => faults' > faults
<1>1. ASSUME PatchInvariant, AtomicInvariant, [Next]_vars PROVE [Undone]_vars
  <2> SUFFICES ASSUME edits = 0, result' = "uncertain", result = "none"
               PROVE  faults' > faults
    OBVIOUS
  <2>1. RollbackFails
    BY <1>1
      DEF Next, vars, program, history, ReadIndex, Snapshot, Delete, Write, RemoveRoot,
        Check, Prune, Sweep, Verify, Sync, Obstruct, Fault, Throw, Recreate, Edit, Done,
        MaterialUnchanged, Finish, Enter
  <2>2. StartedFrom /\ Faithful /\ faults \in Nat
    BY <1>1, PatchAssumption DEF AtomicInvariant, PatchInvariant, TypeOK
  <2>3. QED
    BY <1>1, <2>1, <2>2, NothingInTheWay DEF RollbackFails
<1>2. PatchInvariant /\ AtomicInvariant /\ [Next]_vars => [Undone]_vars
  BY <1>1
<1>3. QED
  BY <1>2, PatchInvariants, PTL DEF Spec, AlwaysUndone

\* PatchApply implements AtomicPatch: while nobody else writes into the tree, the patch
\* takes effect as a whole, or is rejected and the tree is as it was, or the caller is
\* told.
THEOREM PatchIsAtomic == Spec => IsAtomic
<1>1. Init => Atomic!Init
  BY DEF Init, Atomic!Init
<1>2. PatchInvariant /\ AtomicInvariant /\ [Next]_vars => [Atomic!Next]_Atomic!vars
  BY StepIsAtomic
<1>3. Spec => Atomic!Spec
  BY <1>1, <1>2, PatchInvariants, PTL DEF Spec, Atomic!Spec
<1>4. QED
  BY <1>3, UndoneUnlessFaulty DEF IsAtomic

----------------------------------------------------------------------------
(***************************************************************************)
(* The inductive invariant of the removal.                                 *)
(***************************************************************************)
\* The registration has gone.
Nowhere == \A e \in Own!AdminPlace : ~ Own!Found(e)

\* The part of TypeOK that others can disturb.
LayoutTypes ==
  /\ at \in [Own!Place -> Own!Node]
  /\ pointer \in [Own!Directory -> Own!AdminPlace \cup {"none", "broken"}]
  /\ registered \in [Own!Directory -> Own!Place]
  /\ \A p, q \in Own!Place : at[p] \in Own!Directory /\ at[p] = at[q] => p = q

\* The removal destroys nothing before it has inspected what is there.
NothingYet ==
  /\ stage \in {"new", "ready", "unregister"} => destroyed = {}
  /\ stage = "new" => at = [p \in Own!Place |-> "nothing"]

\* What Inspect found out still holds when git is asked, if nobody intervened:
\* the entry is the registration's, and the path is free or has its root.
Verified ==
  stage = "unregister" =>
    /\ registration \in Own!AdminPlace
    /\ alone => /\ Own!Found(registration) /\ Own!Valid(registration)
                /\ \/ Own!Vacant("path")
                   \/ at["path"] = "root" /\ pointer["root"] = registration

\* The directories go after the registration.
Unregistered == alone /\ stage \in {"removeRoot", "removeStore"} => Nowhere

\* The layout that createWorktree() leaves.
AsCreated ==
  /\ at["path"] = "root" /\ at["entry1"] = "registration" /\ at["store"] = "objects"
  /\ at["aside"] = "nothing" /\ at["entry2"] = "nothing"
  /\ pointer["root"] = "entry1" /\ registered["registration"] = "path"

\* A worktree that nobody has touched is found as it was made, and every step that
\* succeeds takes its part of it.
Undisturbed ==
  disturbances = 0 /\ ~ failed =>
    /\ stage = "new" => registered = [x \in Own!Directory |-> "path"]
    /\ stage = "ready" => AsCreated
    /\ stage = "unregister" => AsCreated /\ registration = "entry1"
    /\ stage \in {"removeRoot", "removeStore"} =>
         \A p \in Own!Place : Own!Vacant(p) \/ (p = "store" /\ at[p] = "objects")

OwnershipInvariant ==
  /\ Own!TypeOK /\ NothingYet /\ Verified /\ Unregistered /\ Undisturbed
  /\ Own!RegisteredIsComplete /\ Own!RemovalComplete

\* Before createWorktree() there is nothing.
LEMMA InitHolds ==
  ASSUME Own!OwnershipAssumption, Own!Init
  PROVE  OwnershipInvariant
<1> USE DEF Own!Init
<1>1. at \in [Own!Place -> Own!Node]
  BY DEF Own!Node
<1>2. registered \in [Own!Directory -> Own!Place]
  BY DEF Own!Place
<1>3. \A p, q \in Own!Place : at[p] \in Own!Directory /\ at[p] = at[q] => p = q
  BY DEF Own!Directory, Own!Own
<1>4. 0 \in 0..disturbanceBound
  BY DEF Own!OwnershipAssumption
<1>5. Own!TypeOK
  BY <1>1, <1>2, <1>3, <1>4 DEF Own!TypeOK
<1>6. QED
  BY <1>5
    DEF OwnershipInvariant, NothingYet, Verified, Unregistered, Undisturbed,
      Own!RegisteredIsComplete, Own!RemovalComplete

----------------------------------------------------------------------------
(***************************************************************************)
(* createWorktree()                                                        *)
(***************************************************************************)
\* Where nothing was, Made() leaves at each place what it made there.
LEMMA MadeIs ==
  ASSUME NEW places, Own!Made(places), at = [p \in Own!Place |-> "nothing"]
  PROVE  /\ at' \in [Own!Place -> Own!Node]
         /\ at'["path"] = IF "path" \in places THEN "root" ELSE "nothing"
         /\ at'["entry1"] = IF "entry1" \in places THEN "registration" ELSE "nothing"
         /\ at'["store"] = IF "store" \in places THEN "objects" ELSE "nothing"
         /\ at'["aside"] = "nothing"
         /\ at'["entry2"] = "nothing"
<1> USE DEF Own!Made, Own!Place, Own!AdminPlace
<1>1. at' \in [Own!Place -> Own!Node]
  BY DEF Own!Node, Own!Directory, Own!Own
<1>2. at'["path"] = IF "path" \in places THEN "root" ELSE "nothing"
  OBVIOUS
<1>3. at'["entry1"] = IF "entry1" \in places THEN "registration" ELSE "nothing"
  OBVIOUS
<1>4. at'["store"] = IF "store" \in places THEN "objects" ELSE "nothing"
  OBVIOUS
<1>5. at'["aside"] = "nothing" /\ at'["entry2"] = "nothing"
  OBVIOUS
<1>6. QED
  BY <1>1, <1>2, <1>3, <1>4, <1>5

\* createWorktree() leaves the layout that Inspect expects.
LEMMA CreateKeeps ==
  ASSUME Own!OwnershipAssumption, OwnershipInvariant, Own!Create
  PROVE  OwnershipInvariant'
<1>1. /\ Own!TypeOK /\ destroyed = {} /\ stage = "new"
      /\ at = [p \in Own!Place |-> "nothing"]
      /\ disturbances = 0 /\ ~ failed => registered = [x \in Own!Directory |-> "path"]
  BY DEF OwnershipInvariant, NothingYet, Undisturbed, Own!Create
<1>2. /\ Own!Made({"path", "entry1", "store"})
      /\ stage' = "ready" /\ UNCHANGED <<failed, destroyed>>
  BY DEF Own!Create
<1>3. /\ at' \in [Own!Place -> Own!Node] /\ at'["path"] = "root"
      /\ at'["entry1"] = "registration"
      /\ at'["store"] = "objects" /\ at'["aside"] = "nothing" /\ at'["entry2"] = "nothing"
  BY <1>1, <1>2, MadeIs
<1>4. /\ pointer' = [pointer EXCEPT !["root"] = "entry1"]
      /\ UNCHANGED <<registered, seen, registration, disturbances, alone>>
  BY <1>2 DEF Own!Made
<1>5. Own!TypeOK'
  BY <1>1, <1>2, <1>3, <1>4
    DEF Own!TypeOK, Own!Place, Own!AdminPlace, Own!Own,
      Own!Directory, Own!Node
<1>6. Undisturbed'
  BY <1>1, <1>2, <1>3, <1>4
    DEF Undisturbed, AsCreated, Own!TypeOK, Own!Own, Own!Directory
<1>7. QED
  BY <1>1, <1>2, <1>5, <1>6
    DEF OwnershipInvariant, NothingYet, Verified, Unregistered,
      Own!RegisteredIsComplete, Own!RemovalComplete

\* When it fails, what it leaves is nothing, or it is known that something failed.
LEMMA CreateFailsKeeps ==
  ASSUME Own!OwnershipAssumption, OwnershipInvariant, Own!CreateFails
  PROVE  OwnershipInvariant'
<1>1. Own!TypeOK /\ destroyed = {} /\ at = [p \in Own!Place |-> "nothing"]
  BY DEF OwnershipInvariant, NothingYet, Own!CreateFails
<1>2. PICK places \in SUBSET {"path", "entry1", "store"} :
        Own!Made(places) /\ (places = {} \/ failed' = TRUE) /\ failed' \in BOOLEAN
  BY <1>1 DEF Own!CreateFails, Own!TypeOK
<1>3. stage' = "done" /\ destroyed' = {}
  BY <1>1 DEF Own!CreateFails
<1>4. /\ at' \in [Own!Place -> Own!Node]
      /\ at'["path"] \in {"root", "nothing"}
      /\ at'["entry1"] \in {"registration", "nothing"}
      /\ at'["store"] \in {"objects", "nothing"}
      /\ at'["aside"] = "nothing" /\ at'["entry2"] = "nothing"
      /\ places = {} => \A p \in Own!Place : at'[p] = "nothing"
  BY <1>1, <1>2, MadeIs DEF Own!Place, Own!AdminPlace
<1>5. /\ pointer' = [pointer EXCEPT !["root"] = "entry1"]
      /\ UNCHANGED <<registered, seen, registration, disturbances, alone>>
  BY <1>2 DEF Own!Made
<1>6. Own!TypeOK'
  BY <1>1, <1>2, <1>3, <1>4, <1>5
    DEF Own!TypeOK, Own!Place, Own!AdminPlace, Own!Own,
      Own!Directory, Own!Node
<1>7. Own!RemovalComplete'
  BY <1>2, <1>3, <1>4 DEF Own!RemovalComplete, Own!Vacant
<1>8. QED
  BY <1>3, <1>6, <1>7
    DEF OwnershipInvariant, NothingYet, Verified, Unregistered, Undisturbed,
      Own!RegisteredIsComplete

----------------------------------------------------------------------------
(***************************************************************************)
(* removeWorktree()                                                        *)
(***************************************************************************)
\* Inspect returns, or goes on to git with an entry that holds the registration and
\* is for the path, or to the directories when there is no registration; a worktree
\* as it was created has its first entry.
LEMMA InspectChooses ==
  ASSUME OwnershipInvariant, Own!Inspect
  PROVE  /\ \/ Own!Return
            \/ \E e \in Own!AdminPlace :
                 /\ Own!Proceed(e) /\ Own!Found(e) /\ Own!Valid(e)
                 /\ Own!Vacant("path") \/ (at["path"] = "root" /\ pointer["root"] = e)
            \/ Own!Proceed("none") /\ Nowhere
         /\ AsCreated => Own!Proceed("entry1")
<1>1. /\ Own!Vacant("path") => at["path"] # "root"
      /\ Own!Discovered /\ at["path"] = "root" =>
           pointer["root"] \in Own!AdminPlace /\ Own!Valid(pointer["root"])
      /\ (\E e \in Own!AdminPlace : Own!Found(e)) <=> ~ Nowhere
  BY DEF Own!Vacant, Own!Discovered, Nowhere
<1>2. ASSUME AsCreated
      PROVE  Own!Discovered /\ Own!Found("entry1") /\ pointer["root"] = "entry1"
  BY <1>2
    DEF AsCreated, Own!Discovered, Own!Found, Own!Valid,
      Own!IsDirectory, Own!AdminPlace, Own!Directory, Own!Own
<1>3. AsCreated => Own!Proceed("entry1")
  BY <1>2 DEF Own!Inspect, AsCreated
<1>4. CASE at["path"] = "root" /\ Own!Discovered
  <2>1. IF Own!Found(pointer["root"]) THEN Own!Proceed(pointer["root"]) ELSE Own!Return
    BY <1>4 DEF Own!Inspect
  <2>2. QED
    BY <1>1, <1>3, <1>4, <2>1
<1>5. CASE at["path"] = "root" /\ ~ Own!Discovered
  <2>1. Own!Return \/ (Nowhere /\ Own!Proceed("none"))
    BY <1>1, <1>5 DEF Own!Inspect
  <2>2. QED
    BY <1>3, <2>1
<1>6. CASE at["path"] # "root"
  <2>1. CASE Nowhere \/ ~ Own!Vacant("path")
    <3>1. Own!Return \/ (Nowhere /\ Own!Proceed("none"))
      BY <1>1, <1>6, <2>1 DEF Own!Inspect
    <3>2. QED
      BY <1>3, <3>1
  <2>2. CASE ~ Nowhere /\ Own!Vacant("path")
    <3>1. \E e \in Own!AdminPlace : Own!Found(e)
             /\ IF Own!Valid(e) THEN Own!Proceed(e) ELSE Own!Return
      BY <1>1, <1>6, <2>2 DEF Own!Inspect
    <3>2. QED
      BY <1>3, <2>2, <3>1
  <2>3. QED
    BY <2>1, <2>2
<1>7. QED
  BY <1>4, <1>5, <1>6

\* What Inspect goes on with is verified.
LEMMA InspectKeeps ==
  ASSUME Own!OwnershipAssumption, OwnershipInvariant, Own!Inspect
  PROVE  OwnershipInvariant'
<1>1. /\ stage = "ready" /\ destroyed = {} /\ Own!TypeOK
      /\ disturbances = 0 /\ ~ failed => AsCreated
      /\ UNCHANGED <<at, pointer, registered, disturbances, failed, alone, destroyed>>
  BY
    DEF OwnershipInvariant, NothingYet, Undisturbed, Own!Inspect,
      Own!LayoutUnchanged, Own!layout
<1>2. (AsCreated <=> AsCreated') /\ (Nowhere <=> Nowhere')
  BY <1>1 DEF AsCreated, Nowhere, Own!Found
<1>3. "none" \notin Own!AdminPlace /\ "entry1" \in Own!AdminPlace
  BY DEF Own!AdminPlace
<1>4. Own!RegisteredIsComplete'
  BY <1>1 DEF Own!RegisteredIsComplete
<1>5. CASE Own!Return
  <2>1. stage' = "done" /\ UNCHANGED <<seen, registration>>
    BY <1>5 DEF Own!Return
  <2>2. Own!TypeOK'
    BY <1>1, <2>1 DEF Own!TypeOK
  <2>3. ~ (disturbances = 0 /\ ~ failed)
    BY <1>1, <1>3, <2>1, InspectChooses DEF Own!Proceed
  <2>4. QED
    BY <1>1, <1>4, <2>1, <2>2, <2>3
      DEF OwnershipInvariant, NothingYet, Verified, Unregistered, Undisturbed,
        Own!RemovalComplete
<1>6. ASSUME NEW e \in Own!AdminPlace, Own!Proceed(e), Own!Found(e), Own!Valid(e),
             Own!Vacant("path") \/ (at["path"] = "root" /\ pointer["root"] = e)
      PROVE  OwnershipInvariant'
  <2>1. /\ stage' = "unregister" /\ registration' = e
        /\ seen' = Own!IsDirectory("path")
    BY <1>3, <1>6 DEF Own!Proceed
  <2>2. Own!TypeOK'
    BY <1>1, <2>1 DEF Own!TypeOK, Own!IsDirectory
  <2>3. Verified'
    BY <1>1, <1>6, <2>1
      DEF Verified, Own!Found, Own!Valid, Own!Vacant,
        Own!IsDirectory
  <2>4. Undisturbed'
    BY <1>1, <1>2, <2>1, InspectChooses DEF Undisturbed, Own!Proceed
  <2>5. QED
    BY <1>1, <1>4, <2>1, <2>2, <2>3, <2>4
      DEF OwnershipInvariant, NothingYet, Unregistered, Own!RemovalComplete
<1>7. CASE Own!Proceed("none") /\ Nowhere
  <2>1. /\ stage' = "removeRoot" /\ registration' = "none"
        /\ seen' = Own!IsDirectory("path")
    BY <1>7 DEF Own!Proceed
  <2>2. Own!TypeOK'
    BY <1>1, <2>1 DEF Own!TypeOK, Own!IsDirectory
  <2>3. ~ (disturbances = 0 /\ ~ failed)
    BY <1>1, <2>1, InspectChooses DEF Own!Proceed
  <2>4. QED
    BY <1>1, <1>2, <1>4, <1>7, <2>1, <2>2, <2>3
      DEF OwnershipInvariant, NothingYet, Verified, Unregistered, Undisturbed,
        Own!RemovalComplete
<1>8. QED
  BY <1>5, <1>6, <1>7, InspectChooses

\* A step of the removal takes directories away and puts nothing in their place; what
\* it takes is on record.
LEMMA RemovalTakes ==
  ASSUME OwnershipInvariant, Own!Unregister \/ Own!RemoveRoot \/ Own!RemoveStore
  PROVE  /\ Own!TypeOK'
         /\ \A p \in Own!Place : at'[p] = at[p] \/ at'[p] = "nothing"
         /\ UNCHANGED <<pointer, registered, seen, registration, disturbances, alone>>
         /\ failed => failed'
<1>1. Own!TypeOK
  BY DEF OwnershipInvariant
<1>2. /\ UNCHANGED <<pointer, registered, seen, registration, disturbances, alone>>
      /\ stage' \in {"removeRoot", "removeStore", "done"}
  BY DEF Own!Unregister, Own!RemoveRoot, Own!RemoveStore
<1>3. /\ at' \in [Own!Place -> Own!Node]
      /\ \A p \in Own!Place : at'[p] = at[p] \/ at'[p] = "nothing"
      /\ failed' \in BOOLEAN /\ (failed => failed')
      /\ destroyed' \subseteq Own!Directory
  <2>1. "nothing" \in Own!Node /\ {"root", "objects"} \subseteq Own!Directory
    BY DEF Own!Node, Own!Directory, Own!Own
  <2>2. Own!Found(registration) => at[registration] \in Own!Directory
    BY DEF Own!Found, Own!Directory, Own!Own
  <2>3. CASE UNCHANGED <<at, failed, destroyed>>
    BY <1>1, <2>3 DEF Own!TypeOK
  <2>4. CASE Own!GitRemove(registration) /\ Own!Found(registration)
    <3>1. Own!IsDirectory("path") => at["path"] \in Own!Directory
      BY DEF Own!IsDirectory
    <3>2. /\ \/ UNCHANGED at
             \/ at' = [at EXCEPT ![registration] = "nothing"]
             \/ at' = [at EXCEPT !["path"] = "nothing"]
             \/ at' = [at EXCEPT !["path"] = "nothing", ![registration] = "nothing"]
          /\ failed' = TRUE \/ UNCHANGED failed
      BY <2>4 DEF Own!GitRemove
    <3>3. destroyed' \subseteq Own!Directory
      BY <1>1, <2>2, <2>4, <3>1 DEF Own!GitRemove, Own!TypeOK
    <3>4. /\ at' \in [Own!Place -> Own!Node]
          /\ \A p \in Own!Place : at'[p] = at[p] \/ at'[p] = "nothing"
      BY <1>1, <2>1, <3>2 DEF Own!TypeOK
    <3>5. failed \in BOOLEAN
      BY <1>1 DEF Own!TypeOK
    <3>6. failed' \in BOOLEAN /\ (failed => failed')
      <4>1. CASE failed' = TRUE
        BY <4>1
      <4>2. CASE failed' = failed
        BY <3>5, <4>2
      <4>3. QED
        BY <3>2, <4>1, <4>2
    <3>7. QED
      BY <3>3, <3>4, <3>6
  <2>5. CASE Own!RemoveOwned("path", "root") \/ Own!RemoveOwned("store", "objects")
    BY <1>1, <2>1, <2>5 DEF Own!RemoveOwned, Own!TypeOK
  <2>6. QED
    BY <2>3, <2>4, <2>5
      DEF Own!Unregister, Own!RemoveRoot, Own!RemoveStore
<1>4. \A p, q \in Own!Place : at'[p] \in Own!Directory /\ at'[p] = at'[q] => p = q
  <2>1. "nothing" \notin Own!Directory
    BY DEF Own!Directory, Own!Own
  <2>2. QED
    BY <1>1, <1>3, <2>1 DEF Own!TypeOK
<1>5. Own!TypeOK'
  BY <1>1, <1>2, <1>3, <1>4 DEF Own!TypeOK
<1>6. QED
  BY <1>2, <1>3, <1>5

\* git is asked for an entry that was verified: when it fails, the registration is
\* still there, and only the root may have gone.
LEMMA UnregisterKeeps ==
  ASSUME Own!OwnershipAssumption, OwnershipInvariant, Own!Unregister
  PROVE  OwnershipInvariant'
<1>1. /\ Own!TypeOK /\ destroyed = {} /\ registration \in Own!AdminPlace
      /\ stage = "unregister"
      /\ alone => /\ Own!Found(registration) /\ Own!Valid(registration)
                  /\ \/ Own!Vacant("path")
                     \/ at["path"] = "root" /\ pointer["root"] = registration
      /\ disturbances = 0 /\ ~ failed => AsCreated /\ registration = "entry1"
  BY DEF OwnershipInvariant, NothingYet, Verified, Undisturbed, Own!Unregister
<1>2. /\ Own!TypeOK' /\ \A p \in Own!Place : at'[p] = at[p] \/ at'[p] = "nothing"
      /\ UNCHANGED <<pointer, registered, seen, registration, disturbances, alone>>
      /\ failed => failed'
  BY RemovalTakes
<1>3. /\ stage' = IF at'[registration] = "nothing" THEN "removeRoot" ELSE "done"
      /\ IF Own!Found(registration) /\ Own!Valid(registration)
         THEN Own!GitRemove(registration) ELSE UNCHANGED <<at, failed, destroyed>>
  BY DEF Own!Unregister
<1>4. /\ Own!AdminPlace \subseteq Own!Place /\ "path" \in Own!Place
      /\ "path" \notin Own!AdminPlace
  BY DEF Own!Place, Own!AdminPlace
<1>5. ASSUME alone, NEW e \in Own!AdminPlace, at'[e] = "registration"
      PROVE  e = registration /\ at'[registration] # "nothing"
  <2>1. at[e] = "registration" /\ at[registration] = "registration"
    BY <1>1, <1>2, <1>4, <1>5 DEF Own!Found
  <2>2. e = registration
    BY <1>1, <1>4, <2>1 DEF Own!TypeOK, Own!Directory, Own!Own
  <2>3. QED
    BY <1>5, <2>2
<1>6. Unregistered'
  BY <1>2, <1>3, <1>5 DEF Unregistered, Nowhere, Own!Found
<1>7. Own!RegisteredIsComplete'
  <2> SUFFICES ASSUME alone, NEW e \in Own!AdminPlace, at'[e] = "registration"
               PROVE  "objects" \notin destroyed' /\ ("root" \in destroyed' => failed')
    BY <1>2 DEF Own!RegisteredIsComplete, Own!Found
  <2>1. at'[registration] # "nothing" /\ Own!GitRemove(registration)
    BY <1>1, <1>3, <1>5
  <2>2. /\ failed'
        /\ \/ destroyed' = destroyed
           \/ destroyed' = {at["path"]} /\ Own!IsDirectory("path")
    BY <1>1, <1>4, <2>1 DEF Own!GitRemove, Own!TypeOK
  <2>3. Own!IsDirectory("path") => at["path"] = "root"
    BY <1>1
      DEF Own!Vacant, Own!IsDirectory, Own!Directory, Own!Own
  <2>4. QED
    BY <1>1, <2>2, <2>3
<1>8. Undisturbed' /\ Own!RemovalComplete'
  <2> SUFFICES ASSUME disturbances = 0, ~ failed'
               PROVE  Undisturbed' /\ Own!RemovalComplete'
    BY <1>2 DEF Undisturbed, Own!RemovalComplete
  <2>1. AsCreated /\ registration = "entry1"
    BY <1>1, <1>2
  <2>2. /\ Own!Found("entry1") /\ Own!Valid("entry1")
        /\ ~ Own!Vacant("path")
    BY <2>1
      DEF AsCreated, Own!Found, Own!Valid, Own!Vacant,
        Own!IsDirectory, Own!Directory, Own!Own
  <2>3. at' = [at EXCEPT !["path"] = "nothing", !["entry1"] = "nothing"]
    BY <1>3, <2>1, <2>2 DEF Own!GitRemove
  <2>4. /\ at'["path"] = "nothing" /\ at'["entry1"] = "nothing"
        /\ at'["store"] = "objects"
        /\ at'["aside"] = "nothing" /\ at'["entry2"] = "nothing"
    BY <1>1, <2>1, <2>3
      DEF AsCreated, Own!TypeOK, Own!Place, Own!AdminPlace
  <2>5. stage' = "removeRoot"
    BY <1>3, <2>1, <2>4
  <2>6. QED
    BY <2>4, <2>5
      DEF Undisturbed, Own!RemovalComplete, Own!Vacant, Own!Place,
        Own!AdminPlace
<1>9. NothingYet' /\ Verified'
  BY <1>3 DEF NothingYet, Verified
<1>10. QED
  BY <1>2, <1>6, <1>7, <1>8, <1>9 DEF OwnershipInvariant

\* The root and the objects go when the registration has gone.
LEMMA RemoveDirectoriesKeeps ==
  ASSUME Own!OwnershipAssumption, OwnershipInvariant, Own!RemoveRoot \/ Own!RemoveStore
  PROVE  OwnershipInvariant'
<1>1. /\ stage \in {"removeRoot", "removeStore"}
      /\ stage' = IF stage = "removeRoot" THEN "removeStore" ELSE "done"
  BY DEF Own!RemoveRoot, Own!RemoveStore
<1>2. /\ Own!TypeOK' /\ \A p \in Own!Place : at'[p] = at[p] \/ at'[p] = "nothing"
      /\ UNCHANGED <<pointer, registered, seen, registration, disturbances, alone>>
      /\ failed => failed'
  BY RemovalTakes
<1>3. /\ alone => Nowhere
      /\ disturbances = 0 /\ ~ failed =>
           \A p \in Own!Place : Own!Vacant(p) \/ (p = "store" /\ at[p] = "objects")
  BY <1>1 DEF OwnershipInvariant, Unregistered, Undisturbed
<1>4. alone => Nowhere'
  BY <1>2, <1>3 DEF Nowhere, Own!Found, Own!Place
<1>5. Unregistered' /\ Own!RegisteredIsComplete'
  BY <1>2, <1>4 DEF Unregistered, Own!RegisteredIsComplete, Nowhere
<1>6. Undisturbed' /\ Own!RemovalComplete'
  <2> SUFFICES ASSUME disturbances = 0, ~ failed'
               PROVE  Undisturbed' /\ Own!RemovalComplete'
    BY <1>2 DEF Undisturbed, Own!RemovalComplete
  <2>1. \A p \in Own!Place : at[p] = "nothing" \/ (p = "store" /\ at[p] = "objects")
    BY <1>2, <1>3 DEF Own!Vacant
  <2>2. \A p \in Own!Place : at'[p] = "nothing" \/ (p = "store" /\ at'[p] = "objects")
    BY <1>2, <2>1
  <2>3. ASSUME Own!RemoveStore PROVE at'["store"] = "nothing"
    <3>1. "store" \in Own!Place /\ Own!TypeOK
      BY DEF Own!Place, OwnershipInvariant
    <3>2. QED
      BY <2>1, <2>3, <3>1
        DEF Own!RemoveStore, Own!RemoveOwned, Own!TypeOK
  <2>4. QED
    BY <1>1, <2>2, <2>3
      DEF Undisturbed, Own!RemovalComplete, Own!Vacant, Own!RemoveRoot
<1>7. NothingYet' /\ Verified'
  BY <1>1 DEF NothingYet, Verified
<1>8. QED
  BY <1>2, <1>5, <1>6, <1>7 DEF OwnershipInvariant

----------------------------------------------------------------------------
(***************************************************************************)
(* The others.                                                             *)
(***************************************************************************)
\* What others do between the steps ends every promise that needs the removal to be
\* alone or undisturbed; before the removal nothing has been destroyed.
LEMMA DisturbKeeps ==
  ASSUME Own!OwnershipAssumption, OwnershipInvariant, Own!Disturb, LayoutTypes'
  PROVE  OwnershipInvariant'
<1>1. /\ UNCHANGED <<stage, seen, registration, failed, destroyed>>
      /\ stage \notin {"new", "done"} /\ alone' = (stage = "ready")
      /\ disturbances < disturbanceBound /\ disturbances' = disturbances + 1
  BY DEF Own!Disturb, Own!removal
<1>2. Own!TypeOK /\ NothingYet /\ Verified
  BY DEF OwnershipInvariant
<1>3. disturbances' # 0 /\ disturbances' \in 0..disturbanceBound
  BY <1>1, <1>2 DEF Own!TypeOK, Own!OwnershipAssumption
<1>4. Own!TypeOK'
  BY <1>1, <1>2, <1>3 DEF Own!TypeOK, LayoutTypes
<1>5. NothingYet' /\ Verified' /\ Unregistered' /\ Own!RegisteredIsComplete'
  BY <1>1, <1>2 DEF NothingYet, Verified, Unregistered, Own!RegisteredIsComplete
<1>6. QED
  BY <1>3, <1>4, <1>5 DEF OwnershipInvariant, Undisturbed, Own!RemovalComplete

\* Whatever is removed, moved, put in a place that is free or connected with another
\* registration, a directory is in one place.
LEMMA OthersKeepTypes ==
  ASSUME OwnershipInvariant,
         \/ \E p \in Own!Place : Own!Vanish(p)
         \/ \E p \in {"path", "store"}, e \in Own!AdminPlace : Own!Occupy(p, e)
         \/ \E e \in Own!AdminPlace : Own!PutBack(e)
         \/ Own!Move \/ Own!Rename \/ Own!Cut \/ Own!Repair
  PROVE  Own!Disturb /\ LayoutTypes'
<1>1. LayoutTypes
  BY DEF OwnershipInvariant, Own!TypeOK, LayoutTypes
<1> USE DEF LayoutTypes, Own!Place, Own!AdminPlace, Own!Node, Own!Directory, Own!Own,
      Own!IsDirectory, Own!Vacant
<1>2. CASE \E p \in Own!Place : Own!Vanish(p)
  BY <1>1, <1>2 DEF Own!Vanish
<1>3. ASSUME NEW p \in {"path", "store"}, NEW e \in Own!AdminPlace, Own!Occupy(p, e)
      PROVE  Own!Disturb /\ LayoutTypes'
  BY <1>1, <1>3 DEF Own!Occupy
<1>4. CASE \E e \in Own!AdminPlace : Own!PutBack(e)
  BY <1>1, <1>4 DEF Own!PutBack
<1>5. CASE Own!Move
  BY <1>1, <1>5 DEF Own!Move
<1>6. CASE Own!Rename
  BY <1>1, <1>6 DEF Own!Rename
<1>7. CASE Own!Cut \/ Own!Repair
  BY <1>1, <1>7 DEF Own!Cut, Own!Repair
<1>8. QED
  BY <1>2, <1>3, <1>4, <1>5, <1>6, <1>7

\* Every step keeps the invariant.
LEMMA NextKeeps ==
  ASSUME Own!OwnershipAssumption, OwnershipInvariant, [Own!Next]_(Own!vars)
  PROVE  OwnershipInvariant'
<1>1. CASE UNCHANGED Own!vars
  BY <1>1
    DEF Own!vars, Own!layout, Own!removal, OwnershipInvariant,
      Own!TypeOK, NothingYet, Verified, Unregistered, AsCreated, Undisturbed,
      Own!RegisteredIsComplete, Own!RemovalComplete, Nowhere,
      Own!Found, Own!Valid, Own!Vacant, Own!IsDirectory
<1>2. CASE Own!Create \/ Own!CreateFails
  BY <1>2, CreateKeeps, CreateFailsKeeps
<1>3. CASE Own!Inspect \/ Own!Unregister \/ Own!RemoveRoot \/ Own!RemoveStore
  BY <1>3, InspectKeeps, UnregisterKeeps, RemoveDirectoriesKeeps
<1>4. CASE \/ \E p \in Own!Place : Own!Vanish(p)
           \/ \E p \in {"path", "store"}, e \in Own!AdminPlace : Own!Occupy(p, e)
           \/ \E e \in Own!AdminPlace : Own!PutBack(e)
           \/ Own!Move \/ Own!Rename \/ Own!Cut \/ Own!Repair
  BY <1>4, OthersKeepTypes, DisturbKeeps
<1>5. CASE Own!Done
  BY <1>1, <1>5 DEF Own!Done
<1>6. QED
  BY <1>1, <1>2, <1>3, <1>4, <1>5 DEF Own!Next

----------------------------------------------------------------------------
(***************************************************************************)
(* The theorems of the removal.                                            *)
(***************************************************************************)
\* The invariant holds for every number of disturbances.
THEOREM OwnershipCorrect ==
  ASSUME Own!OwnershipAssumption
  PROVE  Own!Spec => []OwnershipInvariant
<1>1. Own!Init => OwnershipInvariant
  BY InitHolds
<1>2. OwnershipInvariant /\ [Own!Next]_(Own!vars) => OwnershipInvariant'
  BY NextKeeps
<1>3. QED
  BY <1>1, <1>2, PTL DEF Own!Spec

\* removeWorktree() leaves a worktree that git still knows with its objects and, unless
\* git failed, its root, when nobody intervenes; and it leaves nothing behind when
\* nobody has touched the worktree and nothing fails.
THEOREM RemovalCorrect ==
  ASSUME Own!OwnershipAssumption
  PROVE  Own!Spec => []RemovalSound
<1>1. OwnershipInvariant => RemovalSound
  BY DEF OwnershipInvariant, RemovalSound, Own!RemovalSound
<1>2. QED
  BY <1>1, OwnershipCorrect, PTL

\* No step destroys a directory that the worktree did not make, whatever others do:
\* save the one that somebody has made, with git, the worktree of its registration.
THEOREM OwnOnly ==
  ASSUME Own!OwnershipAssumption
  PROVE  Own!Spec => OnlyOwnDestroyed
<1> DEFINE adopted == {x \in Own!Directory :
                        pointer[x] \in Own!AdminPlace /\ Own!Found(pointer[x])}
           Bounded == destroyed' \ destroyed \subseteq Own!Own \cup adopted
<1>1. ASSUME OwnershipInvariant, [Own!Next]_(Own!vars)
      PROVE  [Bounded]_(Own!vars)
  <2>1. CASE Own!Unregister
    <3>1. registration \in Own!AdminPlace
      BY <1>1, <2>1 DEF OwnershipInvariant, Verified, Own!Unregister
    <3>2. CASE Own!GitRemove(registration) /\ Own!Found(registration)
      BY <3>1, <3>2
        DEF Own!GitRemove, Own!Found, Own!IsDirectory, Own!Own
    <3>3. CASE UNCHANGED destroyed
      BY <3>3
    <3>4. QED
      BY <2>1, <3>2, <3>3 DEF Own!Unregister
  <2>2. CASE Own!RemoveRoot \/ Own!RemoveStore
    BY <2>2
      DEF Own!RemoveRoot, Own!RemoveStore, Own!RemoveOwned,
        Own!Own
  <2>3. CASE UNCHANGED destroyed
    BY <2>3
  <2>4. Own!Unregister \/ Own!RemoveRoot \/ Own!RemoveStore \/ UNCHANGED destroyed
    BY <1>1
      DEF Own!Next, Own!vars, Own!Create, Own!CreateFails,
        Own!Inspect, Own!LayoutUnchanged, Own!Vanish,
        Own!Occupy, Own!PutBack, Own!Move, Own!Rename,
        Own!Cut, Own!Repair, Own!Disturb, Own!Done
  <2>5. QED
    BY <2>1, <2>2, <2>3, <2>4
<1>2. OwnershipInvariant /\ [Own!Next]_(Own!vars) => [Bounded]_(Own!vars)
  BY <1>1
<1>3. QED
  BY <1>2, OwnershipCorrect, PTL DEF Own!Spec, OnlyOwnDestroyed, Own!OnlyOwnDestroyed

----------------------------------------------------------------------------
(***************************************************************************)
(* The patch that is captured from a worktree.                             *)
(***************************************************************************)
\* The files that the agent started from and git showed.
Visible(p) == start.files[p] # Diff!Absent /\ p \in start.shown

\* While the agent works, the baseline and the extras are those visible files: the
\* first with their contents, the second without the commit's.
Began ==
  diffStage \in {"work", "captured"} =>
    /\ DOMAIN baseline = {p \in DiffPath : Visible(p)}
    /\ \A p \in DOMAIN baseline : baseline[p] = start.files[p]
    /\ DOMAIN extras = DOMAIN baseline \ Diff!Present(base)
    /\ \A p \in DOMAIN extras :
         extras[p] = [content |-> start.files[p], tracked |-> p \in start.tracked]
    /\ Diff!Present(base) \subseteq start.shown

\* Nothing is recorded before its step, and what is captured is the difference.
Recorded ==
  /\ diffStage = "captured" => work = Diff!Diff
  /\ diffStage # "captured" => work = Diff!Nothing
  /\ diffStage = "hooks" => baseline = Diff!Nothing /\ extras = Diff!Nothing

DiffInvariant == Diff!TypeOK /\ Began /\ Recorded

\* A path is a prefix of itself: buildRawTree() finds a file at its own path.
LEMMA PathOfItself ==
  ASSUME NEW s \in Seq(STRING)
  PROVE  Diff!IsPrefix(s, s)
BY DEF Diff!IsPrefix

\* buildRawTree() reads the files that git shows, and no others.
LEMMA RawIsShown ==
  ASSUME Diff!DiffAssumption, Diff!TypeOK
  PROVE  Diff!RawPaths = {p \in DiffPath : files[p] # Diff!Absent /\ p \in Diff!Shown}
<1> DEFINE S == {p \in DiffPath : files[p] # Diff!Absent /\ p \in Diff!Shown}
           Root == Diff!Present(base) \cup Diff!Untracked \cup Diff!Tracked
<1>1. Diff!IsTree(files)
  BY DEF Diff!TypeOK, Diff!Files
<1>2. Root \subseteq DiffPath
  BY DEF Diff!TypeOK, Diff!Tracked, Diff!Untracked, Diff!Present
<1>3. \A p \in DiffPath : Diff!IsPrefix(p, p)
  BY PathOfItself DEF Diff!DiffAssumption
<1>4. ASSUME NEW q \in Diff!RawPaths PROVE q \in S
  <2>1. PICK p \in Root : q \in Diff!Present(files) /\ Diff!IsPrefix(q, p)
    BY DEF Diff!RawPaths, Diff!Entries
  <2>2. q \in DiffPath /\ files[q] # Diff!Absent
    BY <2>1 DEF Diff!Present
  <2>3. CASE p \in Diff!Present(base) \cup Diff!Tracked
    BY <2>1, <2>2, <2>3 DEF Diff!Shown
  <2>4. CASE p \in Diff!Untracked
    <3>1. p \in DiffPath /\ files[p] # Diff!Absent /\ p \notin ignored
      BY <2>4 DEF Diff!Untracked, Diff!Present
    <3>2. q = p
      BY <1>1, <2>1, <2>2, <3>1 DEF Diff!IsTree, Diff!IsStrictPrefix
    <3>3. QED
      BY <2>2, <3>1, <3>2 DEF Diff!Shown
  <2>5. QED
    BY <2>1, <2>3, <2>4
<1>5. ASSUME NEW q \in S PROVE q \in Diff!RawPaths
  <2>1. q \in Diff!Present(files)
    BY DEF Diff!Present
  <2>2. CASE q \in ignored /\ q \notin Diff!Present(base)
    <3>1. PICK p \in Diff!Present(base) \cup Diff!Tracked : Diff!IsPrefix(q, p)
      BY <2>2 DEF Diff!Shown
    <3>2. QED
      BY <2>1, <3>1 DEF Diff!RawPaths, Diff!Entries
  <2>3. CASE q \notin ignored \/ q \in Diff!Present(base)
    <3>1. q \in Diff!Present(base) \cup Diff!Untracked
      BY <2>1, <2>3 DEF Diff!Untracked
    <3>2. q \in Diff!Entries(q)
      BY <1>3, <2>1 DEF Diff!Entries
    <3>3. QED
      BY <3>1, <3>2 DEF Diff!RawPaths
  <2>4. QED
    BY <2>2, <2>3
<1>6. QED
  BY <1>4, <1>5

\* A path of the commit is shown even when it is ignored.
LEMMA CommitIsShown ==
  ASSUME Diff!DiffAssumption
  PROVE  Diff!Present(base) \subseteq Diff!Shown
<1>1. \A p \in DiffPath : Diff!IsPrefix(p, p)
  BY PathOfItself DEF Diff!DiffAssumption
<1>2. QED
  BY <1>1 DEF Diff!Shown, Diff!Present

\* createWorktree() records what git shows after the hooks.
LEMMA BaselineKeeps ==
  ASSUME Diff!DiffAssumption, DiffInvariant, Diff!Baseline
  PROVE  DiffInvariant'
<1>1. /\ Diff!TypeOK /\ work = Diff!Nothing
      /\ baseline = Diff!Nothing /\ extras = Diff!Nothing
  BY DEF DiffInvariant, Recorded, Diff!Baseline
<1>2. /\ start' = [files |-> files, shown |-> Diff!Shown, tracked |-> Diff!Tracked]
      /\ steps' = 0
      /\ UNCHANGED <<base, files, head, staged, unmerged, ignored, work>>
  BY DEF Diff!Baseline, Diff!repository
<1>3. start'.files = files /\ start'.shown = Diff!Shown /\ start'.tracked = Diff!Tracked
  BY <1>2
<1>4. CASE diffStage' = "thrown" /\ UNCHANGED <<baseline, extras>>
  <2>1. Diff!Files' = Diff!Files /\ Diff!Present(base)' = Diff!Present(base)
    BY <1>2 DEF Diff!Files, Diff!IsTree, Diff!Present
  <2>2. Diff!TypeOK'
    BY <1>1, <1>2, <1>3, <1>4, <2>1, Diff!DiffAssumption
      DEF Diff!TypeOK, Diff!DiffAssumption
  <2>3. QED
    BY <1>1, <1>2, <1>4, <2>2 DEF DiffInvariant, Recorded, Began
<1>5. CASE diffStage' = "work" /\ baseline' = Diff!RawTree /\ extras' = Diff!Extras
  <2>1. Diff!RawPaths = {p \in DiffPath : files[p] # Diff!Absent /\ p \in Diff!Shown}
    BY <1>1, RawIsShown
  <2>2. DOMAIN baseline' = {p \in DiffPath : Visible(p)'}
    BY <1>3, <1>5, <2>1 DEF Diff!RawTree, Visible
  <2>3. \A p \in DOMAIN baseline' : baseline'[p] = start'.files[p]
    BY <1>3, <1>5 DEF Diff!RawTree
  <2>4. Diff!Present(base)' = Diff!Present(base)
    BY <1>2 DEF Diff!Present
  <2>5. DOMAIN extras' = DOMAIN baseline' \ Diff!Present(base)'
    BY <1>5, <2>4 DEF Diff!RawTree, Diff!Extras
  <2>6. \A p \in DOMAIN extras' :
          extras'[p] = [content |-> start'.files[p], tracked |-> p \in start'.tracked]
    BY <1>3, <1>5 DEF Diff!Extras
  <2>7. Diff!Present(base)' \subseteq start'.shown
    BY <1>3, <2>4, CommitIsShown
  <2>8. Began'
    BY <2>2, <2>3, <2>5, <2>6, <2>7 DEF Began
  <2>9. extras' \in [DOMAIN extras' -> [content : Content, tracked : BOOLEAN]]
    <3>1. \A p \in Diff!RawPaths : files[p] \in Content
      BY <1>1, <2>1 DEF Diff!TypeOK, Diff!Files
    <3>2. QED
      BY <1>5, <3>1 DEF Diff!Extras
  <2>10. DOMAIN baseline' \subseteq DiffPath
    BY <2>2
  <2>11. Diff!TypeOK'
    <3>1. base' \in Diff!Files' /\ files' \in Diff!Files' /\ start'.files \in Diff!Files'
      BY <1>1, <1>2, <1>3 DEF Diff!TypeOK, Diff!Files, Diff!IsTree
    <3>2. steps' \in 0..(hookBound + workBound)
      BY <1>2 DEF Diff!DiffAssumption
    <3>3. QED
      BY <1>1, <1>2, <1>5, <2>5, <2>9, <2>10, <3>1, <3>2 DEF Diff!TypeOK
  <2>12. QED
    BY <1>1, <1>2, <1>5, <2>8, <2>11 DEF DiffInvariant, Recorded
<1>6. QED
  BY <1>4, <1>5 DEF Diff!Baseline

\* captureWorktreeDiff() reads the worktree and changes nothing in it.
LEMMA CaptureKeeps ==
  ASSUME Diff!DiffAssumption, DiffInvariant, Diff!Capture
  PROVE  DiffInvariant'
<1>1. Diff!TypeOK /\ Began /\ work = Diff!Nothing /\ diffStage = "work"
  BY DEF DiffInvariant, Recorded, Diff!Capture
<1>2. UNCHANGED <<base, files, head, staged, unmerged, ignored, baseline, extras, steps,
                  start>>
  BY DEF Diff!Capture, Diff!repository
<1>3. Diff!Files' = Diff!Files /\ Diff!Present(base)' = Diff!Present(base)
  BY <1>2 DEF Diff!Files, Diff!IsTree, Diff!Present
<1>4. Began'
  BY <1>1, <1>2, <1>3 DEF Began, Visible
<1>5. CASE diffStage' = "thrown" /\ UNCHANGED work
  BY <1>1, <1>2, <1>3, <1>4, <1>5 DEF DiffInvariant, Recorded, Diff!TypeOK
<1>6. CASE diffStage' = "captured" /\ work' = Diff!Diff
  <2>1. Diff!Diff' = Diff!Diff
    BY <1>2
      DEF Diff!Diff, Diff!ChangedExtras, Diff!RawPaths, Diff!Entries, Diff!Untracked,
        Diff!Tracked, Diff!Present
  <2>2. \A p \in DOMAIN work' : work'[p].from # work'[p].to
    BY <1>6 DEF Diff!Diff
  <2>3. Diff!TypeOK'
    BY <1>1, <1>2, <1>3, <1>6, <2>2 DEF Diff!TypeOK
  <2>4. QED
    BY <1>4, <1>6, <2>1, <2>3 DEF DiffInvariant, Recorded
<1>7. QED
  BY <1>5, <1>6 DEF Diff!Capture

\* Whatever hooks and agent do, what was recorded stays, and files stay files.
LEMMA ActKeeps ==
  ASSUME Diff!DiffAssumption, DiffInvariant, Diff!Act,
         files' \in Diff!Files, head' \subseteq DiffPath, staged' \subseteq DiffPath,
         ignored' \subseteq DiffPath, unmerged' \in BOOLEAN
  PROVE  DiffInvariant'
<1>1. Diff!TypeOK /\ Began /\ work = Diff!Nothing
  BY DEF DiffInvariant, Recorded, Diff!Act
<1>2. /\ UNCHANGED <<base, diffStage, baseline, extras, work, start>>
      /\ diffStage \in {"hooks", "work"}
  BY DEF Diff!Act
<1>3. Diff!Files' = Diff!Files /\ Diff!Present(base)' = Diff!Present(base)
  BY <1>2 DEF Diff!Files, Diff!IsTree, Diff!Present
<1>4. Began'
  BY <1>1, <1>2, <1>3 DEF Began, Visible
<1>5. steps' \in 0..(hookBound + workBound)
  BY <1>1 DEF Diff!Act, Diff!TypeOK, Diff!DiffAssumption
<1>6. Diff!TypeOK'
  BY <1>1, <1>2, <1>3, <1>5 DEF Diff!TypeOK
<1>7. QED
  BY <1>1, <1>2, <1>4, <1>6 DEF DiffInvariant, Recorded

\* A file that is written takes the place of those above and under it.
LEMMA WriteKeeps ==
  ASSUME Diff!DiffAssumption, DiffInvariant,
         NEW p \in DiffPath, NEW content \in Content \cup {Diff!Absent},
         Diff!Write(p, content)
  PROVE  DiffInvariant'
<1>1. Diff!TypeOK
  BY DEF DiffInvariant, Recorded
<1>2. files \in [DiffPath -> Content \cup {Diff!Absent}] /\ Diff!IsTree(files)
  BY <1>1 DEF Diff!TypeOK, Diff!Files
<1>3. files' = [q \in DiffPath |-> IF q = p THEN content
                            ELSE IF content # Diff!Absent /\ Diff!Related(p, q)
                                 THEN Diff!Absent ELSE files[q]]
  BY DEF Diff!Write
<1>4. files' \in [DiffPath -> Content \cup {Diff!Absent}]
  BY <1>2, <1>3
<1>5. ASSUME NEW r \in DiffPath, NEW q \in DiffPath, files'[r] # Diff!Absent,
             files'[q] # Diff!Absent,
             Diff!IsStrictPrefix(r, q)
      PROVE  FALSE
  <2>1. Diff!IsPrefix(r, q) /\ r # q
    BY <1>5 DEF Diff!IsStrictPrefix
  <2>2. CASE r = p \/ q = p
    BY <1>3, <1>5, <2>1, <2>2 DEF Diff!Related
  <2>3. CASE r # p /\ q # p
    <3>1. files[r] # Diff!Absent /\ files[q] # Diff!Absent
      BY <1>3, <1>5, <2>3
    <3>2. QED
      BY <1>2, <1>5, <3>1 DEF Diff!IsTree
  <2>4. QED
    BY <2>2, <2>3
<1>6. files' \in Diff!Files
  BY <1>4, <1>5 DEF Diff!Files, Diff!IsTree
<1>7. Diff!Act /\ UNCHANGED <<head, staged, unmerged, ignored>>
  BY DEF Diff!Write
<1>8. QED
  BY <1>1, <1>6, <1>7, ActKeeps DEF Diff!TypeOK

\* git changes what is tracked, ignored or in conflict, and no file.
LEMMA GitKeeps ==
  ASSUME Diff!DiffAssumption, DiffInvariant,
         \/ \E p \in DiffPath : Diff!Add(p) \/ Diff!Unstage(p) \/ Diff!Ignore(p)
         \/ Diff!Commit \/ Diff!Conflict
  PROVE  DiffInvariant'
<1>1. Diff!TypeOK
  BY DEF DiffInvariant, Recorded
<1>2. Diff!Act /\ UNCHANGED files
  BY DEF Diff!Add, Diff!Unstage, Diff!Ignore, Diff!Commit, Diff!Conflict
<1>3. /\ head' \subseteq DiffPath /\ staged' \subseteq DiffPath
      /\ ignored' \subseteq DiffPath
      /\ unmerged' \in BOOLEAN
  BY <1>1 DEF Diff!TypeOK, Diff!Add, Diff!Unstage, Diff!Ignore, Diff!Commit, Diff!Conflict
<1>4. QED
  BY <1>1, <1>2, <1>3, ActKeeps DEF Diff!TypeOK

\* The worktree starts as the commit.
LEMMA DiffInitHolds ==
  ASSUME Diff!DiffAssumption, Diff!Init
  PROVE  DiffInvariant
<1>1. DOMAIN Diff!Nothing = {}
  BY DEF Diff!Nothing
<1>2. Diff!Nothing \in [DOMAIN Diff!Nothing -> [content : Content, tracked : BOOLEAN]]
  BY DEF Diff!Nothing
<1>3. Diff!Present(base) \subseteq DiffPath
  BY DEF Diff!Present
<1>4. start.files = base /\ base \in Diff!Files /\ files \in Diff!Files
  BY DEF Diff!Init
<1>5. steps \in 0..(hookBound + workBound)
  BY DEF Diff!Init, Diff!DiffAssumption
<1>6. baseline = Diff!Nothing /\ extras = Diff!Nothing /\ work = Diff!Nothing
  BY DEF Diff!Init
<1>7. /\ head \subseteq DiffPath /\ staged \subseteq DiffPath
      /\ ignored \subseteq DiffPath
      /\ unmerged \in BOOLEAN /\ diffStage \in {"hooks", "work", "captured", "thrown"}
  BY <1>3 DEF Diff!Init
<1>8. Diff!TypeOK
  BY <1>1, <1>2, <1>4, <1>5, <1>6, <1>7 DEF Diff!TypeOK
<1>9. QED
  BY <1>8 DEF Diff!Init, DiffInvariant, Recorded, Began

\* Every step keeps the invariant.
LEMMA DiffNextKeeps ==
  ASSUME Diff!DiffAssumption, DiffInvariant, [Diff!Next]_Diff!vars
  PROVE  DiffInvariant'
<1>1. CASE UNCHANGED Diff!vars
  BY <1>1
    DEF Diff!vars, Diff!repository, DiffInvariant, Recorded, Diff!TypeOK, Began,
      Visible, Diff!Files, Diff!IsTree, Diff!Present, Diff!Diff, Diff!ChangedExtras,
      Diff!RawPaths, Diff!Entries, Diff!Untracked, Diff!Tracked
<1>2. CASE Diff!Baseline
  BY <1>2, BaselineKeeps
<1>3. CASE Diff!Capture
  BY <1>3, CaptureKeeps
<1>4. CASE \E p \in DiffPath : \E content \in Content \cup {Diff!Absent} :
             Diff!Write(p, content)
  BY <1>4, WriteKeeps
<1>5. CASE \/ \E p \in DiffPath : Diff!Add(p) \/ Diff!Unstage(p) \/ Diff!Ignore(p)
           \/ Diff!Commit \/ Diff!Conflict
  BY <1>5, GitKeeps
<1>6. CASE Diff!Over
  BY <1>1, <1>6 DEF Diff!Over
<1>7. QED
  BY <1>1, <1>2, <1>3, <1>4, <1>5, <1>6 DEF Diff!Next

\* From what was recorded and what is read: an extra that the agent left alone is on
\* both sides and falls out, one that it changed is on the right side only, and a file
\* of the commit is compared with what the agent started from.
LEMMA PatchSound ==
  ASSUME Diff!DiffAssumption, DiffInvariant
  PROVE  Diff!PatchIsWork
<1>1. Diff!TypeOK
  BY DEF DiffInvariant, Recorded
<1> SUFFICES ASSUME diffStage = "captured"
             PROVE  Diff!Applies /\ Diff!NothingLost /\ Diff!NothingForeign
  BY <1>1 DEF Diff!PatchIsWork, Diff!Applies, Diff!NothingLost, Diff!NothingForeign
<1> DEFINE Base == DOMAIN baseline \ Diff!ChangedExtras
           from(p) == IF p \in Base THEN baseline[p] ELSE Diff!Absent
           to(p) == IF p \in Diff!RawPaths THEN files[p] ELSE Diff!Absent
<1>2. Began /\ work = Diff!Diff
  BY DEF DiffInvariant, Recorded
<1>3. DOMAIN work = {p \in Base \cup Diff!RawPaths : from(p) # to(p)}
  BY <1>2 DEF Diff!Diff
<1>4. \A p \in DOMAIN work : work[p].from = from(p) /\ work[p].to = to(p)
  BY <1>2 DEF Diff!Diff
<1>5. Diff!RawPaths = {p \in DiffPath : files[p] # Diff!Absent /\ p \in Diff!Shown}
  BY <1>1, RawIsShown
<1>6. /\ DOMAIN baseline = {p \in DiffPath : Visible(p)}
      /\ \A p \in DOMAIN baseline : baseline[p] = start.files[p]
      /\ DOMAIN extras = DOMAIN baseline \ Diff!Present(base)
      /\ \A p \in DOMAIN extras : /\ extras[p].content = start.files[p]
                                  /\ extras[p].tracked = (p \in start.tracked)
      /\ Diff!Present(base) \subseteq start.shown
  BY <1>2 DEF Began
<1>7. \A p \in DiffPath : p \in Diff!ChangedExtras <=>
        /\ p \in DOMAIN extras
        /\ \/ p \notin Diff!RawPaths
           \/ files[p] # start.files[p]
           \/ p \notin start.tracked /\ p \in Diff!Tracked
  BY <1>6 DEF Diff!ChangedExtras
<1>8. /\ Base \subseteq DiffPath /\ Diff!RawPaths \subseteq DiffPath
      /\ Diff!ChangedExtras \subseteq DOMAIN extras
  BY <1>5, <1>6 DEF Diff!ChangedExtras
<1>9. Diff!Present(base) = {p \in DiffPath : base[p] # Diff!Absent}
  BY DEF Diff!Present
<1>10. Diff!Present(base) \subseteq Diff!Shown
  BY CommitIsShown
<1>11. \A p \in DiffPath :
         p \in DOMAIN baseline <=> start.files[p] # Diff!Absent /\ p \in start.shown
  BY <1>6 DEF Visible
<1>12. \A p \in DiffPath : p \in Base /\ p \notin Diff!Present(base) => from(p) = to(p)
  BY <1>6, <1>7
<1>13. \A p \in DiffPath :
         p \in Diff!Present(base) => (p \in Base <=> start.files[p] # Diff!Absent)
  BY <1>6, <1>8, <1>11
<1>14. ASSUME \A p \in DiffPath : Diff!Commits(p) => start.files[p] = base[p],
              NEW p \in DOMAIN work
       PROVE  work[p].from = base[p]
  <2>1. p \in DiffPath /\ from(p) # to(p) /\ work[p].from = from(p)
    BY <1>3, <1>4, <1>8
  <2>2. CASE p \in Diff!Present(base)
    <3>1. start.files[p] = base[p] /\ base[p] # Diff!Absent
      BY <1>9, <1>14, <2>2 DEF Diff!Commits
    <3>2. p \in Base
      BY <1>13, <2>1, <2>2, <3>1
    <3>3. QED
      BY <1>6, <2>1, <3>1, <3>2
  <2>3. CASE p \notin Diff!Present(base)
    <3>1. p \notin Base
      BY <1>12, <2>1, <2>3
    <3>2. QED
      BY <1>9, <2>1, <2>3, <3>1
  <2>4. QED
    BY <2>2, <2>3
<1>15. ASSUME NEW p \in DiffPath, p \in Diff!Shown, files[p] # start.files[p],
              files[p] # Diff!Absent \/ Diff!Commits(p)
       PROVE  p \in DOMAIN work /\ work[p].to = files[p]
  <2>1. to(p) = files[p]
    BY <1>5, <1>15
  <2>2. p \in Base => from(p) = start.files[p]
    BY <1>6
  <2>3. CASE files[p] # Diff!Absent
    <3>1. p \in Diff!RawPaths
      BY <1>5, <1>15, <2>3
    <3>2. from(p) # to(p)
      BY <1>15, <2>1, <2>2, <2>3
    <3>3. QED
      BY <1>3, <1>4, <2>1, <3>1, <3>2
  <2>4. CASE files[p] = Diff!Absent
    <3>1. p \in Base
      BY <1>13, <1>15, <2>4 DEF Diff!Commits
    <3>2. from(p) # to(p)
      BY <1>15, <2>1, <2>2, <3>1
    <3>3. QED
      BY <1>3, <1>4, <2>1, <3>1, <3>2
  <2>5. QED
    BY <2>3, <2>4
<1>16. ASSUME NEW p \in DOMAIN work PROVE Diff!Worked(p)
  <2>1. p \in DiffPath /\ from(p) # to(p)
    BY <1>3, <1>8
  <2> SUFFICES ASSUME files[p] = start.files[p],
                      p \in Diff!Tracked => p \in start.tracked,
                      p \in Diff!Shown => p \in start.shown
               PROVE  FALSE
    BY DEF Diff!Worked
  <2>2. p \in Base => from(p) = start.files[p]
    BY <1>6
  <2>3. files[p] # Diff!Absent
    BY <1>5, <1>11, <2>1, <2>2
  <2>4. CASE p \in Diff!Shown
    <3>1. p \in Diff!RawPaths /\ p \in DOMAIN baseline
      BY <1>5, <1>11, <2>1, <2>3, <2>4
    <3>2. p \in Base
      BY <1>7, <2>1, <3>1
    <3>3. QED
      BY <2>1, <2>2, <3>1, <3>2
  <2>5. CASE p \notin Diff!Shown
    <3>1. p \notin Diff!RawPaths /\ p \notin Diff!Present(base)
      BY <1>5, <1>10, <2>5
    <3>2. p \notin Base
      BY <1>6, <1>7, <2>1, <3>1
    <3>3. QED
      BY <2>1, <3>1, <3>2
  <2>6. QED
    BY <2>4, <2>5
<1>17. Diff!Applies
  BY <1>14 DEF Diff!Applies
<1>18. Diff!NothingLost
  BY <1>15 DEF Diff!NothingLost
<1>19. Diff!NothingForeign
  BY <1>16 DEF Diff!NothingForeign
<1>20. QED
  BY <1>17, <1>18, <1>19

\* The invariant holds for all paths, contents and numbers of steps.
THEOREM DiffCorrect ==
  ASSUME Diff!DiffAssumption
  PROVE  Diff!Spec => []DiffInvariant
<1>1. Diff!Init => DiffInvariant
  BY DiffInitHolds
<1>2. DiffInvariant /\ [Diff!Next]_Diff!vars => DiffInvariant'
  BY DiffNextKeeps
<1>3. QED
  BY <1>1, <1>2, PTL DEF Diff!Spec

\* The captured patch applies to the commit unless the hooks changed the commit's own
\* files, has all that the agent did to a visible file, and nothing that it did not
\* touch, however it used git.
THEOREM PatchCorrect ==
  ASSUME Diff!DiffAssumption
  PROVE  Diff!Spec => []PatchIsWork
<1>1. DiffInvariant => PatchIsWork
  BY PatchSound DEF PatchIsWork
<1>2. QED
  BY <1>1, DiffCorrect, PTL
=============================================================================
