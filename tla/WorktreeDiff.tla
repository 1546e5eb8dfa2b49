----------------------------- MODULE WorktreeDiff -----------------------------
(***************************************************************************)
(* The work of an isolated agent as a patch: the baseline that             *)
(* createWorktree() records after the hooks of the repository have run,    *)
(* and captureWorktreeDiff(), both of src/workflow/worktree.ts.            *)
(*                                                                         *)
(* What is compared are the files themselves, never git's filtered view of *)
(* them; git is asked only which files there are.  Ignored files are not   *)
(* delivered, nor what the hooks made and the agent left alone.            *)
(***************************************************************************)
EXTENDS Naturals, SequencesExt

CONSTANTS
  Path,      \* the paths that files may have
  Content,   \* what a file may contain: mode, target of a link and bytes
  hookBound, \* bound: what the hooks do
  workBound  \* bound: what the agent does

Absent == 0

\* What an instance of this module assumes of its constants.
DiffAssumption ==
  /\ Path \subseteq Seq(STRING) /\ Content \subseteq Nat \ {Absent}
  /\ hookBound \in Nat /\ workBound \in Nat

VARIABLES
  base,     \* the files of the commit that the agent starts from
  fs,       \* the files of the worktree
  head,     \* the paths of its HEAD
  index,    \* the paths of its index
  unmerged, \* the index holds a conflict
  ignored,  \* the paths that are ignored unless git tracks them
  pc,       \* "hooks", "work", "captured" or "thrown"
  baseline, \* rawBaseTree: the files the agent started from
  extras,   \* rawBaselineExtras: those that the hooks added, and which were tracked
  patch,    \* what is captured: a path to its contents before and after
  steps,    \* how much the hooks, and then the agent, have done
  start     \* history: files, what git showed and tracked, when the agent began

repository == <<fs, head, index, unmerged, ignored>>
vars == <<base, repository, pc, baseline, extras, patch, steps, start>>

\* A file has no file under it.
IsTree(files) ==
  \A p, q \in Path : files[p] # Absent /\ files[q] # Absent => ~ IsStrictPrefix(p, q)

Files == {t \in [Path -> Content \cup {Absent}] : IsTree(t)}
Present(files) == {p \in Path : files[p] # Absent}

TypeOK ==
  /\ base \in Files /\ fs \in Files /\ start.files \in Files
  /\ head \subseteq Path /\ index \subseteq Path /\ ignored \subseteq Path
  /\ unmerged \in BOOLEAN
  /\ pc \in {"hooks", "work", "captured", "thrown"}
  /\ DOMAIN baseline \subseteq Path
  /\ extras \in [DOMAIN extras -> [content : Content, tracked : BOOLEAN]]
  /\ DOMAIN extras \subseteq DOMAIN baseline \ Present(base)
  /\ \A p \in DOMAIN patch : patch[p].from # patch[p].to
  /\ steps \in 0..(hookBound + workBound)

Nothing == [p \in {} |-> Absent]

Init ==
  /\ base \in Files /\ ignored \in SUBSET Path
  /\ fs = base /\ start = [files |-> base, shown |-> {}, tracked |-> {}]
  /\ head = Present(base) /\ index = Present(base) /\ unmerged = FALSE
  /\ pc = "hooks" /\ steps = 0
  /\ baseline = Nothing /\ extras = Nothing /\ patch = Nothing

----------------------------------------------------------------------------
(***************************************************************************)
(* buildRawTree()                                                          *)
(***************************************************************************)
\* readFilesystemEntryNoFollow(): the file at a path, or the one that is in place
\* of a directory above it
Entries(p) == {q \in Present(fs) : IsPrefix(q, p)}

Tracked == head \cup index

\* listUntrackedFromBase(): the files that are neither in the commit nor ignored
Untracked == Present(fs) \ (Present(base) \cup ignored)

RawPaths == UNION {Entries(p) : p \in Present(base) \cup Untracked \cup Tracked}

\* What git shows of the files: the commit's, the tracked ones, what is in place of
\* their directories, and the others that are not ignored.
Shown == (Path \ ignored) \cup {p \in Path : \E q \in Present(base) \cup Tracked : IsPrefix(p, q)}

RawTree == [p \in RawPaths |-> fs[p]]

----------------------------------------------------------------------------
(***************************************************************************)
(* createWorktree(): the end                                               *)
(***************************************************************************)
Extras ==
  [p \in RawPaths \ Present(base) |-> [content |-> fs[p], tracked |-> p \in Tracked]]

\* Mutant: the baseline is the commit alone.
BaselineOfCommit ==
  /\ pc = "hooks"
  /\ IF unmerged \/ \E p \in Present(base) \cup Tracked : Entries(p) = {}
     THEN pc' = "thrown" /\ UNCHANGED <<baseline, extras>>
     ELSE /\ pc' = "work" /\ extras' = Nothing
          /\ baseline' = [p \in RawPaths \cap Present(base) |-> fs[p]]
  /\ start' = [files |-> fs, shown |-> Shown, tracked |-> Tracked] /\ steps' = 0
  /\ UNCHANGED <<base, repository, patch>>

\* A tracked path without a file is refused.
Baseline ==
  /\ pc = "hooks"
  /\ IF unmerged \/ \E p \in Present(base) \cup Tracked : Entries(p) = {}
     THEN pc' = "thrown" /\ UNCHANGED <<baseline, extras>>
     ELSE pc' = "work" /\ baseline' = RawTree /\ extras' = Extras
  /\ start' = [files |-> fs, shown |-> Shown, tracked |-> Tracked] /\ steps' = 0
  /\ UNCHANGED <<base, repository, patch>>

----------------------------------------------------------------------------
(***************************************************************************)
(* captureWorktreeDiff()                                                   *)
(***************************************************************************)
\* syntheticBasePathsToRemove: the extras that the agent changed, removed, or began
\* to track.  The user's tree has no such file.
ChangedExtras ==
  {p \in DOMAIN extras :
     \/ p \notin RawPaths
     \/ fs[p] # extras[p].content
     \/ ~ extras[p].tracked /\ p \in Tracked}

\* filterRawTree(), git diff
Diff ==
  LET Base == DOMAIN baseline \ ChangedExtras
      from(p) == IF p \in Base THEN baseline[p] ELSE Absent
      to(p) == IF p \in RawPaths THEN fs[p] ELSE Absent
  IN  [p \in {q \in Base \cup RawPaths : from(q) # to(q)} |-> [from |-> from(p), to |-> to(p)]]

Capture ==
  /\ pc = "work"
  /\ IF unmerged THEN pc' = "thrown" /\ UNCHANGED patch
                 ELSE pc' = "captured" /\ patch' = Diff
  /\ UNCHANGED <<base, repository, baseline, extras, steps, start>>

----------------------------------------------------------------------------
(***************************************************************************)
(* What hooks and agents do: with files, and with git.                     *)
(***************************************************************************)
Act ==
  /\ pc \in {"hooks", "work"}
  /\ steps < (IF pc = "hooks" THEN hookBound ELSE workBound)
  /\ steps' = steps + 1
  /\ UNCHANGED <<base, pc, baseline, extras, patch, start>>

Related(p, q) == IsPrefix(p, q) \/ IsPrefix(q, p)

\* A file is written where nothing was, or in place of what was there.
Write(p, content) ==
  /\ Act /\ fs[p] # content
  /\ fs' = [q \in Path |-> IF q = p THEN content
                           ELSE IF content # Absent /\ Related(p, q) THEN Absent ELSE fs[q]]
  /\ UNCHANGED <<head, index, unmerged, ignored>>

\* git add --force; it resolves a conflict.
Add(p) ==
  /\ Act /\ fs[p] # Absent
  /\ index' = {q \in index : ~ Related(p, q)} \cup {p}
  /\ unmerged' = FALSE
  /\ UNCHANGED <<fs, head, ignored>>

\* git rm --cached
Unstage(p) ==
  /\ Act /\ p \in index
  /\ index' = index \ {p}
  /\ UNCHANGED <<fs, head, unmerged, ignored>>

Commit ==
  /\ Act /\ ~ unmerged
  /\ head' = index
  /\ UNCHANGED <<fs, index, unmerged, ignored>>

\* A merge stops with a conflict.
Conflict ==
  /\ Act /\ ~ unmerged
  /\ unmerged' = TRUE
  /\ UNCHANGED <<fs, head, index, ignored>>

Ignore(p) ==
  /\ Act
  /\ ignored' = IF p \in ignored THEN ignored \ {p} ELSE ignored \cup {p}
  /\ UNCHANGED <<fs, head, index, unmerged>>

Over == pc \in {"captured", "thrown"} /\ UNCHANGED vars

Next ==
  \/ Baseline \/ Capture
  \/ \E p \in Path : \E content \in Content \cup {Absent} : Write(p, content)
  \/ \E p \in Path : Add(p) \/ Unstage(p) \/ Ignore(p)
  \/ Commit \/ Conflict
  \/ Over

Spec == Init /\ [][Next]_vars

----------------------------------------------------------------------------
(***************************************************************************)
(* Properties                                                              *)
(***************************************************************************)
Commits(p) == p \in Present(base)

\* The agent changed the file, began to track it, or brought it into sight.
Worked(p) ==
  \/ fs[p] # start.files[p]
  \/ p \in Tracked \ start.tracked
  \/ p \in Shown \ start.shown

\* Unless the hooks changed the commit's own files, the patch applies to a clean
\* tree of that commit.
Applies ==
  pc = "captured" /\ (\A p \in Path : Commits(p) => start.files[p] = base[p]) =>
    \A p \in DOMAIN patch : patch[p].from = base[p]

\* What the agent has done to a visible file is in the patch, exactly, however it
\* used git meanwhile: also what it committed, and what it deleted.
NothingLost ==
  pc = "captured" =>
    \A p \in Path :
      p \in Shown /\ fs[p] # start.files[p] /\ (fs[p] # Absent \/ Commits(p)) =>
        p \in DOMAIN patch /\ patch[p].to = fs[p]

\* A path is in the patch only if the agent worked on it: what hooks and setup
\* scripts left in the worktree is not delivered as the agent's work.
NothingForeign == pc = "captured" => \A p \in DOMAIN patch : Worked(p)

\* The patch is the agent's work: all of it, nothing else, and it applies.
PatchIsWork == TypeOK /\ Applies /\ NothingLost /\ NothingForeign
=============================================================================
