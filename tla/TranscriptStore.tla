--------------------------- MODULE TranscriptStore ---------------------------
(***************************************************************************)
(* The transcripts of a run's agents in src/workflow/run-details.ts.  Each *)
(* is written as a head and a tail, of which old lines are dropped, and    *)
(* put together when its task ends; all share a budget of bytes that is    *)
(* counted in memory.  Files outlive the process: a run that is resumed    *)
(* keeps the transcripts of the calls that it replays, and writes those of *)
(* the others again.                                                       *)
(***************************************************************************)
EXTENDS Naturals, Sequences, FiniteSets

CONSTANTS
  Call,            \* call paths, by which transcripts are named
  LineBytes,       \* the longest line: a chunk of TRANSCRIPT_TEXT_CHUNK_CHARS, escaped
  HeadBytes,       \* TRANSCRIPT_HEAD_BYTES
  TailBytes,       \* TRANSCRIPT_TAIL_BYTES
  MarkerBytes,     \* the line that stands for what is omitted
  RunBytes,        \* MAX_RUN_TRANSCRIPT_PAYLOAD_BYTES
  Faults,          \* how operations may fail
  faultBound,      \* bound: how many do
  lineBound,       \* bound: the lines of a task
  generationBound  \* bound: the sessions that run or resume the run

ASSUME TranscriptAssumption ==
  /\ IsFiniteSet(Call)
  /\ LineBytes \in Nat /\ MarkerBytes \in Nat \ {0}
  /\ HeadBytes \in Nat /\ TailBytes \in Nat /\ RunBytes \in Nat
  /\ Faults \subseteq {"count", "reset", "append", "torn", "compact", "compacted",
                     "read", "write", "written", "removeTail"}
  /\ faultBound \in Nat /\ lineBound \in Nat \ {0} /\ generationBound \in Nat

VARIABLES
  files,      \* the files of a call: head, tail, final, and whether the last is there
  writer,     \* its writer: open, what it has counted, and omittedBytes
  used,       \* usedBytes of the budget
  tasks,      \* the tasks of this generation
  running,    \* those that have not ended
  previous,   \* previousGenerationTasks
  listed,     \* the tasks in the manifest on disk
  alive,      \* there is a session
  generation, \* sessions so far
  emitted,    \* history: the lines of a call in this session, in order
  faults      \* history: what has failed, and in which session

disk == <<files, listed>>
memory == <<writer, used, tasks, running, previous>>
vars == <<disk, memory, alive, generation, emitted, faults>>

Size == 1..LineBytes

\* MAX_TASK_TRANSCRIPT_BYTES, which TRANSCRIPT_TAIL_BYTES is computed from.
MaxBytes == HeadBytes + MarkerBytes + TailBytes

\* A line of the transcript; a cut one, without its end, to which whatever is written
\* next adheres, so that no reader understands either; and the marker.
Line == [event : Nat \ {0}, version : {1, 2}, size : Size]
Cut == [event : {0}, version : {2}, size : Size]
Marker == [event |-> 0, version |-> 1, size |-> MarkerBytes]
Piece == Line \cup Cut

\* The sum of what f has, counted: a fold of naturals that proofs can reason about.
Total(f) == Cardinality(UNION {{x} \X (1..f[x]) : x \in DOMAIN f})

Bytes(lines) == Total([i \in DOMAIN lines |-> lines[i].size])
CallBytes(f) == Bytes(f.head) + Bytes(f.tail) + Bytes(f.final)
DiskBytes == Total([c \in Call |-> CallBytes(files[c])])

Elements(seq) == {seq[i] : i \in DOMAIN seq}

FilesOfCall ==
  [head : Seq(Piece), tail : Seq(Piece), final : Seq(Piece \cup {Marker}), made : BOOLEAN]
Failure == [what : Faults, session : 1..generationBound]
WriterOfCall == [open : BOOLEAN, head : 0..HeadBytes, tail : Nat, omitted : Nat]

TypeOK ==
  /\ files \in [Call -> FilesOfCall] /\ writer \in [Call -> WriterOfCall]
  /\ \A c \in Call : ~ files[c].made => files[c].final = <<>>
  /\ used \in Nat
  /\ tasks \subseteq Call /\ running \subseteq tasks
  /\ previous \subseteq Call /\ listed \subseteq Call
  /\ alive \in BOOLEAN /\ generation \in 0..generationBound
  /\ emitted \in [Call -> Seq(Line)] /\ \A c \in Call : Len(emitted[c]) <= lineBound
  /\ faults \in Seq(Failure) /\ Len(faults) <= faultBound

NoFiles == [head |-> <<>>, tail |-> <<>>, final |-> <<>>, made |-> FALSE]
Closed == [open |-> FALSE, head |-> 0, tail |-> 0, omitted |-> 0]

Init ==
  /\ files = [c \in Call |-> NoFiles]
  /\ writer = [c \in Call |-> Closed]
  /\ used = 0
  /\ tasks = {} /\ running = {} /\ previous = {} /\ listed = {}
  /\ alive = FALSE /\ generation = 0
  /\ emitted = [c \in Call |-> <<>>] /\ faults = <<>>

\* How append() may fail, and finalize().
AppendFaults == {"append", "torn", "compact", "compacted"} \cap Faults
FinalizeFaults == {"read", "write", "written", "removeTail"} \cap Faults

\* An operation of a session fails, or none does.
Fault(fault, session) ==
  \/ fault = "none" /\ UNCHANGED faults
  \/ /\ fault \in Faults /\ Len(faults) < faultBound
     /\ faults' = Append(faults, [what |-> fault, session |-> session])

Less(n, m) == IF n > m THEN n - m ELSE 0

----------------------------------------------------------------------------
(***************************************************************************)
(* BoundedTaskTranscriptWriter, on a state of files, writer and budget     *)
(***************************************************************************)
State(c) == [files |-> files[c], writer |-> writer[c], used |-> used]

Becomes(c, s) ==
  /\ files' = [files EXCEPT ![c] = s.files]
  /\ writer' = [writer EXCEPT ![c] = s.writer]
  /\ used' = s.used

\* reset(): the removals are best effort, and the budget gets the bytes back of the
\* files that stay, too.
Reset(s, stay) ==
  [files |-> [head |-> IF "head" \in stay THEN s.files.head ELSE <<>>,
              tail |-> IF "tail" \in stay THEN s.files.tail ELSE <<>>,
              final |-> IF "final" \in stay THEN s.files.final ELSE <<>>,
              made |-> "final" \in stay /\ s.files.made],
   writer |-> [Closed EXCEPT !.open = TRUE],
   used |-> Less(s.used, CallBytes(s.files))]

\* readText(): a file that is too long reads as an empty one.
Read(lines) == IF Bytes(lines) <= MaxBytes THEN lines ELSE <<>>

\* The longest suffix that fits into the tail; it does not begin where a cut line, to
\* which the next adheres, is before it.
Kept(lines) ==
  LET suffix(n) == SubSeq(lines, n, Len(lines))
      fits == {n \in 1..(Len(lines) + 1) :
                 /\ Bytes(suffix(n)) <= TailBytes
                 /\ n - 1 \in 1..(Len(lines) - 1) => lines[n - 1] \notin Cut}
  IN  suffix(CHOOSE n \in fits : \A m \in fits : n <= m)

\* Mutant: the budget is not told of dropped lines.
CompactTailKeeping(s, fault) ==
  IF s.writer.tail <= TailBytes \/ Read(s.files.tail) = <<>> \/ fault = "compact" THEN s
  ELSE LET kept == Kept(s.files.tail)
           removed == Less(s.writer.tail, Bytes(kept))
       IN  IF fault = "compacted" THEN [s EXCEPT !.files.tail = kept]
           ELSE
           [s EXCEPT !.files.tail = kept,
                     !.writer.tail = Bytes(kept), !.writer.omitted = @ + removed]

\* compactTail(): readText() may fail, and writeArtifactFile() before it replaces the file; or
\* behind the rename, when the directory is not synced, and then nobody is told of dropped
\* lines.
CompactTail(s, fault) ==
  IF s.writer.tail <= TailBytes \/ Read(s.files.tail) = <<>> \/ fault = "compact" THEN s
  ELSE LET kept == Kept(s.files.tail)
           removed == Less(s.writer.tail, Bytes(kept))
       IN  IF fault = "compacted" THEN [s EXCEPT !.files.tail = kept]
           ELSE
           [files |-> [s.files EXCEPT !.tail = kept],
            writer |-> [s.writer EXCEPT !.tail = Bytes(kept), !.omitted = @ + removed],
            used |-> Less(s.used, removed)]

\* What an append writes of a line: all, unless it fails before; it may fail behind that,
\* when the file cannot be closed.
Parts(line, fault) ==
  {line} \cup IF fault = "torn" THEN [event : {0}, version : {2}, size : 1..(line.size - 1)]
              ELSE {}

\* append(): to the head while it fits, else to the tail.  One that fails counts the line
\* as omitted, whatever is left of it.
AppendLine(s, line, part, fault) ==
  LET toHead == s.writer.head + line.size <= HeadBytes
      omits == [s.writer EXCEPT !.omitted = @ + line.size]
  IN  IF s.used + line.size > RunBytes \/ fault = "append"
      THEN [s EXCEPT !.writer = omits]
      ELSE IF fault = "torn"
      THEN [files |-> IF toHead THEN [s.files EXCEPT !.head = Append(@, part)]
                      ELSE [s.files EXCEPT !.tail = Append(@, part)],
            writer |-> omits, used |-> s.used]
      ELSE IF toHead
      THEN [files |-> [s.files EXCEPT !.head = Append(@, line)],
            writer |-> [s.writer EXCEPT !.head = @ + line.size],
            used |-> s.used + line.size]
      ELSE CompactTail([files |-> [s.files EXCEPT !.tail = Append(@, line)],
                        writer |-> [s.writer EXCEPT !.tail = @ + line.size],
                        used |-> s.used + line.size], fault)

\* Mutant: the tail comes first.
FinalizeBackwards(s, fault, unread) ==
  LET combined == [s.files EXCEPT !.final = s.files.tail \o s.files.head, !.made = TRUE]
  IN  IF fault \in Faults THEN s
      ELSE [files |-> [combined EXCEPT !.head = <<>>, !.tail = <<>>],
            writer |-> [s.writer EXCEPT !.open = FALSE, !.head = 0, !.tail = 0],
            used |-> s.used]

\* finalize(): a file that cannot be read is taken to be empty.  The marker is left out when
\* the budget has no room for it.  The new file is complete before the old ones go; from
\* its rename on, a failure leaves it beside them, and the budget without it.
Finalize(s, fault, unread) ==
  LET head == IF "head" \in unread THEN <<>> ELSE Read(s.files.head)
      tail == IF "tail" \in unread THEN <<>> ELSE Read(s.files.tail)
      marker == IF s.writer.omitted > 0 /\ s.used + MarkerBytes <= RunBytes
                THEN <<Marker>> ELSE <<>>
      combined == [s.files EXCEPT !.final = head \o marker \o tail, !.made = TRUE]
  IN  IF head = <<>> /\ tail = <<>> /\ s.files.made
      THEN [s EXCEPT !.writer.open = FALSE]
      ELSE IF fault = "write" THEN s
      ELSE IF fault = "written" THEN [s EXCEPT !.files = combined]
      ELSE IF fault = "removeTail" THEN [s EXCEPT !.files = [combined EXCEPT !.head = <<>>]]
      ELSE [files |-> [combined EXCEPT !.head = <<>>, !.tail = <<>>],
            writer |-> [s.writer EXCEPT !.open = FALSE, !.head = 0, !.tail = 0],
            used |-> s.used + Bytes(marker)]

----------------------------------------------------------------------------
(***************************************************************************)
(* WorkflowRunDetails                                                      *)
(***************************************************************************)
\* persist(): until a resumed run has its first task, those of the generation before
Persist(current, earlier) ==
  listed' = IF current = {} /\ earlier # {} THEN earlier ELSE current

\* acquireRunObserver(): the files are counted, those that can be; beginGeneration()
Begin ==
  /\ ~ alive /\ generation < generationBound
  /\ alive' = TRUE /\ generation' = generation + 1
  /\ \E fault \in {"count", "none"} :
       /\ Fault(fault, generation')
       /\ used' \in IF fault = "count" THEN 0..DiskBytes ELSE {DiskBytes}
  /\ tasks' = {} /\ running' = {} /\ previous' = listed
  /\ UNCHANGED <<disk, writer, emitted>>

First(size) == [event |-> 1, version |-> 1, size |-> size]

\* startTask(): a new transcript, that begins with the prompt
StartTask(c) ==
  /\ alive /\ c \notin tasks
  /\ \E size \in Size, fault \in AppendFaults \cup {"reset", "none"},
        stay \in SUBSET {"head", "tail", "final"} :
       /\ stay # {} <=> fault = "reset"
       /\ Fault(fault, generation)
       /\ \E part \in Parts(First(size), fault) :
            Becomes(c, AppendLine(Reset(State(c), stay), First(size), part, fault))
       /\ emitted' = [emitted EXCEPT ![c] = <<First(size)>>]
  /\ tasks' = tasks \cup {c} /\ running' = running \cup {c}
  /\ previous' = previous \ {c}
  /\ Persist(tasks', previous')
  /\ UNCHANGED <<alive, generation>>

\* Mutant: a replayed call gets a transcript of its own.
ReplayAnew(c) ==
  /\ alive /\ c \notin tasks /\ c \in previous
  /\ Becomes(c, Reset(State(c), {}))
  /\ tasks' = tasks \cup {c} /\ previous' = previous \ {c}
  /\ Persist(tasks', previous')
  /\ UNCHANGED <<running, alive, generation, emitted, faults>>

\* startTask() of a call that is replayed: its transcript is the one there is.
Replay(c) ==
  /\ alive /\ c \notin tasks /\ c \in previous
  /\ tasks' = tasks \cup {c} /\ previous' = previous \ {c}
  /\ Persist(tasks', previous')
  /\ UNCHANGED <<files, writer, used, running, alive, generation, emitted, faults>>

\* The lines that may come next: a new event, or the end of one that had begun,
\* which repeats it with more fields.
NextLines(c) ==
  LET lines == Elements(emitted[c])
      fresh == {e \in 1..lineBound :
                  (\A l \in lines : l.event < e) /\ \E l \in lines : l.event = e - 1}
      begun == {l \in lines : l.version = 1 /\ \A k \in lines : k.event = l.event => k = l}
  IN  [event : fresh, version : {1}, size : Size]
      \cup {l \in [event : {b.event : b \in begun}, version : {2}, size : Size] :
              \A b \in begun : b.event = l.event => b.size <= l.size}

\* record()
Record(c) ==
  /\ alive /\ c \in running /\ Len(emitted[c]) < lineBound
  /\ \E line \in NextLines(c), fault \in AppendFaults \cup {"none"} :
       /\ Fault(fault, generation)
       /\ \E part \in Parts(line, fault) : Becomes(c, AppendLine(State(c), line, part, fault))
       /\ emitted' = [emitted EXCEPT ![c] = Append(@, line)]
  /\ UNCHANGED <<listed, tasks, running, previous, alive, generation>>

\* finishTask(): an event that has not ended is written once more
FinishTask(c) ==
  /\ alive /\ c \in running
  /\ running' = running \ {c}
  /\ \E fault \in AppendFaults \cup FinalizeFaults \cup {"none"},
        unread \in SUBSET {"head", "tail"} :
       /\ unread # {} <=> fault = "read"
       /\ Fault(fault, generation)
       /\ \/ Becomes(c, Finalize(State(c), fault, unread)) /\ UNCHANGED emitted
          \/ /\ Len(emitted[c]) < lineBound
             /\ \E line \in {l \in NextLines(c) : l.version = 2} :
                  /\ \E part \in Parts(line, fault) :
                       Becomes(c, Finalize(AppendLine(State(c), line, part, fault),
                                           fault, unread))
                  /\ emitted' = [emitted EXCEPT ![c] = Append(@, line)]
  /\ Persist(tasks, previous)
  /\ UNCHANGED <<tasks, previous, alive, generation>>

\* close(): writers that are still open try once more
CloseTask(c) ==
  /\ alive /\ running = {} /\ writer[c].open /\ c \in tasks
  /\ \E fault \in FinalizeFaults \cup {"none"}, unread \in SUBSET {"head", "tail"} :
       /\ unread # {} <=> fault = "read"
       /\ Fault(fault, generation) /\ Becomes(c, Finalize(State(c), fault, unread))
  /\ UNCHANGED <<listed, tasks, running, previous, alive, generation, emitted>>

Over ==
  /\ alive' = FALSE
  /\ writer' = [c \in Call |-> Closed] /\ emitted' = [c \in Call |-> <<>>]
  /\ used' = 0 /\ tasks' = {} /\ running' = {} /\ previous' = {}

Close ==
  /\ alive /\ running = {}
  /\ Over
  /\ Persist(tasks, previous)
  /\ UNCHANGED <<files, generation, faults>>

\* The session is killed; maybe in the middle of a write or before the compaction that
\* follows it, or when a transcript is complete, and its parts not yet removed.
Crash ==
  /\ alive
  /\ Over
  /\ \/ UNCHANGED files
     \/ \E c \in running : \E line \in NextLines(c) : \E part \in Parts(line, "torn") :
          files' = [files EXCEPT ![c] = AppendLine(State(c), line, part, "torn").files]
     \/ \E c \in {d \in Call : writer[d].open}, at \in {"written", "removeTail"} :
          files' = [files EXCEPT ![c] = Finalize(State(c), at, {}).files]
  /\ UNCHANGED <<listed, generation, faults>>

Done == ~ alive /\ generation = generationBound /\ UNCHANGED vars

Next ==
  \/ Begin \/ Close \/ Crash
  \/ \E c \in Call : StartTask(c) \/ Replay(c) \/ Record(c) \/ FinishTask(c) \/ CloseTask(c)
  \/ Done

Spec == Init /\ [][Next]_vars

----------------------------------------------------------------------------
(***************************************************************************)
(* Properties                                                              *)
(***************************************************************************)
\* What has failed in this session, and before.
FailedEver == {failure.what : failure \in Elements(faults)}

FailedCompactions ==
  Cardinality({i \in DOMAIN faults : faults[i] = [what |-> "compact", session |-> generation]})

\* What has failed in this session; and when compactions did so often that a tail may have
\* become too long to be read, then reading, too.
Failed ==
  {fault \in Faults : [what |-> fault, session |-> generation] \in Elements(faults)}
    \cup IF (FailedCompactions + 1) * LineBytes <= HeadBytes + MarkerBytes
         THEN {} ELSE {"read"}

\* The budget is what is on disk, after crashes and resumes, and whatever lines were
\* dropped or refused.  What a session miscounts is a failure that it was not told of to
\* the byte: of a file that it could not look at, remove, or read any more; a line of which
\* a part was written; and a file that was replaced, but not for certain.  The next session
\* counts anew.
BudgetIsDisk ==
  /\ alive
  /\ Failed \cap {"count", "reset", "read", "torn", "compacted",
                   "written", "removeTail"} = {}
  => used = DiskBytes

\* The marker is not the agent's.
MarkedBytes(lines) == IF Marker \in Elements(lines) THEN MarkerBytes ELSE 0

\* A transcript tells how many bytes of it are missing: what it holds and what it
\* says it omits is all that the agent did.  A line of which a part was written counts as
\* omitted though the part is there; lines that were dropped by a compaction which then
\* failed count as there.
NothingUnaccounted ==
  Failed \cap {"reset", "read", "torn", "compacted", "removeTail"} = {} =>
    \A c \in tasks \ running :
      emitted[c] # <<>> /\ ~ writer[c].open =>
        Bytes(files[c].final) + writer[c].omitted
          = Bytes(emitted[c]) + MarkedBytes(files[c].final)

\* Lines of one event are in the order in which it went on.
InOrder(lines) ==
  \A i, j \in DOMAIN lines :
    i < j /\ lines[i].event = lines[j].event /\ lines[i].event # 0 =>
      lines[i].version < lines[j].version

\* A reader lets the later of two lines of an event win.  Although lines go to the
\* head or to the tail by size, the end of an event is never before its beginning; not
\* even when a line is there that counts as omitted.
NewestWins == "reset" \notin FailedEver => \A c \in Call : InOrder(files[c].final)

\* So a transcript that has been put together tells the truth.
TranscriptsSound == TypeOK /\ NothingUnaccounted /\ NewestWins

\* Neither a crash, nor a resume, nor other tasks change the transcript of a task
\* that has ended, until the call itself runs again; and a session that ends before
\* its first task leaves the manifest as it was.
EndedIsKept ==
  [][/\ \A c \in Call :
          files[c].made /\ c \notin running /\ ~ writer[c].open =>
            files'[c] = files[c] \/ c \in running'
     /\ listed \subseteq listed' \/ tasks' # {} \/ tasks # {}]_vars
=============================================================================
