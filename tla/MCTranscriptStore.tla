-------------------------- MODULE MCTranscriptStore --------------------------
(* Model-checking instances of TranscriptStore: a few bytes.                  *)
EXTENDS TranscriptStore, TLC

CONSTANTS a, b

Two == {a, b}
Symmetry == Permutations(Two)

\* Bytes(), counted in steps.
SumOf(lines) ==
  LET sum[n \in 0..Len(lines)] == IF n = 0 THEN 0 ELSE sum[n - 1] + lines[n].size
  IN  sum[Len(lines)]

\* What later steps and the properties tell apart.  No step looks into a final file, or
\* asks in which order an agent's lines came, or what a closed writer had counted; of
\* failures in earlier sessions only the number matters, and whether a reset was among
\* them; and when no more may come, of the parts that a closed writer left only the bytes.
FilesView(c) ==
  LET f == files[c]
      part(lines) ==
        IF writer[c].open \/ Len(faults) < faultBound THEN lines ELSE <<SumOf(lines)>>
  IN  <<part(f.head), part(f.tail), f.made, SumOf(f.final), MarkedBytes(f.final), InOrder(f.final)>>

WriterView(c) ==
  IF writer[c].open THEN <<writer[c], Elements(emitted[c])>>
  ELSE <<emitted[c] = <<>>,
         SumOf(files[c].final) + writer[c].omitted
           = SumOf(emitted[c]) + MarkedBytes(files[c].final)>>

StoreView ==
  <<[c \in Call |-> FilesView(c)], [c \in Call |-> WriterView(c)],
    used, tasks, running, previous, listed, alive, generation,
    Len(faults), Failed, "reset" \in FailedEver>>
=============================================================================
