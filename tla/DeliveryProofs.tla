--------------------------- MODULE DeliveryProofs ---------------------------
(***************************************************************************)
(* Proofs about the delivery protocol, for any set of calls, files, limits *)
(* and bounds.  DeliveryInvariant is inductive: its parts are preserved    *)
(* one after the other, each from itself and from those before it.         *)
(***************************************************************************)
EXTENDS Delivery, FiniteSetTheorems, TLAPS

(***************************************************************************)
(* Every variable keeps its type, and the admissions are counted.          *)
(***************************************************************************)
LEMMA TypeInit == Init => TypeOK /\ Counted
<1> SUFFICES ASSUME Init PROVE TypeOK /\ Counted
  OBVIOUS
<1> USE DEF Init, Untouched, Content
<1>1. ledger \in Ledger /\ Counted
  BY DEF Ledger, Counted
<1>2. cap \in maxAgents..capBound /\ consumed \in 0..cap
  BY DeliveryAssumption
<1>3. /\ tree \in [File -> Content] /\ head \in [File -> Content]
      /\ base \in [Call -> [File -> Content]]
  OBVIOUS
<1>4. pc \in [Call -> {"idle"} \cup Active \cup Over]
  OBVIOUS
<1>5. generation \in 1..generationBound /\ userSteps \in 0..userBound
  BY DeliveryAssumption
<1> QED
  BY <1>1, <1>2, <1>3, <1>4, <1>5 DEF TypeOK

\* The records that the calls append are well-formed.
LEMMA RecordTypes ==
  ASSUME TypeOK, NEW c \in Call
  PROVE  /\ [ledger EXCEPT !.admits = @ + 1] \in Ledger
         /\ [ledger EXCEPT !.started = @ \cup {c}] \in Ledger
         /\ [ledger EXCEPT !.agent[c] = "plain"] \in Ledger
         /\ [ledger EXCEPT !.agent[c] = "delivered"] \in Ledger
<1>1. [ledger EXCEPT !.admits = @ + 1] \in Ledger
  <2>1. ledger \in Ledger /\ ledger.admits + 1 \in Nat
    BY DEF TypeOK, Ledger
  <2> QED
    BY <2>1 DEF Ledger
<1> QED
  BY <1>1 DEF TypeOK, Ledger

\* append(), successful or not, leaves the old records or the new ones.
LEMMA AppendTypes ==
  ASSUME TypeOK, NEW new \in Ledger, Written(new) \/ Unwritten(new)
  PROVE  /\ ledger' \in {ledger, new} /\ ledger' \in Ledger
         /\ file' \in {"whole", "partial", "corrupt"}
         /\ journal' \in {"open", "poisoned", "closed"}
BY DEF TypeOK, Written, Unwritten, journalVars

\* Every action of the calls, of the run and of the user preserves the types and
\* the count: no action records an admission for which it took no slot.
LEMMA TypeStep == TypeOK /\ Counted /\ [Next]_vars => TypeOK' /\ Counted'
<1> SUFFICES ASSUME TypeOK, Counted, [Next]_vars
             PROVE  TypeOK' /\ Counted'
  OBVIOUS
<1>1. ASSUME NEW c \in Call, Admit(c) PROVE TypeOK' /\ Counted'
  <2> DEFINE new == [ledger EXCEPT !.admits = @ + 1]
  <2>1. Written(new) \/ Unwritten(new) \/ UNCHANGED journalVars
    BY <1>1 DEF Admit
  <2>2. /\ ledger' \in {ledger, new} /\ ledger' \in Ledger
        /\ file' \in {"whole", "partial", "corrupt"}
        /\ journal' \in {"open", "poisoned", "closed"}
    BY <2>1, RecordTypes, AppendTypes DEF TypeOK, journalVars
  <2>3. /\ pc' \in [Call -> {"idle"} \cup Active \cup Over] /\ aborted' \in BOOLEAN
        /\ saved' \in [Call -> BOOLEAN] /\ kept' \in [Call -> BOOLEAN]
    BY <1>1 DEF Admit, TypeOK, Goto, CallFailure, PolicyFailure, Active, Over,
                 MayRemove, Recover, attemptVars
  <2>4. consumed' \in 0..cap' /\ Counted'
    <3>1. ledger.admits \in Nat /\ ledger'.admits \in {ledger.admits, ledger.admits + 1}
      BY <2>2 DEF TypeOK, Ledger
    <3> QED
      BY <1>1, <3>1 DEF Admit, Counted, TypeOK, runVars
  <2> QED
    BY <1>1, <2>2, <2>3, <2>4 DEF Admit, TypeOK, Counted, Ledger, treeVars, attemptVars, runVars
<1>2. ASSUME NEW c \in Call, Refuse(c) PROVE TypeOK' /\ Counted'
  BY <1>2 DEF Refuse, TypeOK, Counted, journalVars, treeVars,
           attemptVars, runVars, Goto, CallFailure, PolicyFailure, Active, Over
<1>3. ASSUME NEW c \in Call, Replay(c) PROVE TypeOK' /\ Counted'
  BY <1>3 DEF Replay, TypeOK, Counted, journalVars, treeVars,
           attemptVars, runVars, Goto, CallFailure, PolicyFailure, Active, Over
<1>4. ASSUME NEW c \in Call, VerifyReplay(c) PROVE TypeOK' /\ Counted'
  BY <1>4 DEF VerifyReplay, TypeOK, Counted, journalVars, treeVars,
           attemptVars, runVars, Goto, CallFailure, PolicyFailure, Active, Over
<1>5. ASSUME NEW c \in Call, StartAgent(c) PROVE TypeOK' /\ Counted'
  BY <1>5 DEF StartAgent, TypeOK, Counted, journalVars, treeVars,
           attemptVars, runVars, Goto, CallFailure, PolicyFailure, Active, Over
<1>6. ASSUME NEW c \in Call, FailToStart(c) PROVE TypeOK' /\ Counted'
  BY <1>6 DEF FailToStart, TypeOK, Counted, journalVars, treeVars,
           attemptVars, runVars, Goto, CallFailure, PolicyFailure, Active, Over
<1>7. ASSUME NEW c \in Call, AgentEdits(c) PROVE TypeOK' /\ Counted'
  BY <1>7 DEF AgentEdits, TypeOK, Counted, journalVars, treeVars,
           attemptVars, runVars, Goto, CallFailure, PolicyFailure, Active, Over
<1>8. ASSUME NEW c \in Call, AgentFails(c) PROVE TypeOK' /\ Counted'
  BY <1>8 DEF AgentFails, FailAndRecover, Recover, MayRemove, TypeOK, Counted, journalVars, treeVars,
           attemptVars, runVars, Goto, CallFailure, PolicyFailure, Active, Over
<1>9. ASSUME NEW c \in Call, FinishUnchanged(c) PROVE TypeOK' /\ Counted'
  <2> DEFINE new == [ledger EXCEPT !.agent[c] = "plain"]
  <2>1. Written(new) \/ Unwritten(new) \/ UNCHANGED journalVars
    BY <1>9 DEF FinishUnchanged
  <2>2. /\ ledger' \in {ledger, new} /\ ledger' \in Ledger
        /\ file' \in {"whole", "partial", "corrupt"}
        /\ journal' \in {"open", "poisoned", "closed"}
    BY <2>1, RecordTypes, AppendTypes DEF TypeOK, journalVars
  <2>3. /\ pc' \in [Call -> {"idle"} \cup Active \cup Over] /\ aborted' \in BOOLEAN
        /\ saved' \in [Call -> BOOLEAN] /\ kept' \in [Call -> BOOLEAN]
    BY <1>9 DEF FinishUnchanged, TypeOK, Goto, CallFailure, PolicyFailure, Active, Over,
                 MayRemove, Recover, attemptVars
  <2> QED
    BY <1>9, <2>2, <2>3 DEF FinishUnchanged, TypeOK, Counted, Ledger, treeVars, attemptVars, runVars
<1>10. ASSUME NEW c \in Call, PlanDelivery(c) PROVE TypeOK' /\ Counted'
  BY <1>10 DEF PlanDelivery, TypeOK, Counted, journalVars, treeVars,
           attemptVars, runVars, Goto, CallFailure, PolicyFailure, Active, Over
<1>11. ASSUME NEW c \in Call, StartDelivery(c) PROVE TypeOK' /\ Counted'
  <2> DEFINE new == [ledger EXCEPT !.started = @ \cup {c}]
  <2>1. Written(new) \/ Unwritten(new) \/ UNCHANGED journalVars
    BY <1>11 DEF StartDelivery
  <2>2. /\ ledger' \in {ledger, new} /\ ledger' \in Ledger
        /\ file' \in {"whole", "partial", "corrupt"}
        /\ journal' \in {"open", "poisoned", "closed"}
    BY <2>1, RecordTypes, AppendTypes DEF TypeOK, journalVars
  <2>3. /\ pc' \in [Call -> {"idle"} \cup Active \cup Over] /\ aborted' \in BOOLEAN
        /\ saved' \in [Call -> BOOLEAN] /\ kept' \in [Call -> BOOLEAN]
    BY <1>11 DEF StartDelivery, TypeOK, Goto, CallFailure, PolicyFailure, Active, Over,
                 MayRemove, Recover, attemptVars
  <2> QED
    BY <1>11, <2>2, <2>3 DEF StartDelivery, TypeOK, Counted, Ledger, treeVars, attemptVars, runVars
<1>12. ASSUME NEW c \in Call, CancelDelivery(c) PROVE TypeOK' /\ Counted'
  <2> DEFINE new == [ledger EXCEPT !.started = @ \cup {c}]
  <2>1. Written(new) \/ Unwritten(new) \/ UNCHANGED journalVars
    BY <1>12 DEF CancelDelivery
  <2>2. /\ ledger' \in {ledger, new} /\ ledger' \in Ledger
        /\ file' \in {"whole", "partial", "corrupt"}
        /\ journal' \in {"open", "poisoned", "closed"}
    BY <2>1, RecordTypes, AppendTypes DEF TypeOK, journalVars
  <2>3. /\ pc' \in [Call -> {"idle"} \cup Active \cup Over] /\ aborted' \in BOOLEAN
        /\ saved' \in [Call -> BOOLEAN] /\ kept' \in [Call -> BOOLEAN]
    BY <1>12 DEF CancelDelivery, TypeOK, Goto, CallFailure, PolicyFailure, Active, Over,
                 MayRemove, Recover, attemptVars
  <2> QED
    BY <1>12, <2>2, <2>3 DEF CancelDelivery, TypeOK, Counted, Ledger, treeVars, attemptVars, runVars
<1>13. ASSUME NEW c \in Call, Apply(c) PROVE TypeOK' /\ Counted'
  BY <1>13 DEF Apply, PatchApplied, Content, TypeOK, Counted, journalVars, treeVars,
           attemptVars, runVars, Goto, CallFailure, PolicyFailure, Active, Over
<1>14. ASSUME NEW c \in Call, Reject(c) PROVE TypeOK' /\ Counted'
  BY <1>14 DEF Reject, TypeOK, Counted, journalVars, treeVars,
           attemptVars, runVars, Goto, CallFailure, PolicyFailure, Active, Over, MayRemove
<1>15. ASSUME NEW c \in Call, ApplyThrows(c) PROVE TypeOK' /\ Counted'
  BY <1>15 DEF ApplyThrows, Torn, Content, TypeOK, Counted, journalVars, treeVars,
           attemptVars, runVars, Goto, CallFailure, PolicyFailure, Active, Over
<1>16. ASSUME NEW c \in Call, Commit(c) PROVE TypeOK' /\ Counted'
  <2> DEFINE new == [ledger EXCEPT !.agent[c] = "delivered"]
  <2>1. Written(new) \/ Unwritten(new) \/ UNCHANGED journalVars
    BY <1>16 DEF Commit
  <2>2. /\ ledger' \in {ledger, new} /\ ledger' \in Ledger
        /\ file' \in {"whole", "partial", "corrupt"}
        /\ journal' \in {"open", "poisoned", "closed"}
    BY <2>1, RecordTypes, AppendTypes DEF TypeOK, journalVars
  <2>3. /\ pc' \in [Call -> {"idle"} \cup Active \cup Over] /\ aborted' \in BOOLEAN
        /\ saved' \in [Call -> BOOLEAN] /\ kept' \in [Call -> BOOLEAN]
    BY <1>16 DEF Commit, TypeOK, Goto, CallFailure, PolicyFailure, Active, Over,
                 MayRemove, Recover, attemptVars
  <2> QED
    BY <1>16, <2>2, <2>3 DEF Commit, TypeOK, Counted, Ledger, treeVars, attemptVars, runVars
<1>17. ASSUME NEW c \in Call, CommitCheckThrows(c) PROVE TypeOK' /\ Counted'
  BY <1>17 DEF CommitCheckThrows, TypeOK, Counted, journalVars, treeVars,
           attemptVars, runVars, Goto, CallFailure, PolicyFailure, Active, Over
<1>18. ASSUME Abort PROVE TypeOK' /\ Counted'
  BY <1>18 DEF Abort, TypeOK, Counted, journalVars, treeVars,
           attemptVars, runVars, Goto, CallFailure, PolicyFailure, Active, Over
<1>19. ASSUME EndRun PROVE TypeOK' /\ Counted'
  BY <1>19 DEF EndRun, TypeOK, Counted, journalVars, treeVars,
           attemptVars, runVars, Goto, CallFailure, PolicyFailure, Active, Over
<1>20. ASSUME Crash PROVE TypeOK' /\ Counted'
  <2>1. tree' \in [File -> Content] /\ applies' \in [Call -> Nat]
    BY <1>20 DEF Crash, PatchApplied, TypeOK, Torn, Content
  <2> QED
    BY <1>20, <2>1 DEF Crash, TypeOK, Counted, journalVars, attemptVars
<1>21. ASSUME NEW newCap \in maxAgents..capBound, Resume(newCap)
       PROVE  TypeOK' /\ Counted'
  BY <1>21, DeliveryAssumption DEF Resume, Resumable, Admitted, TypeOK, Counted, Ledger,
                                   treeVars, attemptVars
<1>22. ASSUME NEW newCap \in maxAgents..capBound, RefuseResume(newCap)
       PROVE  TypeOK' /\ Counted'
  BY <1>22, DeliveryAssumption DEF RefuseResume, Resumable, TypeOK, Counted,
                                   treeVars, attemptVars
<1>23. ASSUME NEW f \in File, Edit(f) \/ Restore(f) PROVE TypeOK' /\ Counted'
  BY <1>23, DeliveryAssumption DEF Edit, Restore, UserStep, Content, TypeOK, Counted,
                                   journalVars, attemptVars, runVars
<1>24. ASSUME CommitTree PROVE TypeOK' /\ Counted'
  BY <1>24, DeliveryAssumption DEF CommitTree, UserStep, TypeOK, Counted,
                                   journalVars, attemptVars, runVars
<1>25. ASSUME UNCHANGED vars PROVE TypeOK' /\ Counted'
  BY <1>25 DEF vars, TypeOK, Counted, journalVars, treeVars, attemptVars, runVars
<1> QED
  BY <1>1, <1>2, <1>3, <1>4, <1>5, <1>6, <1>7, <1>8, <1>9, <1>10, <1>11, <1>12,
     <1>13, <1>14, <1>15, <1>16, <1>17, <1>18, <1>19, <1>20, <1>21, <1>22, <1>23,
     <1>24, <1>25 DEF Next, CallNext, Stopped
(***************************************************************************)
(* The place of a call agrees with what is recorded, applied and kept.     *)
(***************************************************************************)
LEMMA PhaseInit == Init => \A d \in Call : Phase(d)
BY DeliveryAssumption DEF Init, Phase, Active

\* Every step keeps each call where its record, its worktree and the lock say.
LEMMA PhaseStep ==
  TypeOK /\ (\A d \in Call : Phase(d)) /\ [Next]_vars => \A d \in Call : Phase(d)'
<1> SUFFICES ASSUME TypeOK, \A e \in Call : Phase(e), [Next]_vars, NEW d \in Call
             PROVE  Phase(d)'
  OBVIOUS
<1> Phase(d) /\ Nobody \notin Call
  BY DeliveryAssumption
<1>1. ASSUME NEW c \in Call, Admit(c) PROVE Phase(d)'
  <2>1. ledger'.agent = ledger.agent /\ ledger'.started = ledger.started
    BY <1>1 DEF Admit, Written, Unwritten, journalVars, TypeOK, Ledger
  <2> QED
    BY <1>1, <2>1 DEF Admit, Goto, Uninterrupted, PolicyFailure, CanStart, Pending, Phase, TypeOK,
       treeVars, attemptVars, Active
<1>2. ASSUME NEW c \in Call, Refuse(c) PROVE Phase(d)'
  BY <1>2 DEF Refuse, Goto, Uninterrupted, CallFailure, PolicyFailure, CanStart, Phase, TypeOK, Ledger,
     journalVars, treeVars, attemptVars, runVars, Active, Over
<1>3. ASSUME NEW c \in Call, Replay(c) PROVE Phase(d)'
  BY <1>3 DEF Replay, Goto, Uninterrupted, CanStart, Phase, TypeOK, Ledger,
     journalVars, treeVars, attemptVars, runVars, Active, Over
<1>4. ASSUME NEW c \in Call, VerifyReplay(c) PROVE Phase(d)'
  BY <1>4 DEF VerifyReplay, Goto, Uninterrupted, PolicyFailure, Phase, TypeOK, Ledger,
     journalVars, treeVars, attemptVars, runVars, Active, Over
<1>5. ASSUME NEW c \in Call, StartAgent(c) PROVE Phase(d)'
  BY <1>5 DEF StartAgent, Goto, Uninterrupted, Phase, TypeOK, Ledger,
     journalVars, treeVars, attemptVars, runVars, Active, Over
<1>6. ASSUME NEW c \in Call, FailToStart(c) PROVE Phase(d)'
  BY <1>6 DEF FailToStart, Goto, Uninterrupted, CallFailure, PolicyFailure, Phase, TypeOK, Ledger,
     journalVars, treeVars, attemptVars, runVars, Active, Over
<1>7. ASSUME NEW c \in Call, AgentEdits(c) PROVE Phase(d)'
  BY <1>7 DEF AgentEdits, Goto, Uninterrupted, Phase, TypeOK, Ledger,
     journalVars, treeVars, attemptVars, runVars, Active, Over
<1>8. ASSUME NEW c \in Call, AgentFails(c) PROVE Phase(d)'
  BY <1>8 DEF AgentFails, Goto, Uninterrupted, FailAndRecover, Recover, MayRemove, CallFailure, PolicyFailure, Phase, TypeOK, Ledger,
     journalVars, treeVars, attemptVars, runVars, Active, Over
<1>9. ASSUME NEW c \in Call, FinishUnchanged(c) PROVE Phase(d)'
  <2>1. ledger' = ledger \/ ledger' = [ledger EXCEPT !.agent[c] = "plain"]
    BY <1>9 DEF FinishUnchanged, Written, Unwritten, journalVars
  <2>2. /\ ledger'.started = ledger.started
        /\ ledger'.agent[d] = ledger.agent[d] \/ (d = c /\ ledger'.agent[d] = "plain")
    <3>1. CASE ledger' = ledger
      BY <3>1
    <3>2. CASE ledger' = [ledger EXCEPT !.agent[c] = "plain"]
      BY <3>2 DEF TypeOK, Ledger
    <3> QED
      BY <2>1, <3>1, <3>2
  <2>3. \/ Goto(c, "done") /\ ledger'.agent[c] = "plain" /\ MayRemove(c)
           /\ UNCHANGED <<aborted, saved>>
        \/ PolicyFailure(c) /\ Recover(c, TRUE)
    BY <1>9 DEF FinishUnchanged, Written, TypeOK, Ledger
  <2>4. CASE d # c
    BY <1>9, <2>2, <2>3, <2>4 DEF FinishUnchanged, Goto, Uninterrupted, Recover, MayRemove,
       PolicyFailure, Phase, TypeOK, treeVars, attemptVars, runVars, Active
  <2>5. CASE d = c
    BY <1>9, <2>2, <2>3, <2>5 DEF FinishUnchanged, Goto, Uninterrupted, Recover, MayRemove,
       PolicyFailure, Phase, TypeOK, treeVars, attemptVars, runVars, Active
  <2> QED
    BY <2>4, <2>5
<1>10. ASSUME NEW c \in Call, PlanDelivery(c) PROVE Phase(d)'
  BY <1>10 DEF PlanDelivery, Goto, Uninterrupted, Phase, TypeOK, Ledger,
     journalVars, treeVars, attemptVars, runVars, Active, Over
<1>11. ASSUME NEW c \in Call, StartDelivery(c) PROVE Phase(d)'
  BY <1>11 DEF StartDelivery, Goto, Uninterrupted, HasLock, Written, Pending, Phase, TypeOK, Ledger,
     journalVars, treeVars, attemptVars, runVars, Active, Over
<1>12. ASSUME NEW c \in Call, CancelDelivery(c) PROVE Phase(d)'
  BY <1>12 DEF CancelDelivery, Goto, Uninterrupted, HasLock, Unwritten, CallFailure, PolicyFailure, Phase, TypeOK, Ledger,
     journalVars, treeVars, attemptVars, runVars, Active, Over
<1>13. ASSUME NEW c \in Call, Apply(c) PROVE Phase(d)'
  BY <1>13 DEF Apply, Goto, Uninterrupted, PatchApplied, Phase, TypeOK, Ledger,
     journalVars, treeVars, attemptVars, runVars, Active, Over
<1>14. ASSUME NEW c \in Call, Reject(c) PROVE Phase(d)'
  BY <1>14 DEF Reject, Goto, Uninterrupted, CallFailure, MayRemove, Phase, TypeOK, Ledger,
     journalVars, treeVars, attemptVars, runVars, Active, Over
<1>15. ASSUME NEW c \in Call, ApplyThrows(c) PROVE Phase(d)'
  BY <1>15 DEF ApplyThrows, Goto, Uninterrupted, CallFailure, Phase, TypeOK, Ledger,
     journalVars, treeVars, attemptVars, runVars, Active, Over
<1>16. ASSUME NEW c \in Call, Commit(c) PROVE Phase(d)'
  BY <1>16 DEF Commit, Goto, Uninterrupted, Written, Unwritten, Recover, MayRemove, PolicyFailure, Phase, TypeOK, Ledger,
     journalVars, treeVars, attemptVars, runVars, Active, Over
<1>17. ASSUME NEW c \in Call, CommitCheckThrows(c) PROVE Phase(d)'
  BY <1>17 DEF CommitCheckThrows, Goto, Uninterrupted, CallFailure, Phase, TypeOK, Ledger,
     journalVars, treeVars, attemptVars, runVars, Active, Over
<1>18. ASSUME Abort \/ EndRun PROVE Phase(d)'
  BY <1>18 DEF Abort, EndRun, Uninterrupted, Phase, journalVars, treeVars, attemptVars, runVars
<1>19. ASSUME Crash PROVE Phase(d)'
  BY <1>19 DEF Crash, PatchApplied, Uninterrupted, Phase, TypeOK, journalVars, attemptVars, Active
<1>20. ASSUME NEW newCap \in maxAgents..capBound, Resume(newCap) \/ RefuseResume(newCap)
       PROVE  Phase(d)'
  BY <1>20 DEF Resume, RefuseResume, Phase, treeVars, attemptVars
<1>21. ASSUME NEW f \in File, Edit(f) \/ Restore(f) PROVE Phase(d)'
  BY <1>21 DEF Edit, Restore, UserStep, Phase, journalVars, attemptVars, runVars
<1>22. ASSUME CommitTree \/ UNCHANGED vars PROVE Phase(d)'
  BY <1>22 DEF CommitTree, UserStep, Phase, vars, journalVars, treeVars, attemptVars, runVars
<1> QED
  BY <1>1, <1>2, <1>3, <1>4, <1>5, <1>6, <1>7, <1>8, <1>9, <1>10, <1>11, <1>12, <1>13, <1>14, <1>15, <1>16, <1>17, <1>18, <1>19, <1>20, <1>21, <1>22
     DEF Next, CallNext, Stopped

(***************************************************************************)
(* No record ever follows a torn one.                                      *)
(***************************************************************************)
LEMMA DurableInit == Init => Durable
BY DEF Init, Durable

\* Every step keeps the journal readable: a write that fails closes it to others.
LEMMA DurableStep == TypeOK /\ Durable /\ [Next]_vars => Durable'
<1> SUFFICES ASSUME TypeOK, Durable, [Next]_vars PROVE Durable'
  OBVIOUS
<1> USE DEF Durable, journalVars
<1>1. ASSUME NEW new, Written(new) \/ Unwritten(new), up, up' = up
      PROVE  Durable'
  BY <1>1 DEF Written, Unwritten, TypeOK
<1>2. ASSUME NEW c \in Call, CallNext(c) PROVE Durable'
  <2>1. up' = up
    BY <1>2 DEF CallNext, Admit, Refuse, Replay, VerifyReplay, StartAgent, FailToStart,
       AgentEdits, AgentFails, FinishUnchanged, PlanDelivery, StartDelivery,
       CancelDelivery, Apply, Reject, ApplyThrows, Commit, CommitCheckThrows, runVars
  <2>2. CASE Admit(c) \/ FinishUnchanged(c) \/ StartDelivery(c) \/ CancelDelivery(c) \/ Commit(c)
    <3>1. UNCHANGED journalVars \/ \E new : Written(new) \/ Unwritten(new)
      BY <2>2, Zenon DEF Admit, FinishUnchanged, StartDelivery, CancelDelivery, Commit
    <3>2. up
      BY <2>2 DEF Admit, CanStart, FinishUnchanged, StartDelivery, CancelDelivery,
         HasLock, Commit
    <3> QED
      BY <1>1, <2>1, <3>1, <3>2
  <2>3. CASE ~(Admit(c) \/ FinishUnchanged(c) \/ StartDelivery(c) \/ CancelDelivery(c) \/ Commit(c))
    BY <1>2, <2>1, <2>3 DEF CallNext, Refuse, Replay, VerifyReplay, StartAgent, FailToStart,
       AgentEdits, AgentFails, PlanDelivery, Apply, Reject, ApplyThrows, CommitCheckThrows
  <2> QED
    BY <2>2, <2>3
<1>3. ASSUME Abort \/ EndRun \/ Crash PROVE Durable'
  BY <1>3 DEF Abort, EndRun, Crash, runVars
<1>4. ASSUME NEW newCap \in maxAgents..capBound, Resume(newCap) \/ RefuseResume(newCap)
      PROVE  Durable'
  BY <1>4 DEF Resume, RefuseResume
<1>5. ASSUME NEW f \in File, Edit(f) \/ Restore(f) PROVE Durable'
  BY <1>5 DEF Edit, Restore, UserStep, runVars
<1>6. ASSUME CommitTree \/ UNCHANGED vars PROVE Durable'
  BY <1>6 DEF CommitTree, UserStep, vars, runVars
<1> QED
  BY <1>2, <1>3, <1>4, <1>5, <1>6 DEF Next, Stopped

(***************************************************************************)
(* Every agent that runs was admitted in the journal.                      *)
(***************************************************************************)
LEMMA AdmittedInit == Init => RunsAreAdmitted
<1> SUFFICES ASSUME Init PROVE RunsAreAdmitted
  OBVIOUS
<1>1. {c \in Call : pc[c] = "admitted"} = {}
  BY DEF Init
<1> QED
  BY <1>1, FS_EmptySet DEF Init, RunsAreAdmitted

\* Every step keeps the agents run, or about to be, within the admissions.
LEMMA AdmittedStep ==
  TypeOK /\ RunsAreAdmitted /\ [Next]_vars => RunsAreAdmitted'
<1> SUFFICES ASSUME TypeOK, RunsAreAdmitted, [Next]_vars PROVE RunsAreAdmitted'
  OBVIOUS
<1> DEFINE S == {c \in Call : pc[c] = "admitted"}
           T == {c \in Call : pc'[c] = "admitted"}
<1>1. /\ IsFiniteSet(S) /\ Cardinality(S) \in Nat
      /\ runs \in Nat /\ ledger.admits \in Nat
      /\ runs + Cardinality(S) <= ledger.admits
  BY DeliveryAssumption, FS_Subset, FS_CardinalityType DEF TypeOK, Ledger, RunsAreAdmitted
<1>2. SUFFICES runs' + Cardinality(T) <= ledger'.admits
  BY DEF RunsAreAdmitted
<1>3. ASSUME T \subseteq S, runs' = runs, ledger'.admits = ledger.admits
      PROVE  runs' + Cardinality(T) <= ledger'.admits
  BY <1>1, <1>3, FS_Subset, FS_CardinalityType
<1>4. ASSUME NEW c \in Call, Admit(c) PROVE runs' + Cardinality(T) <= ledger'.admits
  <2>1. runs' = runs /\ pc[c] = "idle"
    BY <1>4 DEF Admit, CanStart, attemptVars
  <2>2. CASE pc' = [pc EXCEPT ![c] = "admitted"] /\ ledger'.admits = ledger.admits + 1
    <3>1. T = S \cup {c}
      BY <2>2 DEF TypeOK
    <3>2. Cardinality(S \cup {c}) = Cardinality(S) + 1
      <4>1. c \notin S
        BY <2>1
      <4> QED
        BY <1>1, <4>1, FS_AddElement
    <3> HIDE DEF S, T
    <3> QED
      BY <1>1, <2>1, <2>2, <3>1, <3>2
  <2>3. CASE /\ pc' = [pc EXCEPT ![c] = "fatal"]
             /\ ledger'.admits \in {ledger.admits, ledger.admits + 1}
    <3>1. T \subseteq S
      BY <2>3 DEF TypeOK
    <3> QED
      BY <1>1, <2>1, <2>3, <3>1, FS_Subset, FS_CardinalityType
  <2> QED
    BY <1>4, <2>2, <2>3 DEF Admit, Written, Unwritten, Goto, PolicyFailure, journalVars,
       TypeOK, Ledger
<1>5. ASSUME NEW c \in Call, StartAgent(c) PROVE runs' + Cardinality(T) <= ledger'.admits
  <2>1. /\ runs' = runs + 1 /\ ledger'.admits = ledger.admits
        /\ c \in S /\ T = S \ {c}
    BY <1>5 DEF StartAgent, Goto, journalVars, TypeOK
  <2>2. Cardinality(T) = Cardinality(S) - 1
    BY <1>1, <2>1, FS_RemoveElement
  <2> QED
    BY <1>1, <2>1, <2>2
<1>6. ASSUME NEW c \in Call, CallNext(c), ~ Admit(c), ~ StartAgent(c)
      PROVE  T \subseteq S /\ runs' = runs /\ ledger'.admits = ledger.admits
  <2> USE DEF Goto, journalVars, attemptVars, treeVars, TypeOK, Ledger,
              CallFailure, PolicyFailure, Written, Unwritten
  <2>1. CASE Refuse(c) \/ Replay(c) \/ VerifyReplay(c) \/ FailToStart(c)
    BY <2>1 DEF Refuse, Replay, VerifyReplay, FailToStart
  <2>2. CASE AgentEdits(c) \/ AgentFails(c) \/ PlanDelivery(c)
    BY <2>2 DEF AgentEdits, AgentFails, FailAndRecover, PlanDelivery
  <2>3. CASE FinishUnchanged(c)
    BY <2>3 DEF FinishUnchanged
  <2>4. CASE StartDelivery(c) \/ CancelDelivery(c)
    BY <2>4 DEF StartDelivery, CancelDelivery
  <2>5. CASE Apply(c) \/ Reject(c) \/ ApplyThrows(c)
    BY <2>5 DEF Apply, Reject, ApplyThrows
  <2>6. CASE Commit(c) \/ CommitCheckThrows(c)
    BY <2>6 DEF Commit, CommitCheckThrows
  <2> QED
    BY <1>6, <2>1, <2>2, <2>3, <2>4, <2>5, <2>6 DEF CallNext
<1>7. ASSUME Abort \/ EndRun \/ Crash
      PROVE  T \subseteq S /\ runs' = runs /\ ledger'.admits = ledger.admits
  BY <1>7 DEF Abort, EndRun, Crash, journalVars, attemptVars
<1>8. ASSUME NEW newCap \in maxAgents..capBound, Resume(newCap) \/ RefuseResume(newCap)
      PROVE  T \subseteq S /\ runs' = runs /\ ledger'.admits = ledger.admits
  BY <1>8 DEF Resume, RefuseResume, attemptVars
<1>9. ASSUME NEW f \in File, Edit(f) \/ Restore(f)
      PROVE  T \subseteq S /\ runs' = runs /\ ledger'.admits = ledger.admits
  BY <1>9 DEF Edit, Restore, UserStep, journalVars, attemptVars
<1>10. ASSUME CommitTree \/ UNCHANGED vars
       PROVE  T \subseteq S /\ runs' = runs /\ ledger'.admits = ledger.admits
  BY <1>10 DEF CommitTree, UserStep, vars, journalVars, attemptVars
<1> QED
  BY <1>3, <1>4, <1>5, <1>6, <1>7, <1>8, <1>9, <1>10 DEF Next, Stopped

(***************************************************************************)
(* What is in the tree was announced, and what is torn blocks every resume. *)
(***************************************************************************)
\* No step unblocks a call whose delivery was started and not finished, and the
\* journal forgets no announcement.
LEMMA StuckPersists ==
  ASSUME TypeOK, [Next]_vars, NEW d \in Call
  PROVE  /\ Stuck(d) => Stuck(d)'
         /\ d \in ledger.started => d \in ledger'.started
<1> DEFINE Kept == /\ Stuck(d) => Stuck(d)'
                   /\ d \in ledger.started => d \in ledger'.started
<1> USE DEF Stuck, Pending, Active, Over, TypeOK, Goto, journalVars
<1>1. ASSUME NEW c \in Call, Admit(c) PROVE Kept
  <2>1. ledger'.agent = ledger.agent /\ ledger'.started = ledger.started
    BY <1>1 DEF Admit, Written, Unwritten, Ledger
  <2> QED
    BY <1>1, <2>1 DEF Admit, PolicyFailure
<1>2. ASSUME NEW c \in Call, Refuse(c) \/ Replay(c) \/ VerifyReplay(c) PROVE Kept
  BY <1>2 DEF Refuse, Replay, VerifyReplay, CallFailure, PolicyFailure
<1>3. ASSUME NEW c \in Call, StartAgent(c) \/ FailToStart(c) \/ AgentEdits(c) PROVE Kept
  BY <1>3 DEF StartAgent, FailToStart, AgentEdits, CallFailure, PolicyFailure
<1>4. ASSUME NEW c \in Call, AgentFails(c) \/ PlanDelivery(c) PROVE Kept
  BY <1>4 DEF AgentFails, FailAndRecover, PlanDelivery, CallFailure, PolicyFailure
<1>5. ASSUME NEW c \in Call, FinishUnchanged(c) PROVE Kept
  <2>1. /\ ledger'.started = ledger.started
        /\ d # c => ledger'.agent[d] = ledger.agent[d] /\ pc'[d] = pc[d]
        /\ pc[c] \in Active
    BY <1>5 DEF FinishUnchanged, Written, Unwritten, PolicyFailure, Ledger
  <2> QED
    BY <2>1
<1>6. ASSUME NEW c \in Call, StartDelivery(c) \/ CancelDelivery(c) PROVE Kept
  BY <1>6 DEF StartDelivery, CancelDelivery, HasLock, Written, Unwritten, CallFailure,
     PolicyFailure, Ledger
<1>7. ASSUME NEW c \in Call, Apply(c) \/ Reject(c) \/ ApplyThrows(c) PROVE Kept
  BY <1>7 DEF Apply, Reject, ApplyThrows, CallFailure
<1>8. ASSUME NEW c \in Call, Commit(c) PROVE Kept
  <2>1. /\ ledger'.started = ledger.started
        /\ d # c => ledger'.agent[d] = ledger.agent[d] /\ pc'[d] = pc[d]
        /\ pc[c] \in Active
    BY <1>8 DEF Commit, Written, Unwritten, PolicyFailure, Ledger
  <2> QED
    BY <2>1
<1>9. ASSUME NEW c \in Call, CommitCheckThrows(c) PROVE Kept
  BY <1>9 DEF CommitCheckThrows, CallFailure
<1>10. ASSUME Abort \/ EndRun \/ Crash PROVE Kept
  BY <1>10 DEF Abort, EndRun, Crash
<1>11. ASSUME NEW newCap \in maxAgents..capBound, Resume(newCap) \/ RefuseResume(newCap)
       PROVE  Kept
  BY <1>11 DEF Resume, RefuseResume
<1>12. ASSUME NEW f \in File, Edit(f) \/ Restore(f) PROVE Kept
  BY <1>12 DEF Edit, Restore, UserStep
<1>13. ASSUME CommitTree \/ UNCHANGED vars PROVE Kept
  BY <1>13 DEF CommitTree, UserStep, vars
<1> QED
  BY <1>1, <1>2, <1>3, <1>4, <1>5, <1>6, <1>7, <1>8, <1>9, <1>10, <1>11, <1>12, <1>13
     DEF Next, CallNext, Stopped

\* The untouched repository holds nothing that was not announced.
LEMMA TracedInit == Init => Traced
BY DeliveryAssumption DEF Init, Traced, Untouched

\* Every step leaves in the tree only what was announced, and whatever it tears
\* is the doing of a delivery that will block every resume.
LEMMA TracedStep ==
  TypeOK /\ (\A c \in Call : Phase(c)) /\ Traced /\ [Next]_vars => Traced'
<1> SUFFICES ASSUME TypeOK, \A c \in Call : Phase(c), Traced, [Next]_vars
             PROVE  Traced'
  OBVIOUS
<1> DEFINE Sound(content) ==
      /\ \A c \in Call : c = content => c \in ledger'.started
      /\ content = "torn" => \E c \in Call : Stuck(c)'
<1>1. \A f \in File : Sound(tree[f]) /\ Sound(head[f])
  BY StuckPersists DEF Traced
<1>2. SUFFICES \A f \in File : Sound(tree'[f]) /\ Sound(head'[f])
  BY DEF Traced
<1>3. CASE UNCHANGED <<tree, head>>
  BY <1>1, <1>3
<1>4. ASSUME NEW c \in Call, pc[c] = "applying", PatchApplied(c), UNCHANGED head
      PROVE  \A f \in File : Sound(tree'[f]) /\ Sound(head'[f])
  <2>1. Sound(c)
    BY <1>4, StuckPersists, DeliveryAssumption DEF Phase
  <2> QED
    BY <1>1, <1>4, <2>1 DEF PatchApplied
<1>5. ASSUME NEW c \in Call, pc[c] = "applying", tree' \in Torn(c), UNCHANGED <<head, ledger>>,
             pc'[c] \in {"failed", "fatal", "idle"}
      PROVE  \A f \in File : Sound(tree'[f]) /\ Sound(head'[f])
  <2>1. Stuck(c)'
    BY <1>5 DEF Stuck, Pending, Phase, Active
  <2>2. Sound("torn")
    BY <2>1, DeliveryAssumption
  <2> QED
    BY <1>1, <1>5, <2>2 DEF Torn
<1>6. ASSUME NEW f \in File, Edit(f) \/ Restore(f)
      PROVE  \A g \in File : Sound(tree'[g]) /\ Sound(head'[g])
  <2>1. Sound("edited")
    BY DeliveryAssumption
  <2> QED
    BY <1>1, <1>6, <2>1 DEF Edit, Restore, TypeOK
<1>7. ASSUME CommitTree PROVE \A f \in File : Sound(tree'[f]) /\ Sound(head'[f])
  BY <1>1, <1>7 DEF CommitTree
<1>8. ASSUME NEW c \in Call, Apply(c) PROVE pc[c] = "applying" /\ PatchApplied(c) /\ UNCHANGED head
  BY <1>8 DEF Apply
<1>9. ASSUME NEW c \in Call, ApplyThrows(c)
      PROVE  /\ pc[c] = "applying" /\ tree' \in Torn(c) /\ UNCHANGED <<head, ledger>>
             /\ pc'[c] \in {"failed", "fatal", "idle"}
  BY <1>9 DEF ApplyThrows, CallFailure, Goto, journalVars, TypeOK
<1>10. ASSUME NEW c \in Call, CallNext(c), ~ Apply(c), ~ ApplyThrows(c)
       PROVE  UNCHANGED <<tree, head>>
  BY <1>10 DEF CallNext, Admit, Refuse, Replay, VerifyReplay, StartAgent, FailToStart,
     AgentEdits, AgentFails, FinishUnchanged, PlanDelivery, StartDelivery, CancelDelivery,
     Reject, Commit, CommitCheckThrows, treeVars
<1>11. ASSUME Crash PROVE \A f \in File : Sound(tree'[f]) /\ Sound(head'[f])
  <2>1. UNCHANGED <<head, ledger>> /\ \A c \in Call : pc'[c] = "idle"
    BY <1>11 DEF Crash, journalVars
  <2> QED
    BY <1>3, <1>4, <1>5, <1>11, <2>1 DEF Crash
<1>12. ASSUME Abort \/ EndRun \/ UNCHANGED vars PROVE UNCHANGED <<tree, head>>
  BY <1>12 DEF Abort, EndRun, vars, treeVars
<1>13. ASSUME NEW newCap \in maxAgents..capBound, Resume(newCap) \/ RefuseResume(newCap)
       PROVE  UNCHANGED <<tree, head>>
  BY <1>13 DEF Resume, RefuseResume, treeVars
<1> QED
  BY <1>3, <1>4, <1>5, <1>6, <1>7, <1>8, <1>9, <1>10, <1>11, <1>12, <1>13
     DEF Next, Stopped

(***************************************************************************)
(* The theorems.                                                           *)
(***************************************************************************)
\* The invariant holds in every reachable state, whatever crashes, aborts,
\* failed writes, resumes and steps of the user intervene.
THEOREM InvariantCorrect == Spec => []DeliveryInvariant
<1>1. Init => DeliveryInvariant
  BY TypeInit, DurableInit, AdmittedInit, TracedInit, PhaseInit DEF DeliveryInvariant
<1>2. DeliveryInvariant /\ [Next]_vars => DeliveryInvariant'
  BY TypeStep, DurableStep, AdmittedStep, TracedStep, PhaseStep DEF DeliveryInvariant
<1> QED
  BY <1>1, <1>2, PTL DEF Spec

\* Every variable keeps its type; the admitted agents never exceed the limit.
THEOREM TypeCorrect == Spec => []TypeOK
<1>1. DeliveryInvariant => TypeOK
  BY DEF DeliveryInvariant
<1> QED
  BY <1>1, InvariantCorrect, PTL

\* The work of a call is applied to the shared tree at most once.
THEOREM OnceCorrect == Spec => []AppliedAtMostOnce
<1>1. DeliveryInvariant => AppliedAtMostOnce
  BY DEF DeliveryInvariant, Phase, AppliedAtMostOnce
<1> QED
  BY <1>1, InvariantCorrect, PTL

\* Work that an agent did is in a saved patch or in a worktree that was kept.
THEOREM WorkCorrect == Spec => []NoLostWork
<1>1. DeliveryInvariant => NoLostWork
  BY DEF DeliveryInvariant, Phase, NoLostWork
<1> QED
  BY <1>1, InvariantCorrect, PTL

\* A result that the script was given is durable, and delivered.
THEOREM PublishedCorrect == Spec => []PublishedIsDurable
<1>1. DeliveryInvariant => PublishedIsDurable
  BY DEF DeliveryInvariant, TypeOK, Ledger, Phase, PublishedIsDurable
<1> QED
  BY <1>1, InvariantCorrect, PTL

\* Over all its runs, a workflow never runs more agents than its limit.
THEOREM LimitCorrect == Spec => []LifetimeLimit
<1>1. DeliveryInvariant => LifetimeLimit
  <2> SUFFICES ASSUME DeliveryInvariant PROVE LifetimeLimit
    OBVIOUS
  <2>1. Cardinality({c \in Call : pc[c] = "admitted"}) \in Nat
    BY DeliveryAssumption, FS_Subset, FS_CardinalityType
  <2> QED
    BY <2>1, DeliveryAssumption
       DEF DeliveryInvariant, TypeOK, Ledger, Counted, RunsAreAdmitted, LifetimeLimit
<1> QED
  BY <1>1, InvariantCorrect, PTL

\* No agent runs that the journal has not admitted.
THEOREM AdmittedCorrect == Spec => []RunsAreAdmitted
<1>1. DeliveryInvariant => RunsAreAdmitted
  BY DEF DeliveryInvariant
<1> QED
  BY <1>1, InvariantCorrect, PTL

\* No failed write makes the journal unreadable for a later run.
THEOREM ReadableCorrect == Spec => []JournalStaysReadable
<1>1. DeliveryInvariant => JournalStaysReadable
  BY DEF DeliveryInvariant, Durable, JournalStaysReadable
<1> QED
  BY <1>1, InvariantCorrect, PTL

\* Crashes and failed writes leave a journal that is readable and tells the truth
\* of results, admissions and the limit.
THEOREM JournalCorrect == Spec => []JournalIsTrue
<1>1. PublishedIsDurable /\ RunsAreAdmitted /\ LifetimeLimit /\ JournalStaysReadable
        => JournalIsTrue
  BY DEF JournalIsTrue
<1> QED
  BY <1>1, PublishedCorrect, AdmittedCorrect, LimitCorrect, ReadableCorrect, PTL

\* A run is resumed only where the tree and the journal agree.
THEOREM ResumeCorrect == Spec => ResumesOnAgreement
<1> DEFINE Agreement == \A c \in Call :
             IF ledger.agent[c] = "delivered" THEN Present(c)
             ELSE applies[c] = 0 /\ \A f \in File : tree[f] \notin {c, "torn"}
<1>1. ASSUME DeliveryInvariant, [Next]_vars, ~ up, up' PROVE Agreement
  <2>1. PICK newCap \in maxAgents..capBound : Resumable(newCap)
    BY <1>1 DEF Next, CallNext, Stopped, vars, Admit, Refuse, Replay, CanStart, VerifyReplay,
       StartAgent, FailToStart, AgentEdits, AgentFails, FinishUnchanged, PlanDelivery,
       StartDelivery, CancelDelivery, HasLock, Apply, Reject, ApplyThrows, Commit,
       CommitCheckThrows, runVars, Abort, EndRun, Crash, Resume, RefuseResume, Edit, Restore,
       CommitTree, UserStep
  <2>2. ASSUME NEW c \in Call, ledger.agent[c] # "delivered" PROVE c \notin ledger.started
    BY <1>1, <2>1, <2>2 DEF Resumable, Pending, DeliveryInvariant, Phase, TypeOK, Ledger
  <2>3. ASSUME NEW c \in Call, ledger.agent[c] # "delivered"
        PROVE  applies[c] = 0 /\ \A f \in File : tree[f] \notin {c, "torn"}
    BY <1>1, <2>1, <2>2, <2>3 DEF DeliveryInvariant, Phase, Traced, Stuck, Resumable
  <2> QED
    BY <2>1, <2>3 DEF Resumable
<1>2. DeliveryInvariant /\ [Next]_vars => [~ up /\ up' => Agreement]_vars
  BY <1>1
<1> QED
  BY <1>2, InvariantCorrect, PTL DEF Spec, ResumesOnAgreement

\* After an abort no delivery is started and no patch is applied.
THEOREM AbortCorrect == Spec => NoDeliveryAfterAbort
<1> DEFINE Quiet == ledger'.started = ledger.started /\ applies' = applies
<1>1. ASSUME DeliveryInvariant, [Next]_vars, up, aborted PROVE Quiet
  <2>1. \A c \in Call : pc[c] # "applying"
    BY <1>1 DEF DeliveryInvariant, Phase
  <2>2. ASSUME NEW c \in Call, CallNext(c) PROVE Quiet
    <3>1. CASE FinishUnchanged(c)
      BY <3>1, <1>1 DEF FinishUnchanged
    <3>2. CASE CancelDelivery(c)
      BY <3>2, <1>1 DEF CancelDelivery, treeVars, journalVars
    <3>3. CASE Commit(c)
      BY <3>3, <1>1 DEF Commit, Written, Unwritten, treeVars, journalVars, DeliveryInvariant,
         TypeOK, Ledger
    <3> QED
      BY <1>1, <2>1, <2>2, <3>1, <3>2, <3>3
         DEF CallNext, Admit, Refuse, Replay, VerifyReplay, StartAgent, FailToStart,
             AgentEdits, AgentFails, PlanDelivery, StartDelivery, Apply, Reject,
             ApplyThrows, CommitCheckThrows, treeVars, journalVars
  <2>3. CASE Abort \/ EndRun \/ CommitTree \/ UNCHANGED vars
    BY <2>3 DEF Abort, EndRun, CommitTree, UserStep, vars, treeVars, journalVars
  <2>4. CASE Crash
    BY <2>1, <2>4 DEF Crash, journalVars
  <2>5. ASSUME NEW f \in File, Edit(f) \/ Restore(f) PROVE Quiet
    BY <2>5 DEF Edit, Restore, UserStep, journalVars
  <2> QED
    BY <1>1, <2>2, <2>3, <2>4, <2>5 DEF Next, Stopped, Resume, RefuseResume
<1>2. DeliveryInvariant /\ [Next]_vars => [up /\ aborted => Quiet]_vars
  BY <1>1
<1> QED
  BY <1>2, InvariantCorrect, PTL DEF Spec, NoDeliveryAfterAbort

\* A delivery overwrites no other one, except by work that started from it.
THEOREM KeepCorrect == Spec => DeliveriesKeepEachOther
<1> DEFINE Keeps == \A c, d \in Call :
             applies'[c] > applies[c] /\ c # d =>
               \A f \in File : tree[f] = d => tree'[f] = d \/ base[c][f] = d
<1>1. ASSUME DeliveryInvariant, [Next]_vars PROVE Keeps
  <2>1. ASSUME NEW c \in Call, PatchApplied(c) PROVE Keeps
    BY <1>1, <2>1 DEF PatchApplied, DeliveryInvariant, TypeOK
  <2>2. ASSUME applies' = applies PROVE Keeps
    BY <1>1, <2>2 DEF DeliveryInvariant, TypeOK
  <2>3. ASSUME NEW c \in Call, CallNext(c) PROVE applies' = applies \/ PatchApplied(c)
    BY <2>3 DEF CallNext, Admit, Refuse, Replay, VerifyReplay, StartAgent, FailToStart,
       AgentEdits, AgentFails, FinishUnchanged, PlanDelivery, StartDelivery,
       CancelDelivery, Apply, Reject, ApplyThrows, Commit, CommitCheckThrows, treeVars
  <2>4. CASE Crash
    BY <2>1, <2>2, <2>4 DEF Crash
  <2>5. CASE Abort \/ EndRun \/ CommitTree \/ UNCHANGED vars
    BY <2>2, <2>5 DEF Abort, EndRun, CommitTree, UserStep, vars, treeVars
  <2>6. ASSUME NEW newCap \in maxAgents..capBound, Resume(newCap) \/ RefuseResume(newCap)
        PROVE  Keeps
    BY <2>2, <2>6 DEF Resume, RefuseResume, treeVars
  <2>7. ASSUME NEW f \in File, Edit(f) \/ Restore(f) PROVE Keeps
    BY <2>2, <2>7 DEF Edit, Restore, UserStep
  <2> QED
    BY <1>1, <2>1, <2>2, <2>3, <2>4, <2>5, <2>6, <2>7 DEF Next, Stopped
<1>2. DeliveryInvariant /\ [Next]_vars => [Keeps]_vars
  BY <1>1
<1> QED
  BY <1>2, InvariantCorrect, PTL DEF Spec, DeliveriesKeepEachOther

\* A delivery reaches the tree neither after an abort nor over another one.
THEOREM TreeCorrect == Spec => TreeIsRespected
BY AbortCorrect, KeepCorrect DEF TreeIsRespected

(***************************************************************************)
(* The delivery protocol implements OnceDelivery: each step announces,     *)
(* performs or acknowledges one delivery, loses the turn, or stutters.     *)
(***************************************************************************)
\* The stages are those of before, but for that of one call.
LEMMA StageUnchanged ==
  ASSUME ledger'.started = ledger.started, applies' = applies,
         \A c \in Call : ledger'.agent[c] = "delivered" <=> ledger.agent[c] = "delivered"
  PROVE  [c \in Call |-> Stage(c)]' = [c \in Call |-> Stage(c)]
BY DEF Stage

\* A delivery-start record moves its call from new to announced, and only it.
LEMMA StageAnnounced ==
  ASSUME TypeOK, NEW c \in Call, Phase(c), ledger.agent[c] = "none", c \notin ledger.started,
         ledger' = [ledger EXCEPT !.started = @ \cup {c}], applies' = applies, lock = Nobody
  PROVE  /\ Stage(c) = "new"
         /\ [d \in Call |-> Stage(d)]' = [[d \in Call |-> Stage(d)] EXCEPT ![c] = "announced"]
<1>1. /\ ledger'.agent = ledger.agent /\ ledger'.started = ledger.started \cup {c}
      /\ applies[c] = 0 /\ applies' = applies
      /\ c \notin ledger.started /\ ledger.agent[c] = "none"
  BY DEF Phase, TypeOK, Ledger
<1>2. Stage(c) = "new"
  BY <1>1 DEF Stage
<1>3. \A d \in Call : Stage(d)' = IF d = c THEN "announced" ELSE Stage(d)
  BY <1>1 DEF Stage
<1> QED
  BY <1>1, <1>2, <1>3, Zenon

\* The application of a patch moves its call from announced to effective.
LEMMA StageEffective ==
  ASSUME TypeOK, NEW c \in Call, Phase(c), pc[c] = "applying",
         ledger' = ledger, applies' = [applies EXCEPT ![c] = @ + 1]
  PROVE  /\ Stage(c) = "announced" /\ lock = c
         /\ [d \in Call |-> Stage(d)]' = [[d \in Call |-> Stage(d)] EXCEPT ![c] = "effective"]
<1>1. /\ ledger' = ledger /\ lock = c
      /\ \A d \in Call : applies'[d] = IF d = c THEN 1 ELSE applies[d]
      /\ applies[c] = 0 /\ c \in ledger.started /\ ledger.agent[c] = "none"
  BY DEF Phase, TypeOK, Active
<1>2. Stage(c) = "announced"
  BY <1>1 DEF Stage
<1>3. \A d \in Call : Stage(d)' = IF d = c THEN "effective" ELSE Stage(d)
  BY <1>1 DEF Stage
<1> QED
  BY <1>1, <1>2, <1>3, Zenon

\* The record of a delivered result moves its call from effective to acknowledged.
LEMMA StageAcknowledged ==
  ASSUME TypeOK, NEW c \in Call, Phase(c), pc[c] = "committing",
         ledger' = [ledger EXCEPT !.agent[c] = "delivered"], applies' = applies
  PROVE  /\ Stage(c) = "effective" /\ lock = c
         /\ [d \in Call |-> Stage(d)]' = [[d \in Call |-> Stage(d)] EXCEPT ![c] = "acknowledged"]
<1>1. /\ ledger'.started = ledger.started /\ lock = c
      /\ \A d \in Call : ledger'.agent[d] = IF d = c THEN "delivered" ELSE ledger.agent[d]
      /\ applies[c] = 1 /\ applies' = applies /\ ledger.agent[c] = "none"
  BY DEF Phase, TypeOK, Ledger, Active
<1>2. Stage(c) = "effective"
  BY <1>1 DEF Stage
<1>3. \A d \in Call : Stage(d)' = IF d = c THEN "acknowledged" ELSE Stage(d)
  BY <1>1 DEF Stage
<1> QED
  BY <1>1, <1>2, <1>3, Zenon

\* Every step is, through the mapping, a step of OnceDelivery or a stutter.
LEMMA OnceStep == DeliveryInvariant /\ [Next]_vars => [Once!Next]_Once!vars
<1> SUFFICES ASSUME DeliveryInvariant, [Next]_vars PROVE [Once!Next]_Once!vars
  OBVIOUS
<1> TypeOK /\ \A c \in Call : Phase(c)
  BY DEF DeliveryInvariant
<1> USE DEF Once!vars
<1>1. ASSUME ledger' = ledger, applies' = applies, lock' \in {lock, Nobody}
      PROVE  [Once!Next]_Once!vars
  BY <1>1, StageUnchanged DEF Once!Next, Once!LoseTurn
<1>2. ASSUME NEW c \in Call, lock = Nobody, lock' \in {c, Nobody},
             ledger.agent[c] = "none", c \notin ledger.started,
             ledger' = [ledger EXCEPT !.started = @ \cup {c}], applies' = applies
      PROVE  [Once!Next]_Once!vars
  BY <1>2, StageAnnounced DEF Once!Next, Once!Announce
<1>3. ASSUME NEW c \in Call, pc[c] = "applying", PatchApplied(c), ledger' = ledger,
             lock' \in {c, Nobody}
      PROVE  [Once!Next]_Once!vars
  BY <1>3, StageEffective DEF Once!Next, Once!TakeEffect, PatchApplied
<1>4. ASSUME NEW c \in Call, Commit(c) PROVE [Once!Next]_Once!vars
  <2>1. CASE ledger' = [ledger EXCEPT !.agent[c] = "delivered"]
    BY <1>4, <2>1, StageAcknowledged DEF Commit, treeVars, Once!Next, Once!Acknowledge
  <2> QED
    BY <1>1, <1>4, <2>1 DEF Commit, Written, Unwritten, treeVars, journalVars
<1>5. ASSUME NEW c \in Call, FinishUnchanged(c) \/ Admit(c) PROVE [Once!Next]_Once!vars
  <2>1. /\ ledger'.started = ledger.started /\ applies' = applies /\ lock' = lock
        /\ \A d \in Call : ledger'.agent[d] = "delivered" <=> ledger.agent[d] = "delivered"
    <3>1. CASE FinishUnchanged(c)
      <4>1. ledger.agent[c] = "none"
        BY <3>1 DEF FinishUnchanged, Phase, Active
      <4>2. ledger' \in {ledger, [ledger EXCEPT !.agent[c] = "plain"]}
        BY <3>1 DEF FinishUnchanged, Written, Unwritten, journalVars
      <4>3. /\ ledger'.started = ledger.started
            /\ \A d \in Call :
                 ledger'.agent[d] = ledger.agent[d] \/ (d = c /\ ledger'.agent[d] = "plain")
        <5>1. CASE ledger' = ledger
          BY <5>1
        <5>2. CASE ledger' = [ledger EXCEPT !.agent[c] = "plain"]
          BY <5>2 DEF TypeOK, Ledger
        <5> QED
          BY <4>2, <5>1, <5>2
      <4> QED
        BY <3>1, <4>1, <4>2, <4>3 DEF FinishUnchanged, treeVars, TypeOK, Ledger
    <3>2. CASE Admit(c)
      BY <3>2 DEF Admit, Written, Unwritten, treeVars, journalVars, TypeOK, Ledger
    <3> QED
      BY <1>5, <3>1, <3>2
  <2> QED
    BY <2>1, StageUnchanged
<1>6. ASSUME NEW c \in Call, StartDelivery(c) PROVE [Once!Next]_Once!vars
  BY <1>2, <1>6 DEF StartDelivery, HasLock, Written, Pending, treeVars
<1>7. ASSUME NEW c \in Call, CancelDelivery(c) PROVE [Once!Next]_Once!vars
  <2>1. /\ applies' = applies /\ lock' = lock /\ lock = Nobody
        /\ ledger.agent[c] = "none" /\ c \notin ledger.started
        /\ ledger' \in {ledger, [ledger EXCEPT !.started = @ \cup {c}]}
    BY <1>7 DEF CancelDelivery, HasLock, Unwritten, treeVars, journalVars, Phase, Active
  <2> QED
    BY <1>1, <1>2, <2>1
<1>8. ASSUME NEW c \in Call, Apply(c) PROVE [Once!Next]_Once!vars
  BY <1>3, <1>8 DEF Apply, Phase, journalVars
<1>9. ASSUME NEW c \in Call, CallNext(c), ~ Commit(c), ~ FinishUnchanged(c), ~ Admit(c),
             ~ StartDelivery(c), ~ CancelDelivery(c), ~ Apply(c)
      PROVE  ledger' = ledger /\ applies' = applies /\ lock' \in {lock, Nobody}
  BY <1>9 DEF CallNext, Refuse, Replay, VerifyReplay, StartAgent, FailToStart, AgentEdits,
     AgentFails, PlanDelivery, Reject, ApplyThrows, CommitCheckThrows, treeVars, journalVars
<1>10. ASSUME Crash PROVE [Once!Next]_Once!vars
  <2>1. ledger' = ledger /\ lock' = Nobody
    BY <1>10 DEF Crash, journalVars
  <2> QED
    BY <1>1, <1>3, <1>10, <2>1 DEF Crash
<1>11. ASSUME Abort \/ EndRun \/ CommitTree \/ UNCHANGED vars
       PROVE  ledger' = ledger /\ applies' = applies /\ lock' = lock
  BY <1>11 DEF Abort, EndRun, CommitTree, UserStep, vars, treeVars, journalVars
<1>12. ASSUME NEW newCap \in maxAgents..capBound, Resume(newCap) \/ RefuseResume(newCap)
       PROVE  ledger' = ledger /\ applies' = applies /\ lock' = lock
  BY <1>12 DEF Resume, RefuseResume, treeVars
<1>13. ASSUME NEW f \in File, Edit(f) \/ Restore(f)
       PROVE  ledger' = ledger /\ applies' = applies /\ lock' = lock
  BY <1>13 DEF Edit, Restore, UserStep, journalVars
<1> QED
  BY <1>1, <1>4, <1>5, <1>6, <1>7, <1>8, <1>9, <1>10, <1>11, <1>12, <1>13
     DEF Next, Stopped

\* Whatever happens to the process, the journal and the tree, each delivery is
\* announced, takes effect and is acknowledged in this order, each at most once.
THEOREM RefinementCorrect == Spec => ImplementsOnce
<1>1. Init => Once!Init
  BY DEF Init, Once!Init, Stage
<1> QED
  BY <1>1, OnceStep, InvariantCorrect, PTL DEF Spec, ImplementsOnce, Once!Spec

=============================================================================
