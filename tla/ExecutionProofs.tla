-------------------------- MODULE ExecutionProofs --------------------------
(***************************************************************************)
(* Proofs about one execution of a workflow.  First the protocol between   *)
(* the script executor and its worker (ScriptProtocol): the verdict on a   *)
(* script is true and every call is accounted for, for every set of        *)
(* agents, panels and scripts.  Then the run around it (RunLifecycle): the *)
(* caller's answer is true, for every finite set of calls.                 *)
(* Last the paths of the calls that the worker makes (CallIdentity): every *)
(* call is accepted, for every script and any number of resumes.           *)
(*                                                                         *)
(* What the first part is about is what is under way: the messages in the  *)
(* worker's port and in the host's queue.  A message says something that   *)
(* has to be true still when it is handled, behind events that overtook    *)
(* it; the invariant states what each kind of message says.                *)
(***************************************************************************)
EXTENDS Execution, CallIdentity, SequenceTheorems, FiniteSetTheorems, TLAPS

----------------------------------------------------------------------------
(***************************************************************************)
(* The inductive invariant.                                                *)
(***************************************************************************)
\* The messages under way, in the worker's port and in the host's queue.
Wire == Range(outbox) \cup Range(events)

\* What a message may carry.
WellFormed(m) ==
  /\ m.type = "rpcSettled" => m = RpcSettled
  /\ m.type = "fatal" => m.error \in PolicyError
  /\ m.type = "result" => m.error \in PolicyError \cup {None, "thrown"}
  /\ m.type = "error" => m.error \in {OutOfMemory, "crash"}

\* What a message under way says is still so when it is handled.
IsTrue(m) ==
  /\ m.type \in {"fatal", "result"} /\ m.error \in PolicyError => m.error = sticky
  /\ m.type = "result" /\ m.error = None => finished /\ sticky = None /\ NothingPending
  /\ m.type = "error" => thread = "dead"
  /\ m.type = "fatalDeadline" => deadline = "fired"

MessagesTrue ==
  /\ \A m \in Wire : WellFormed(m) /\ IsTrue(m)
  /\ \A m \in Range(outbox) : m.type # "rpcSettled"

\* The queue, or the port, holds a fatal error; errors of the thread come after it.
HasFatal(s) == \E m \in Range(s) : m.type = "fatal"
FatalFirst(s) ==
  \A i \in DOMAIN s : s[i].type = "error" => \E j \in 1 .. (i - 1) : s[j].type = "fatal"

\* The host's fatal error is the worker's, or the worker had none and is dead.
\* While the host knows of none, the worker's is under way, before its last words.
FatalKnown ==
  /\ fatal # None => fatal = IF sticky = None THEN OutOfMemory ELSE sticky
  /\ fatal # None /\ sticky = None => thread = "dead"
  /\ deadline = "off" <=> fatal = None
  /\ sticky # None /\ fatal = None =>
       /\ HasFatal(events) \/ HasFatal(outbox)
       /\ FatalFirst(events)
       /\ HasFatal(events) \/ FatalFirst(outbox)

\* No two messages carry the same call, and no reply is posted twice.
Apart(s) == \A i, j \in DOMAIN s : s[i].calls \cap s[j].calls # {} => i = j
Distinct(s) == \A i, j \in DOMAIN s : s[i] = s[j] => i = j

CallsApart ==
  /\ Apart(outbox) /\ Apart(events) /\ Distinct(inbox)
  /\ \A m \in Range(outbox), n \in Range(events) : m.calls \cap n.calls = {}

\* Where a call is: posted and not dispatched; running or settled while the script
\* waits for it; or answered, as it settled.
CallsOfPlace ==
  /\ \A m \in Wire : \A c \in m.calls : waiter[c] = "waiting" /\ reply[c] = "none"
  /\ \A c \in Range(inbox) : waiter[c] = "waiting" /\ reply[c] \notin {"none", "running"}
  /\ \A c \in Rpc :
       /\ waiter[c] \in {"absent", "new"} => reply[c] = "none"
       /\ reply[c] = "running" => waiter[c] = "waiting"
       /\ waiter[c] = "resolved" => reply[c] = "ok"
       /\ waiter[c] = "rejected" => reply[c] \in {"error", "policy", "abort"}
       /\ waiter[c] = "rejected" /\ reply[c] = "policy" => sticky # None
  /\ \A c \in Cleanup : waiter[c] = "absent" <=> waiter[panelOf[c]] = "absent"

Verdicts == VerdictIsTrue /\ FatalDrainsCalls /\ WaitingIsNotStalling

ScriptInvariant ==
  /\ TypeOK /\ MessagesTrue /\ FatalKnown /\ CallsApart /\ CallsOfPlace
  /\ PendingCountsCalls /\ Verdicts

----------------------------------------------------------------------------
(***************************************************************************)
(* Sequences: what appending a message and taking the first one do.        *)
(***************************************************************************)
\* Append adds its element to the range.
LEMMA RangeAppend ==
  ASSUME NEW S, NEW s \in Seq(S), NEW m \in S
  PROVE  Range(Append(s, m)) = Range(s) \cup {m}
<1>1. Append(s, m) \in Seq(S) /\ Len(Append(s, m)) = Len(s) + 1 /\ Len(s) \in Nat
  BY AppendProperties, LenProperties
<1>2. /\ Range(Append(s, m)) = {Append(s, m)[i] : i \in 1 .. Len(Append(s, m))}
      /\ Range(s) = {s[i] : i \in 1 .. Len(s)}
  BY <1>1, RangeEquality
<1>3. 1 .. (Len(s) + 1) = 1 .. Len(s) \cup {Len(s) + 1}
  BY <1>1
<1>4. QED
  BY <1>1, <1>2, <1>3, AppendProperties

\* Tail takes the first element away, once.
LEMMA RangeTail ==
  ASSUME NEW S, NEW s \in Seq(S), s # <<>>
  PROVE  Head(s) \in Range(s) /\ Range(s) = {Head(s)} \cup Range(Tail(s))
<1>1. /\ Tail(s) \in Seq(S) /\ Len(Tail(s)) = Len(s) - 1
      /\ \A i \in 1 .. Len(Tail(s)) : Tail(s)[i] = s[i + 1]
      /\ Len(s) \in Nat /\ Len(s) # 0 /\ Head(s) = s[1]
  BY HeadTailProperties, LenProperties, EmptySeq
<1>2. /\ Range(Tail(s)) = {Tail(s)[i] : i \in 1 .. Len(Tail(s))}
      /\ Range(s) = {s[i] : i \in 1 .. Len(s)}
  BY <1>1, RangeEquality
<1>3. ASSUME NEW m \in Range(s) PROVE m = Head(s) \/ m \in Range(Tail(s))
  <2>1. PICK i \in 1 .. Len(s) : m = s[i]
    BY <1>2
  <2>2. CASE i = 1
    BY <1>1, <2>1, <2>2
  <2>3. CASE i # 1
    <3>1. i - 1 \in 1 .. Len(Tail(s)) /\ Tail(s)[i - 1] = m
      BY <1>1, <2>1, <2>3
    <3>2. QED
      BY <1>2, <3>1
  <2>4. QED
    BY <2>2, <2>3
<1>4. Head(s) \in Range(s)
  BY <1>1, <1>2
<1>5. ASSUME NEW m \in Range(Tail(s)) PROVE m \in Range(s)
  <2>1. PICK i \in 1 .. Len(Tail(s)) : m = Tail(s)[i]
    BY <1>2
  <2>2. i + 1 \in 1 .. Len(s) /\ m = s[i + 1]
    BY <1>1, <2>1
  <2>3. QED
    BY <1>2, <2>2
<1>6. QED
  BY <1>3, <1>4, <1>5

\* A message with calls of its own joins messages with calls of their own.
LEMMA ApartAppend ==
  ASSUME NEW s \in Seq(AnyMessage), NEW m \in AnyMessage, Apart(s),
         \A n \in Range(s) : n.calls \cap m.calls = {}
  PROVE  Apart(Append(s, m))
<1> DEFINE t == Append(s, m)
<1>1. /\ DOMAIN s = 1 .. Len(s) /\ DOMAIN t = 1 .. (Len(s) + 1) /\ Len(s) \in Nat
      /\ \A i \in 1 .. Len(s) : t[i] = s[i]
      /\ t[Len(s) + 1] = m
  BY AppendProperties, LenProperties
<1>2. \A i \in 1 .. Len(s) : s[i].calls \cap m.calls = {}
  BY RangeEquality
<1>3. SUFFICES ASSUME NEW i \in DOMAIN t, NEW j \in DOMAIN t, t[i].calls \cap t[j].calls # {}
               PROVE  i = j
  BY DEF Apart
<1> HIDE DEF t
<1>4. CASE i = Len(s) + 1 \/ j = Len(s) + 1
  BY <1>1, <1>2, <1>3, <1>4
<1>5. CASE i \in 1 .. Len(s) /\ j \in 1 .. Len(s)
  BY <1>1, <1>3, <1>5 DEF Apart
<1>6. QED
  BY <1>1, <1>4, <1>5

\* The first message has no call that a later one has.
LEMMA ApartTail ==
  ASSUME NEW s \in Seq(AnyMessage), s # <<>>, Apart(s)
  PROVE  /\ Apart(Tail(s))
         /\ \A n \in Range(Tail(s)) : n.calls \cap Head(s).calls = {}
<1> DEFINE t == Tail(s)
<1>1. /\ t \in Seq(AnyMessage)
      /\ DOMAIN s = 1 .. Len(s) /\ DOMAIN t = 1 .. (Len(s) - 1)
      /\ Len(s) \in Nat \ {0} /\ Head(s) = s[1]
      /\ \A i \in 1 .. (Len(s) - 1) : t[i] = s[i + 1]
  BY HeadTailProperties, LenProperties, EmptySeq
<1>2. Range(t) = {t[i] : i \in DOMAIN t}
  BY <1>1, RangeEquality, LenProperties
<1> HIDE DEF t
<1>3. ASSUME NEW i \in DOMAIN t, NEW j \in DOMAIN t, t[i].calls \cap t[j].calls # {}
      PROVE  i = j
  <2>1. /\ i + 1 \in DOMAIN s /\ j + 1 \in DOMAIN s
        /\ t[i] = s[i + 1] /\ t[j] = s[j + 1]
    BY <1>1
  <2>2. i + 1 = j + 1
    BY <1>3, <2>1 DEF Apart
  <2>3. QED
    BY <1>1, <2>2
<1>4. ASSUME NEW n \in Range(t) PROVE n.calls \cap Head(s).calls = {}
  <2>1. PICK i \in DOMAIN t : n = t[i]
    BY <1>2
  <2>2. i + 1 \in DOMAIN s /\ 1 \in DOMAIN s /\ n = s[i + 1] /\ i + 1 # 1
    BY <1>1, <2>1
  <2>3. QED
    BY <1>1, <2>2 DEF Apart
<1>5. QED
  BY <1>3, <1>4 DEF t, Apart

\* A reply that is not in the port yet may be posted.
LEMMA DistinctAppend ==
  ASSUME NEW s \in Seq(Rpc), NEW c \in Rpc, Distinct(s), c \notin Range(s)
  PROVE  Distinct(Append(s, c))
<1> DEFINE t == Append(s, c)
<1>1. /\ DOMAIN s = 1 .. Len(s) /\ DOMAIN t = 1 .. (Len(s) + 1) /\ Len(s) \in Nat
      /\ \A i \in 1 .. Len(s) : t[i] = s[i]
      /\ t[Len(s) + 1] = c
  BY AppendProperties, LenProperties
<1>2. \A i \in 1 .. Len(s) : s[i] # c
  BY RangeEquality
<1>3. QED
  BY <1>1, <1>2 DEF Distinct

\* The first reply is not posted a second time.
LEMMA DistinctTail ==
  ASSUME NEW s \in Seq(Rpc), s # <<>>, Distinct(s)
  PROVE  Distinct(Tail(s)) /\ Head(s) \notin Range(Tail(s))
<1> DEFINE t == Tail(s)
<1>1. /\ t \in Seq(Rpc)
      /\ DOMAIN s = 1 .. Len(s) /\ DOMAIN t = 1 .. (Len(s) - 1)
      /\ Len(s) \in Nat \ {0} /\ Head(s) = s[1]
      /\ \A i \in 1 .. (Len(s) - 1) : t[i] = s[i + 1]
  BY HeadTailProperties, LenProperties, EmptySeq
<1>2. Range(t) = {t[i] : i \in DOMAIN t}
  BY <1>1, RangeEquality, LenProperties
<1> HIDE DEF t
<1>3. QED
  BY <1>1, <1>2 DEF Distinct, t

\* A message of the thread's end comes after the fatal error that was posted before.
LEMMA FatalAppend ==
  ASSUME NEW s \in Seq(AnyMessage), NEW m \in AnyMessage, FatalFirst(s),
         m.type # "error" \/ HasFatal(s)
  PROVE  FatalFirst(Append(s, m))
<1> DEFINE t == Append(s, m)
<1>1. /\ DOMAIN s = 1 .. Len(s) /\ DOMAIN t = 1 .. (Len(s) + 1) /\ Len(s) \in Nat
      /\ \A i \in 1 .. Len(s) : t[i] = s[i]
      /\ t[Len(s) + 1] = m
  BY AppendProperties, LenProperties
<1>2. Range(s) = {s[i] : i \in 1 .. Len(s)}
  BY RangeEquality
<1>3. SUFFICES ASSUME NEW i \in DOMAIN t, t[i].type = "error"
               PROVE  \E j \in 1 .. (i - 1) : t[j].type = "fatal"
  BY DEF FatalFirst
<1> HIDE DEF t
<1>4. CASE i \in 1 .. Len(s)
  <2>1. PICK j \in 1 .. (i - 1) : s[j].type = "fatal"
    BY <1>1, <1>3, <1>4 DEF FatalFirst
  <2>2. QED
    BY <1>1, <1>4, <2>1
<1>5. CASE i = Len(s) + 1
  <2>1. PICK j \in 1 .. Len(s) : s[j].type = "fatal"
    BY <1>1, <1>2, <1>3, <1>5 DEF HasFatal
  <2>2. QED
    BY <1>1, <1>5, <2>1
<1>6. QED
  BY <1>1, <1>4, <1>5

\* Once the first message is handled and was not a fatal error, the order stays;
\* it was not an error of the thread either.
LEMMA FatalTail ==
  ASSUME NEW s \in Seq(AnyMessage), s # <<>>, FatalFirst(s), Head(s).type # "fatal"
  PROVE  FatalFirst(Tail(s)) /\ Head(s).type # "error"
<1> DEFINE t == Tail(s)
<1>1. /\ DOMAIN s = 1 .. Len(s) /\ DOMAIN t = 1 .. (Len(s) - 1)
      /\ Len(s) \in Nat \ {0} /\ Head(s) = s[1]
      /\ \A i \in 1 .. (Len(s) - 1) : t[i] = s[i + 1]
  BY HeadTailProperties, LenProperties, EmptySeq
<1> HIDE DEF t
<1>2. ASSUME NEW i \in DOMAIN t, t[i].type = "error"
      PROVE  \E j \in 1 .. (i - 1) : t[j].type = "fatal"
  <2>1. i + 1 \in DOMAIN s /\ s[i + 1].type = "error"
    BY <1>1, <1>2
  <2>2. PICK j \in 1 .. i : s[j].type = "fatal"
    BY <1>1, <2>1 DEF FatalFirst
  <2>3. j # 1
    BY <1>1, <2>2
  <2>4. j - 1 \in 1 .. (i - 1) /\ t[j - 1] = s[j]
    BY <1>1, <2>2, <2>3
  <2>5. QED
    BY <2>2, <2>4
<1>3. s[1].type # "error"
  BY <1>1 DEF FatalFirst
<1>4. QED
  BY <1>1, <1>2, <1>3 DEF FatalFirst, t

\* How many settlements a queue holds: one more, or none more, when a message is
\* appended.
SettledIn(s) == {i \in DOMAIN s : s[i] = RpcSettled}

\* They are finitely many.
LEMMA SettledFinite ==
  ASSUME NEW s \in Seq(AnyMessage)
  PROVE  IsFiniteSet(SettledIn(s)) /\ Cardinality(SettledIn(s)) \in Nat
<1>1. DOMAIN s = 1 .. Len(s) /\ Len(s) \in Nat
  BY LenProperties
<1>2. IsFiniteSet(1 .. Len(s))
  BY <1>1, FS_Interval
<1>3. SettledIn(s) \subseteq 1 .. Len(s)
  BY <1>1 DEF SettledIn
<1>4. QED
  BY <1>2, <1>3, FS_Subset, FS_CardinalityType

\* A settlement counts once when it is queued.
LEMMA SettledAppend ==
  ASSUME NEW s \in Seq(AnyMessage), NEW m \in AnyMessage
  PROVE  Cardinality(SettledIn(Append(s, m))) =
           Cardinality(SettledIn(s)) + (IF m = RpcSettled THEN 1 ELSE 0)
<1>1. /\ DOMAIN s = 1 .. Len(s) /\ DOMAIN Append(s, m) = 1 .. (Len(s) + 1) /\ Len(s) \in Nat
      /\ \A i \in 1 .. Len(s) : Append(s, m)[i] = s[i]
      /\ Append(s, m)[Len(s) + 1] = m
  BY AppendProperties, LenProperties
<1>2. IsFiniteSet(SettledIn(s)) /\ Cardinality(SettledIn(s)) \in Nat /\ Len(s) + 1 \notin SettledIn(s)
  BY <1>1, SettledFinite DEF SettledIn
<1>3. CASE m = RpcSettled
  <2>1. SettledIn(Append(s, m)) = SettledIn(s) \cup {Len(s) + 1}
    BY <1>1, <1>3 DEF SettledIn
  <2>2. QED
    BY <1>2, <1>3, <2>1, FS_AddElement
<1>4. CASE m # RpcSettled
  <2>1. SettledIn(Append(s, m)) = SettledIn(s)
    BY <1>1, <1>4 DEF SettledIn
  <2>2. QED
    BY <1>2, <1>4, <2>1
<1>5. QED
  BY <1>3, <1>4

\* And no longer once it is taken.
LEMMA SettledTail ==
  ASSUME NEW s \in Seq(AnyMessage), s # <<>>
  PROVE  Cardinality(SettledIn(s)) =
           Cardinality(SettledIn(Tail(s))) + (IF Head(s) = RpcSettled THEN 1 ELSE 0)
<1> DEFINE t == Tail(s)
           later == SettledIn(s) \ {1}
           shift == [i \in later |-> i - 1]
<1>1. /\ t \in Seq(AnyMessage)
      /\ DOMAIN s = 1 .. Len(s) /\ DOMAIN t = 1 .. (Len(s) - 1)
      /\ Len(s) \in Nat \ {0} /\ Head(s) = s[1]
      /\ \A i \in 1 .. (Len(s) - 1) : t[i] = s[i + 1]
  BY HeadTailProperties, LenProperties, EmptySeq
<1>2. IsFiniteSet(SettledIn(s)) /\ Cardinality(SettledIn(s)) \in Nat
  BY SettledFinite
<1>3. IsFiniteSet(later) /\ Cardinality(later) \in Nat
  BY <1>2, FS_Subset, FS_CardinalityType
<1>4. Cardinality(SettledIn(s)) = Cardinality(later) + (IF Head(s) = RpcSettled THEN 1 ELSE 0)
  <2>1. 1 \in SettledIn(s) <=> Head(s) = RpcSettled
    BY <1>1 DEF SettledIn
  <2>2. Cardinality(later) = IF 1 \in SettledIn(s) THEN Cardinality(SettledIn(s)) - 1
                                                   ELSE Cardinality(SettledIn(s))
    BY <1>2, FS_RemoveElement
  <2>3. QED
    BY <1>2, <1>3, <2>1, <2>2
<1>5. shift \in Bijection(later, SettledIn(t))
  <2>1. ASSUME NEW i \in later PROVE i - 1 \in SettledIn(t)
    BY <1>1 DEF SettledIn
  <2>2. ASSUME NEW k \in SettledIn(t) PROVE k + 1 \in later /\ shift[k + 1] = k
    BY <1>1 DEF SettledIn
  <2>3. \A i, j \in later : shift[i] = shift[j] => i = j
    BY <1>1 DEF SettledIn
  <2>4. shift \in [later -> SettledIn(t)]
    BY <2>1
  <2> HIDE DEF shift, later, t
  <2>5. \A k \in SettledIn(t) : \E i \in later : shift[i] = k
    BY <2>2
  <2>6. QED
    BY <2>3, <2>4, <2>5 DEF Bijection, Injection, Surjection, IsInjective
<1>6. Cardinality(SettledIn(t)) = Cardinality(later)
  BY <1>3, <1>5, FS_Bijection DEF ExistsBijection
<1>7. QED
  BY <1>4, <1>6
----------------------------------------------------------------------------
(***************************************************************************)
(* The worker's steps.  Each is split into the parts of the invariant.     *)
(***************************************************************************)
\* The messages that the steps post are messages.
LEMMA MessageTypes ==
  ASSUME NEW S \in SUBSET Rpc, NEW e \in PolicyError \cup {None, "thrown", "crash"},
         NEW type \in {"rpc", "event", "fatal", "result", "error", "exit", "rpcSettled",
                       "fatalDeadline"}
  PROVE  /\ Message(type, S, e) \in AnyMessage
         /\ Message(type, S, e).type = type
         /\ Message(type, S, e).calls = S
         /\ Message(type, S, e).error = e
BY DEF Message, AnyMessage

\* What is under way are messages.
LEMMA WireTypes ==
  ASSUME TypeOK
  PROVE  /\ Range(outbox) \subseteq AnyMessage /\ Range(events) \subseteq AnyMessage
         /\ Wire \subseteq AnyMessage /\ Range(inbox) \subseteq Rpc
BY RangeOfSeq DEF TypeOK, Wire

\* Two messages are the first and then the second.
LEMMA TwoMessages ==
  ASSUME NEW S, NEW m \in S, NEW n \in S
  PROVE  <<m>> \o <<n>> = <<m, n>>
<1> DEFINE a == <<m>> \o <<n>>
           b == <<m, n>>
<1>1. <<m>> \in Seq(S) /\ <<n>> \in Seq(S) /\ <<m, n>> \in Seq(S)
  OBVIOUS
<1>2. Len(<<m>>) = 1 /\ Len(<<n>>) = 1 /\ Len(b) = 2
  OBVIOUS
<1>3. a \in Seq(S) /\ Len(a) = 2 /\ a[1] = m /\ a[2] = n
  BY <1>1, <1>2, ConcatProperties
<1>4. a \in Seq(S) /\ b \in Seq(S) /\ Len(a) = Len(b) /\ \A i \in 1 .. Len(a) : a[i] = b[i]
  BY <1>1, <1>2, <1>3
<1> HIDE DEF a, b
<1>5. a = b
  BY <1>4, SeqEqual
<1>6. QED
  BY <1>5 DEF a, b

\* Posting one message, or two, appends them.
LEMMA Posting ==
  ASSUME TypeOK, NEW m \in AnyMessage, NEW n \in AnyMessage
  PROVE  /\ outbox \o <<m>> = Append(outbox, m)
         /\ outbox \o <<m, n>> = Append(Append(outbox, m), n)
<1>1. outbox \in Seq(AnyMessage)
  BY DEF TypeOK
<1>2. outbox \o <<m>> = Append(outbox, m)
  BY <1>1, AppendIsConcat
<1>3. Append(outbox, m) \in Seq(AnyMessage)
  BY <1>1, AppendProperties
<1>4. Append(Append(outbox, m), n) = (outbox \o <<m>>) \o <<n>>
  BY <1>2, <1>3, AppendIsConcat
<1> DEFINE a == <<m>>
           b == <<n>>
<1>5. a \in Seq(AnyMessage) /\ b \in Seq(AnyMessage)
  OBVIOUS
<1>6. a \o b = <<m, n>>
  BY TwoMessages
<1>7. (outbox \o a) \o b = outbox \o (a \o b)
  <2> HIDE DEF a, b
  <2>1. QED
    BY <1>1, <1>5, ConcatAssociative
<1>8. QED
  BY <1>2, <1>4, <1>6, <1>7

\* While nothing is settled no verdict can be wrong.
LEMMA RunningVerdicts ==
  ASSUME ScriptAssumption, outcome' = "running"
  PROVE  Verdicts'
BY DEF ScriptAssumption, PolicyError, Verdicts, VerdictIsTrue, SuccessIsQuiet, None,
  PolicyFailureNeverSucceeds, FirstFailureReported, FatalDrainsCalls,
  WaitingIsNotStalling, WorkerMade, OutOfMemory

\* One more message in the port.
LEMMA PostedOne ==
  ASSUME ScriptInvariant, NEW m \in AnyMessage, outbox' = Append(outbox, m), events' = events,
         \A n \in Wire : n.calls \cap m.calls = {}
  PROVE  /\ outbox' \in Seq(AnyMessage)
         /\ Range(outbox') = Range(outbox) \cup {m} /\ Wire' = Wire \cup {m}
         /\ Apart(outbox') /\ Apart(events')
         /\ \A k \in Range(outbox'), n \in Range(events') : k.calls \cap n.calls = {}
         /\ HasFatal(outbox') <=> HasFatal(outbox) \/ m.type = "fatal"
         /\ FatalFirst(outbox) /\ (m.type # "error" \/ HasFatal(outbox)) => FatalFirst(outbox')
<1>1. outbox \in Seq(AnyMessage)
  BY DEF ScriptInvariant, TypeOK
<1>2. outbox' \in Seq(AnyMessage) /\ Range(outbox') = Range(outbox) \cup {m}
  BY <1>1, AppendProperties, RangeAppend
<1>3. Wire' = Wire \cup {m} /\ (HasFatal(outbox') <=> HasFatal(outbox) \/ m.type = "fatal")
  BY <1>2 DEF Wire, HasFatal
<1>4. Apart(outbox')
  BY <1>1, ApartAppend DEF ScriptInvariant, CallsApart, Wire
<1>5. \A k \in Range(outbox'), n \in Range(events') : k.calls \cap n.calls = {}
  BY <1>2 DEF ScriptInvariant, CallsApart, Wire
<1>6. FatalFirst(outbox) /\ (m.type # "error" \/ HasFatal(outbox)) => FatalFirst(outbox')
  BY <1>1, FatalAppend
<1>7. QED
  BY <1>2, <1>3, <1>4, <1>5, <1>6 DEF ScriptInvariant, CallsApart

\* Calls are posted that were new, so no other message has them and no reply came.
LEMMA PostLemma ==
  ASSUME ScriptAssumption, ScriptInvariant, NEW S \in SUBSET Rpc, Working,
         \A c \in S : waiter[c] = "new",
         ~finished \/ \E c \in S \cap Cleanup : waiter[panelOf[c]] = "resolved",
         waiter' = [c \in Rpc |-> IF c \in S THEN "waiting" ELSE waiter[c]],
         Post(<<Message("rpc", S, None)>>),
         UNCHANGED <<thread, sticky, finished, logged, inbox>>, HostUnchanged
  PROVE  ScriptInvariant'
<1> DEFINE M == Message("rpc", S, None)
<1>1. M \in AnyMessage /\ M.type = "rpc" /\ M.calls = S /\ M.error = None
  BY MessageTypes
<1>2. UNCHANGED <<events, reply, pending, fatal, reported, cancelled, deadline, aborted, outcome>>
  BY DEF HostUnchanged, drain
<1>3. outbox' = Append(outbox, M)
  BY <1>1, Posting DEF Post, ScriptInvariant
<1>4. \A n \in Wire : n.calls \cap S = {}
  BY DEF ScriptInvariant, CallsOfPlace
<1> HIDE DEF M
<1>5. /\ outbox' \in Seq(AnyMessage)
      /\ Range(outbox') = Range(outbox) \cup {M} /\ Wire' = Wire \cup {M}
      /\ Apart(outbox') /\ Apart(events')
      /\ \A k \in Range(outbox'), n \in Range(events') : k.calls \cap n.calls = {}
      /\ HasFatal(outbox') <=> HasFatal(outbox) \/ M.type = "fatal"
      /\ FatalFirst(outbox) /\ (M.type # "error" \/ HasFatal(outbox)) => FatalFirst(outbox')
  BY <1>1, <1>2, <1>3, <1>4, PostedOne
<1>6. TypeOK'
  BY <1>2, <1>5 DEF ScriptInvariant, TypeOK
<1>7. ~(finished /\ NothingPending)
  BY DEF NothingPending, ScriptInvariant
<1>8. MessagesTrue'
  BY <1>1, <1>2, <1>5, <1>7 DEF ScriptInvariant, MessagesTrue, WellFormed, IsTrue
<1>9. FatalKnown'
  BY <1>1, <1>2, <1>5 DEF ScriptInvariant, FatalKnown
<1>10. CallsApart'
  BY <1>2, <1>5 DEF ScriptInvariant, CallsApart
<1>11. CallsOfPlace'
  <2>1. \A m \in Wire' : \A c \in m.calls : waiter'[c] = "waiting" /\ reply'[c] = "none"
    BY <1>1, <1>2, <1>5, WireTypes DEF ScriptInvariant, CallsOfPlace, AnyMessage
  <2>2. \A c \in Range(inbox') : waiter'[c] = "waiting" /\ reply'[c] \notin {"none", "running"}
    BY <1>2, WireTypes DEF ScriptInvariant, CallsOfPlace
  <2>3. \A c \in Cleanup : c \in Rpc /\ panelOf[c] \in Rpc
    BY DEF ScriptAssumption, Rpc
  <2>4. \A c \in Cleanup : waiter'[c] = "absent" <=> waiter'[panelOf[c]] = "absent"
    BY <2>3 DEF ScriptInvariant, CallsOfPlace
  <2>5. \A c \in Rpc : \/ waiter'[c] = "waiting" /\ c \in S
                       \/ waiter'[c] = waiter[c] /\ c \notin S
    BY SMT
  <2>6. QED
    BY <1>2, <2>1, <2>2, <2>4, <2>5 DEF ScriptInvariant, CallsOfPlace
<1>12. PendingCountsCalls' /\ Verdicts'
  BY <1>2, RunningVerdicts DEF ScriptInvariant, PendingCountsCalls, Working, Running
<1>13. QED
  BY <1>6, <1>8, <1>9, <1>10, <1>11, <1>12 DEF ScriptInvariant

\* A message without calls is posted while no error of the thread is under way.
LEMMA SayLemma ==
  ASSUME ScriptAssumption, ScriptInvariant, Working, NEW m \in AnyMessage, m.calls = {},
         m.type # "error", outbox' = Append(outbox, m), UNCHANGED <<events, inbox>>
  PROVE  /\ outbox' \in Seq(AnyMessage) /\ CallsApart'
         /\ Range(outbox') = Range(outbox) \cup {m} /\ Wire' = Wire \cup {m}
         /\ HasFatal(outbox') <=> HasFatal(outbox) \/ m.type = "fatal"
         /\ FatalFirst(events') /\ FatalFirst(outbox')
<1>1. /\ outbox' \in Seq(AnyMessage)
      /\ Range(outbox') = Range(outbox) \cup {m} /\ Wire' = Wire \cup {m}
      /\ Apart(outbox') /\ Apart(events')
      /\ \A k \in Range(outbox'), n \in Range(events') : k.calls \cap n.calls = {}
      /\ HasFatal(outbox') <=> HasFatal(outbox) \/ m.type = "fatal"
      /\ FatalFirst(outbox) /\ (m.type # "error" \/ HasFatal(outbox)) => FatalFirst(outbox')
  BY PostedOne
<1>2. \A n \in Wire : n.type # "error"
  BY DEF ScriptInvariant, MessagesTrue, IsTrue, Working
<1>3. FatalFirst(outbox) /\ FatalFirst(events)
  <2>1. outbox \in Seq(AnyMessage) /\ events \in Seq(AnyMessage)
    BY DEF ScriptInvariant, TypeOK
  <2>2. /\ DOMAIN outbox = 1 .. Len(outbox) /\ DOMAIN events = 1 .. Len(events)
        /\ Range(outbox) = {outbox[i] : i \in 1 .. Len(outbox)}
        /\ Range(events) = {events[i] : i \in 1 .. Len(events)}
    BY <2>1, LenProperties, RangeEquality
  <2>3. QED
    BY <1>2, <2>2 DEF FatalFirst, Wire
<1>4. QED
  BY <1>1, <1>3 DEF ScriptInvariant, CallsApart

\* The parts that a step of the worker disturbs only when it answers a call.
LEMMA WorkerFrame ==
  ASSUME ScriptAssumption, ScriptInvariant, Working, HostUnchanged
  PROVE  PendingCountsCalls' /\ Verdicts'
BY RunningVerdicts DEF ScriptInvariant, PendingCountsCalls, Working, Running,
  HostUnchanged, drain

\* A log line.
LEMMA PostEventLemma ==
  ASSUME ScriptAssumption, ScriptInvariant, PostEvent
  PROVE  ScriptInvariant'
<1> DEFINE M == Message("event", {}, None)
<1>1. M \in AnyMessage /\ M.type = "event" /\ M.calls = {}
  BY MessageTypes
<1>2. /\ Working /\ outbox' = Append(outbox, M)
      /\ UNCHANGED <<thread, waiter, sticky, finished, inbox, events, reply, pending, fatal,
                     reported, cancelled, deadline, aborted, outcome>>
  BY <1>1, Posting DEF PostEvent, Post, ScriptInvariant, HostUnchanged, drain
<1> HIDE DEF M
<1>3. /\ outbox' \in Seq(AnyMessage) /\ CallsApart'
      /\ Range(outbox') = Range(outbox) \cup {M} /\ Wire' = Wire \cup {M}
      /\ HasFatal(outbox') <=> HasFatal(outbox) \/ M.type = "fatal"
      /\ FatalFirst(events') /\ FatalFirst(outbox')
  BY <1>1, <1>2, SayLemma
<1>4. TypeOK'
  BY <1>2, <1>3 DEF ScriptInvariant, TypeOK, PostEvent
<1>5. MessagesTrue'
  BY <1>1, <1>2, <1>3 DEF ScriptInvariant, MessagesTrue, WellFormed, IsTrue,
    NothingPending
<1>6. FatalKnown' /\ CallsOfPlace'
  BY <1>1, <1>2, <1>3 DEF ScriptInvariant, FatalKnown, CallsOfPlace, HasFatal
<1>7. PendingCountsCalls' /\ Verdicts'
  BY <1>2, WorkerFrame DEF PostEvent
<1>8. QED
  BY <1>3, <1>4, <1>5, <1>6, <1>7 DEF ScriptInvariant

\* makePolicyError() marks the first fatal error and posts it.
LEMMA BreakPolicyLemma ==
  ASSUME ScriptAssumption, ScriptInvariant, BreakPolicy
  PROVE  ScriptInvariant'
<1> DEFINE M == Fatal(WorkerMade)
<1>1. /\ M \in AnyMessage /\ M.type = "fatal" /\ M.calls = {} /\ M.error = WorkerMade
      /\ WorkerMade \in PolicyError /\ None \notin PolicyError
  BY MessageTypes DEF Fatal, PolicyError, ScriptAssumption, WorkerMade, None, OutOfMemory
<1>2. /\ Working /\ ~finished /\ sticky = None /\ sticky' = WorkerMade
      /\ outbox' = Append(outbox, M)
      /\ UNCHANGED <<thread, waiter, finished, logged, inbox, events, reply, pending, fatal,
                     reported, cancelled, deadline, aborted, outcome>>
  BY <1>1, Posting DEF BreakPolicy, Post, ScriptInvariant, HostUnchanged, drain
<1> HIDE DEF M
<1>3. /\ outbox' \in Seq(AnyMessage) /\ CallsApart'
      /\ Range(outbox') = Range(outbox) \cup {M} /\ Wire' = Wire \cup {M}
      /\ HasFatal(outbox') <=> HasFatal(outbox) \/ M.type = "fatal"
      /\ FatalFirst(events') /\ FatalFirst(outbox')
  BY <1>1, <1>2, SayLemma
<1>4. TypeOK'
  BY <1>1, <1>2, <1>3 DEF ScriptInvariant, TypeOK
<1>5. MessagesTrue'
  BY <1>1, <1>2, <1>3 DEF ScriptInvariant, MessagesTrue, WellFormed, IsTrue
<1>6. FatalKnown' /\ CallsOfPlace'
  BY <1>1, <1>2, <1>3 DEF ScriptInvariant, FatalKnown, CallsOfPlace, HasFatal, Working
<1>7. PendingCountsCalls' /\ Verdicts'
  BY <1>2, WorkerFrame DEF BreakPolicy
<1>8. QED
  BY <1>3, <1>4, <1>5, <1>6, <1>7 DEF ScriptInvariant

\* The script returns or throws.  When it succeeds nothing is pending; when it
\* leaves calls behind, that is a fatal error, posted before the result.
LEMMA FinishLemma ==
  ASSUME ScriptAssumption, ScriptInvariant, Finish
  PROVE  ScriptInvariant'
<1>1. /\ Working /\ ~finished /\ finished' = TRUE
      /\ UNCHANGED <<thread, waiter, logged, inbox, events, reply, pending, fatal,
                     reported, cancelled, deadline, aborted, outcome>>
      /\ UNCHANGED NothingPending
  BY DEF Finish, HostUnchanged, drain, NothingPending
<1>2. PendingCountsCalls' /\ Verdicts'
  BY <1>1, WorkerFrame DEF Finish
<1>3. None \notin PolicyError /\ "thrown" \notin PolicyError /\ WorkerMade \in PolicyError
  BY DEF PolicyError, ScriptAssumption, WorkerMade, None, OutOfMemory
<1>4. ASSUME NEW e \in PolicyError \cup {None, "thrown"}, Post(<<Result(e)>>),
             UNCHANGED sticky, e \in PolicyError => e = sticky,
             e = None => sticky = None /\ NothingPending
      PROVE  ScriptInvariant'
  <2> DEFINE M == Result(e)
  <2>1. /\ M \in AnyMessage /\ M.type = "result" /\ M.calls = {} /\ M.error = e
        /\ outbox' = Append(outbox, M)
    BY <1>4, MessageTypes, Posting DEF Result, Post, ScriptInvariant
  <2> HIDE DEF M
  <2>2. /\ outbox' \in Seq(AnyMessage) /\ CallsApart'
        /\ Range(outbox') = Range(outbox) \cup {M} /\ Wire' = Wire \cup {M}
        /\ HasFatal(outbox') <=> HasFatal(outbox) \/ M.type = "fatal"
        /\ FatalFirst(events') /\ FatalFirst(outbox')
    BY <1>1, <2>1, SayLemma
  <2>3. TypeOK'
    BY <1>1, <1>4, <2>2 DEF ScriptInvariant, TypeOK
  <2>4. MessagesTrue'
    BY <1>1, <1>3, <1>4, <2>1, <2>2 DEF ScriptInvariant, MessagesTrue, WellFormed, IsTrue
  <2>5. FatalKnown' /\ CallsOfPlace'
    BY <1>1, <1>4, <2>1, <2>2 DEF ScriptInvariant, FatalKnown, CallsOfPlace, HasFatal,
      Working
  <2>6. QED
    BY <1>2, <2>2, <2>3, <2>4, <2>5 DEF ScriptInvariant
<1>5. CASE sticky = None /\ sticky' = WorkerMade
           /\ Post(<<Fatal(WorkerMade), Result(WorkerMade)>>)
  <2> DEFINE M == Fatal(WorkerMade)
             N == Result(WorkerMade)
             mid == Append(outbox, M)
  <2>1. /\ M \in AnyMessage /\ M.type = "fatal" /\ M.calls = {} /\ M.error = WorkerMade
        /\ N \in AnyMessage /\ N.type = "result" /\ N.calls = {} /\ N.error = WorkerMade
    BY <1>3, MessageTypes DEF Fatal, Result
  <2>2. outbox' = Append(mid, N)
    BY <1>5, <2>1, Posting DEF Post, ScriptInvariant
  <2> HIDE DEF M, N
  <2>3. outbox \in Seq(AnyMessage) /\ mid \in Seq(AnyMessage) /\ outbox' \in Seq(AnyMessage)
    BY <2>1, <2>2, AppendProperties DEF ScriptInvariant, TypeOK
  <2>4. /\ Range(mid) = Range(outbox) \cup {M}
        /\ Range(outbox') = Range(outbox) \cup {M, N}
    <3>1. Range(mid) = Range(outbox) \cup {M}
      BY <2>1, <2>3, RangeAppend
    <3>2. Range(outbox') = Range(mid) \cup {N}
      <4> HIDE DEF mid
      <4>1. QED
        BY <2>1, <2>2, <2>3, RangeAppend
    <3>3. QED
      BY <3>1, <3>2
  <2>5. Apart(outbox')
    <3>1. Apart(mid)
      BY <2>1, <2>3, ApartAppend DEF ScriptInvariant, CallsApart
    <3> HIDE DEF mid
    <3>2. QED
      BY <2>1, <2>2, <2>3, <3>1, ApartAppend
  <2>6. FatalFirst(outbox') /\ FatalFirst(events)
    <3>1. \A n \in Wire : n.type # "error"
      BY <1>1 DEF ScriptInvariant, MessagesTrue, IsTrue, Working
    <3>2. events \in Seq(AnyMessage)
      BY DEF ScriptInvariant, TypeOK
    <3>3. /\ DOMAIN events = 1 .. Len(events) /\ DOMAIN outbox' = 1 .. Len(outbox')
          /\ Range(events) = {events[i] : i \in 1 .. Len(events)}
          /\ Range(outbox') = {outbox'[i] : i \in 1 .. Len(outbox')}
      BY <2>3, <3>2, LenProperties, RangeEquality
    <3>4. QED
      BY <2>1, <2>4, <3>1, <3>3 DEF FatalFirst, Wire
  <2>7. Wire' = Wire \cup {M, N}
    BY <1>1, <2>4 DEF Wire
  <2>8. CallsApart'
    BY <1>1, <2>1, <2>4, <2>5 DEF ScriptInvariant, CallsApart
  <2>9. TypeOK'
    BY <1>1, <1>3, <1>5, <2>3 DEF ScriptInvariant, TypeOK
  <2>10. MessagesTrue'
    BY <1>1, <1>3, <1>5, <2>1, <2>4, <2>7 DEF ScriptInvariant, MessagesTrue, WellFormed,
      IsTrue
  <2>11. FatalKnown' /\ CallsOfPlace'
    BY <1>1, <1>5, <2>1, <2>4, <2>6, <2>7 DEF ScriptInvariant, FatalKnown, CallsOfPlace,
      HasFatal, Working
  <2>12. QED
    BY <1>2, <2>8, <2>9, <2>10, <2>11 DEF ScriptInvariant
<1>6. sticky \in PolicyError \cup {None}
  BY DEF ScriptInvariant, TypeOK
<1>7. CASE sticky = None /\ NothingPending /\ Post(<<Result(None)>>) /\ UNCHANGED sticky
  BY <1>3, <1>4, <1>7
<1>8. CASE sticky = None /\ Post(<<Result("thrown")>>) /\ UNCHANGED sticky
  <2>1. "thrown" # None
    BY DEF None
  <2>2. QED
    BY <1>3, <1>4, <1>8, <2>1
<1>9. CASE sticky # None /\ Post(<<Result(sticky)>>) /\ UNCHANGED sticky
  BY <1>4, <1>6, <1>9
<1>10. QED
  BY <1>5, <1>7, <1>8, <1>9 DEF Finish

\* The answer of a call reaches the script; a policy error is marked on the way.
LEMMA ReceiveLemma ==
  ASSUME ScriptAssumption, ScriptInvariant, Receive
  PROVE  ScriptInvariant'
<1> DEFINE c == Head(inbox)
           first == IF sticky = None THEN c ELSE sticky
           M == Fatal(first)
<1>1. /\ Working /\ inbox # <<>> /\ inbox \in Seq(Rpc) /\ inbox' = Tail(inbox)
      /\ waiter' = [waiter EXCEPT ![c] = IF reply[c] = "ok" THEN "resolved" ELSE "rejected"]
      /\ UNCHANGED <<thread, finished, logged, events, reply, pending, fatal, reported,
                     cancelled, deadline, aborted, outcome>>
  BY DEF Receive, HostUnchanged, drain, ScriptInvariant, TypeOK
<1>2. /\ c \in Rpc /\ c \in Range(inbox) /\ c \notin Range(inbox') /\ inbox' \in Seq(Rpc)
      /\ Range(inbox') \subseteq Range(inbox) /\ Distinct(inbox')
  BY <1>1, HeadTailProperties, RangeTail, DistinctTail DEF ScriptInvariant, CallsApart
<1>3. /\ waiter[c] = "waiting" /\ reply[c] \notin {"none", "running"}
      /\ reply \in [Rpc -> {"none", "running", "ok", "error", "policy", "abort"}]
      /\ waiter \in [Rpc -> {"absent", "new", "waiting", "resolved", "rejected"}]
      /\ sticky \in PolicyError \cup {None} /\ None \notin PolicyError /\ c \in PolicyError
  BY <1>2 DEF ScriptInvariant, CallsOfPlace, TypeOK, ScriptAssumption, PolicyError,
    None, WorkerMade, OutOfMemory
<1>4. ~NothingPending
  BY <1>2, <1>3 DEF NothingPending
<1>5. /\ first \in PolicyError
      /\ M \in AnyMessage /\ M.type = "fatal" /\ M.calls = {} /\ M.error = first
  <2>1. first \in PolicyError
    BY <1>3
  <2> HIDE DEF first
  <2>2. QED
    BY <2>1, MessageTypes DEF Fatal
<1>6. \/ reply[c] = "policy" /\ sticky' = first /\ outbox' = Append(outbox, M)
      \/ reply[c] # "policy" /\ UNCHANGED <<sticky, outbox>>
  <2>1. Post(<<M>>) => outbox' = Append(outbox, M)
    BY <1>5, Posting DEF Post, ScriptInvariant
  <2>2. QED
    BY <2>1 DEF Receive
<1> HIDE DEF M
<1>7. /\ sticky' # None \/ (sticky' = sticky /\ reply[c] # "policy")
      /\ sticky = None \/ sticky' = sticky
      /\ sticky' = first \/ sticky' = sticky
  BY <1>3, <1>6
<1> HIDE DEF c, first
<1>8. \A m \in Wire : c \notin m.calls
  BY <1>3 DEF ScriptInvariant, CallsOfPlace
<1>9. /\ \A d \in Rpc \ {c} : waiter'[d] = waiter[d]
      /\ waiter'[c] = IF reply[c] = "ok" THEN "resolved" ELSE "rejected"
      /\ waiter' \in [Rpc -> {"absent", "new", "waiting", "resolved", "rejected"}]
  BY <1>1, <1>2, <1>3
<1>10. PendingCountsCalls' /\ Verdicts'
  BY <1>1, WorkerFrame DEF Receive
<1>11. /\ \A d \in Range(inbox') :
            waiter'[d] = "waiting" /\ reply'[d] \notin {"none", "running"}
       /\ \A d \in Rpc :
            /\ waiter'[d] \in {"absent", "new"} => reply'[d] = "none"
            /\ reply'[d] = "running" => waiter'[d] = "waiting"
            /\ waiter'[d] = "resolved" => reply'[d] = "ok"
            /\ waiter'[d] = "rejected" => reply'[d] \in {"error", "policy", "abort"}
            /\ waiter'[d] = "rejected" /\ reply'[d] = "policy" => sticky' # None
       /\ \A d \in Cleanup : waiter'[d] = "absent" <=> waiter'[panelOf[d]] = "absent"
  <2>1. Range(inbox) \subseteq Rpc
    BY WireTypes DEF ScriptInvariant
  <2>2. ASSUME NEW d \in Range(inbox')
        PROVE  waiter'[d] = "waiting" /\ reply'[d] \notin {"none", "running"}
    BY <1>1, <1>2, <1>9, <2>1 DEF ScriptInvariant, CallsOfPlace
  <2>3. ASSUME NEW d \in Rpc
        PROVE  /\ waiter'[d] \in {"absent", "new"} => reply'[d] = "none"
               /\ reply'[d] = "running" => waiter'[d] = "waiting"
               /\ waiter'[d] = "resolved" => reply'[d] = "ok"
               /\ waiter'[d] = "rejected" => reply'[d] \in {"error", "policy", "abort"}
               /\ waiter'[d] = "rejected" /\ reply'[d] = "policy" => sticky' # None
    <3>1. CASE d = c
      BY <1>1, <1>3, <1>7, <1>9, <3>1
    <3>2. CASE d # c
      BY <1>1, <1>7, <1>9, <3>2 DEF ScriptInvariant, CallsOfPlace
    <3>3. QED
      BY <3>1, <3>2
  <2>4. \A d \in Cleanup : d \in Rpc /\ panelOf[d] \in Rpc
    BY DEF ScriptAssumption, Rpc
  <2>5. \A d \in Cleanup : waiter'[d] = "absent" <=> waiter'[panelOf[d]] = "absent"
    BY <1>3, <1>9, <2>4 DEF ScriptInvariant, CallsOfPlace
  <2>6. QED
    BY <2>2, <2>3, <2>5
<1>12. CASE UNCHANGED <<sticky, outbox>>
  <2>1. TypeOK'
    BY <1>1, <1>2, <1>9, <1>12 DEF ScriptInvariant, TypeOK
  <2>2. MessagesTrue'
    BY <1>1, <1>4, <1>12 DEF ScriptInvariant, MessagesTrue, WellFormed, IsTrue, Wire
  <2>3. FatalKnown' /\ CallsApart'
    BY <1>1, <1>2, <1>12 DEF ScriptInvariant, FatalKnown, CallsApart, HasFatal
  <2>4. \A m \in Wire' : \A d \in m.calls : waiter'[d] = "waiting" /\ reply'[d] = "none"
    BY <1>1, <1>8, <1>9, <1>12, WireTypes DEF ScriptInvariant, CallsOfPlace, Wire,
      AnyMessage
  <2>5. CallsOfPlace'
    BY <1>11, <2>4 DEF CallsOfPlace
  <2>6. QED
    BY <1>10, <2>1, <2>2, <2>3, <2>5 DEF ScriptInvariant
<1>13. CASE sticky' = first /\ outbox' = Append(outbox, M)
  <2>1. \A n \in Wire : n.calls \cap M.calls = {}
    BY <1>5
  <2>2. /\ outbox' \in Seq(AnyMessage)
        /\ Range(outbox') = Range(outbox) \cup {M} /\ Wire' = Wire \cup {M}
        /\ Apart(outbox') /\ Apart(events')
        /\ \A k \in Range(outbox'), n \in Range(events') : k.calls \cap n.calls = {}
        /\ HasFatal(outbox') <=> HasFatal(outbox) \/ M.type = "fatal"
        /\ FatalFirst(outbox) /\ (M.type # "error" \/ HasFatal(outbox)) => FatalFirst(outbox')
    BY <1>1, <1>5, <1>13, <2>1, PostedOne
  <2>3. TypeOK'
    BY <1>1, <1>2, <1>5, <1>9, <1>13, <2>2 DEF ScriptInvariant, TypeOK
  <2>4. MessagesTrue'
    BY <1>1, <1>3, <1>4, <1>5, <1>7, <1>13, <2>2 DEF ScriptInvariant, MessagesTrue,
      WellFormed, IsTrue
  <2>5. CallsApart'
    BY <1>2, <2>2 DEF CallsApart
  <2>6. \A m \in Wire' : \A d \in m.calls : waiter'[d] = "waiting" /\ reply'[d] = "none"
    BY <1>1, <1>5, <1>8, <1>9, <2>2, WireTypes DEF ScriptInvariant, CallsOfPlace,
      AnyMessage
  <2>7. CallsOfPlace'
    BY <1>11, <2>6 DEF CallsOfPlace
  <2>8. \A n \in Wire : n.type # "error"
    BY <1>1 DEF ScriptInvariant, MessagesTrue, IsTrue, Working
  <2>9. FatalFirst(events') /\ FatalFirst(outbox')
    <3>1. outbox' \in Seq(AnyMessage) /\ events' \in Seq(AnyMessage)
      BY <2>3 DEF TypeOK
    <3>2. /\ DOMAIN outbox' = 1 .. Len(outbox') /\ DOMAIN events' = 1 .. Len(events')
          /\ Range(outbox') = {outbox'[i] : i \in 1 .. Len(outbox')}
          /\ Range(events') = {events'[i] : i \in 1 .. Len(events')}
      BY <3>1, LenProperties, RangeEquality
    <3>3. QED
      BY <1>5, <2>2, <2>8, <3>2 DEF FatalFirst, Wire
  <2>10. FatalKnown'
    BY <1>1, <1>3, <1>5, <1>7, <1>13, <2>2, <2>9 DEF ScriptInvariant, FatalKnown,
      HasFatal, Working
  <2>11. QED
    BY <1>10, <2>3, <2>4, <2>5, <2>7, <2>10 DEF ScriptInvariant
<1>14. QED
  BY <1>6, <1>12, <1>13

\* The script hangs.
LEMMA HangLemma ==
  ASSUME ScriptAssumption, ScriptInvariant, Hang
  PROVE  ScriptInvariant'
<1>1. /\ Working /\ thread' = "hung"
      /\ UNCHANGED <<waiter, sticky, finished, logged, outbox, inbox, events, reply, pending,
                     fatal, reported, cancelled, deadline, aborted, outcome>>
  BY DEF Hang, HostUnchanged, drain
<1>2. TypeOK' /\ CallsApart' /\ CallsOfPlace' /\ FatalKnown'
  BY <1>1 DEF ScriptInvariant, TypeOK, CallsApart, CallsOfPlace, FatalKnown, HasFatal,
    Working, Wire
<1>3. MessagesTrue'
  BY <1>1 DEF ScriptInvariant, MessagesTrue, WellFormed, IsTrue, NothingPending, Wire,
    Working
<1>4. PendingCountsCalls' /\ Verdicts'
  BY <1>1, WorkerFrame DEF Hang
<1>5. QED
  BY <1>2, <1>3, <1>4 DEF ScriptInvariant

\* The thread's last words go into its port.
LEMMA LastWords ==
  ASSUME NEW s \in Seq(AnyMessage), NEW m \in AnyMessage, m.calls = {}, Apart(s)
  PROVE  LET t == Append(s, m)
         IN  /\ t \in Seq(AnyMessage) /\ Apart(t)
             /\ Range(t) = Range(s) \cup {m}
             /\ (FatalFirst(s) /\ (m.type # "error" \/ HasFatal(s))) => FatalFirst(t)
             /\ HasFatal(s) => HasFatal(t)
<1>1. Range(Append(s, m)) = Range(s) \cup {m} /\ Append(s, m) \in Seq(AnyMessage)
  BY RangeAppend, AppendProperties
<1>2. QED
  BY <1>1, ApartAppend, FatalAppend DEF HasFatal

\* The thread ends: an error and its exit are posted, its exit alone, or nothing
\* when it was dead.
LEMMA DieLemma ==
  ASSUME ScriptAssumption, ScriptInvariant, Die \/ Abort
  PROVE  ScriptInvariant'
<1>1. /\ outcome = "running" /\ thread' = "dead"
      /\ UNCHANGED <<waiter, sticky, finished, logged, inbox, events, reply, pending, fatal,
                     reported, deadline, outcome>>
      /\ cancelled' \in BOOLEAN /\ aborted' \in BOOLEAN
  BY DEF Die, Abort, HostUnchanged, drain, Running, ScriptInvariant, TypeOK
<1>2. PendingCountsCalls' /\ Verdicts'
  BY <1>1, RunningVerdicts DEF ScriptInvariant, PendingCountsCalls, Running
<1>3. /\ Exit \in AnyMessage /\ Exit.type = "exit" /\ Exit.calls = {}
      /\ \A e \in {OutOfMemory, "crash"} :
           LET m == Message("error", {}, e)
           IN  m \in AnyMessage /\ m.type = "error" /\ m.error = e /\ m.calls = {}
  BY MessageTypes DEF Exit, PolicyError
<1>4. /\ outbox \in Seq(AnyMessage) /\ Apart(outbox)
      /\ sticky # None /\ fatal = None =>
           (HasFatal(events) \/ (HasFatal(outbox) /\ FatalFirst(outbox)))
  BY DEF ScriptInvariant, TypeOK, CallsApart, FatalKnown
<1>5. /\ outbox' \in Seq(AnyMessage) /\ Apart(outbox')
      /\ Range(outbox) \subseteq Range(outbox')
      /\ \A m \in Range(outbox') \ Range(outbox) :
           /\ m \in AnyMessage /\ m.calls = {}
           /\ m.type = "exit" \/ (m.type = "error" /\ m.error \in {OutOfMemory, "crash"})
      /\ HasFatal(outbox) => HasFatal(outbox')
      /\ HasFatal(outbox) /\ FatalFirst(outbox) => FatalFirst(outbox')
  <2>1. CASE outbox' = Append(outbox, Exit)
    BY <1>3, <1>4, <2>1, LastWords
  <2>2. CASE outbox' = outbox
    BY <1>4, <2>2
  <2>3. ASSUME NEW e \in {OutOfMemory, "crash"}, Post(<<Message("error", {}, e), Exit>>)
        PROVE  /\ outbox' \in Seq(AnyMessage) /\ Apart(outbox')
               /\ Range(outbox) \subseteq Range(outbox')
               /\ \A m \in Range(outbox') \ Range(outbox) :
                    /\ m \in AnyMessage /\ m.calls = {}
                    /\ m.type = "exit" \/ (m.type = "error" /\ m.error \in {OutOfMemory, "crash"})
               /\ HasFatal(outbox) => HasFatal(outbox')
               /\ HasFatal(outbox) /\ FatalFirst(outbox) => FatalFirst(outbox')
    <3> DEFINE M == Message("error", {}, e)
               mid == Append(outbox, M)
    <3>1. M \in AnyMessage /\ M.type = "error" /\ M.error = e /\ M.calls = {}
      BY <1>3
    <3>2. outbox' = Append(mid, Exit)
      BY <1>3, <2>3, <3>1, Posting DEF Post, ScriptInvariant
    <3> HIDE DEF M
    <3>3. /\ mid \in Seq(AnyMessage) /\ Apart(mid) /\ Range(mid) = Range(outbox) \cup {M}
          /\ HasFatal(outbox) => HasFatal(mid)
          /\ HasFatal(outbox) /\ FatalFirst(outbox) => FatalFirst(mid)
      BY <1>4, <3>1, LastWords
    <3> HIDE DEF mid
    <3>4. /\ outbox' \in Seq(AnyMessage) /\ Apart(outbox')
          /\ Range(outbox') = Range(mid) \cup {Exit}
          /\ HasFatal(mid) => HasFatal(outbox')
          /\ FatalFirst(mid) => FatalFirst(outbox')
      BY <1>3, <3>2, <3>3, LastWords
    <3>5. QED
      BY <1>3, <3>1, <3>3, <3>4
  <2>4. CASE Post(<<Exit>>)
    BY <1>3, <2>1, <2>4, Posting DEF Post, ScriptInvariant
  <2>5. QED
    BY <2>1, <2>2, <2>3, <2>4 DEF Die, Abort
<1>6. Wire \subseteq Wire' /\ Wire' \ Wire \subseteq Range(outbox') \ Range(outbox)
  BY <1>1, <1>5 DEF Wire
<1>7. TypeOK'
  BY <1>1, <1>5 DEF ScriptInvariant, TypeOK
<1>8. MessagesTrue'
  <2>1. ASSUME NEW m \in Wire' PROVE (WellFormed(m) /\ IsTrue(m))'
    <3>1. CASE m \in Wire
      BY <1>1, <3>1 DEF ScriptInvariant, MessagesTrue, WellFormed, IsTrue, NothingPending
    <3>2. CASE m \notin Wire
      BY <1>1, <1>5, <1>6, <2>1, <3>2 DEF WellFormed, IsTrue
    <3>3. QED
      BY <3>1, <3>2
  <2>2. QED
    BY <1>5, <2>1 DEF ScriptInvariant, MessagesTrue
<1>9. FatalKnown'
  BY <1>1, <1>4, <1>5 DEF ScriptInvariant, FatalKnown, HasFatal
<1>10. CallsApart'
  BY <1>1, <1>5 DEF ScriptInvariant, CallsApart
<1>11. CallsOfPlace'
  BY <1>1, <1>5, <1>6 DEF ScriptInvariant, CallsOfPlace
<1>12. QED
  BY <1>2, <1>7, <1>8, <1>9, <1>10, <1>11 DEF ScriptInvariant

----------------------------------------------------------------------------
(***************************************************************************)
(* The host's steps.                                                       *)
(***************************************************************************)
\* A message moves from the port into the queue.
LEMMA DeliverLemma ==
  ASSUME ScriptAssumption, ScriptInvariant, Deliver
  PROVE  ScriptInvariant'
<1> DEFINE m == Head(outbox)
<1>1. /\ outcome = "running" /\ outbox # <<>>
      /\ events' = Append(events, m) /\ outbox' = Tail(outbox)
      /\ UNCHANGED <<thread, waiter, sticky, finished, logged, inbox, reply, pending, fatal,
                     reported, cancelled, deadline, aborted, outcome>>
  BY DEF Deliver, Running, WorkerUnchanged, worker, drain
<1>2. outbox \in Seq(AnyMessage) /\ events \in Seq(AnyMessage)
  BY DEF ScriptInvariant, TypeOK
<1>3. /\ m \in AnyMessage /\ m \in Range(outbox) /\ outbox' \in Seq(AnyMessage)
      /\ Range(outbox) = {m} \cup Range(outbox')
      /\ Apart(outbox') /\ \A n \in Range(outbox') : n.calls \cap m.calls = {}
  BY <1>1, <1>2, HeadTailProperties, RangeTail, ApartTail DEF ScriptInvariant, CallsApart
<1>4. /\ FatalFirst(outbox) /\ m.type # "fatal" => FatalFirst(outbox') /\ m.type # "error"
  BY <1>1, <1>2, FatalTail
<1> HIDE DEF m
<1>5. /\ events' \in Seq(AnyMessage) /\ Range(events') = Range(events) \cup {m}
  BY <1>1, <1>2, <1>3, RangeAppend, AppendProperties
<1>6. Apart(events')
  BY <1>1, <1>2, <1>3, ApartAppend DEF ScriptInvariant, CallsApart
<1>7. Wire' = Wire
  BY <1>3, <1>5 DEF Wire
<1>8. TypeOK'
  BY <1>1, <1>3, <1>5 DEF ScriptInvariant, TypeOK
<1>9. MessagesTrue'
  BY <1>1, <1>3, <1>7 DEF ScriptInvariant, MessagesTrue, WellFormed, IsTrue,
    NothingPending
<1>10. CallsApart'
  BY <1>1, <1>3, <1>5, <1>6 DEF ScriptInvariant, CallsApart
<1>11. CallsOfPlace'
  BY <1>1, <1>7 DEF ScriptInvariant, CallsOfPlace
<1>12. FatalKnown'
  <2>1. /\ FatalFirst(events) /\ (m.type # "error" \/ HasFatal(events)) => FatalFirst(events')
        /\ HasFatal(events') <=> HasFatal(events) \/ m.type = "fatal"
        /\ HasFatal(outbox) => HasFatal(outbox') \/ m.type = "fatal"
    BY <1>1, <1>2, <1>3, <1>5, FatalAppend DEF HasFatal
  <2>2. ASSUME sticky # None, fatal = None
        PROVE  /\ HasFatal(events') \/ HasFatal(outbox')
               /\ FatalFirst(events')
               /\ HasFatal(events') \/ FatalFirst(outbox')
    BY <1>4, <2>1, <2>2 DEF ScriptInvariant, FatalKnown
  <2>3. QED
    BY <1>1, <2>2 DEF ScriptInvariant, FatalKnown, HasFatal
<1>13. PendingCountsCalls'
  <2>1. m # RpcSettled
    BY <1>3 DEF ScriptInvariant, MessagesTrue, RpcSettled, Message
  <2>2. Cardinality(SettledIn(events')) = Cardinality(SettledIn(events)) + 0
    BY <1>1, <1>2, <1>3, <2>1, SettledAppend
  <2>3. Cardinality(SettledIn(events')) = Cardinality(SettledIn(events))
    BY <1>2, <2>2, SettledFinite
  <2>4. QED
    BY <1>1, <2>3 DEF ScriptInvariant, PendingCountsCalls, SettledIn, Running
<1>14. QED
  BY <1>1, <1>8, <1>9, <1>10, <1>11, <1>12, <1>13, RunningVerdicts DEF ScriptInvariant

\* An event of the host's own is queued.
LEMMA Queued ==
  ASSUME ScriptInvariant, NEW m \in AnyMessage, m.calls = {}, m.type \notin {"error", "fatal"},
         events' = Append(events, m), UNCHANGED outbox
  PROVE  /\ events' \in Seq(AnyMessage) /\ Wire' = Wire \cup {m}
         /\ Apart(outbox') /\ Apart(events')
         /\ \A k \in Range(outbox'), n \in Range(events') : k.calls \cap n.calls = {}
         /\ FatalFirst(events) => FatalFirst(events')
         /\ HasFatal(events') <=> HasFatal(events)
<1>1. outbox \in Seq(AnyMessage) /\ events \in Seq(AnyMessage)
  BY DEF ScriptInvariant, TypeOK
<1>2. events' \in Seq(AnyMessage) /\ Range(events') = Range(events) \cup {m}
  BY <1>1, RangeAppend, AppendProperties
<1>3. Apart(events') /\ (FatalFirst(events) => FatalFirst(events'))
  BY <1>1, ApartAppend, FatalAppend DEF ScriptInvariant, CallsApart
<1>4. QED
  BY <1>2, <1>3 DEF ScriptInvariant, CallsApart, Wire, HasFatal

\* A call that ran has settled: its reply is posted and its settlement queued.
LEMMA SettleLemma ==
  ASSUME ScriptAssumption, ScriptInvariant, NEW c \in Rpc,
         NEW how \in {"ok", "error", "policy", "abort"}, Settle(c, how)
  PROVE  ScriptInvariant'
<1>1. /\ outcome = "running" /\ reply[c] = "running"
      /\ reply' = [reply EXCEPT ![c] = how]
      /\ inbox' \in {inbox, Append(inbox, c)}
      /\ events' = Append(events, RpcSettled)
      /\ UNCHANGED <<thread, waiter, sticky, finished, logged, outbox, pending, fatal,
                     reported, cancelled, deadline, aborted, outcome>>
  BY DEF Settle, Running, WorkerUnchanged, worker, drain
<1>2. RpcSettled \in AnyMessage /\ RpcSettled.type = "rpcSettled" /\ RpcSettled.calls = {}
  BY MessageTypes DEF RpcSettled
<1>3. /\ events' \in Seq(AnyMessage) /\ Wire' = Wire \cup {RpcSettled}
      /\ Apart(outbox') /\ Apart(events')
      /\ \A k \in Range(outbox'), n \in Range(events') : k.calls \cap n.calls = {}
      /\ FatalFirst(events) => FatalFirst(events')
      /\ HasFatal(events') <=> HasFatal(events)
  BY <1>1, <1>2, Queued
<1>4. /\ inbox \in Seq(Rpc) /\ events \in Seq(AnyMessage) /\ pending \in Nat
      /\ reply \in [Rpc -> {"none", "running", "ok", "error", "policy", "abort"}]
      /\ waiter[c] = "waiting" /\ c \notin Range(inbox)
  BY <1>1 DEF ScriptInvariant, TypeOK, CallsOfPlace
<1>5. inbox' \in Seq(Rpc) /\ Distinct(inbox') /\ Range(inbox') \subseteq Range(inbox) \cup {c}
  <2>1. CASE inbox' = Append(inbox, c)
    BY <1>4, <2>1, AppendProperties, RangeAppend, DistinctAppend DEF ScriptInvariant,
      CallsApart
  <2>2. CASE inbox' = inbox
    BY <1>4, <2>2 DEF ScriptInvariant, CallsApart
  <2>3. QED
    BY <1>1, <2>1, <2>2
<1>6. /\ \A d \in Rpc \ {c} : reply'[d] = reply[d]
      /\ reply'[c] = how
      /\ reply' \in [Rpc -> {"none", "running", "ok", "error", "policy", "abort"}]
  BY <1>1, <1>4
<1>7. TypeOK'
  BY <1>1, <1>3, <1>5, <1>6 DEF ScriptInvariant, TypeOK
<1>8. MessagesTrue'
  BY <1>1, <1>2, <1>3 DEF ScriptInvariant, MessagesTrue, WellFormed, IsTrue,
    NothingPending
<1>9. FatalKnown' /\ CallsApart'
  BY <1>1, <1>3, <1>5 DEF ScriptInvariant, FatalKnown, CallsApart, HasFatal
<1>10. CallsOfPlace'
  <2>1. ASSUME NEW m \in Wire', NEW d \in m.calls
        PROVE  waiter'[d] = "waiting" /\ reply'[d] = "none"
    <3>1. m \in Wire /\ d \in Rpc /\ d # c
      BY <1>1, <1>2, <1>3, WireTypes DEF ScriptInvariant, CallsOfPlace, AnyMessage
    <3>2. QED
      BY <1>1, <1>6, <3>1 DEF ScriptInvariant, CallsOfPlace
  <2>2. ASSUME NEW d \in Range(inbox')
        PROVE  waiter'[d] = "waiting" /\ reply'[d] \notin {"none", "running"}
    <3>1. CASE d = c
      BY <1>1, <1>4, <1>6, <3>1
    <3>2. CASE d # c
      BY <1>1, <1>5, <1>6, <3>2, WireTypes DEF ScriptInvariant, CallsOfPlace
    <3>3. QED
      BY <3>1, <3>2
  <2>3. ASSUME NEW d \in Rpc
        PROVE  /\ waiter'[d] \in {"absent", "new"} => reply'[d] = "none"
               /\ reply'[d] = "running" => waiter'[d] = "waiting"
               /\ waiter'[d] = "resolved" => reply'[d] = "ok"
               /\ waiter'[d] = "rejected" => reply'[d] \in {"error", "policy", "abort"}
               /\ (waiter'[d] = "rejected" /\ reply'[d] = "policy") => sticky' # None
    <3>1. CASE d = c
      BY <1>1, <1>4, <3>1
    <3>2. CASE d # c
      BY <1>1, <1>6, <3>2 DEF ScriptInvariant, CallsOfPlace
    <3>3. QED
      BY <3>1, <3>2
  <2>4. QED
    BY <1>1, <2>1, <2>2, <2>3 DEF ScriptInvariant, CallsOfPlace
<1>11. PendingCountsCalls'
  <2> DEFINE R == {d \in Rpc : reply[d] = "running"}
  <2>1. {d \in Rpc : reply'[d] = "running"} = R \ {c} /\ c \in R
    BY <1>1, <1>6
  <2>2. IsFiniteSet(R)
    BY FS_Subset DEF ScriptAssumption
  <2> HIDE DEF R
  <2>3. Cardinality(R \ {c}) = Cardinality(R) - 1 /\ Cardinality(R) \in Nat
    BY <2>1, <2>2, FS_RemoveElement, FS_CardinalityType
  <2>4. /\ Cardinality(SettledIn(events')) = Cardinality(SettledIn(events)) + 1
        /\ Cardinality(SettledIn(events)) \in Nat
    BY <1>1, <1>2, <1>4, SettledAppend, SettledFinite
  <2>5. pending = Cardinality(R) + Cardinality(SettledIn(events))
    BY <1>1 DEF ScriptInvariant, PendingCountsCalls, SettledIn, Running, R
  <2>6. pending' = Cardinality(R \ {c}) + Cardinality(SettledIn(events'))
    BY <1>1, <1>4, <2>3, <2>4, <2>5
  <2>7. QED
    BY <2>1, <2>6 DEF PendingCountsCalls, SettledIn
<1>12. QED
  BY <1>1, <1>7, <1>8, <1>9, <1>10, <1>11, RunningVerdicts DEF ScriptInvariant

\* The drain's deadline is over.
LEMMA DeadlineLemma ==
  ASSUME ScriptAssumption, ScriptInvariant, DeadlineFires
  PROVE  ScriptInvariant'
<1> DEFINE M == Message("fatalDeadline", {}, None)
<1>1. M \in AnyMessage /\ M.type = "fatalDeadline" /\ M.calls = {}
  BY MessageTypes
<1>2. /\ outcome = "running" /\ deadline = "armed" /\ deadline' = "fired"
      /\ events' = Append(events, M)
      /\ UNCHANGED <<thread, waiter, sticky, finished, logged, outbox, inbox, reply, pending,
                     fatal, reported, cancelled, aborted, outcome>>
  BY DEF DeadlineFires, Running, WorkerUnchanged, worker
<1>3. M # RpcSettled
  BY DEF RpcSettled, Message
<1> HIDE DEF M
<1>4. /\ events' \in Seq(AnyMessage) /\ Wire' = Wire \cup {M}
      /\ Apart(outbox') /\ Apart(events')
      /\ \A k \in Range(outbox'), n \in Range(events') : k.calls \cap n.calls = {}
      /\ FatalFirst(events) => FatalFirst(events')
      /\ HasFatal(events') <=> HasFatal(events)
  BY <1>1, <1>2, Queued
<1>5. TypeOK'
  BY <1>2, <1>4 DEF ScriptInvariant, TypeOK
<1>6. MessagesTrue'
  BY <1>1, <1>2, <1>4 DEF ScriptInvariant, MessagesTrue, WellFormed, IsTrue,
    NothingPending
<1>7. FatalKnown' /\ CallsApart'
  BY <1>2, <1>4 DEF ScriptInvariant, FatalKnown, CallsApart, HasFatal
<1>8. CallsOfPlace'
  BY <1>1, <1>2, <1>4 DEF ScriptInvariant, CallsOfPlace
<1>9. PendingCountsCalls'
  <2>1. events \in Seq(AnyMessage)
    BY DEF ScriptInvariant, TypeOK
  <2>2. Cardinality(SettledIn(events')) = Cardinality(SettledIn(events))
    BY <1>1, <1>2, <1>3, <2>1, SettledAppend, SettledFinite
  <2>3. QED
    BY <1>2, <2>2 DEF ScriptInvariant, PendingCountsCalls, SettledIn, Running
<1>10. QED
  BY <1>2, <1>5, <1>6, <1>7, <1>8, <1>9, RunningVerdicts DEF ScriptInvariant

\* When the number of calls that run is zero, none runs.
LEMMA NoneRuns ==
  ASSUME ScriptAssumption, ScriptInvariant, Running, pending = 0
  PROVE  \A c \in Rpc : reply[c] # "running"
<1> DEFINE R == {c \in Rpc : reply[c] = "running"}
<1>1. IsFiniteSet(R)
  BY FS_Subset DEF ScriptAssumption
<1>2. Cardinality(R) \in Nat /\ (Cardinality(R) = 0 => R = {})
  BY <1>1, FS_CardinalityType, FS_EmptySet
<1>3. events \in Seq(AnyMessage)
  BY DEF ScriptInvariant, TypeOK
<1>4. Cardinality(R) + Cardinality(SettledIn(events)) = 0
  BY DEF ScriptInvariant, PendingCountsCalls, SettledIn
<1>5. Cardinality(SettledIn(events)) \in Nat
  BY <1>3, SettledFinite
<1> HIDE DEF R
<1>6. R = {}
  BY <1>2, <1>4, <1>5
<1>7. QED
  BY <1>6 DEF R

\* The executor settles, and only its outcome changes: the verdict is to be true.
LEMMA OutcomeStep ==
  ASSUME ScriptAssumption, ScriptInvariant, outcome' \in Verdict, outcome' # "running", Verdicts',
         UNCHANGED <<thread, waiter, sticky, finished, logged, outbox, inbox, events, reply,
                     pending, fatal, reported, cancelled, deadline, aborted>>
  PROVE  ScriptInvariant'
<1>1. TypeOK' /\ CallsApart' /\ CallsOfPlace' /\ FatalKnown'
  BY DEF ScriptInvariant, TypeOK, CallsApart, CallsOfPlace, FatalKnown, HasFatal, Wire
<1>2. MessagesTrue' /\ PendingCountsCalls'
  BY DEF ScriptInvariant, MessagesTrue, WellFormed, IsTrue, NothingPending, Wire,
    PendingCountsCalls, Running
<1>3. QED
  BY <1>1, <1>2 DEF ScriptInvariant

\* A failure of the script that is no policy failure is a true verdict, but for a
\* stall, of which the watchdog has to be sure.
LEMMA PlainFailure ==
  ASSUME ScriptAssumption,
         outcome' \in {"thrown", "crash", "exit", "abort", "observer"}
  PROVE  Verdicts' /\ outcome' \in Verdict /\ outcome' # "running"
BY DEF ScriptAssumption, PolicyError, Verdicts, VerdictIsTrue, SuccessIsQuiet, None,
  Verdict, PolicyFailureNeverSucceeds, FirstFailureReported, FatalDrainsCalls,
  WaitingIsNotStalling, WorkerMade, OutOfMemory

\* A fatal error is a true verdict when the calls have settled or their time is up.
LEMMA FatalFailure ==
  ASSUME ScriptAssumption, ScriptInvariant, fatal # None, outcome' = fatal,
         UNCHANGED <<sticky, deadline, reply>>,
         deadline = "fired" \/ \A c \in Rpc : reply[c] # "running"
  PROVE  Verdicts' /\ outcome' \in Verdict /\ outcome' # "running"
<1>1. fatal \in PolicyError /\ fatal = IF sticky = None THEN OutOfMemory ELSE sticky
  BY DEF ScriptInvariant, TypeOK, FatalKnown
<1>2. "ok" \notin PolicyError /\ "stall" \notin PolicyError /\ "running" \notin PolicyError
  BY DEF ScriptAssumption, PolicyError, WorkerMade, OutOfMemory
<1>3. QED
  BY <1>1, <1>2 DEF Verdicts, VerdictIsTrue, SuccessIsQuiet, PolicyFailureNeverSucceeds,
    FirstFailureReported, FatalDrainsCalls, WaitingIsNotStalling, Verdict

\* The watchdog, and a drain that is over.
LEMMA EndLemma ==
  ASSUME ScriptAssumption, ScriptInvariant, WatchdogExpires \/ FailDrained
  PROVE  ScriptInvariant'
<1>1. /\ Running
      /\ UNCHANGED <<thread, waiter, sticky, finished, logged, outbox, inbox, events, reply,
                     pending, fatal, reported, cancelled, deadline, aborted>>
  BY DEF WatchdogExpires, FailDrained, WorkerUnchanged, worker, drain
<1>2. CASE FailDrained
  BY <1>1, <1>2, NoneRuns, FatalFailure, OutcomeStep DEF FailDrained, Drained
<1>3. CASE WatchdogExpires /\ outcome' = "abort"
  BY <1>1, <1>3, PlainFailure, OutcomeStep DEF WatchdogExpires
<1>4. CASE WatchdogExpires /\ outcome' # "abort"
  <2>1. outcome' = "stall" /\ (thread = "alive" => pending = 0)
    BY <1>4 DEF WatchdogExpires, NoProgress
  <2>2. Verdicts' /\ outcome' \in Verdict /\ outcome' # "running"
    BY <1>1, <2>1, NoneRuns DEF ScriptAssumption, PolicyError, Verdicts, VerdictIsTrue,
      SuccessIsQuiet, None, Verdict, PolicyFailureNeverSucceeds, FirstFailureReported,
      FatalDrainsCalls, WaitingIsNotStalling, WorkerMade, OutOfMemory
  <2>3. QED
    BY <1>1, <2>2, OutcomeStep
<1>5. QED
  BY <1>2, <1>3, <1>4

\* Taking an event: what is left of the queue, and what the event says.
LEMMA TakeFacts ==
  ASSUME ScriptInvariant, NEW type, Take(type)
  PROVE  /\ outcome = "running" /\ ~Drained
         /\ UNCHANGED <<thread, waiter, sticky, finished, logged, outbox, inbox, aborted>>
         /\ events' \in Seq(AnyMessage) /\ Range(events') \subseteq Range(events)
         /\ Wire' \subseteq Wire /\ CallsApart'
         /\ Event \in AnyMessage /\ Event \in Wire /\ Event.type = type
         /\ \A m \in Wire' : m.calls \cap Event.calls = {}
<1>1. /\ outcome = "running" /\ ~Drained /\ events # <<>> /\ Event.type = type
      /\ events' = Tail(events) /\ events \in Seq(AnyMessage)
      /\ UNCHANGED <<thread, waiter, sticky, finished, logged, outbox, inbox, aborted>>
  BY DEF Take, Running, Event, WorkerUnchanged, worker, ScriptInvariant, TypeOK
<1>2. /\ Event \in AnyMessage /\ Event \in Range(events) /\ events' \in Seq(AnyMessage)
      /\ Range(events) = {Event} \cup Range(events')
      /\ Apart(events') /\ \A n \in Range(events') : n.calls \cap Event.calls = {}
  BY <1>1, HeadTailProperties, RangeTail, ApartTail DEF ScriptInvariant, CallsApart, Event
<1>3. Wire' \subseteq Wire /\ Event \in Wire
  BY <1>1, <1>2 DEF Wire
<1>4. CallsApart' /\ \A m \in Wire' : m.calls \cap Event.calls = {}
  BY <1>1, <1>2 DEF ScriptInvariant, CallsApart, Wire
<1>5. QED
  BY <1>1, <1>2, <1>3, <1>4

\* While a fatal error is under way and not known, no end of the thread is taken
\* before it, and it stays under way until it is taken.
LEMMA TakeOrder ==
  ASSUME ScriptInvariant, NEW type, Take(type), sticky # None, fatal = None, type # "fatal"
  PROVE  /\ type # "error"
         /\ HasFatal(events') \/ HasFatal(outbox')
         /\ FatalFirst(events')
         /\ HasFatal(events') \/ FatalFirst(outbox')
<1>1. /\ events # <<>> /\ Event.type = type /\ events' = Tail(events)
      /\ events \in Seq(AnyMessage) /\ UNCHANGED outbox
  BY DEF Take, Event, ScriptInvariant, TypeOK
<1>2. FatalFirst(events') /\ type # "error"
  BY <1>1, FatalTail DEF ScriptInvariant, FatalKnown, Event
<1>3. HasFatal(events) => HasFatal(events')
  BY <1>1, RangeTail DEF HasFatal, Event
<1>4. QED
  BY <1>1, <1>2, <1>3 DEF ScriptInvariant, FatalKnown, HasFatal

\* The settlements in the queue are one fewer when one is taken.
LEMMA TakeCount ==
  ASSUME ScriptInvariant, NEW type, Take(type)
  PROVE  /\ Cardinality(SettledIn(events')) \in Nat
         /\ Cardinality(SettledIn(events)) =
              Cardinality(SettledIn(events')) + (IF type = "rpcSettled" THEN 1 ELSE 0)
<1>1. /\ events # <<>> /\ Event.type = type /\ events' = Tail(events)
      /\ events \in Seq(AnyMessage)
  BY DEF Take, Event, ScriptInvariant, TypeOK
<1>2. Event \in Wire /\ events' \in Seq(AnyMessage)
  BY TakeFacts
<1>3. Event = RpcSettled <=> type = "rpcSettled"
  BY <1>1, <1>2 DEF ScriptInvariant, MessagesTrue, WellFormed, RpcSettled, Message
<1>4. QED
  BY <1>1, <1>2, <1>3, SettledTail, SettledFinite DEF Event

\* A handler that keeps replies, and a deadline that has fired, keeps most.
LEMMA TakeFrame ==
  ASSUME ScriptInvariant, NEW type, Take(type), UNCHANGED reply,
         deadline = "fired" => deadline' = "fired"
  PROVE  MessagesTrue' /\ CallsApart' /\ CallsOfPlace'
<1>1. /\ UNCHANGED <<thread, waiter, sticky, finished, outbox, inbox>>
      /\ Wire' \subseteq Wire /\ CallsApart'
  BY TakeFacts
<1>2. MessagesTrue'
  BY <1>1 DEF ScriptInvariant, MessagesTrue, WellFormed, IsTrue, NothingPending
<1>3. CallsOfPlace'
  BY <1>1 DEF ScriptInvariant, CallsOfPlace
<1>4. QED
  BY <1>1, <1>2, <1>3

\* And the count, when the event is no settlement.
LEMMA TakeUncounted ==
  ASSUME ScriptInvariant, NEW type, Take(type), UNCHANGED <<reply, pending>>,
         type # "rpcSettled"
  PROVE  PendingCountsCalls'
<1>1. Cardinality(SettledIn(events)) = Cardinality(SettledIn(events'))
  BY TakeCount
<1>2. QED
  BY <1>1, TakeFacts DEF ScriptInvariant, PendingCountsCalls, SettledIn, Running

\* dispatchRpc(): the calls of a message run, and are counted.
LEMMA RpcLemma ==
  ASSUME ScriptAssumption, ScriptInvariant, HandleRpc
  PROVE  ScriptInvariant'
<1> DEFINE S == Event.calls
<1>1. /\ Take("rpc")
      /\ reply' = [c \in Rpc |-> IF c \in S THEN "running" ELSE reply[c]]
      /\ pending' = pending + Cardinality(S)
      /\ UNCHANGED <<fatal, reported, cancelled, deadline, outcome>>
  BY DEF HandleRpc, DrainUnchanged, drain
<1>2. /\ outcome = "running"
      /\ UNCHANGED <<thread, waiter, sticky, finished, logged, outbox, inbox, aborted>>
      /\ events' \in Seq(AnyMessage)
      /\ Wire' \subseteq Wire /\ CallsApart'
      /\ Event \in AnyMessage /\ Event \in Wire
      /\ \A m \in Wire' : m.calls \cap S = {}
  BY <1>1, TakeFacts
<1>3. /\ S \subseteq Rpc /\ \A c \in S : waiter[c] = "waiting" /\ reply[c] = "none"
      /\ reply \in [Rpc -> {"none", "running", "ok", "error", "policy", "abort"}]
  BY <1>2 DEF ScriptInvariant, CallsOfPlace, AnyMessage, TypeOK
<1> HIDE DEF S
<1>4. /\ \A c \in Rpc \ S : reply'[c] = reply[c]
      /\ \A c \in S : reply'[c] = "running"
      /\ reply' \in [Rpc -> {"none", "running", "ok", "error", "policy", "abort"}]
  BY <1>1, <1>3
<1>5. IsFiniteSet(S) /\ Cardinality(S) \in Nat /\ pending \in Nat
  BY <1>3, FS_Subset, FS_CardinalityType DEF ScriptAssumption, ScriptInvariant, TypeOK
<1>6. TypeOK'
  <2>1. pending' \in Nat
    BY <1>1, <1>5
  <2>2. QED
    BY <1>1, <1>2, <1>4, <2>1 DEF ScriptInvariant, TypeOK
<1>7. MessagesTrue'
  BY <1>1, <1>2 DEF ScriptInvariant, MessagesTrue, WellFormed, IsTrue, NothingPending
<1>8. FatalKnown'
  BY <1>1, <1>2, TakeOrder DEF ScriptInvariant, FatalKnown
<1>9. CallsOfPlace'
  <2>1. ASSUME NEW m \in Wire', NEW d \in m.calls
        PROVE  waiter'[d] = "waiting" /\ reply'[d] = "none"
    <3>1. m \in Wire /\ d \in Rpc /\ d \notin S
      BY <1>2, <2>1, WireTypes DEF ScriptInvariant, AnyMessage
    <3>2. QED
      BY <1>2, <1>4, <2>1, <3>1 DEF ScriptInvariant, CallsOfPlace
  <2>2. ASSUME NEW d \in Range(inbox')
        PROVE  waiter'[d] = "waiting" /\ reply'[d] \notin {"none", "running"}
    <3>1. d \in Rpc /\ d \notin S
      BY <1>2, <1>3, <2>2, WireTypes DEF ScriptInvariant, CallsOfPlace
    <3>2. QED
      BY <1>2, <1>4, <2>2, <3>1 DEF ScriptInvariant, CallsOfPlace
  <2>3. ASSUME NEW d \in Rpc
        PROVE  /\ waiter'[d] \in {"absent", "new"} => reply'[d] = "none"
               /\ reply'[d] = "running" => waiter'[d] = "waiting"
               /\ waiter'[d] = "resolved" => reply'[d] = "ok"
               /\ waiter'[d] = "rejected" => reply'[d] \in {"error", "policy", "abort"}
               /\ (waiter'[d] = "rejected" /\ reply'[d] = "policy") => sticky' # None
    <3>1. CASE d \in S
      BY <1>2, <1>3, <1>4, <3>1
    <3>2. CASE d \notin S
      BY <1>2, <1>4, <3>2 DEF ScriptInvariant, CallsOfPlace
    <3>3. QED
      BY <3>1, <3>2
  <2>4. QED
    BY <1>2, <2>1, <2>2, <2>3 DEF ScriptInvariant, CallsOfPlace
<1>10. PendingCountsCalls'
  <2> DEFINE R == {d \in Rpc : reply[d] = "running"}
  <2>1. {d \in Rpc : reply'[d] = "running"} = R \cup S /\ R \cap S = {}
    BY <1>3, <1>4
  <2>2. IsFiniteSet(R)
    BY FS_Subset DEF ScriptAssumption
  <2>3. pending = Cardinality(R) + Cardinality(SettledIn(events))
    BY <1>2 DEF ScriptInvariant, PendingCountsCalls, SettledIn, Running
  <2> HIDE DEF R
  <2>4. Cardinality(R \cup S) = Cardinality(R) + Cardinality(S) /\ Cardinality(R) \in Nat
    BY <1>5, <2>1, <2>2, FS_Union, FS_CardinalityType, FS_EmptySet
  <2>5. /\ Cardinality(SettledIn(events)) = Cardinality(SettledIn(events'))
        /\ Cardinality(SettledIn(events)) \in Nat
    BY <1>1, TakeCount
  <2>6. pending' = Cardinality(R \cup S) + Cardinality(SettledIn(events'))
    BY <1>1, <1>5, <2>3, <2>4, <2>5
  <2>7. QED
    BY <2>1, <2>6 DEF PendingCountsCalls, SettledIn
<1>11. QED
  BY <1>1, <1>2, <1>6, <1>7, <1>8, <1>9, <1>10, RunningVerdicts DEF ScriptInvariant

\* A settlement is counted off.
LEMMA SettledLemma ==
  ASSUME ScriptAssumption, ScriptInvariant, HandleSettled
  PROVE  ScriptInvariant'
<1>1. /\ Take("rpcSettled")
      /\ pending' = IF pending = 0 THEN 0 ELSE pending - 1
      /\ UNCHANGED <<fatal, reported, cancelled, deadline, reply, outcome>>
  BY DEF HandleSettled, DrainUnchanged, drain
<1>2. /\ outcome = "running"
      /\ UNCHANGED <<thread, waiter, sticky, finished, logged, outbox, inbox, aborted>>
      /\ events' \in Seq(AnyMessage)
  BY <1>1, TakeFacts
<1>3. MessagesTrue' /\ CallsApart' /\ CallsOfPlace'
  BY <1>1, TakeFrame
<1>4. TypeOK'
  <2>1. pending' \in Nat
    BY <1>1 DEF ScriptInvariant, TypeOK
  <2>2. QED
    BY <1>1, <1>2, <2>1 DEF ScriptInvariant, TypeOK
<1>5. FatalKnown'
  BY <1>1, <1>2, TakeOrder DEF ScriptInvariant, FatalKnown
<1>6. PendingCountsCalls'
  <2> DEFINE R == {d \in Rpc : reply[d] = "running"}
  <2>1. pending = Cardinality(R) + Cardinality(SettledIn(events))
    BY <1>2 DEF ScriptInvariant, PendingCountsCalls, SettledIn, Running
  <2>2. IsFiniteSet(R)
    BY FS_Subset DEF ScriptAssumption
  <2>3. UNCHANGED R
    BY <1>1
  <2> HIDE DEF R
  <2>4. Cardinality(R) \in Nat
    BY <2>2, FS_CardinalityType
  <2>5. /\ Cardinality(SettledIn(events)) = Cardinality(SettledIn(events')) + 1
        /\ Cardinality(SettledIn(events')) \in Nat
    BY <1>1, TakeCount
  <2>6. pending' = Cardinality(R) + Cardinality(SettledIn(events'))
    BY <1>1, <2>1, <2>4, <2>5
  <2>7. QED
    BY <2>3, <2>6 DEF PendingCountsCalls, SettledIn, R
<1>7. QED
  BY <1>1, <1>2, <1>3, <1>4, <1>5, <1>6, RunningVerdicts DEF ScriptInvariant

\* The other handlers: what they have to establish by themselves.
LEMMA HandlerFrame ==
  ASSUME ScriptAssumption, ScriptInvariant, NEW type, Take(type), type # "rpcSettled",
         UNCHANGED <<reply, pending>>, reported' \in BOOLEAN, cancelled' \in BOOLEAN,
         fatal' \in PolicyError \cup {None}, deadline' \in {"off", "armed", "fired"},
         deadline = "fired" => deadline' = "fired",
         outcome' \in Verdict, FatalKnown', Verdicts'
  PROVE  ScriptInvariant'
<1>1. MessagesTrue' /\ CallsApart' /\ CallsOfPlace'
  BY TakeFrame
<1>2. PendingCountsCalls'
  BY TakeUncounted
<1>3. TypeOK'
  BY TakeFacts DEF ScriptInvariant, TypeOK
<1>4. QED
  BY <1>1, <1>2, <1>3 DEF ScriptInvariant

\* beginFatalDrain() keeps the first error, and that is the worker's.
LEMMA DrainLemma ==
  ASSUME ScriptAssumption, ScriptInvariant, NEW type, Take(type), NEW e \in PolicyError,
         BeginFatalDrain(e),
         fatal = None => e = IF sticky = None THEN OutOfMemory ELSE sticky,
         fatal = None /\ sticky = None => thread = "dead"
  PROVE  /\ FatalKnown' /\ cancelled' \in BOOLEAN
         /\ fatal' \in PolicyError \cup {None} /\ deadline' \in {"off", "armed", "fired"}
         /\ deadline = "fired" => deadline' = "fired"
<1>1. None \notin PolicyError
  BY DEF ScriptAssumption, PolicyError, None, WorkerMade, OutOfMemory
<1>2. QED
  BY <1>1, TakeFacts DEF ScriptInvariant, FatalKnown, TypeOK, BeginFatalDrain

\* A handler that keeps the drain leaves the fatal error known or under way.
LEMMA KnownFrame ==
  ASSUME ScriptInvariant, NEW type, Take(type), UNCHANGED <<fatal, deadline>>,
         type # "fatal" \/ fatal # None
  PROVE  FatalKnown'
<1>1. UNCHANGED <<thread, sticky>>
  BY TakeFacts
<1>2. QED
  BY <1>1, TakeOrder DEF ScriptInvariant, FatalKnown

\* Logs, phases, the exit of the thread and the deadline of the drain.
LEMMA NoticeLemma ==
  ASSUME ScriptAssumption, ScriptInvariant, HandleEvent \/ HandleExit \/ HandleDeadline
  PROVE  ScriptInvariant'
<1>1. /\ fatal \in PolicyError \cup {None} /\ deadline \in {"off", "armed", "fired"}
      /\ reported \in BOOLEAN /\ cancelled \in BOOLEAN /\ outcome \in Verdict
  BY DEF ScriptInvariant, TypeOK
<1>2. ASSUME NEW type, Take(type), type # "rpcSettled", type # "fatal",
             UNCHANGED <<reply, pending, fatal, cancelled, deadline>>, reported' \in BOOLEAN,
             \/ outcome' = outcome
             \/ Verdicts' /\ outcome' \in Verdict
      PROVE  ScriptInvariant'
  <2>1. FatalKnown'
    BY <1>2, KnownFrame
  <2>2. Verdicts' /\ outcome' \in Verdict
    BY <1>1, <1>2, RunningVerdicts, TakeFacts
  <2>3. QED
    BY <1>1, <1>2, <2>1, <2>2, HandlerFrame
<1>3. CASE HandleEvent
  <2>1. outcome' = outcome \/ (Verdicts' /\ outcome' \in Verdict)
    BY <1>3, PlainFailure, TakeFacts DEF HandleEvent
  <2>2. QED
    BY <1>1, <1>2, <1>3, <2>1 DEF HandleEvent, DrainUnchanged, drain
<1>4. CASE HandleExit
  <2>1. outcome' = outcome \/ (Verdicts' /\ outcome' \in Verdict)
    BY <1>4, PlainFailure DEF HandleExit
  <2>2. QED
    BY <1>1, <1>2, <1>4, <2>1 DEF HandleExit
<1>5. CASE HandleDeadline
  <2>1. Take("fatalDeadline") /\ outcome' = fatal
        /\ UNCHANGED <<fatal, reported, cancelled, deadline, reply, pending>>
    BY <1>5 DEF HandleDeadline, DrainUnchanged, drain
  <2>2. deadline = "fired" /\ fatal # None /\ UNCHANGED sticky
    BY <2>1, TakeFacts DEF ScriptInvariant, MessagesTrue, IsTrue, FatalKnown
  <2>3. Verdicts' /\ outcome' \in Verdict
    BY <2>1, <2>2, FatalFailure
  <2>4. QED
    BY <1>1, <1>2, <2>1, <2>3
<1>6. QED
  BY <1>3, <1>4, <1>5

\* A fatal error that the worker marked.
LEMMA FatalLemma ==
  ASSUME ScriptAssumption, ScriptInvariant, HandleFatal
  PROVE  ScriptInvariant'
<1>1. /\ Take("fatal") /\ BeginFatalDrain(Event.error)
      /\ UNCHANGED <<reported, reply, pending, outcome>>
  BY DEF HandleFatal
<1>2. Event \in Wire /\ Event.type = "fatal" /\ outcome = "running"
  BY <1>1, TakeFacts
<1>3. Event.error \in PolicyError /\ Event.error = sticky /\ None \notin PolicyError
  BY <1>2 DEF ScriptInvariant, MessagesTrue, WellFormed, IsTrue, ScriptAssumption,
    PolicyError, None, WorkerMade, OutOfMemory
<1>4. /\ FatalKnown' /\ cancelled' \in BOOLEAN
      /\ fatal' \in PolicyError \cup {None} /\ deadline' \in {"off", "armed", "fired"}
      /\ deadline = "fired" => deadline' = "fired"
  BY <1>1, <1>3, DrainLemma
<1>5. reported' \in BOOLEAN /\ outcome' \in Verdict /\ Verdicts'
  BY <1>1, <1>2, RunningVerdicts DEF ScriptInvariant, TypeOK
<1>6. QED
  BY <1>1, <1>4, <1>5, HandlerFrame

\* The result of the script.  A success is reported while nothing is under way.
LEMMA ResultLemma ==
  ASSUME ScriptAssumption, ScriptInvariant, HandleResult
  PROVE  ScriptInvariant'
<1>1. Take("result") /\ reported' = TRUE /\ UNCHANGED <<reply, pending>>
  BY DEF HandleResult
<1>2. /\ Event \in Wire /\ Event.type = "result" /\ outcome = "running"
      /\ UNCHANGED <<waiter, sticky>>
  BY <1>1, TakeFacts
<1>3. /\ Event.error \in PolicyError \cup {None, "thrown"}
      /\ Event.error \in PolicyError => Event.error = sticky
      /\ Event.error = None => sticky = None /\ NothingPending
      /\ None \notin PolicyError
  BY <1>2 DEF ScriptInvariant, MessagesTrue, WellFormed, IsTrue, ScriptAssumption,
    PolicyError, None, WorkerMade, OutOfMemory
<1>4. /\ fatal \in PolicyError \cup {None} /\ deadline \in {"off", "armed", "fired"}
      /\ cancelled \in BOOLEAN /\ outcome \in Verdict
  BY DEF ScriptInvariant, TypeOK
<1>5. CASE fatal # None /\ UNCHANGED <<fatal, cancelled, deadline, outcome>>
  <2>1. FatalKnown' /\ Verdicts'
    BY <1>1, <1>2, <1>5, KnownFrame, RunningVerdicts
  <2>2. QED
    BY <1>1, <1>4, <1>5, <2>1, HandlerFrame
<1>6. CASE /\ fatal = None /\ Event.error \in PolicyError
           /\ BeginFatalDrain(Event.error) /\ UNCHANGED outcome
  <2>1. /\ FatalKnown' /\ cancelled' \in BOOLEAN
        /\ fatal' \in PolicyError \cup {None} /\ deadline' \in {"off", "armed", "fired"}
        /\ deadline = "fired" => deadline' = "fired"
    BY <1>1, <1>3, <1>6, DrainLemma
  <2>2. Verdicts'
    BY <1>2, <1>6, RunningVerdicts
  <2>3. QED
    BY <1>1, <1>4, <1>6, <2>1, <2>2, HandlerFrame
<1>7. CASE /\ fatal = None /\ Event.error \notin PolicyError
           /\ outcome' = IF Event.error = None THEN "ok" ELSE Event.error
           /\ UNCHANGED <<fatal, cancelled, deadline>>
  <2>1. FatalKnown'
    BY <1>1, <1>7, KnownFrame
  <2>2. CASE Event.error = None
    <3>1. outcome' = "ok" /\ sticky' = None /\ fatal' = None /\ NothingPending
      BY <1>2, <1>3, <1>7, <2>2
    <3>2. \A c \in Rpc : waiter[c] # "waiting" /\ reply[c] # "running"
      BY <3>1 DEF NothingPending, ScriptInvariant, CallsOfPlace
    <3>3. \A c \in Cleanup : reply[panelOf[c]] = "ok" => reply[c] # "none"
      <4>1. SUFFICES ASSUME NEW c \in Cleanup, reply[panelOf[c]] = "ok" PROVE reply[c] # "none"
        OBVIOUS
      <4>2. c \in Rpc /\ panelOf[c] \in Rpc
        BY DEF ScriptAssumption, Rpc
      <4>3. /\ waiter[c] \in {"absent", "new", "waiting", "resolved", "rejected"}
            /\ waiter[panelOf[c]] \in {"absent", "new", "waiting", "resolved", "rejected"}
        BY <4>2 DEF ScriptInvariant, TypeOK
      <4>4. waiter[panelOf[c]] = "resolved"
        BY <3>2, <4>1, <4>2, <4>3 DEF ScriptInvariant, CallsOfPlace
      <4>5. waiter[c] \in {"resolved", "rejected"}
        BY <3>1, <3>2, <4>2, <4>3, <4>4 DEF NothingPending, ScriptInvariant, CallsOfPlace
      <4>6. QED
        BY <4>2, <4>5 DEF ScriptInvariant, CallsOfPlace
    <3>4. \A c \in Rpc : reply[c] # "policy"
      <4>1. SUFFICES ASSUME NEW c \in Rpc, reply[c] = "policy" PROVE FALSE
        OBVIOUS
      <4>2. waiter[c] \in {"absent", "new", "waiting", "resolved", "rejected"}
        BY DEF ScriptInvariant, TypeOK
      <4>3. waiter[c] = "rejected"
        BY <3>2, <4>1, <4>2 DEF ScriptInvariant, CallsOfPlace
      <4>4. QED
        BY <1>2, <3>1, <4>1, <4>3 DEF ScriptInvariant, CallsOfPlace
    <3>5. SuccessIsQuiet'
      BY <1>1, <1>2, <3>1, <3>2, <3>3 DEF SuccessIsQuiet
    <3>6. PolicyFailureNeverSucceeds'
      BY <1>1, <3>4 DEF PolicyFailureNeverSucceeds
    <3>7. "ok" \notin PolicyError /\ "ok" \in Verdict
      BY DEF ScriptAssumption, PolicyError, WorkerMade, OutOfMemory, Verdict
    <3>8. Verdicts'
      BY <3>1, <3>5, <3>6, <3>7 DEF Verdicts, VerdictIsTrue, FirstFailureReported,
        FatalDrainsCalls, WaitingIsNotStalling
    <3>9. QED
      BY <1>1, <1>4, <1>7, <2>1, <3>1, <3>7, <3>8, HandlerFrame
  <2>3. CASE Event.error = "thrown"
    <3>1. outcome' = "thrown"
      BY <1>7, <2>3 DEF None
    <3>2. QED
      BY <1>1, <1>4, <1>7, <2>1, <3>1, PlainFailure, HandlerFrame
  <2>4. QED
    BY <1>3, <1>7, <2>2, <2>3
<1>8. QED
  BY <1>5, <1>6, <1>7 DEF HandleResult

\* The thread failed: it is out of memory, which is a policy failure, or it crashed.
LEMMA ErrorLemma ==
  ASSUME ScriptAssumption, ScriptInvariant, HandleError
  PROVE  ScriptInvariant'
<1>1. Take("error") /\ UNCHANGED <<reply, pending>>
  BY DEF HandleError
<1>2. Event \in Wire /\ Event.type = "error" /\ outcome = "running" /\ UNCHANGED sticky
  BY <1>1, TakeFacts
<1>3. /\ Event.error \in {OutOfMemory, "crash"} /\ thread = "dead"
      /\ OutOfMemory \in PolicyError
  BY <1>2 DEF ScriptInvariant, MessagesTrue, WellFormed, IsTrue, PolicyError
<1>4. fatal = None => sticky = None
  BY <1>1, TakeOrder
<1>5. /\ fatal \in PolicyError \cup {None} /\ deadline \in {"off", "armed", "fired"}
      /\ reported \in BOOLEAN /\ cancelled \in BOOLEAN /\ outcome \in Verdict
  BY DEF ScriptInvariant, TypeOK
<1>6. CASE Event.error = OutOfMemory
  <2>1. reported' = TRUE /\ BeginFatalDrain(OutOfMemory) /\ UNCHANGED outcome
    BY <1>6 DEF HandleError
  <2>2. /\ FatalKnown' /\ cancelled' \in BOOLEAN
        /\ fatal' \in PolicyError \cup {None} /\ deadline' \in {"off", "armed", "fired"}
        /\ deadline = "fired" => deadline' = "fired"
    BY <1>1, <1>3, <1>4, <2>1, DrainLemma
  <2>3. Verdicts'
    BY <1>2, <2>1, RunningVerdicts
  <2>4. QED
    BY <1>1, <1>5, <2>1, <2>2, <2>3, HandlerFrame
<1>7. CASE Event.error # OutOfMemory
  <2>1. outcome' = "crash" /\ UNCHANGED <<fatal, reported, cancelled, deadline>>
    BY <1>3, <1>7 DEF HandleError, DrainUnchanged, drain
  <2>2. FatalKnown'
    BY <1>1, <2>1, KnownFrame
  <2>3. QED
    BY <1>1, <1>5, <2>1, <2>2, PlainFailure, HandlerFrame
<1>8. QED
  BY <1>6, <1>7

----------------------------------------------------------------------------
(***************************************************************************)
(* The theorems.                                                           *)
(***************************************************************************)
\* A script starts with nothing under way and no call made.
LEMMA ScriptInit == ASSUME ScriptAssumption, Init PROVE ScriptInvariant
<1>1. outbox = <<>> /\ inbox = <<>> /\ events = <<>>
  BY DEF Init
<1>2. /\ outbox \in Seq(AnyMessage) /\ events \in Seq(AnyMessage) /\ inbox \in Seq(Rpc)
      /\ Len(outbox) = 0 /\ Len(events) = 0 /\ Len(inbox) = 0
  BY <1>1, EmptySeq
<1>3. /\ DOMAIN outbox = {} /\ DOMAIN events = {} /\ DOMAIN inbox = {}
      /\ Range(outbox) = {} /\ Range(events) = {} /\ Range(inbox) = {}
  <2>1. DOMAIN outbox = {} /\ DOMAIN events = {} /\ DOMAIN inbox = {}
    BY <1>2, LenProperties
  <2>2. QED
    BY <2>1 DEF Range
<1>4. MessagesTrue /\ CallsApart
  BY <1>3 DEF MessagesTrue, CallsApart, Apart, Distinct, Wire
<1>5. FatalKnown /\ Verdicts
  BY DEF Init, FatalKnown, Verdicts, VerdictIsTrue, SuccessIsQuiet,
    PolicyFailureNeverSucceeds, FirstFailureReported, FatalDrainsCalls,
    WaitingIsNotStalling, PolicyError, ScriptAssumption, WorkerMade, OutOfMemory
<1>6. PICK calls \in Scripts : waiter = [c \in Rpc |-> IF c \in calls THEN "new" ELSE "absent"]
  BY DEF Init
<1>7. CallsOfPlace
  <2>1. \A c \in Cleanup : c \in Rpc /\ panelOf[c] \in Rpc
    BY DEF ScriptAssumption, Rpc
  <2>2. \A c \in Cleanup : waiter[c] = "absent" <=> waiter[panelOf[c]] = "absent"
    BY <1>6, <2>1 DEF ScriptAssumption
  <2>3. QED
    BY <1>3, <1>6, <2>2 DEF Init, CallsOfPlace, Wire
<1>8. TypeOK
  BY <1>2, <1>6 DEF Init, TypeOK, Verdict
<1>9. PendingCountsCalls
  <2>1. {c \in Rpc : reply[c] = "running"} = {} /\ {i \in DOMAIN events : events[i] = RpcSettled} = {}
    BY <1>3 DEF Init
  <2>2. pending = 0
    BY DEF Init
  <2>3. QED
    BY <2>1, <2>2, FS_EmptySet DEF PendingCountsCalls
<1>10. QED
  BY <1>4, <1>5, <1>7, <1>8, <1>9 DEF ScriptInvariant

\* A script that has its verdict is left alone.
LEMMA ScriptFrame == ASSUME ScriptInvariant, UNCHANGED vars PROVE ScriptInvariant'
<1>1. UNCHANGED <<thread, waiter, sticky, finished, logged, outbox, inbox, events, reply,
                  pending, fatal, reported, cancelled, deadline, aborted, outcome>>
  BY DEF vars, worker, drain
<1>2. (/\ TypeOK /\ CallsApart /\ CallsOfPlace /\ FatalKnown)'
  BY <1>1 DEF ScriptInvariant, TypeOK, CallsApart, CallsOfPlace, FatalKnown, HasFatal,
    Wire
<1>3. MessagesTrue' /\ PendingCountsCalls'
  BY <1>1 DEF ScriptInvariant, MessagesTrue, WellFormed, IsTrue, NothingPending, Wire,
    PendingCountsCalls, Running
<1>4. Verdicts'
  BY <1>1 DEF ScriptInvariant, Verdicts, VerdictIsTrue, SuccessIsQuiet,
    PolicyFailureNeverSucceeds, FirstFailureReported, FatalDrainsCalls,
    WaitingIsNotStalling
<1>5. QED
  BY <1>2, <1>3, <1>4 DEF ScriptInvariant

\* Every step of the script, its worker and its host keeps the invariant.
LEMMA ScriptStep ==
  ASSUME ScriptAssumption, ScriptInvariant, [Next]_vars PROVE ScriptInvariant'
<1>1. ASSUME NEW S \in SUBSET (Agent \cup Panel), PostCalls(S) PROVE ScriptInvariant'
  BY <1>1, PostLemma DEF PostCalls, Rpc
<1>2. ASSUME NEW c \in Cleanup, PostCleanup(c) PROVE ScriptInvariant'
  <2>1. c \in Rpc
    BY DEF Rpc
  <2>2. waiter' = [d \in Rpc |-> IF d \in {c} THEN "waiting" ELSE waiter[d]]
    BY <1>2 DEF PostCleanup, ScriptInvariant, TypeOK
  <2>3. QED
    BY <1>2, <2>1, <2>2, PostLemma DEF PostCleanup
<1>3. CASE PostEvent \/ Receive \/ BreakPolicy \/ Finish \/ Hang \/ Die \/ Abort
  BY <1>3, PostEventLemma, ReceiveLemma, BreakPolicyLemma, FinishLemma, HangLemma,
    DieLemma
<1>4. ASSUME NEW c \in Rpc, NEW how \in {"ok", "error", "policy", "abort"}, Settle(c, how)
      PROVE  ScriptInvariant'
  BY <1>4, SettleLemma
<1>5. CASE Deliver \/ DeadlineFires \/ WatchdogExpires \/ FailDrained
  BY <1>5, DeliverLemma, DeadlineLemma, EndLemma
<1>6. CASE Consume
  BY <1>6, RpcLemma, SettledLemma, NoticeLemma, FatalLemma, ResultLemma,
    ErrorLemma DEF Consume
<1>7. CASE UNCHANGED vars
  BY <1>7, ScriptFrame
<1>8. QED
  BY <1>1, <1>2, <1>3, <1>4, <1>5, <1>6, <1>7 DEF Next, Settled

\* The invariant holds for every script.
THEOREM ScriptCorrect ==
  ASSUME ScriptAssumption PROVE Spec => []ScriptInvariant
<1>1. Init => ScriptInvariant
  BY ScriptInit
<1>2. ScriptInvariant /\ [Next]_vars => ScriptInvariant'
  BY ScriptStep
<1>3. QED
  BY <1>1, <1>2, PTL DEF Spec

\* The verdict of executeWorkflowScript() is true of every script: it succeeds with
\* nothing under way, no panel kept and no policy failure swallowed, and of several
\* fatal errors it reports the first, whatever overtakes what.
THEOREM VerdictTrue ==
  ASSUME ScriptAssumption PROVE Spec => []VerdictIsTrue
<1>1. ScriptInvariant => VerdictIsTrue
  BY DEF ScriptInvariant, Verdicts
<1>2. QED
  BY <1>1, ScriptCorrect, PTL

\* pendingRpcCount is exact for every script: it counts the calls that run and the
\* settlements queued, so a fatal error waits for them all and no watchdog stops a
\* script that waits for a call.
THEOREM CallsCounted ==
  ASSUME ScriptAssumption PROVE Spec => []CallsAccounted
<1>1. ScriptInvariant => CallsAccounted
  BY DEF ScriptInvariant, Verdicts, CallsAccounted
<1>2. QED
  BY <1>1, ScriptCorrect, PTL

----------------------------------------------------------------------------
(***************************************************************************)
(* The run around the script (RunLifecycle).                               *)
(***************************************************************************)
\* Nothing has happened before the body is started but the caller's abort.
NothingBegun ==
  stage = "preparing" =>
    /\ children = FALSE /\ runFatal = FALSE /\ policy = Run!None /\ told = {}
    /\ \A c \in Call : fiber[c] = "idle"

\* Only a recovery, and what follows it, has a failure.
FailureIsOfRecovery == stage \in {"preparing", "body"} => failure = Run!None

\* The children of a body that runs are stopped by one of three: the caller, a
\* policy error, the executor's drain; of which the last is reported as such.
StopHasReason == stage = "body" /\ children => signal \/ policy # Run!None \/ runFatal

\* An abort that the run recovers from was asked for, or is a policy error's doing.
AbortHasReason == failure = "abort" => signal \/ policy # Run!None

\* Calls outlive the body only where the children were stopped.
SurvivorsAreStopped ==
  /\ stage = "recovering" => children
  /\ stage = "settled" /\ Run!Pending # {} => children

LifecycleInvariant ==
  /\ Run!TypeOK
  /\ NothingBegun /\ FailureIsOfRecovery /\ StopHasReason /\ AbortHasReason
  /\ SurvivorsAreStopped

\* The names of outcomes are not calls, so that policy errors differ from all others.
LEMMA NamesDiffer ==
  ASSUME Run!LifecycleAssumption
  PROVE  /\ Run!None \notin Run!PolicyError
         /\ {"ok", "thrown", "abort", "cleanup"} \cap Run!PolicyError = {}
BY DEF Run!LifecycleAssumption, Run!None, Run!PolicyError, Run!ScriptPolicy

\* Before the body there is nothing to wait for.
LEMMA NoCallsYet ==
  ASSUME NothingBegun, stage = "preparing"
  PROVE  Run!Pending = {} /\ policy = Run!None /\ children = FALSE
BY DEF NothingBegun, Run!Pending

\* The initial state is typed and nothing has begun.
LEMMA InitLifecycle ==
  ASSUME Run!LifecycleAssumption, Run!Init PROVE LifecycleInvariant
BY NamesDiffer
  DEF Run!Init, LifecycleInvariant, Run!TypeOK, NothingBegun, FailureIsOfRecovery,
    StopHasReason, AbortHasReason, SurvivorsAreStopped, Run!Pending, Run!None,
    Run!PolicyError, Run!ScriptPolicy

----------------------------------------------------------------------------
(***************************************************************************)
(* The types.                                                              *)
(***************************************************************************)
\* Every step keeps the types.
LEMMA TypesKept ==
  ASSUME Run!TypeOK, [Run!Next]_(Run!vars) PROVE Run!TypeOK'
<1> USE DEF Run!TypeOK, Run!PolicyError, Run!IsPolicy, Run!controllers, Run!calls,
            Run!verdict, Run!body, Run!CallUnchanged, Run!SetDeadline, Run!AbortChildren,
            Run!Abort, Run!RecordPolicyError, Run!Settle, Run!Recover
<1>1. CASE Run!SignalAborts
  BY <1>1 DEF Run!SignalAborts
<1>2. CASE Run!DeadlinePasses
  BY <1>2 DEF Run!DeadlinePasses
<1>3. ASSUME NEW c \in Call, Run!CallStep(c) PROVE Run!TypeOK'
  <2>1. CASE Run!Fork(c)
    BY <2>1 DEF Run!Fork
  <2>2. CASE Run!Start(c)
    BY <2>2 DEF Run!Start
  <2>3. CASE Run!Commit(c)
    BY <2>3 DEF Run!Commit
  <2>4. CASE Run!Fail(c)
    BY <2>4 DEF Run!Fail
  <2>5. CASE Run!FailPolicy(c)
    BY <2>5 DEF Run!FailPolicy
  <2>6. QED
    BY <1>3, <2>1, <2>2, <2>3, <2>4, <2>5 DEF Run!CallStep
<1>4. CASE Run!PrepareFails
  BY <1>4 DEF Run!PrepareFails
<1>5. CASE Run!StartBody
  BY <1>5 DEF Run!StartBody
<1>6. CASE Run!BodySucceeds
  BY <1>6 DEF Run!BodySucceeds
<1>7. CASE Run!BodyFails
  BY <1>7 DEF Run!BodyFails
<1>8. CASE Run!BodyFatal
  BY <1>8 DEF Run!BodyFatal
<1>9. CASE Run!RecoverDrained
  BY <1>9 DEF Run!RecoverDrained
<1>10. CASE Run!RecoverExpired
  BY <1>10 DEF Run!RecoverExpired
<1>11. CASE UNCHANGED Run!vars
  BY <1>11 DEF Run!vars
<1>12. QED
  BY <1>1, <1>2, <1>3, <1>4, <1>5, <1>6, <1>7, <1>8, <1>9, <1>10, <1>11
    DEF Run!Next, Run!Quiet

----------------------------------------------------------------------------
(***************************************************************************)
(* The invariant.                                                          *)
(***************************************************************************)
\* What the steps of the calls keep.
LEMMA CallsKeepInvariant ==
  ASSUME Run!LifecycleAssumption, LifecycleInvariant, Run!TypeOK',
         NEW c \in Call, Run!CallStep(c)
  PROVE  LifecycleInvariant'
<1> USE DEF LifecycleInvariant, Run!CallUnchanged, Run!body, Run!verdict
<1>1. /\ stage # "preparing" /\ stage' = stage /\ failure' = failure
      /\ signal' = signal /\ runFatal' = runFatal
  <2>1. Run!Fork(c) \/ fiber[c] # "idle"
    BY DEF Run!CallStep, Run!Start, Run!Commit, Run!Fail, Run!FailPolicy, Run!Pending
  <2>2. stage # "preparing"
    BY <2>1 DEF Run!Fork, NothingBegun
  <2>3. QED
    BY <2>2 DEF Run!CallStep, Run!Fork, Run!Start, Run!Commit, Run!Fail, Run!FailPolicy
<1>2. /\ children => children'
      /\ policy # Run!None => policy' # Run!None
      /\ children' => children \/ policy' # Run!None
  BY NamesDiffer
    DEF Run!CallStep, Run!Fork, Run!Start, Run!Commit, Run!Fail, Run!FailPolicy,
      Run!RecordPolicyError, Run!AbortChildren, Run!PolicyError
<1>3. stage = "settled" => Run!Pending' \subseteq Run!Pending
  BY
    DEF Run!CallStep, Run!Fork, Run!Start, Run!Commit, Run!Fail, Run!FailPolicy,
      Run!Pending, Run!TypeOK
<1>4. NothingBegun' /\ FailureIsOfRecovery' /\ StopHasReason' /\ AbortHasReason'
  BY <1>1, <1>2 DEF NothingBegun, FailureIsOfRecovery, StopHasReason, AbortHasReason
<1>5. SurvivorsAreStopped'
  BY <1>1, <1>2, <1>3 DEF SurvivorsAreStopped
<1>6. QED
  BY <1>4, <1>5

\* Every step keeps the invariant.
LEMMA NextLifecycle ==
  ASSUME Run!LifecycleAssumption, LifecycleInvariant, [Run!Next]_(Run!vars)
  PROVE  LifecycleInvariant'
<1>1. Run!TypeOK'
  BY TypesKept DEF LifecycleInvariant
<1> USE DEF LifecycleInvariant, NothingBegun, FailureIsOfRecovery, StopHasReason,
            AbortHasReason, SurvivorsAreStopped, Run!controllers, Run!calls, Run!verdict, Run!body
<1>2. CASE Run!SignalAborts
  BY <1>1, <1>2 DEF Run!SignalAborts, Run!Abort, Run!AbortChildren, Run!Pending
<1>3. CASE Run!DeadlinePasses
  BY <1>1, <1>3 DEF Run!DeadlinePasses, Run!Pending
<1>4. ASSUME NEW c \in Call, Run!CallStep(c) PROVE LifecycleInvariant'
  BY <1>1, <1>4, CallsKeepInvariant
<1>5. CASE Run!PrepareFails
  BY <1>1, <1>5, NoCallsYet DEF Run!PrepareFails, Run!Settle, Run!Pending
<1>6. CASE Run!StartBody
  BY <1>1, <1>6 DEF Run!StartBody, Run!Recover, Run!Abort, Run!AbortChildren, Run!Pending
<1>7. CASE Run!BodySucceeds
  BY <1>1, <1>7, NamesDiffer
    DEF Run!BodySucceeds, Run!Settle, Run!Recover, Run!Abort, Run!AbortChildren,
      Run!Pending, Run!PolicyError, Run!TypeOK
<1>8. CASE Run!BodyFails
  <2>1. PICK e : Run!Recover(e) /\ (e = "abort" => children /\ ~ runFatal) /\ stage = "body"
    BY <1>8, NamesDiffer DEF Run!BodyFails, Run!PolicyError, Run!TypeOK
  <2>2. QED
    BY <1>1, <2>1 DEF Run!Recover, Run!Abort, Run!AbortChildren, Run!Pending
<1>9. CASE Run!BodyFatal
  BY <1>1, <1>9 DEF Run!BodyFatal, Run!AbortChildren, Run!Pending
<1>10. CASE Run!RecoverDrained
  BY <1>1, <1>10 DEF Run!RecoverDrained, Run!Settle, Run!Pending
<1>11. CASE Run!RecoverExpired
  BY <1>1, <1>11 DEF Run!RecoverExpired, Run!Settle, Run!Pending
<1>12. CASE UNCHANGED Run!vars
  BY <1>1, <1>12 DEF Run!vars, Run!Pending
<1>13. QED
  BY <1>2, <1>3, <1>4, <1>5, <1>6, <1>7, <1>8, <1>9, <1>10, <1>11, <1>12
    DEF Run!Next, Run!Quiet

\* runWorkflow() keeps its types, and its calls outlive the body only when stopped.
THEOREM LifecycleHolds ==
  ASSUME Run!LifecycleAssumption PROVE Run!Spec => []LifecycleInvariant
<1>1. Run!Init => LifecycleInvariant
  BY InitLifecycle
<1>2. LifecycleInvariant /\ [Run!Next]_(Run!vars) => LifecycleInvariant'
  BY NextLifecycle
<1>3. QED
  BY <1>1, <1>2, PTL DEF Run!Spec

----------------------------------------------------------------------------
(***************************************************************************)
(* The answer.                                                             *)
(***************************************************************************)
\* A step that settles the run is one of the preparation, the body or the recovery.
LEMMA SettlingSteps ==
  ASSUME Run!TypeOK, [Run!Next]_(Run!vars), Run!Settles
  PROVE  Run!PrepareFails \/ Run!BodySucceeds \/ Run!RecoverDrained \/ Run!RecoverExpired
BY
  DEF Run!Settles, Run!Next, Run!CallStep, Run!SignalAborts, Run!DeadlinePasses,
    Run!Fork, Run!Start, Run!Commit, Run!Fail, Run!FailPolicy, Run!CallUnchanged,
    Run!StartBody, Run!BodyFails, Run!BodyFatal, Run!Recover, Run!Quiet, Run!vars,
    Run!body

\* The answer is true when it is given.
LEMMA SettlesTruly ==
  ASSUME Run!LifecycleAssumption, LifecycleInvariant, [Run!Next]_(Run!vars), Run!Settles
  PROVE  /\ Run!FirstPolicyErrorWins /\ Run!PolicyStaysPolicy
         /\ Run!AbortWasAsked /\ Run!SurvivorsAreReported
<1> USE DEF Run!FirstPolicyErrorWins, Run!PolicyStaysPolicy, Run!AbortWasAsked,
            Run!SurvivorsAreReported, Run!IsPolicy, LifecycleInvariant, Run!Settle
<1>1. /\ Run!None \notin Run!PolicyError /\ Run!ScriptPolicy \in Run!PolicyError
      /\ "ok" \notin Run!PolicyError /\ "thrown" \notin Run!PolicyError
      /\ "abort" \notin Run!PolicyError /\ "cleanup" \notin Run!PolicyError
  BY NamesDiffer DEF Run!PolicyError
<1>2. CASE Run!PrepareFails
  BY <1>2, <1>1, NoCallsYet DEF Run!PrepareFails, FailureIsOfRecovery
<1>3. CASE Run!BodySucceeds
  BY <1>3, <1>1 DEF Run!BodySucceeds, FailureIsOfRecovery, Run!Settles, Run!Recover
<1>4. CASE Run!RecoverDrained
  BY <1>4, <1>1 DEF Run!RecoverDrained, Run!TypeOK, AbortHasReason, Run!None
<1>5. CASE Run!RecoverExpired
  BY <1>5, <1>1 DEF Run!RecoverExpired, Run!TypeOK, Run!None
<1>6. QED
  BY <1>2, <1>3, <1>4, <1>5, SettlingSteps

\* Behind the answer nothing is recorded, and no agent starts.
LEMMA NothingFollows ==
  ASSUME LifecycleInvariant, [Run!Next]_(Run!vars), stage = "settled"
  PROVE  Run!NothingBehindTheAnswer
<1> USE DEF Run!NothingBehindTheAnswer, Run!controllers, Run!calls, Run!verdict, Run!body
<1>1. ASSUME NEW c \in Call, Run!CallStep(c) PROVE Run!NothingBehindTheAnswer
  <2>1. ~ Run!Fork(c)
    BY DEF Run!Fork
  <2>2. ~ Run!Start(c) /\ ~ Run!Commit(c)
    BY DEF Run!Start, Run!Commit, LifecycleInvariant, SurvivorsAreStopped, Run!Pending
  <2>3. Run!Fail(c) \/ Run!FailPolicy(c)
    BY <1>1, <2>1, <2>2 DEF Run!CallStep
  <2>4. QED
    BY <2>3 DEF Run!Fail, Run!FailPolicy, LifecycleInvariant, Run!TypeOK
<1>2. CASE Run!DeadlinePasses
  BY <1>2 DEF Run!DeadlinePasses
<1>3. CASE UNCHANGED Run!vars
  BY <1>3 DEF Run!vars
<1>4. QED
  BY <1>1, <1>2, <1>3
    DEF Run!Next, Run!Quiet, Run!SignalAborts, Run!PrepareFails, Run!StartBody,
      Run!BodySucceeds, Run!BodyFails, Run!BodyFatal, Run!RecoverDrained,
      Run!RecoverExpired

\* The answer that the caller of runWorkflow() gets is true - a policy error is not
\* hidden, an abort was asked for, survivors are reported - and stays true.
THEOREM AnswerHolds ==
  ASSUME Run!LifecycleAssumption PROVE Run!Spec => AnswerIsTrue
<1> DEFINE Truth ==
      /\ Run!Settles => /\ Run!FirstPolicyErrorWins /\ Run!PolicyStaysPolicy
                        /\ Run!AbortWasAsked /\ Run!SurvivorsAreReported
      /\ stage = "settled" => Run!NothingBehindTheAnswer
<1>1. LifecycleInvariant /\ [Run!Next]_(Run!vars) => [Truth]_(Run!vars)
  BY SettlesTruly, NothingFollows
<1>2. AnswerIsTrue <=> [][Truth]_(Run!vars)
  BY DEF AnswerIsTrue, Run!AnswerIsTrue
<1>3. QED
  BY <1>1, <1>2, LifecycleHolds, PTL DEF Run!Spec

----------------------------------------------------------------------------
(***************************************************************************)
(* The identity of calls: sequences, counters, and paths that begin with   *)
(* others.                                                                 *)
(***************************************************************************)
\* A sequence is one of its own elements.
LEMMA OwnElements == ASSUME NEW T, NEW s \in Seq(T) PROVE IsSeq(s)
<1>1. Len(s) \in Nat /\ DOMAIN s = 1..Len(s) /\ s = [i \in 1..Len(s) |-> s[i]]
  OBVIOUS
<1>2. \A i \in 1..Len(s) : s[i] \in Range(s)
  BY <1>1 DEF Range
<1>3. s \in [1..Len(s) -> Range(s)]
  BY <1>1, <1>2
<1>4. QED
  BY <1>1, <1>3, SeqDef DEF IsSeq

\* What a sequence is after an element is put to it.
LEMMA AppendFacts ==
  ASSUME NEW s, IsSeq(s), NEW e
  PROVE  /\ IsSeq(Append(s, e)) /\ Append(s, e) # <<>>
         /\ Len(s) \in Nat /\ Len(Append(s, e)) = Len(s) + 1 /\ Append(s, e)[Len(s) + 1] = e
         /\ \A i \in 1..Len(s) : Append(s, e)[i] = s[i]
         /\ Front(Append(s, e)) = s /\ Last(Append(s, e)) = e
         /\ SubSeq(Append(s, e), 1, Len(s)) = s
         /\ e \in Range(Append(s, e))
<1> DEFINE T == Range(s) \cup {e}
<1>1. s \in Seq(T) /\ e \in T
  BY DEF IsSeq
<1> HIDE DEF T
<1>2. Append(s, e) \in Seq(T) /\ Len(s) \in Nat /\ Len(Append(s, e)) = Len(s) + 1
      /\ Append(s, e)[Len(s) + 1] = e /\ \A i \in 1..Len(s) : Append(s, e)[i] = s[i]
      /\ Append(s, e) # <<>>
  BY <1>1
<1>3. SubSeq(Append(s, e), 1, Len(s)) = s
  BY <1>1
<1>4. IsSeq(Append(s, e))
  BY <1>2, OwnElements
<1>5. Front(Append(s, e)) = s /\ Last(Append(s, e)) = e
  BY <1>2, <1>3 DEF Front, Last
<1>6. DOMAIN Append(s, e) = 1..(Len(s) + 1)
  BY <1>2
<1>7. e \in Range(Append(s, e))
  BY <1>2, <1>6 DEF Range
<1>8. QED
  BY <1>2, <1>3, <1>4, <1>5, <1>7

\* A sequence that is not empty is its front and its last element.
LEMMA FrontFacts ==
  ASSUME NEW s, IsSeq(s), s # <<>>
  PROVE  IsSeq(Front(s)) /\ s = Append(Front(s), Last(s)) /\ Len(s) = Len(Front(s)) + 1
<1> DEFINE T == Range(s)
<1>1. s \in Seq(T)
  BY DEF IsSeq
<1> HIDE DEF T
<1>2. Front(s) \in Seq(T) /\ Len(Front(s)) = Len(s) - 1 /\ Len(s) \in Nat \ {0}
      /\ \A i \in 1..(Len(s) - 1) : Front(s)[i] = s[i]
  <2> DEFINE n == Len(s) - 1
  <2>1. Len(s) \in Nat \ {0} /\ n \in 0..Len(s) /\ n \in Nat
    BY <1>1, EmptySeq
  <2>2. Front(s) = SubSeq(s, 1, n)
    BY DEF Front
  <2> HIDE DEF n
  <2>3. SubSeq(s, 1, n) \in Seq(T) /\ Len(SubSeq(s, 1, n)) = n
        /\ \A i \in 1..n : SubSeq(s, 1, n)[i] = s[i]
    BY <1>1, <2>1
  <2>4. QED
    BY <2>1, <2>2, <2>3 DEF n
<1>3. Last(s) = s[Len(s)] /\ Last(s) \in T
  BY <1>1, <1>2 DEF Last
<1>4. s = Append(Front(s), Last(s))
  BY <1>1, <1>2, <1>3
<1>5. QED
  BY <1>2, <1>4, OwnElements

\* The prefixes of a sequence are itself and those of its front.
LEMMA PrefixesFacts ==
  ASSUME NEW s, IsSeq(s)
  PROVE  /\ s \in Prefixes(s)
         /\ \A e : Prefixes(Append(s, e)) = Prefixes(s) \cup {Append(s, e)}
         /\ \A h \in Prefixes(s) : h # s => \E k \in Prefixes(s) : k # <<>> /\ Front(k) = h
<1>1. s \in Seq(Range(s)) /\ Len(s) \in Nat
  BY DEF IsSeq
<1>2. s \in Prefixes(s)
  <2>1. SubSeq(s, 1, Len(s)) = s /\ Len(s) \in 0..Len(s)
    BY <1>1
  <2>2. QED
    BY <2>1 DEF Prefixes
<1>3. ASSUME NEW e PROVE Prefixes(Append(s, e)) = Prefixes(s) \cup {Append(s, e)}
  <2> DEFINE q == Append(s, e)
             n == Len(s)
  <2>1. /\ q \in Seq(Range(s) \cup {e}) /\ Len(q) = n + 1 /\ n \in Nat
        /\ \A i \in 1..n : q[i] = s[i]
    BY <1>1
  <2> HIDE DEF q, n
  <2>2. SubSeq(q, 1, n + 1) = q
    BY <2>1
  <2>3. ASSUME NEW m \in 0..n PROVE SubSeq(q, 1, m) = SubSeq(s, 1, m)
    BY <1>1, <2>1, <2>3 DEF n
  <2>4. 0..(n + 1) = (0..n) \cup {n + 1}
    BY <2>1
  <2>5. Prefixes(q) = {SubSeq(q, 1, m) : m \in 0..n} \cup {q}
    BY <2>1, <2>2, <2>4 DEF Prefixes
  <2>6. QED
    BY <2>3, <2>5 DEF Prefixes, q, n
<1>4. ASSUME NEW h \in Prefixes(s), h # s PROVE \E k \in Prefixes(s) : k # <<>> /\ Front(k) = h
  <2>1. PICK n \in 0..Len(s) : h = SubSeq(s, 1, n)
    BY <1>4 DEF Prefixes
  <2>2. n # Len(s)
    BY <1>1, <1>4, <2>1
  <2> DEFINE k == SubSeq(s, 1, n + 1)
  <2>3. n + 1 \in 0..Len(s) /\ n + 1 \in 1..Len(s)
    BY <1>1, <2>2
  <2>4. k \in Prefixes(s)
    BY <2>3 DEF Prefixes
  <2>5. k \in Seq(Range(s)) /\ Len(k) = n + 1 /\ \A i \in 1..(n + 1) : k[i] = s[i]
    BY <1>1, <2>3
  <2> HIDE DEF k
  <2>6. k # <<>>
    BY <2>3, <2>5
  <2>7. SubSeq(k, 1, n) = SubSeq(s, 1, n)
    BY <1>1, <2>3, <2>5
  <2>8. Front(k) = h
    BY <2>1, <2>3, <2>5, <2>7 DEF Front
  <2>9. QED
    BY <2>4, <2>6, <2>8
<1>5. QED
  BY <1>2, <1>3, <1>4

\* What a counter is after it was bumped.
LEMMA CounterFacts ==
  ASSUME NEW c, \A x \in DOMAIN c : c[x] \in Nat, NEW key
  PROVE  /\ \A x : Counter(c, x) \in Nat
         /\ DOMAIN Bumped(c, key) = DOMAIN c \cup {key}
         /\ \A x \in DOMAIN Bumped(c, key) : Bumped(c, key)[x] \in Nat
         /\ Counter(Bumped(c, key), key) = Counter(c, key) + 1
         /\ \A x : Counter(c, x) <= Counter(Bumped(c, key), x)
<1>1. \A x : Counter(c, x) \in Nat
  BY DEF Counter
<1> DEFINE b == Bumped(c, key)
           n == Counter(c, key) + 1
<1>2. DOMAIN b = DOMAIN c \cup {key} /\ b[key] = n /\ \A x \in DOMAIN c : x # key => b[x] = c[x]
  BY DEF Bumped, With
<1>3. n \in Nat /\ n = Counter(c, key) + 1
  BY <1>1
<1> HIDE DEF b, n
<1>4. \A x \in DOMAIN b : b[x] \in Nat
  BY <1>2, <1>3
<1>5. Counter(b, key) = n /\ \A x : x # key => Counter(b, x) = Counter(c, x)
  BY <1>2 DEF Counter
<1>6. \A x : Counter(c, x) <= Counter(b, x)
  BY <1>1, <1>3, <1>5
<1>7. QED
  BY <1>1, <1>2, <1>3, <1>4, <1>5, <1>6 DEF b

\* Sequences that agree in every place are the same.
LEMMA SameElements ==
  ASSUME NEW p, IsSeq(p), NEW q, IsSeq(q), Len(p) = Len(q), \A i \in 1..Len(p) : p[i] = q[i]
  PROVE  p = q
<1>1. p \in Seq(Range(p) \cup Range(q)) /\ q \in Seq(Range(p) \cup Range(q))
  BY DEF IsSeq
<1>2. QED
  BY <1>1

\* A path that another one segment longer begins with, or that begins so itself.
LEMMA BeginsFacts ==
  ASSUME NEW p, IsSeq(p), NEW e
  PROVE  /\ Begins(p, Append(p, e))
         /\ Following(p, Append(p, e)) = e
         /\ \A q : IsSeq(q) /\ Begins(Append(p, e), q) => Begins(p, q) /\ Following(p, q) = e
         /\ \A q : IsSeq(q) /\ Begins(q, Append(p, e)) =>
              \/ q = p
              \/ q # p /\ Begins(q, p) /\ Following(q, Append(p, e)) = Following(q, p)
<1> DEFINE pe == Append(p, e)
           n == Len(p)
<1>1. /\ IsSeq(pe) /\ n \in Nat /\ Len(pe) = n + 1 /\ pe[n + 1] = e
      /\ \A i \in 1..n : pe[i] = p[i]
  BY AppendFacts
<1> HIDE DEF pe
<1>2. Begins(p, pe)
  BY <1>1 DEF Begins
<1>3. ASSUME NEW q, IsSeq(q), Begins(pe, q) PROVE Begins(p, q) /\ q[n + 1] = e
  <2>1. Len(q) \in Nat /\ n + 1 < Len(q) /\ \A i \in 1..(n + 1) : q[i] = pe[i]
    BY <1>1, <1>3 DEF Begins, IsSeq
  <2>2. (\A i \in 1..n : i \in 1..(n + 1)) /\ n + 1 \in 1..(n + 1)
    BY <1>1
  <2>3. (\A i \in 1..n : q[i] = p[i]) /\ q[n + 1] = e
    BY <1>1, <2>1, <2>2
  <2>4. n < Len(q)
    BY <1>1, <2>1
  <2>5. QED
    BY <2>3, <2>4 DEF Begins
<1>4. ASSUME NEW q, IsSeq(q), Begins(q, pe)
      PROVE  \/ q # p /\ Begins(q, p) /\ pe[Len(q) + 1] = p[Len(q) + 1]
             \/ q = p
  <2>1. Len(q) \in Nat /\ Len(q) < n + 1 /\ \A i \in 1..Len(q) : pe[i] = q[i]
    BY <1>1, <1>4 DEF Begins, IsSeq
  <2>2. Len(q) <= n /\ \A i \in 1..Len(q) : i \in 1..n /\ p[i] = q[i]
    BY <1>1, <2>1
  <2>3. CASE Len(q) < n
    <3>1. Len(q) + 1 \in 1..n
      BY <1>1, <2>1, <2>3
    <3>2. QED
      BY <1>1, <2>2, <2>3, <3>1 DEF Begins
  <2>4. CASE Len(q) = n
    BY <1>4, <2>1, <2>2, <2>4, SameElements
  <2>5. QED
    BY <1>1, <2>1, <2>2, <2>3, <2>4
<1>5. Following(p, pe) = e
  BY <1>1 DEF Following
<1>6. QED
  BY <1>2, <1>3, <1>4, <1>5 DEF pe, Following

----------------------------------------------------------------------------
(***************************************************************************)
(* The path of the next call of a scope is new, and counted.               *)
(***************************************************************************)
\* The paths that a step of a scope may add: that of its next call, one behind it, or
\* that of the next nested workflow.
NewPath(g, q) ==
  \/ q = CallPath(g)
  \/ \E t, n : q = Append(CallPath(g), Segment(t, n)) /\ n \in Nat \ {0}
  \/ q = NestedPath(g)

\* The paths that are there.
LEMMA OldPaths ==
  ASSUME PathsSound
  PROVE  /\ \A q \in Paths : IsPath(q) /\ IsSeq(q)
         /\ \A f \in DOMAIN frames : frames[f].path \in Paths /\ IsSeq(frames[f].path)
BY DEF PathsSound, Paths, IsPath

\* A path that is one segment longer.
LEMMA LongerPath ==
  ASSUME NEW p, IsPath(p), NEW t, NEW n \in Nat
  PROVE  IsPath(Append(p, Segment(t, n)))
<1> DEFINE e == Segment(t, n)
           q == Append(p, e)
<1>1. e.through = t /\ e.nth = n /\ e = Segment(e.through, e.nth)
  BY DEF Segment
<1> HIDE DEF e
<1>2. /\ IsSeq(q) /\ Len(p) \in Nat /\ Len(q) = Len(p) + 1 /\ q[Len(p) + 1] = e
      /\ \A i \in 1..Len(p) : q[i] = p[i]
  BY AppendFacts DEF IsPath
<1> HIDE DEF q
<1>3. ASSUME NEW i \in 1..Len(q) PROVE q[i] = Segment(q[i].through, q[i].nth) /\ q[i].nth \in Nat
  <2>1. CASE i = Len(p) + 1
    BY <1>1, <1>2, <2>1
  <2>2. CASE i # Len(p) + 1
    <3>1. i \in 1..Len(p)
      BY <1>2, <2>2
    <3>2. QED
      BY <1>2, <3>1 DEF IsPath
  <2>3. QED
    BY <2>1, <2>2
<1>4. QED
  BY <1>2, <1>3 DEF IsPath, q, e

\* The segments of a scope's next call, and of its next nested workflow.
LEMMA NextSegments ==
  ASSUME PathsSound, ScopesCount, HostCounts, NEW g \in DOMAIN frames
  PROVE  LET p == frames[g].path
             call == Segment(Key(g), Counter(frames[g].counters, Key(g)) + 1)
             site == Segment(Key(g), 0)
             what == <<"request", Instr(g).request[frames[g].ok]>>
             nth == Counter(nestings, NestedBase(g)) + 1
         IN  /\ CallPath(g) = Append(p, call) /\ IsPath(CallPath(g)) /\ call.nth \in Nat \ {0}
             /\ Source(CallPath(g)) = Append(p, site) /\ IsPath(Append(p, site))
             /\ NestedBase(g) = Append(Append(p, site), Segment(what, 0))
             /\ NestedPath(g) = Append(Append(p, site), Segment(what, nth))
             /\ IsPath(NestedPath(g)) /\ nth \in Nat \ {0}
<1> DEFINE p == frames[g].path
           n == Counter(frames[g].counters, Key(g)) + 1
           call == Segment(Key(g), n)
           site == Segment(Key(g), 0)
           what == <<"request", Instr(g).request[frames[g].ok]>>
           nth == Counter(nestings, NestedBase(g)) + 1
<1>1. IsPath(p) /\ IsSeq(p)
  BY OldPaths
<1>2. n \in Nat \ {0}
  <2>1. Counter(frames[g].counters, Key(g)) \in Nat
    BY CounterFacts DEF ScopesCount
  <2>2. QED
    BY <2>1
<1>3. nth \in Nat \ {0}
  <2>1. Counter(nestings, NestedBase(g)) \in Nat
    BY CounterFacts DEF HostCounts
  <2>2. QED
    BY <2>1
<1>4. CallPath(g) = Append(p, call)
  BY DEF CallPath
<1>5. call.through = Key(g) /\ call.nth = n
  BY DEF Segment
<1>6. IsPath(Append(p, call)) /\ IsPath(Append(p, site))
  BY <1>1, <1>2, LongerPath
<1>7. Front(CallPath(g)) = p /\ Last(CallPath(g)) = call
  BY <1>1, <1>4, AppendFacts
<1>8. Source(CallPath(g)) = Append(p, site)
  BY <1>5, <1>7 DEF Source
<1>9. NestedBase(g) = Append(Append(p, site), Segment(what, 0))
  BY <1>8 DEF NestedBase
<1>10. Last(NestedBase(g)).through = what
  <2>1. Last(NestedBase(g)) = Segment(what, 0)
    BY <1>6, <1>9, AppendFacts DEF IsPath
  <2>2. QED
    BY <2>1 DEF Segment
<1>11. NestedPath(g) = Append(Append(p, site), Segment(what, nth))
  BY <1>8, <1>10 DEF NestedPath
<1>12. IsPath(Append(Append(p, site), Segment(what, nth)))
  BY <1>3, <1>6, LongerPath
<1>13. QED
  BY <1>2, <1>3, <1>4, <1>5, <1>6, <1>8, <1>9, <1>11, <1>12

\* A new path is one that no call or scope has, and that none begins with.
LEMMA NewPathIsNew ==
  ASSUME PathsSound, ScopesCount, HostCounts, NEW g \in DOMAIN frames, NEW q, NewPath(g, q)
  PROVE  /\ IsPath(q) /\ q # <<>> /\ Last(q).nth # 0 /\ Begins(frames[g].path, q)
         /\ \A r \in Paths : r # q /\ ~ Begins(q, r)
         /\ \A r \in Paths : r # CallPath(g) /\ ~ Begins(CallPath(g), r)
<1> DEFINE p == frames[g].path
           call == Segment(Key(g), Counter(frames[g].counters, Key(g)) + 1)
           site == Segment(Key(g), 0)
           what == <<"request", Instr(g).request[frames[g].ok]>>
           nth == Counter(nestings, NestedBase(g)) + 1
           last == Segment(what, nth)
<1>1. /\ CallPath(g) = Append(p, call) /\ IsPath(CallPath(g)) /\ call.nth \in Nat \ {0}
      /\ IsPath(Append(p, site)) /\ NestedBase(g) = Append(Append(p, site), Segment(what, 0))
      /\ NestedPath(g) = Append(Append(p, site), last)
      /\ IsPath(NestedPath(g)) /\ nth \in Nat \ {0}
  BY NextSegments
<1>2. p \in Paths /\ IsSeq(p) /\ \A r \in Paths : IsPath(r) /\ IsSeq(r)
  BY OldPaths
<1>3. /\ call.through = Key(g) /\ call.nth = Counter(frames[g].counters, Key(g)) + 1
      /\ site.nth = 0 /\ last.through = what /\ last.nth = nth
  BY DEF Segment
<1> HIDE DEF p, call, site, what, nth, last
<1>4. ASSUME NEW r \in Paths PROVE r # CallPath(g) /\ ~ Begins(CallPath(g), r)
  <2>1. SUFFICES ASSUME r = CallPath(g) \/ Begins(CallPath(g), r) PROVE FALSE
    OBVIOUS
  <2>2. Begins(p, r) /\ Following(p, r) = call
    <3>1. CASE r = CallPath(g)
      BY <1>1, <1>2, <3>1, BeginsFacts, AppendFacts
    <3>2. CASE Begins(Append(p, call), r)
      <4>1. IsSeq(r)
        BY <1>2
      <4>2. QED
        BY <1>2, <3>2, <4>1, BeginsFacts
    <3>3. QED
      BY <1>1, <2>1, <3>1, <3>2
  <2>3. call.nth <= Counter(frames[g].counters, Key(g))
    BY <1>3, <2>2 DEF ScopesCount, IsCounted, p
  <2>4. Counter(frames[g].counters, Key(g)) \in Nat
    BY CounterFacts DEF ScopesCount
  <2>5. QED
    BY <1>3, <2>3, <2>4
<1>5. CASE q = CallPath(g)
  <2>1. Last(q).nth # 0 /\ q # <<>> /\ Begins(p, q)
    BY <1>1, <1>2, <1>5, AppendFacts, BeginsFacts
  <2>2. QED
    BY <1>1, <1>4, <1>5, <2>1 DEF p
<1>6. ASSUME NEW t, NEW n \in Nat \ {0}, q = Append(CallPath(g), Segment(t, n))
      PROVE  /\ IsPath(q) /\ q # <<>> /\ Last(q).nth # 0 /\ Begins(p, q)
             /\ \A r \in Paths : r # q /\ ~ Begins(q, r)
  <2>1. IsSeq(CallPath(g))
    BY <1>1 DEF IsPath
  <2>2. IsPath(q)
    BY <1>1, <1>6, LongerPath
  <2>3. q # <<>> /\ Last(q).nth # 0
    BY <1>6, <2>1, AppendFacts DEF Segment
  <2>4. Begins(CallPath(g), q) /\ IsSeq(q)
    BY <1>6, <2>1, <2>2, BeginsFacts DEF IsPath
  <2>5. Begins(p, q)
    BY <1>1, <1>2, <2>4, BeginsFacts
  <2>6. \A r \in Paths : Begins(q, r) => Begins(CallPath(g), r)
    BY <1>2, <1>6, <2>1, BeginsFacts
  <2>7. QED
    BY <1>4, <2>2, <2>3, <2>4, <2>5, <2>6
<1>7. CASE q = NestedPath(g)
  <2> DEFINE s == Append(p, site)
  <2>1. IsSeq(s) /\ q = Append(s, last) /\ IsSeq(q) /\ Len(s) = Len(p) + 1 /\ Len(p) \in Nat
    BY <1>1, <1>2, <1>7, AppendFacts DEF IsPath
  <2>2. s[Len(s)] = site
    BY <1>2, <2>1, AppendFacts
  <2> HIDE DEF s
  <2>3. q # <<>> /\ Last(q).nth # 0 /\ Begins(s, q) /\ Following(s, q) = last
    BY <1>1, <1>3, <2>1, AppendFacts, BeginsFacts
  <2>4. Begins(p, q)
    BY <1>2, <2>1, <2>3, BeginsFacts DEF s
  <2>5. ASSUME NEW r \in Paths, r = q \/ Begins(q, r) PROVE FALSE
    <3> DEFINE i == Len(s) + 1
    <3>1. Begins(s, r) /\ r[i] = last /\ IsSeq(r)
      <4>1. Begins(s, r) /\ Following(s, r) = last /\ IsSeq(r)
        <5>1. IsSeq(r)
          BY <1>2
        <5>2. CASE r = q
          BY <2>3, <5>1, <5>2
        <5>3. CASE Begins(Append(s, last), r)
          BY <2>1, <5>1, <5>3, BeginsFacts
        <5>4. QED
          BY <2>1, <2>5, <5>1, <5>2, <5>3
      <4>2. QED
        BY <4>1 DEF Following
    <3>2. i \in 2..Len(r) /\ i - 1 = Len(s) /\ i - 1 \in 1..Len(s)
      BY <2>1, <3>1 DEF Begins, IsSeq
    <3>3. r[i - 1] = site
      BY <2>2, <3>1, <3>2 DEF Begins
    <3>4. SubSeq(r, 1, i - 1) = s
      <4>1. r \in Seq(Range(r)) /\ Len(s) \in 0..Len(r)
        BY <2>1, <3>1, <3>2 DEF IsSeq
      <4>2. /\ SubSeq(r, 1, Len(s)) \in Seq(Range(r)) /\ Len(SubSeq(r, 1, Len(s))) = Len(s)
            /\ \A j \in 1..Len(s) : SubSeq(r, 1, Len(s))[j] = r[j]
        BY <2>1, <4>1
      <4>3. IsSeq(SubSeq(r, 1, Len(s)))
        BY <4>2, OwnElements
      <4>4. SubSeq(r, 1, Len(s)) = s
        BY <2>1, <3>1, <4>2, <4>3, SameElements DEF Begins
      <4>5. QED
        BY <3>2, <4>4
    <3>5. Base(r, i) = NestedBase(g)
      BY <1>1, <1>3, <3>1, <3>4 DEF Base, s
    <3>6. r[i].nth <= Counter(nestings, NestedBase(g))
      BY <1>3, <3>2, <3>3, <3>5 DEF HostCounts, RequestsCounted
    <3>7. Counter(nestings, NestedBase(g)) \in Nat /\ r[i].nth = Counter(nestings, NestedBase(g)) + 1
      BY <1>3, <3>1, CounterFacts DEF HostCounts, nth
    <3>8. QED
      BY <3>6, <3>7
  <2>6. QED
    BY <1>1, <1>4, <1>7, <2>3, <2>4, <2>5 DEF p
<1>8. QED
  BY <1>4, <1>5, <1>6, <1>7 DEF NewPath, p

\* The segment that follows in a path has a number.
LEMMA FollowingIsASegment ==
  ASSUME NEW x, IsSeq(x), NEW q, IsPath(q), Begins(x, q)
  PROVE  Following(x, q).nth \in Nat
<1>1. Len(x) + 1 \in 1..Len(q)
  BY DEF Begins, IsPath, IsSeq
<1>2. QED
  BY <1>1 DEF IsPath, Following

\* What the counters of a scope count, they count after another call as well.
LEMMA BumpedCounts ==
  ASSUME NEW c, \A x \in DOMAIN c : c[x] \in Nat, NEW key, NEW next, next.nth \in Nat
  PROVE  /\ IsCounted(next, c) => IsCounted(next, Bumped(c, key))
         /\ next.through = key /\ next.nth <= Counter(c, key) + 1 => IsCounted(next, Bumped(c, key))
<1> DEFINE b == Bumped(c, key)
           t == next.through
           n == next.nth
           old == Counter(c, t)
           new == Counter(b, t)
<1>1. old \in Nat /\ old <= new /\ (t = key => new = Counter(c, key) + 1)
  BY CounterFacts
<1>2. new \in Nat
  <2>1. \A y \in DOMAIN b : b[y] \in Nat
    BY CounterFacts
  <2> HIDE DEF b
  <2>2. QED
    BY <2>1, CounterFacts
<1>3. (IsCounted(next, c) <=> n <= old) /\ (IsCounted(next, b) <=> n <= new) /\ n \in Nat
  BY DEF IsCounted
<1> HIDE DEF n, old, new, b, t
<1>4. IsCounted(next, c) => IsCounted(next, b)
  BY <1>1, <1>2, <1>3
<1>5. t = key /\ n <= Counter(c, key) + 1 => IsCounted(next, b)
  BY <1>1, <1>3
<1>6. QED
  BY <1>4, <1>5 DEF b, n, t

\* The counters of a scope that counts its call, and of one that does not.
Counts(g, f) == IF f = g THEN Bumped(frames[g].counters, Key(g)) ELSE frames[f].counters

\* Whatever was counted, is counted.
LEMMA StillCounted ==
  ASSUME PathsSound, ScopesCount, NEW g \in DOMAIN frames, NEW f \in DOMAIN frames,
         NEW q \in Paths, Begins(frames[f].path, q)
  PROVE  IsCounted(Following(frames[f].path, q), Counts(g, f))
<1> DEFINE next == Following(frames[f].path, q)
<1>1. next.nth \in Nat
  BY OldPaths, FollowingIsASegment
<1>2. IsCounted(next, frames[f].counters) /\ \A x \in DOMAIN frames[f].counters : frames[f].counters[x] \in Nat
  BY DEF ScopesCount
<1> HIDE DEF next
<1>3. IsCounted(next, Bumped(frames[f].counters, Key(g)))
  BY <1>1, <1>2, BumpedCounts
<1>4. IsCounted(next, Counts(g, f))
  BY <1>2, <1>3 DEF Counts
<1>5. QED
  BY <1>4 DEF next

\* What follows the path of a scope in that of another one's call or nested source.
LEMMA FollowsScope ==
  ASSUME PathsSound, ScopesCount, HostCounts, NEW g \in DOMAIN frames, NEW f \in DOMAIN frames,
         NEW e, e.nth \in Nat, e.through = Key(g), e.nth <= Counter(frames[g].counters, Key(g)) + 1,
         Begins(frames[f].path, Append(frames[g].path, e))
  PROVE  IsCounted(Following(frames[f].path, Append(frames[g].path, e)), Counts(g, f))
<1> DEFINE p == frames[g].path
           x == frames[f].path
<1>1. IsSeq(p) /\ p \in Paths /\ IsSeq(x) /\ Begins(x, Append(p, e))
  BY OldPaths
<1>2. \/ x = p
      \/ Begins(x, p) /\ Following(x, Append(p, e)) = Following(x, p)
  <2> HIDE DEF p, x
  <2>1. QED
    BY <1>1, BeginsFacts
<1>3. CASE Begins(x, p) /\ Following(x, Append(p, e)) = Following(x, p)
  BY <1>1, <1>3, StillCounted
<1>4. CASE x = p
  <2>1. f = g
    BY <1>4 DEF PathsSound
  <2>2. Following(p, Append(p, e)) = e
    BY <1>1, BeginsFacts
  <2>3. \A y \in DOMAIN frames[g].counters : frames[g].counters[y] \in Nat
    BY DEF ScopesCount
  <2>4. IsCounted(e, Bumped(frames[g].counters, Key(g)))
    BY <2>3, BumpedCounts
  <2>5. QED
    BY <1>4, <2>1, <2>2, <2>4 DEF Counts
<1>5. QED
  BY <1>2, <1>3, <1>4

\* So the scopes count a new path, when the one that makes it has counted on.
LEMMA NewPathCounted ==
  ASSUME PathsSound, ScopesCount, HostCounts, NEW g \in DOMAIN frames, NEW q, NewPath(g, q),
         NEW f \in DOMAIN frames, Begins(frames[f].path, q)
  PROVE  IsCounted(Following(frames[f].path, q), Counts(g, f))
<1> DEFINE p == frames[g].path
           x == frames[f].path
           call == Segment(Key(g), Counter(frames[g].counters, Key(g)) + 1)
           site == Segment(Key(g), 0)
           what == <<"request", Instr(g).request[frames[g].ok]>>
           last == Segment(what, Counter(nestings, NestedBase(g)) + 1)
<1>1. /\ CallPath(g) = Append(p, call) /\ IsPath(CallPath(g)) /\ IsPath(Append(p, site))
      /\ NestedPath(g) = Append(Append(p, site), last) /\ call.nth \in Nat \ {0}
  BY NextSegments
<1>2. call.through = Key(g) /\ call.nth = Counter(frames[g].counters, Key(g)) + 1 /\ site.nth = 0
      /\ site.through = Key(g)
  BY DEF Segment
<1>3. IsSeq(x) /\ x \in Paths /\ IsSeq(p) /\ Counter(frames[g].counters, Key(g)) \in Nat
  BY OldPaths, CounterFacts DEF ScopesCount
<1>4. Begins(x, CallPath(g)) => IsCounted(Following(x, CallPath(g)), Counts(g, f))
  <2>1. call.nth <= Counter(frames[g].counters, Key(g)) + 1
    BY <1>2, <1>3
  <2> HIDE DEF call
  <2>2. QED
    BY <1>1, <1>2, <2>1, FollowsScope
<1>5. Begins(x, Append(p, site)) => IsCounted(Following(x, Append(p, site)), Counts(g, f))
  <2>1. site.nth <= Counter(frames[g].counters, Key(g)) + 1 /\ site.nth \in Nat
    BY <1>2, <1>3
  <2> HIDE DEF site
  <2>2. QED
    BY <1>1, <1>2, <2>1, FollowsScope
<1> HIDE DEF call, site, what, last, p
<1>6. CASE q = CallPath(g)
  BY <1>4, <1>6
<1>7. ASSUME NEW t, NEW n \in Nat \ {0}, q = Append(CallPath(g), Segment(t, n))
      PROVE  IsCounted(Following(x, q), Counts(g, f))
  <2>1. IsSeq(CallPath(g)) /\ Begins(x, Append(CallPath(g), Segment(t, n)))
    BY <1>1, <1>7 DEF IsPath
  <2>2. x # CallPath(g)
    BY <1>3, NewPathIsNew DEF NewPath
  <2> HIDE DEF x
  <2>3. Begins(x, CallPath(g)) /\ Following(x, Append(CallPath(g), Segment(t, n))) = Following(x, CallPath(g))
    BY <1>3, <2>1, <2>2, BeginsFacts
  <2>4. QED
    BY <1>4, <1>7, <2>3
<1>8. CASE q = NestedPath(g)
  <2> DEFINE s == Append(p, site)
  <2>1. IsSeq(s) /\ q = Append(s, last) /\ Begins(x, Append(s, last))
    BY <1>1, <1>8 DEF IsPath
  <2>2. x # s
    <3>1. CASE f = Root
      BY <1>3, <3>1, AppendFacts DEF PathsSound
    <3>2. CASE f # Root
      <4>1. Last(s) = site
        BY <1>3, AppendFacts
      <4>2. Last(x).nth # 0
        BY <3>2 DEF PathsSound
      <4>3. QED
        BY <1>2, <4>1, <4>2
    <3>3. QED
      BY <3>1, <3>2
  <2> HIDE DEF x, s
  <2>3. Begins(x, s) /\ Following(x, Append(s, last)) = Following(x, s)
    BY <1>3, <2>1, <2>2, BeginsFacts
  <2>4. QED
    BY <1>5, <2>1, <2>3 DEF s, x
<1>9. QED
  BY <1>6, <1>7, <1>8 DEF NewPath

\* The host's counts of a path with a segment more.
LEMMA LongerRequests ==
  ASSUME NEW p, IsSeq(p), NEW counts, RequestsCounted(p, counts), NEW e,
         \/ p = <<>>
         \/ Last(p).nth # 0
         \/ e.nth <= Counter(counts, Append(p, Segment(e.through, 0)))
  PROVE  RequestsCounted(Append(p, e), counts)
<1> DEFINE q == Append(p, e)
           n == Len(p)
<1>1. /\ n \in Nat /\ Len(q) = n + 1 /\ q[n + 1] = e /\ SubSeq(q, 1, n) = p /\ IsSeq(q)
      /\ \A i \in 1..n : q[i] = p[i]
  BY AppendFacts
<1>2. p \in Seq(Range(p)) /\ q \in Seq(Range(q))
  BY <1>1 DEF IsSeq
<1> HIDE DEF q, n
<1>3. ASSUME NEW i \in 2..(n + 1), q[i - 1].nth = 0
      PROVE  q[i].nth <= Counter(counts, Base(q, i))
  <2>1. CASE i = n + 1
    <3>1. n \in 1..n /\ i - 1 = n
      BY <1>1, <1>3, <2>1
    <3>2. p # <<>> /\ Last(p) = p[n]
      BY <1>1, <3>1 DEF Last, n
    <3>3. Last(p).nth = 0
      BY <1>1, <1>3, <3>1, <3>2
    <3>4. Base(q, i) = Append(p, Segment(e.through, 0))
      BY <1>1, <2>1, <3>1 DEF Base
    <3>5. QED
      BY <1>1, <2>1, <3>2, <3>3, <3>4
  <2>2. CASE i # n + 1
    <3>1. i \in 2..n /\ i \in 1..n /\ i - 1 \in 1..n /\ i - 1 \in Nat
      BY <1>1, <2>2
    <3>2. q[i] = p[i] /\ q[i - 1] = p[i - 1]
      BY <1>1, <3>1
    <3>3. SubSeq(q, 1, i - 1) = SubSeq(p, 1, i - 1)
      BY <1>1, <1>2, <3>1 DEF n
    <3>4. Base(q, i) = Base(p, i)
      BY <3>2, <3>3 DEF Base
    <3>5. QED
      BY <1>3, <3>1, <3>2, <3>4 DEF RequestsCounted, n
  <2>3. QED
    BY <2>1, <2>2
<1>4. QED
  BY <1>1, <1>3 DEF RequestsCounted, q

\* What was counted stays counted when a request is.
LEMMA RequestsStayCounted ==
  ASSUME HostCounts, NEW q, IsPath(q), RequestsCounted(q, nestings), NEW base
  PROVE  RequestsCounted(q, Bumped(nestings, base))
<1> DEFINE b == Bumped(nestings, base)
<1>1. /\ \A x : Counter(nestings, x) \in Nat /\ Counter(nestings, x) <= Counter(b, x)
      /\ \A y \in DOMAIN b : b[y] \in Nat
  BY CounterFacts DEF HostCounts
<1> HIDE DEF b
<1>2. \A x : Counter(b, x) \in Nat
  BY <1>1, CounterFacts
<1>3. ASSUME NEW i \in 2..Len(q), q[i - 1].nth = 0 PROVE q[i].nth <= Counter(b, Base(q, i))
  <2> DEFINE x == Base(q, i)
             n == q[i].nth
  <2>1. i \in 1..Len(q)
    BY DEF IsPath, IsSeq
  <2>2. n \in Nat
    BY <2>1 DEF IsPath
  <2>3. n <= Counter(nestings, x)
    BY <1>3 DEF RequestsCounted
  <2> HIDE DEF x, n
  <2>4. n <= Counter(b, x)
    BY <1>1, <1>2, <2>2, <2>3
  <2>5. QED
    BY <2>4 DEF x, n
<1>4. QED
  BY <1>3 DEF RequestsCounted, b

\* The host counts the requests of a new path, when it has counted on for that of a
\* nested workflow.
LEMMA NewPathRequests ==
  ASSUME PathsSound, ScopesCount, HostCounts, NEW g \in DOMAIN frames, NEW q, NewPath(g, q),
         NEW counts,
         \/ counts = nestings /\ q # NestedPath(g)
         \/ counts = Bumped(nestings, NestedBase(g))
  PROVE  RequestsCounted(q, counts)
<1> DEFINE p == frames[g].path
           call == Segment(Key(g), Counter(frames[g].counters, Key(g)) + 1)
           site == Segment(Key(g), 0)
           what == <<"request", Instr(g).request[frames[g].ok]>>
           last == Segment(what, Counter(nestings, NestedBase(g)) + 1)
<1>1. /\ CallPath(g) = Append(p, call) /\ IsPath(CallPath(g)) /\ call.nth \in Nat \ {0}
      /\ IsPath(Append(p, site)) /\ NestedBase(g) = Append(Append(p, site), Segment(what, 0))
      /\ NestedPath(g) = Append(Append(p, site), last) /\ IsPath(NestedPath(g))
  BY NextSegments
<1>2. IsPath(p) /\ IsSeq(p) /\ p \in Paths
  BY OldPaths
<1>3. p = <<>> \/ Last(p).nth # 0
  BY DEF PathsSound
<1>4. last.through = what /\ last.nth = Counter(nestings, NestedBase(g)) + 1
  BY DEF Segment
<1> HIDE DEF p, call, site, what, last
<1>5. \A e : RequestsCounted(Append(p, e), counts)
  <2>1. RequestsCounted(p, nestings)
    BY <1>2 DEF HostCounts
  <2>2. RequestsCounted(p, counts)
    BY <1>2, <2>1, RequestsStayCounted
  <2>3. QED
    BY <1>2, <1>3, <2>2, LongerRequests
<1>6. CASE q = CallPath(g)
  BY <1>1, <1>5, <1>6
<1>7. ASSUME NEW t, NEW n \in Nat \ {0}, q = Append(CallPath(g), Segment(t, n))
      PROVE  RequestsCounted(q, counts)
  <2>1. IsSeq(CallPath(g)) /\ Last(CallPath(g)) = call
    BY <1>1, <1>2, AppendFacts DEF IsPath
  <2>2. Last(CallPath(g)).nth # 0
    BY <1>1, <2>1
  <2>3. QED
    BY <1>1, <1>5, <1>7, <2>1, <2>2, LongerRequests
<1>8. CASE q = NestedPath(g)
  <2>1. counts = Bumped(nestings, NestedBase(g))
    BY <1>8
  <2>2. Counter(counts, NestedBase(g)) = Counter(nestings, NestedBase(g)) + 1
    BY <2>1, CounterFacts DEF HostCounts
  <2>3. Counter(nestings, NestedBase(g)) \in Nat
    BY CounterFacts DEF HostCounts
  <2>4. last.nth <= Counter(counts, Append(Append(p, site), Segment(last.through, 0)))
    BY <1>1, <1>4, <2>2, <2>3
  <2>5. IsSeq(Append(p, site)) /\ RequestsCounted(Append(p, site), counts)
    BY <1>1, <1>5 DEF IsPath
  <2>6. QED
    BY <1>1, <1>8, <2>4, <2>5, LongerRequests
<1>9. QED
  BY <1>6, <1>7, <1>8 DEF NewPath

\* The parent of a scope is there.
LEMMA ParentIsThere ==
  ASSUME TreeSound, NEW f \in DOMAIN frames, f # Root
  PROVE  /\ Front(f) \in DOMAIN frames /\ f \in frames[Front(f)].waits
         /\ f = Append(Front(f), Last(f)) /\ IsSeq(Front(f))
<1>1. f \in frames[Front(f)].waits /\ IsSeq(f) /\ Prefixes(f) \subseteq DOMAIN frames
  BY DEF TreeSound
<1> DEFINE up == Front(f)
<1>2. f = Append(up, Last(f)) /\ IsSeq(up)
  BY <1>1, FrontFacts DEF Root
<1> HIDE DEF up
<1>3. up \in Prefixes(up) /\ Prefixes(f) = Prefixes(up) \cup {f}
  BY <1>2, PrefixesFacts
<1>4. QED
  BY <1>1, <1>2, <1>3 DEF up

\* The path of a pipeline's call, while a stage of one of its items is there.
LEMMA AroundAStage ==
  ASSUME TreeSound, PathsSound, ScopesCount, StagesInOrder,
         NEW f \in DOMAIN frames \ {Root}, NEW up, up = Front(f), Instr(up).op = "pipeline"
  PROVE  LET C == Around(up)
             i == Last(f)[3][1]
             s == Last(f)[3][2]
         IN  /\ up \in DOMAIN frames /\ i \in Nat \ {0} /\ s \in Nat /\ f = Position(up, <<i, s>>)
             /\ IsPath(C) /\ C # <<>> /\ Last(C).nth # 0 /\ Front(C) = frames[up].path
             /\ frames[f].path = Append(C, Segment(<<"stage", s>>, i))
             /\ Begins(C, frames[f].path)
             /\ \A x \in DOMAIN frames : frames[x].path # C
<1> DEFINE C == Around(up)
           i == Last(f)[3][1]
           s == Last(f)[3][2]
           c == Counter(frames[up].counters, Key(up))
           seg == Segment(<<"stage", s>>, i)
<1>1. up \in DOMAIN frames
  BY ParentIsThere
<1>2. /\ i \in 1..Instr(up).items /\ s \in 1..Len(Instr(up).stages)
      /\ f = Position(up, <<i, s>>) /\ c # 0 /\ frames[f].path = PathInStage(C, i, s)
  BY DEF StagesInOrder, StageSound
<1>3. i \in Nat \ {0} /\ s \in Nat /\ frames[f].path = Append(C, seg)
  BY <1>2 DEF PathInStage
<1>4. c \in Nat
  BY <1>1, CounterFacts DEF ScopesCount
<1>5. IsPath(C) /\ C # <<>> /\ Last(C).nth # 0 /\ Front(C) = frames[up].path
  <2>1. IsPath(frames[up].path) /\ IsSeq(frames[up].path)
    BY <1>1, OldPaths
  <2>2. C = Append(frames[up].path, Segment(Key(up), c))
    BY DEF Around
  <2>3. Segment(Key(up), c).nth = c
    BY DEF Segment
  <2> HIDE DEF C, c
  <2>4. IsPath(C)
    BY <1>4, <2>1, <2>2, LongerPath
  <2>5. C # <<>> /\ Last(C) = Segment(Key(up), c) /\ Front(C) = frames[up].path
    BY <2>1, <2>2, AppendFacts
  <2>6. QED
    BY <1>2, <2>3, <2>4, <2>5
<1>6. Begins(C, frames[f].path) /\ Following(C, frames[f].path) = seg /\ IsSeq(C)
  <2>1. IsSeq(C)
    BY <1>5 DEF IsPath
  <2>2. Begins(C, Append(C, seg)) /\ Following(C, Append(C, seg)) = seg
    BY <2>1, BeginsFacts
  <2>3. QED
    BY <1>3, <2>1, <2>2
<1>7. ASSUME NEW x \in DOMAIN frames, frames[x].path = C PROVE FALSE
  <2>1. frames[f].path \in Paths
    BY OldPaths
  <2>2. IsCounted(seg, frames[x].counters)
    BY <1>6, <1>7, <2>1 DEF ScopesCount
  <2>3. seg.nth = i /\ seg.through = <<"stage", s>>
    BY DEF Segment
  <2>4. \A key \in DOMAIN frames[x].counters : key[1] # "stage"
    BY <1>7 DEF ScopesCount
  <2>5. seg.through \notin DOMAIN frames[x].counters
    BY <2>3, <2>4
  <2>6. Counter(frames[x].counters, seg.through) = 0
    BY <2>5 DEF Counter
  <2>7. i <= 0
    BY <2>2, <2>3, <2>6 DEF IsCounted
  <2>8. QED
    BY <1>3, <2>7
<1>8. QED
  BY <1>1, <1>2, <1>3, <1>5, <1>6, <1>7

\* What follows it in a new path, it also follows in the path of the scope that makes it.
LEMMA FollowsPipeline ==
  ASSUME TreeSound, PathsSound, ScopesCount, HostCounts, StagesInOrder,
         NEW f \in DOMAIN frames \ {Root}, NEW up, up = Front(f), Instr(up).op = "pipeline",
         NEW g \in DOMAIN frames, NEW q, NewPath(g, q), Begins(Around(up), q)
  PROVE  /\ Begins(Around(up), frames[g].path)
         /\ Following(Around(up), q) = Following(Around(up), frames[g].path)
<1> DEFINE C == Around(up)
           p == frames[g].path
           call == Segment(Key(g), Counter(frames[g].counters, Key(g)) + 1)
           site == Segment(Key(g), 0)
           what == <<"request", Instr(g).request[frames[g].ok]>>
           last == Segment(what, Counter(nestings, NestedBase(g)) + 1)
<1>1. /\ CallPath(g) = Append(p, call) /\ IsPath(CallPath(g)) /\ IsPath(Append(p, site))
      /\ NestedPath(g) = Append(Append(p, site), last)
  BY NextSegments
<1>2. IsSeq(p) /\ p \in Paths
  BY OldPaths
<1>3. /\ IsPath(C) /\ Last(C).nth # 0 /\ Begins(C, frames[f].path)
      /\ \A x \in DOMAIN frames : frames[x].path # C
  BY AroundAStage
<1>4. C # p /\ C # CallPath(g) /\ IsSeq(C)
  <2>1. \A r \in Paths : ~ Begins(CallPath(g), r)
    BY NewPathIsNew
  <2>2. frames[f].path \in Paths
    BY OldPaths
  <2>3. QED
    BY <1>3, <2>1, <2>2 DEF IsPath
<1>5. C # Append(p, site)
  <2>1. Last(Append(p, site)) = site /\ site.nth = 0
    BY <1>2, AppendFacts DEF Segment
  <2>2. QED
    BY <1>3, <2>1
<1>6. IsSeq(CallPath(g)) /\ IsSeq(Append(p, site))
  BY <1>1 DEF IsPath
<1> HIDE DEF C, p, call, site, what, last
<1>7. \A e : Begins(C, Append(p, e)) => Begins(C, p) /\ Following(C, Append(p, e)) = Following(C, p)
  BY <1>2, <1>4, BeginsFacts
<1>8. CASE q = CallPath(g)
  BY <1>1, <1>7, <1>8 DEF C, p
<1>9. ASSUME NEW t, NEW n, q = Append(CallPath(g), Segment(t, n))
      PROVE  Begins(C, p) /\ Following(C, q) = Following(C, p)
  <2>1. Begins(C, Append(CallPath(g), Segment(t, n)))
    BY <1>9 DEF C
  <2>2. Begins(C, CallPath(g)) /\ Following(C, Append(CallPath(g), Segment(t, n))) = Following(C, CallPath(g))
    BY <1>4, <1>6, <2>1, BeginsFacts
  <2>3. QED
    BY <1>1, <1>7, <1>9, <2>2
<1>10. CASE q = NestedPath(g)
  <2> DEFINE s == Append(p, site)
  <2>1. Begins(C, Append(s, last)) /\ q = Append(s, last)
    BY <1>1, <1>10 DEF C
  <2>2. C # s /\ IsSeq(s)
    BY <1>5, <1>6
  <2>3. Begins(C, s) => Begins(C, p) /\ Following(C, s) = Following(C, p)
    BY <1>7
  <2> HIDE DEF s
  <2>4. Begins(C, s) /\ Following(C, Append(s, last)) = Following(C, s)
    BY <1>4, <2>1, <2>2, BeginsFacts
  <2>5. Begins(C, p) /\ Following(C, q) = Following(C, p)
    BY <2>1, <2>3, <2>4
  <2>6. QED
    BY <2>5 DEF C, p
<1>11. QED
  BY <1>8, <1>9, <1>10 DEF NewPath, C, p

----------------------------------------------------------------------------
(***************************************************************************)
(* A step that opens scopes, or posts a call, keeps the invariant.         *)
(***************************************************************************)
\* The scope g makes calls: the scopes K it opens and the paths New it makes are new.
Forks(g, K, New) ==
  /\ g \in DOMAIN frames /\ frames[g].waits = {} /\ ~AtEnd(g) /\ Instr(g).op # "stage"
  /\ DOMAIN frames' = DOMAIN frames \cup K
  /\ \A x \in DOMAIN frames \ {g} : frames'[x] = frames[x]
  /\ \E W : frames'[g] = [frames[g] EXCEPT !.counters = Bumped(@, Key(g)), !.waits = W]
  /\ Paths' \subseteq Paths \cup New
  /\ \A q \in New : NewPath(g, q)
  /\ \A q, r \in New : ~ Begins(q, r)
  /\ \/ nestings' = nestings /\ NestedPath(g) \notin New
     \/ nestings' = Bumped(nestings, NestedBase(g))
  /\ \A k \in K :
       /\ \E c : k = Position(g, c)
       /\ FrameFields(frames'[k]) /\ frames'[k].path \in New
       /\ frames'[k].code \in DOMAIN Code /\ frames'[k].pc = 1 /\ frames'[k].counters = <<>>
       /\ frames'[k].waits = {} /\ frames'[k].holder \in {k, frames[g].holder}
  /\ \A k, l \in K : frames'[k].path = frames'[l].path => k = l
  /\ Instr(g).op = "pipeline" =>
       /\ Instr(g).stages # <<>> /\ IsSeq(Instr(g).stages)
       /\ \A q \in New : \E i : q = PathInStage(CallPath(g), i, 1)
       /\ \A k \in K : \E i \in 1..Instr(g).items :
            k = Position(g, <<i, 1>>) /\ frames'[k].path = PathInStage(CallPath(g), i, 1)

\* They are children of the scope, and were not there.
LEMMA ForkedAreNew ==
  ASSUME TreeSound, NEW g, NEW K, NEW New, Forks(g, K, New), NEW k \in K
  PROVE  k \notin DOMAIN frames /\ k # Root /\ Front(k) = g /\ \E c : k = Append(g, c)
<1>1. IsSeq(g) /\ frames[g].waits = {}
  BY DEF TreeSound, Forks
<1>2. PICK c : k = Append(g, c)
  BY DEF Forks, Position
<1>3. Front(k) = g /\ k # Root
  BY <1>1, <1>2, AppendFacts DEF Root
<1>4. k \notin DOMAIN frames
  BY <1>1, <1>3 DEF TreeSound
<1>5. QED
  BY <1>2, <1>3, <1>4

\* What the scope is after it.
LEMMA ForkedScopes ==
  ASSUME TreeSound, NEW g, NEW K, NEW New, Forks(g, K, New), NEW x \in DOMAIN frames
  PROVE  /\ x \in DOMAIN frames'
         /\ frames'[x].path = frames[x].path /\ frames'[x].counters = Counts(g, x)
         /\ frames'[x].code = frames[x].code /\ frames'[x].pc = frames[x].pc
         /\ frames'[x].marks = frames[x].marks /\ frames'[x].turns = frames[x].turns
         /\ frames'[x].holder = frames[x].holder
<1>1. x \in DOMAIN frames'
  BY DEF Forks
<1>2. CASE x # g
  BY <1>1, <1>2 DEF Forks, Counts
<1>3. CASE x = g
  <2>1. PICK W : frames'[g] = [frames[g] EXCEPT !.counters = Bumped(@, Key(g)), !.waits = W]
    BY DEF Forks
  <2>2. FrameFields(frames[g])
    BY <1>3 DEF TreeSound
  <2> DEFINE t == frames[g]
             b == Bumped(t.counters, Key(g))
  <2>3. frames'[g] = [t EXCEPT !.counters = b, !.waits = W]
    BY <2>1
  <2> HIDE DEF t, b
  <2>4. /\ frames'[g].path = t.path /\ frames'[g].counters = b /\ frames'[g].code = t.code
        /\ frames'[g].pc = t.pc /\ frames'[g].marks = t.marks /\ frames'[g].turns = t.turns
        /\ frames'[g].holder = t.holder
    BY <2>2, <2>3 DEF FrameFields, t
  <2>5. QED
    BY <1>1, <1>3, <2>4 DEF t, b, Counts
<1>4. QED
  BY <1>2, <1>3

\* The paths stay sound.
LEMMA ForkedPathsSound ==
  ASSUME TreeSound, PathsSound, ScopesCount, HostCounts,
         NEW g, NEW K, NEW New, Forks(g, K, New)
  PROVE  PathsSound'
<1>1. g \in DOMAIN frames /\ DOMAIN frames' = DOMAIN frames \cup K /\ Root \in DOMAIN frames
  BY DEF Forks, TreeSound
<1>2. \A q \in New : /\ IsPath(q) /\ q # <<>> /\ Last(q).nth # 0
                     /\ \A r \in Paths : r # q
  BY NewPathIsNew DEF Forks
<1>3. \A x \in DOMAIN frames : frames'[x].path = frames[x].path /\ frames[x].path \in Paths
  BY ForkedScopes, OldPaths
<1>4. \A k \in K : frames'[k].path \in New
  BY DEF Forks
<1>5. \A q \in Paths' : IsPath(q)
  BY <1>2, OldPaths DEF Forks
<1>6. frames'[Root].path = <<>>
  BY <1>1, <1>3 DEF PathsSound
<1>7. \A f \in DOMAIN frames' \ {Root} : frames'[f].path # <<>> /\ Last(frames'[f].path).nth # 0
  BY <1>1, <1>2, <1>3, <1>4 DEF PathsSound
<1>8. ASSUME NEW f \in DOMAIN frames', NEW h \in DOMAIN frames', frames'[f].path = frames'[h].path
      PROVE  f = h
  <2>1. CASE f \in DOMAIN frames /\ h \in DOMAIN frames
    BY <1>3, <1>8, <2>1 DEF PathsSound
  <2>2. CASE f \in K /\ h \in K
    BY <1>8, <2>2 DEF Forks
  <2>3. CASE f \in DOMAIN frames /\ h \in K
    BY <1>2, <1>3, <1>4, <1>8, <2>3
  <2>4. CASE f \in K /\ h \in DOMAIN frames
    BY <1>2, <1>3, <1>4, <1>8, <2>4
  <2>5. QED
    BY <1>1, <2>1, <2>2, <2>3, <2>4
<1>9. QED
  BY <1>5, <1>6, <1>7, <1>8 DEF PathsSound, Root

\* The scopes count them.
LEMMA ForkedScopesCount ==
  ASSUME TreeSound, PathsSound, ScopesCount, HostCounts,
         NEW g, NEW K, NEW New, Forks(g, K, New)
  PROVE  ScopesCount'
<1>1. SUFFICES ASSUME NEW f \in DOMAIN frames'
               PROVE  /\ \A key \in DOMAIN frames'[f].counters :
                           frames'[f].counters[key] \in Nat /\ key[1] # "stage"
                      /\ \A q \in Paths' : Begins(frames'[f].path, q) =>
                           IsCounted(Following(frames'[f].path, q), frames'[f].counters)
  BY DEF ScopesCount
<1>2. g \in DOMAIN frames /\ Paths' \subseteq Paths \cup New /\ Instr(g).op # "stage"
  BY DEF Forks
<1>3. CASE f \in DOMAIN frames
  <2> DEFINE c == Counts(g, f)
             x == frames[f].path
  <2>1. frames'[f].counters = c /\ frames'[f].path = x
    BY <1>3, ForkedScopes
  <2>2. \A key \in DOMAIN c : c[key] \in Nat /\ key[1] # "stage"
    <3>1. \A key \in DOMAIN frames[f].counters : frames[f].counters[key] \in Nat /\ key[1] # "stage"
      BY <1>3 DEF ScopesCount
    <3>2. CASE f # g
      BY <3>1, <3>2 DEF Counts
    <3>3. CASE f = g
      <4> DEFINE b == Bumped(frames[g].counters, Key(g))
      <4>1. DOMAIN b = DOMAIN frames[g].counters \cup {Key(g)} /\ \A y \in DOMAIN b : b[y] \in Nat
        BY <3>1, <3>3, CounterFacts
      <4>2. Key(g)[1] # "stage"
        BY <1>2 DEF Key
      <4>3. c = b
        BY <3>3 DEF Counts
      <4> HIDE DEF b, c
      <4>4. QED
        BY <3>1, <3>3, <4>1, <4>2, <4>3
    <3>4. QED
      BY <3>2, <3>3
  <2>3. ASSUME NEW q \in Paths', Begins(x, q) PROVE IsCounted(Following(x, q), c)
    <3>1. CASE q \in Paths
      BY <1>2, <1>3, <2>3, <3>1, StillCounted
    <3>2. CASE q \in New
      <4>1. NewPath(g, q)
        BY <3>2 DEF Forks
      <4>2. QED
        BY <1>2, <1>3, <2>3, <4>1, NewPathCounted
    <3>3. QED
      BY <1>2, <3>1, <3>2
  <2> HIDE DEF c, x
  <2>4. QED
    BY <2>1, <2>2, <2>3
<1>4. CASE f \in K
  <2>1. frames'[f].path \in New /\ frames'[f].counters = <<>>
    BY <1>4 DEF Forks
  <2>2. \A q \in Paths' : ~ Begins(frames'[f].path, q)
    <3>1. \A q \in New : ~ Begins(frames'[f].path, q)
      BY <2>1 DEF Forks
    <3>2. NewPath(g, frames'[f].path)
      BY <2>1 DEF Forks
    <3>3. \A q \in Paths : ~ Begins(frames'[f].path, q)
      <4>1. \A p \in New : NewPath(g, p)
        BY DEF Forks
      <4>2. \A p \in New : \A q \in Paths : ~ Begins(p, q)
        BY <1>2, <4>1, NewPathIsNew
      <4>3. QED
        BY <2>1, <4>2
    <3>4. QED
      BY <1>2, <3>1, <3>3
  <2>3. QED
    BY <2>1, <2>2
<1>5. QED
  BY <1>3, <1>4 DEF Forks

\* So does the host.
LEMMA ForkedHostCounts ==
  ASSUME TreeSound, PathsSound, ScopesCount, HostCounts,
         NEW g, NEW K, NEW New, Forks(g, K, New)
  PROVE  HostCounts'
<1> DEFINE n == nestings'
<1>1. n = nestings \/ n = Bumped(nestings, NestedBase(g))
  BY DEF Forks
<1>2. \A base \in DOMAIN n : n[base] \in Nat
  <2>1. CASE n = nestings
    BY <2>1 DEF HostCounts
  <2>2. \A base \in DOMAIN Bumped(nestings, NestedBase(g)) : Bumped(nestings, NestedBase(g))[base] \in Nat
    BY CounterFacts DEF HostCounts
  <2>3. QED
    BY <1>1, <2>1, <2>2
<1>3. \A q \in Paths : RequestsCounted(q, n)
  <2>1. \A q \in Paths : RequestsCounted(q, nestings) /\ IsPath(q)
    BY OldPaths DEF HostCounts
  <2>2. \A q \in Paths : RequestsCounted(q, Bumped(nestings, NestedBase(g)))
    BY <2>1, RequestsStayCounted
  <2>3. QED
    BY <1>1, <2>1, <2>2
<1>4. \A q \in New : RequestsCounted(q, n)
  <2>1. g \in DOMAIN frames /\ \A q \in New : NewPath(g, q)
    BY DEF Forks
  <2>2. \A q \in New : RequestsCounted(q, Bumped(nestings, NestedBase(g)))
    BY <2>1, NewPathRequests
  <2>3. NestedPath(g) \notin New => \A q \in New : RequestsCounted(q, nestings)
    BY <2>1, NewPathRequests
  <2>4. QED
    BY <2>2, <2>3 DEF Forks
<1>5. \A q \in Paths' : RequestsCounted(q, n)
  BY <1>3, <1>4 DEF Forks
<1>6. QED
  BY <1>2, <1>5 DEF HostCounts

\* What a scope is doing, where its scopes are and their paths, is told by its fields.
LEMMA SameScope ==
  ASSUME NEW x, frames'[x].path = frames[x].path, frames'[x].code = frames[x].code,
         frames'[x].pc = frames[x].pc, frames'[x].marks = frames[x].marks,
         frames'[x].turns = frames[x].turns
  PROVE  /\ Instr(x)' = Instr(x) /\ Key(x)' = Key(x)
         /\ \A c : Position(x, c)' = Position(x, c)
<1>1. Instr(x)' = Instr(x)
  BY DEF Instr
<1>2. Marks(x)' = Marks(x) /\ Iteration(x)' = Iteration(x)
  BY <1>1 DEF Marks, Iteration
<1>3. Key(x)' = Key(x)
  BY <1>1, <1>2 DEF Key
<1>4. \A c : Position(x, c)' = Position(x, c)
  BY <1>2 DEF Position
<1>5. QED
  BY <1>1, <1>3, <1>4

\* Items go through their stages in order.
LEMMA ForkedStagesInOrder ==
  ASSUME TreeSound, PathsSound, ScopesCount, HostCounts, StagesInOrder,
         NEW g, NEW K, NEW New, Forks(g, K, New)
  PROVE  StagesInOrder'
<1>1. SUFFICES ASSUME NEW f \in DOMAIN frames', f # Root, NEW up, up = Front(f),
                      Instr(up)'.op = "pipeline"
               PROVE  StageSound(f, up, Last(f)[3][1], Last(f)[3][2])'
  BY DEF StagesInOrder, Root
<1> DEFINE i == Last(f)[3][1]
           s == Last(f)[3][2]
<1>2. g \in DOMAIN frames /\ Paths' \subseteq Paths \cup New /\ \A q \in New : NewPath(g, q)
  BY DEF Forks
<1>3. CASE f \in DOMAIN frames
  <2>1. up \in DOMAIN frames /\ up # g
    <3>1. up \in DOMAIN frames /\ f \in frames[up].waits
      BY <1>1, <1>3, ParentIsThere
    <3>2. QED
      BY <3>1 DEF Forks
  <2>2. frames'[up] = frames[up] /\ frames'[f].path = frames[f].path
    <3>1. frames'[f].path = frames[f].path
      BY <1>3, ForkedScopes
    <3>2. \A x \in DOMAIN frames \ {g} : frames'[x] = frames[x]
      BY DEF Forks
    <3>3. QED
      BY <2>1, <3>1, <3>2
  <2>3. Instr(up)' = Instr(up) /\ Key(up)' = Key(up) /\ \A c : Position(up, c)' = Position(up, c)
    BY <2>2, SameScope
  <2>4. Around(up)' = Around(up)
    BY <2>2, <2>3 DEF Around
  <2>5. StageSound(f, up, i, s)
    BY <1>1, <1>3, <2>3 DEF StagesInOrder
  <2>6. ASSUME NEW q \in Paths', Begins(Around(up), q) PROVE InOrder(Following(Around(up), q), i, s)
    <3>1. CASE q \in Paths
      BY <2>5, <2>6, <3>1 DEF StageSound
    <3>2. CASE q \in New
      <4>1. Begins(Around(up), frames[g].path) /\ Following(Around(up), q) = Following(Around(up), frames[g].path)
        BY <1>1, <1>2, <1>3, <2>3, <2>6, <3>2, FollowsPipeline
      <4>2. frames[g].path \in Paths
        BY <1>2, OldPaths
      <4>3. QED
        BY <2>5, <4>1, <4>2 DEF StageSound
    <3>3. QED
      BY <1>2, <3>1, <3>2
  <2>7. QED
    BY <2>2, <2>3, <2>4, <2>5, <2>6 DEF StageSound
<1>4. CASE f \in K
  <2>1. up = g
    BY <1>1, <1>4, ForkedAreNew
  <2>2. /\ frames'[g].path = frames[g].path /\ frames'[g].code = frames[g].code
        /\ frames'[g].pc = frames[g].pc /\ frames'[g].marks = frames[g].marks
        /\ frames'[g].turns = frames[g].turns /\ frames'[g].counters = Counts(g, g)
    BY <1>2, ForkedScopes
  <2>3. Instr(g)' = Instr(g) /\ Key(g)' = Key(g) /\ \A c : Position(g, c)' = Position(g, c)
    BY <2>2, SameScope
  <2>4. PICK n \in 1..Instr(g).items :
          f = Position(g, <<n, 1>>) /\ frames'[f].path = PathInStage(CallPath(g), n, 1)
    BY <1>1, <1>4, <2>1, <2>3 DEF Forks
  <2>5. i = n /\ s = 1
    <3>1. IsSeq(g)
      BY <1>2 DEF TreeSound
    <3>2. f = Append(g, <<frames[g].pc, Iteration(g), <<n, 1>>>>)
      BY <2>4 DEF Position
    <3>3. Last(f) = <<frames[g].pc, Iteration(g), <<n, 1>>>>
      BY <3>1, <3>2, AppendFacts
    <3>4. QED
      BY <3>3
  <2>6. 1 \in 1..Len(Instr(g).stages)
    <3>1. Instr(g).stages # <<>> /\ IsSeq(Instr(g).stages)
      BY <1>1, <2>1, <2>3 DEF Forks
    <3>2. Len(Instr(g).stages) \in Nat /\ Len(Instr(g).stages) # 0
      BY <3>1 DEF IsSeq
    <3>3. QED
      BY <3>2
  <2>7. Counter(Counts(g, g), Key(g)) = Counter(frames[g].counters, Key(g)) + 1
        /\ Counter(frames[g].counters, Key(g)) \in Nat
    <3>1. \A y \in DOMAIN frames[g].counters : frames[g].counters[y] \in Nat
      BY <1>2 DEF ScopesCount
    <3>2. QED
      BY <3>1, CounterFacts DEF Counts
  <2>8. Around(g)' = CallPath(g)
    BY <2>2, <2>3, <2>7 DEF Around, CallPath
  <2>9. ASSUME NEW q \in Paths', Begins(CallPath(g), q) PROVE InOrder(Following(CallPath(g), q), n, 1)
    <3>1. q \in New
      <4>1. IsSeq(frames[g].path) /\ frames'[f].path \in New
        BY <1>2, <1>4, OldPaths DEF Forks
      <4>2. \A r \in Paths : ~ Begins(CallPath(g), r)
        BY <1>2, <4>1, NewPathIsNew
      <4>3. QED
        BY <1>2, <2>9, <4>2
    <3>2. PICK m : q = PathInStage(CallPath(g), m, 1)
      BY <1>1, <2>1, <2>3, <3>1 DEF Forks
    <3>3. IsSeq(CallPath(g))
      BY <1>2, NextSegments DEF IsPath
    <3>4. Following(CallPath(g), q) = Segment(<<"stage", 1>>, m)
      BY <3>2, <3>3, BeginsFacts DEF PathInStage
    <3>5. QED
      BY <3>4 DEF Segment, InOrder
  <2>10. Counter(frames'[g].counters, Key(g)) # 0
    BY <2>2, <2>7
  <2>11. StageSound(f, g, n, 1)'
    BY <2>3, <2>4, <2>6, <2>8, <2>9, <2>10 DEF StageSound
  <2>12. QED
    BY <2>1, <2>5, <2>11
<1>5. QED
  BY <1>3, <1>4 DEF Forks

\* A function body is a sequence of instructions.
LEMMA BodiesAreSequences ==
  ASSUME NEW b \in DOMAIN Code
  PROVE  /\ Len(Code[b]) \in Nat /\ DOMAIN Code[b] = 1..Len(Code[b])
         /\ \A to \in 1..Len(Code[b]) : IsInstruction(Code[b][to], Len(Code[b]) + 1)
<1>1. IsSeq(Code[b]) /\ \A to \in DOMAIN Code[b] : IsInstruction(Code[b][to], Len(Code[b]) + 1)
  BY CodeAssumption
<1>2. Len(Code[b]) \in Nat /\ DOMAIN Code[b] = 1..Len(Code[b])
  BY <1>1 DEF IsSeq
<1>3. QED
  BY <1>1, <1>2

\* What TypeOK and TreeSound say of one scope.
ScopeSound(f) ==
  /\ frames[f].code \in DOMAIN Code /\ frames[f].pc \in 1..(Len(Code[frames[f].code]) + 1)
  /\ FrameFields(frames[f]) /\ IsSeq(f) /\ Prefixes(f) \subseteq DOMAIN frames
  /\ frames[f].holder \in Prefixes(f)
  /\ frames[f].waits # {} => ~AtEnd(f)

\* Every scope of a sound tree is sound.
LEMMA ScopesSound == ASSUME IdentityTypeOK, TreeSound PROVE \A f \in DOMAIN frames : ScopeSound(f)
BY DEF IdentityTypeOK, TreeSound, ScopeSound

\* The scopes of a step that opens some are sound.
LEMMA ForkedScopesSound ==
  ASSUME IdentityTypeOK, TreeSound, NEW g, NEW K, NEW New, Forks(g, K, New), NEW f \in DOMAIN frames'
  PROVE  ScopeSound(f)'
<1>1. \A x \in DOMAIN frames : ScopeSound(x)
  BY ScopesSound
<1>2. DOMAIN frames' = DOMAIN frames \cup K /\ g \in DOMAIN frames
  BY DEF Forks
<1>3. CASE f \in DOMAIN frames /\ f # g
  <2>1. frames'[f] = frames[f]
    BY <1>3 DEF Forks
  <2>2. AtEnd(f)' = AtEnd(f)
    BY <2>1 DEF AtEnd
  <2>3. QED
    BY <1>1, <1>2, <1>3, <2>1, <2>2 DEF ScopeSound
<1>4. CASE f = g
  <2>1. /\ frames'[g].code = frames[g].code /\ frames'[g].pc = frames[g].pc
        /\ frames'[g].holder = frames[g].holder
    BY <1>2, ForkedScopes
  <2>2. ~ AtEnd(g)'
    BY <2>1 DEF AtEnd, Forks
  <2>3. FrameFields(frames'[g])
    <3>1. PICK W : frames'[g] = [frames[g] EXCEPT !.counters = Bumped(@, Key(g)), !.waits = W]
      BY DEF Forks
    <3> DEFINE t == frames[g]
               b == Bumped(t.counters, Key(g))
    <3>2. FrameFields(t) /\ frames'[g] = [t EXCEPT !.counters = b, !.waits = W]
      BY <1>1, <1>2, <3>1 DEF ScopeSound
    <3> HIDE DEF t, b
    <3>3. QED
      BY <3>2 DEF FrameFields
  <2>4. QED
    BY <1>1, <1>2, <1>4, <2>1, <2>2, <2>3 DEF ScopeSound
<1>5. CASE f \in K
  <2>1. /\ FrameFields(frames'[f]) /\ frames'[f].code \in DOMAIN Code /\ frames'[f].pc = 1
        /\ frames'[f].waits = {} /\ frames'[f].holder \in {f, frames[g].holder}
    BY <1>5 DEF Forks
  <2>2. PICK c : f = Append(g, c)
    BY <1>5, ForkedAreNew
  <2>3. /\ IsSeq(g) /\ Prefixes(g) \subseteq DOMAIN frames /\ frames[g].holder \in Prefixes(g)
    BY <1>1, <1>2 DEF ScopeSound
  <2>4. IsSeq(f) /\ Prefixes(f) = Prefixes(g) \cup {f}
    BY <2>2, <2>3, AppendFacts, PrefixesFacts
  <2>5. 1 \in 1..(Len(Code[frames'[f].code]) + 1)
    BY <2>1, BodiesAreSequences
  <2>6. QED
    BY <1>2, <1>5, <2>1, <2>3, <2>4, <2>5 DEF ScopeSound
<1>6. QED
  BY <1>2, <1>3, <1>4, <1>5

\* The scope g waits for the scopes K, or for the call in C that it has posted.
Posts(g, K, C) ==
  /\ UNCHANGED <<gen, seen, refused>>
  /\ frames'[g].waits = K \cup C
  /\ C = {} \/ (K = {} /\ \E w : C = {w})
  /\ DOMAIN open' = DOMAIN open \cup C
  /\ \A w \in DOMAIN open \ C : open'[w] = open[w]
  /\ \A w \in C : /\ \E c : w = Position(g, c)
                  /\ CallFields(open'[w])
                  /\ open'[w].status = "posted" /\ open'[w].path = CallPath(g)

\* The calls that a scope posts are its children, and were not there.
LEMMA PostedAreNew ==
  ASSUME IdentityTypeOK, TreeSound, NEW g, NEW K, NEW New, NEW C, Forks(g, K, New), Posts(g, K, C)
  PROVE  /\ \A w \in C : w \notin DOMAIN frames /\ w # Root /\ Front(w) = g
         /\ \A w \in DOMAIN open : w \notin C /\ w \notin K /\ Front(w) # g
         /\ C \cap K = {}
<1>1. IsSeq(g) /\ frames[g].waits = {}
  BY DEF TreeSound, Forks
<1>2. ASSUME NEW w \in C PROVE w \notin DOMAIN frames /\ w # Root /\ Front(w) = g
  <2>1. PICK c : w = Append(g, c)
    BY DEF Posts, Position
  <2>2. Front(w) = g /\ w # Root
    BY <1>1, <2>1, AppendFacts DEF Root
  <2>3. QED
    BY <1>1, <2>2 DEF TreeSound
<1>3. \A w \in DOMAIN open : Front(w) # g
  BY <1>1 DEF IdentityTypeOK
<1>4. \A k \in K : Front(k) = g
  BY ForkedAreNew
<1>5. C \cap K = {}
  BY DEF Posts
<1>6. QED
  BY <1>2, <1>3, <1>4, <1>5

\* The tree and the calls stay sound.
LEMMA ForkedTreeSound ==
  ASSUME IdentityTypeOK, TreeSound, NEW g, NEW K, NEW New, NEW C, Forks(g, K, New), Posts(g, K, C)
  PROVE  IdentityTypeOK' /\ TreeSound'
<1>1. \A f \in DOMAIN frames' : ScopeSound(f)'
  BY ForkedScopesSound
<1>2. /\ DOMAIN frames' = DOMAIN frames \cup K /\ g \in DOMAIN frames /\ frames[g].waits = {}
      /\ \A x \in DOMAIN frames \ {g} : frames'[x] = frames[x]
      /\ \A k \in K : frames'[k].waits = {}
  BY DEF Forks
<1>3. /\ DOMAIN open' = DOMAIN open \cup C /\ frames'[g].waits = K \cup C
      /\ C = {} \/ (K = {} /\ \E w : C = {w})
      /\ \A w \in DOMAIN open \ C : open'[w] = open[w]
      /\ \A w \in C : CallFields(open'[w]) /\ open'[w].status = "posted"
      /\ gen' = gen /\ refused' = refused
  BY DEF Posts
<1>4. /\ \A w \in C : w \notin DOMAIN frames /\ w # Root /\ Front(w) = g
      /\ \A w \in DOMAIN open : w \notin C /\ w \notin K /\ Front(w) # g
      /\ C \cap K = {}
  BY PostedAreNew
<1>5. \A k \in K : k \notin DOMAIN frames /\ k # Root /\ Front(k) = g
  BY ForkedAreNew
<1>6. /\ Root \in DOMAIN frames /\ DOMAIN frames \cap DOMAIN open = {}
      /\ \A f \in DOMAIN frames : \A k \in frames[f].waits : k # Root /\ Front(k) = f
      /\ \A f \in DOMAIN frames \ {Root} : f \in frames[Front(f)].waits
      /\ \A w \in DOMAIN open : CallFields(open[w])
  BY DEF TreeSound
<1>7. /\ \A f \in DOMAIN frames : frames[f].waits \subseteq DOMAIN frames \cup DOMAIN open
      /\ \A w \in DOMAIN open :
           /\ Front(w) \in DOMAIN frames /\ frames[Front(w)].waits = {w}
           /\ open[w].status \in {"posted", "live", "replayed"}
      /\ gen \in 1..Generations /\ refused \in BOOLEAN
  BY DEF IdentityTypeOK
<1>8. DOMAIN frames' \cap DOMAIN open' = {}
  BY <1>2, <1>3, <1>4, <1>5, <1>6
<1>9. ASSUME NEW f \in DOMAIN frames'
      PROVE  /\ frames'[f].waits \subseteq DOMAIN frames' \cup DOMAIN open'
             /\ \A k \in frames'[f].waits : k # Root /\ Front(k) = f
  <2>1. CASE f = g
    BY <1>2, <1>3, <1>4, <1>5, <2>1
  <2>2. CASE f \in K
    BY <1>2, <2>2
  <2>3. CASE f \in DOMAIN frames \ {g}
    BY <1>2, <1>3, <1>6, <1>7, <2>3
  <2>4. QED
    BY <1>2, <2>1, <2>2, <2>3
<1>10. ASSUME NEW f \in DOMAIN frames' \ {Root} PROVE f \in frames'[Front(f)].waits
  <2>1. CASE f \in K
    BY <1>3, <1>5, <2>1
  <2>2. CASE f \in DOMAIN frames
    <3>1. f \in frames[Front(f)].waits /\ Front(f) \in DOMAIN frames
      BY <2>2, ParentIsThere
    <3>2. Front(f) # g
      BY <1>2, <3>1
    <3>3. QED
      BY <1>2, <3>1, <3>2
  <2>3. QED
    BY <1>2, <2>1, <2>2
<1>11. ASSUME NEW w \in DOMAIN open'
       PROVE  /\ Front(w) \in DOMAIN frames' /\ frames'[Front(w)].waits = {w}
              /\ open'[w].status \in {"posted", "live", "replayed"} /\ CallFields(open'[w])
  <2>1. CASE w \in C
    BY <1>2, <1>3, <1>4, <2>1
  <2>2. CASE w \in DOMAIN open
    BY <1>2, <1>3, <1>4, <1>6, <1>7, <2>2
  <2>3. QED
    BY <1>3, <2>1, <2>2
<1>12. TreeSound'
  <2>1. Root \in DOMAIN frames'
    BY <1>2, <1>6
  <2>2. \A f \in DOMAIN frames' :
          /\ FrameFields(frames'[f]) /\ IsSeq(f) /\ Prefixes(f) \subseteq DOMAIN frames'
          /\ frames'[f].holder \in Prefixes(f) /\ (frames'[f].waits # {} => ~ AtEnd(f)')
    BY <1>1 DEF ScopeSound
  <2>3. QED
    BY <1>8, <1>9, <1>10, <1>11, <2>1, <2>2 DEF TreeSound, Root
<1>13. IdentityTypeOK'
  <2>1. \A f \in DOMAIN frames' :
          /\ frames'[f].code \in DOMAIN Code /\ frames'[f].pc \in 1..(Len(Code[frames'[f].code]) + 1)
          /\ frames'[f].holder \in DOMAIN frames'
    BY <1>1 DEF ScopeSound
  <2>2. QED
    BY <1>3, <1>7, <1>9, <1>11, <2>1 DEF IdentityTypeOK
<1>14. QED
  BY <1>12, <1>13

\* A call is new until the host sees it.
LEMMA ForkedCallsSound ==
  ASSUME IdentityTypeOK, TreeSound, PathsSound, ScopesCount, HostCounts, CallsSound,
         NEW g, NEW K, NEW New, NEW C, Forks(g, K, New), Posts(g, K, C)
  PROVE  CallsSound'
<1>1. SUFFICES ASSUME NEW w \in DOMAIN open'
               PROVE  /\ \E e \in Range(open'[w].path) : open'[w].path = Append(frames'[Front(w)].path, e)
                      /\ open'[w].status = "posted" => open'[w].path \notin seen'
  BY DEF CallsSound
<1>2. /\ DOMAIN open' = DOMAIN open \cup C /\ seen' = seen
      /\ \A v \in DOMAIN open \ C : open'[v] = open[v]
      /\ \A v \in C : open'[v].path = CallPath(g)
  BY DEF Posts
<1>3. /\ \A v \in C : Front(v) = g
      /\ \A v \in DOMAIN open : v \notin C /\ Front(v) # g
  BY PostedAreNew
<1>4. CASE w \in DOMAIN open
  <2>1. Front(w) \in DOMAIN frames
    BY <1>4 DEF IdentityTypeOK
  <2>2. frames'[Front(w)].path = frames[Front(w)].path
    BY <2>1, ForkedScopes
  <2>3. /\ \E e \in Range(open[w].path) : open[w].path = Append(frames[Front(w)].path, e)
        /\ open[w].status = "posted" => open[w].path \notin seen
    BY <1>4 DEF CallsSound
  <2>4. QED
    BY <1>2, <1>3, <1>4, <2>2, <2>3
<1>5. CASE w \in C
  <2> DEFINE e == Segment(Key(g), Counter(frames[g].counters, Key(g)) + 1)
             p == frames[g].path
  <2>1. open'[w].path = CallPath(g) /\ Front(w) = g /\ g \in DOMAIN frames
    BY <1>2, <1>3, <1>5 DEF Forks
  <2>2. CallPath(g) = Append(p, e) /\ IsSeq(p) /\ frames'[g].path = p
    BY <2>1, OldPaths, ForkedScopes DEF CallPath
  <2>3. CallPath(g) \notin seen
    <3>1. NewPath(g, CallPath(g))
      BY DEF NewPath
    <3>2. \A r \in Paths : r # CallPath(g)
      BY <2>1, <3>1, NewPathIsNew
    <3>3. QED
      BY <3>2 DEF Paths
  <2> HIDE DEF e, p
  <2>4. e \in Range(CallPath(g))
    BY <2>2, AppendFacts
  <2>5. QED
    BY <1>2, <2>1, <2>2, <2>3, <2>4
<1>6. QED
  BY <1>2, <1>4, <1>5

----------------------------------------------------------------------------
(***************************************************************************)
(* What opens scopes: panels, pipelines, helpers and workflows; and a      *)
(* call.                                                                   *)
(***************************************************************************)
\* The instruction that a scope is at.
LEMMA InstructionIsSound ==
  ASSUME NEW f, ScopeSound(f), ~AtEnd(f)
  PROVE  /\ frames[f].code \in DOMAIN Code /\ frames[f].pc \in 1..Len(Code[frames[f].code])
         /\ frames[f].pc + 1 \in 1..(Len(Code[frames[f].code]) + 1)
         /\ IsInstruction(Instr(f), Len(Code[frames[f].code]) + 1)
<1> DEFINE b == frames[f].code
           to == frames[f].pc
           n == Len(Code[b])
<1>1. b \in DOMAIN Code /\ to \in 1..(n + 1) /\ ~(to > n)
  BY DEF ScopeSound, AtEnd
<1>2. n \in Nat /\ \A j \in 1..n : IsInstruction(Code[b][j], n + 1)
  BY <1>1, BodiesAreSequences
<1>3. Instr(f) = Code[b][to]
  BY DEF Instr
<1> HIDE DEF b, to, n
<1>4. to \in 1..n /\ to + 1 \in 1..(n + 1)
  BY <1>1, <1>2
<1>5. IsInstruction(Instr(f), n + 1)
  BY <1>2, <1>3, <1>4
<1>6. QED
  BY <1>1, <1>4, <1>5 DEF b, to, n

\* Paths that are as long do not begin with each other, and tell their last segments.
LEMMA Siblings ==
  ASSUME NEW p, IsSeq(p), NEW e, NEW d
  PROVE  /\ ~ Begins(Append(p, e), Append(p, d))
         /\ Append(p, e) = Append(p, d) => e = d
<1>1. Len(Append(p, e)) = Len(p) + 1 /\ Len(Append(p, d)) = Len(p) + 1 /\ Len(p) \in Nat
  BY AppendFacts
<1>2. ~ Begins(Append(p, e), Append(p, d))
  BY <1>1 DEF Begins
<1>3. Last(Append(p, e)) = e /\ Last(Append(p, d)) = d
  BY AppendFacts
<1>4. QED
  BY <1>2, <1>3

\* A nested workflow has a path of another kind.
LEMMA NestedPathDiffers ==
  ASSUME PathsSound, ScopesCount, HostCounts, NEW g \in DOMAIN frames
  PROVE  NestedPath(g) # CallPath(g) /\ \A e : NestedPath(g) # Append(CallPath(g), e)
<1> DEFINE p == frames[g].path
           call == Segment(Key(g), Counter(frames[g].counters, Key(g)) + 1)
           site == Segment(Key(g), 0)
           what == <<"request", Instr(g).request[frames[g].ok]>>
           last == Segment(what, Counter(nestings, NestedBase(g)) + 1)
<1>1. /\ CallPath(g) = Append(p, call) /\ NestedPath(g) = Append(Append(p, site), last)
      /\ call.nth \in Nat \ {0} /\ IsSeq(p)
  BY NextSegments, OldPaths
<1>2. site.nth = 0
  BY DEF Segment
<1> HIDE DEF p, call, site, last
<1>3. Len(CallPath(g)) = Len(p) + 1 /\ Len(NestedPath(g)) = Len(p) + 2 /\ Len(p) \in Nat
  <2>1. IsSeq(Append(p, site)) /\ Len(Append(p, site)) = Len(p) + 1 /\ Len(p) \in Nat
    BY <1>1, AppendFacts
  <2>2. QED
    BY <1>1, <2>1, AppendFacts
<1>4. ASSUME NEW e, NestedPath(g) = Append(CallPath(g), e) PROVE FALSE
  <2>1. Front(NestedPath(g)) = Append(p, site)
    BY <1>1, AppendFacts
  <2>2. Front(Append(CallPath(g), e)) = Append(p, call)
    BY <1>1, AppendFacts
  <2>3. site = call
    BY <1>1, <1>4, <2>1, <2>2, Siblings
  <2>4. QED
    BY <1>1, <1>2, <2>3
<1>5. QED
  BY <1>3, <1>4

\* A scope at one of its calls opens the scopes "kids".
Opens(g, kids, New) ==
  /\ g \in DOMAIN frames /\ frames[g].waits = {} /\ ~AtEnd(g) /\ Instr(g).op # "stage"
  /\ Fork(g, kids) /\ UNCHANGED <<gen, open, seen, refused>>
  /\ \A q \in New : NewPath(g, q)
  /\ \A q, r \in New : ~ Begins(q, r)
  /\ \/ nestings' = nestings /\ NestedPath(g) \notin New
     \/ nestings' = Bumped(nestings, NestedBase(g))
  /\ \A k \in DOMAIN kids :
       /\ \E c : k = Position(g, c)
       /\ FrameFields(kids[k]) /\ kids[k].path \in New
       /\ kids[k].code \in DOMAIN Code /\ kids[k].pc = 1 /\ kids[k].counters = <<>>
       /\ kids[k].waits = {} /\ kids[k].holder \in {k, frames[g].holder}
  /\ \A k, l \in DOMAIN kids : kids[k].path = kids[l].path => k = l
  /\ Instr(g).op = "pipeline" =>
       /\ Instr(g).stages # <<>> /\ IsSeq(Instr(g).stages)
       /\ \A q \in New : \E i : q = PathInStage(CallPath(g), i, 1)
       /\ \A k \in DOMAIN kids : \E i \in 1..Instr(g).items :
            k = Position(g, <<i, 1>>) /\ kids[k].path = PathInStage(CallPath(g), i, 1)

\* An instruction that opens scopes makes such a step.
LEMMA OpensForks ==
  ASSUME TreeSound, NEW g, NEW kids, NEW New, Opens(g, kids, New)
  PROVE  Forks(g, DOMAIN kids, New) /\ Posts(g, DOMAIN kids, {})
<1> DEFINE K == DOMAIN kids
           b == Bumped(frames[g].counters, Key(g))
           u == [frames[g] EXCEPT !.counters = b, !.waits = K]
<1>1. g \in DOMAIN frames /\ frames[g].waits = {} /\ \A k \in K : \E c : k = Position(g, c)
  BY DEF Opens
<1>2. \A k \in K : k \notin DOMAIN frames
  <2>1. ASSUME NEW k \in K PROVE k \notin DOMAIN frames
    <3>1. PICK c : k = Append(g, c)
      BY <1>1 DEF Position
    <3>2. Front(k) = g /\ k # Root
      BY <1>1, <3>1, AppendFacts DEF TreeSound, Root
    <3>3. QED
      BY <1>1, <3>2 DEF TreeSound
  <2>2. QED
    BY <2>1
<1>3. /\ DOMAIN frames' = DOMAIN frames \cup K
      /\ \A x \in DOMAIN frames \ {g} : frames'[x] = frames[x]
      /\ frames'[g] = u
      /\ \A k \in K : frames'[k] = kids[k]
  <2> DEFINE F == [frames EXCEPT ![g].counters = Bumped(@, Key(g)), ![g].waits = K]
  <2>1. DOMAIN F = DOMAIN frames /\ (\A x \in DOMAIN frames \ {g} : F[x] = frames[x]) /\ F[g] = u
    BY <1>1
  <2>2. frames' = Merge(F, kids)
    BY DEF Opens, Fork
  <2> HIDE DEF F
  <2>3. /\ DOMAIN frames' = DOMAIN F \cup K
        /\ \A x \in DOMAIN F \cup K : frames'[x] = IF x \in K THEN kids[x] ELSE F[x]
    BY <2>2 DEF Merge
  <2> HIDE DEF u, K
  <2>4. QED
    BY <1>1, <1>2, <2>1, <2>3
<1>4. FrameFields(frames[g])
  BY <1>1 DEF TreeSound
<1>5. frames'[g].waits = K \cup {} /\ frames'[g].path = frames[g].path
  <2> DEFINE t == frames[g]
  <2>1. FrameFields(t) /\ frames'[g] = [t EXCEPT !.counters = b, !.waits = K]
    BY <1>3, <1>4
  <2> HIDE DEF t, b, K
  <2>2. frames'[g].waits = K /\ frames'[g].path = t.path
    BY <2>1 DEF FrameFields
  <2>3. QED
    BY <2>2 DEF t
<1> HIDE DEF K
<1>6. Paths' \subseteq Paths \cup New
  <2>1. seen' = seen /\ open' = open /\ \A k \in K : frames'[k].path \in New
    BY <1>3 DEF Opens, K
  <2>2. \A f \in DOMAIN frames : frames'[f].path = frames[f].path
    BY <1>3, <1>5
  <2>3. QED
    BY <1>3, <2>1, <2>2 DEF Paths
<1>7. Forks(g, K, New)
  <2>1. \E W : frames'[g] = [frames[g] EXCEPT !.counters = Bumped(@, Key(g)), !.waits = W]
    BY <1>3
  <2>2. \A k \in K : frames'[k] = kids[k]
    BY <1>3
  <2>3. /\ g \in DOMAIN frames /\ frames[g].waits = {} /\ ~AtEnd(g) /\ Instr(g).op # "stage"
        /\ \A q \in New : NewPath(g, q)
        /\ \A q, r \in New : ~ Begins(q, r)
        /\ \/ nestings' = nestings /\ NestedPath(g) \notin New
           \/ nestings' = Bumped(nestings, NestedBase(g))
    BY DEF Opens
  <2>4. /\ \A k \in K :
             /\ \E c : k = Position(g, c)
             /\ FrameFields(kids[k]) /\ kids[k].path \in New
             /\ kids[k].code \in DOMAIN Code /\ kids[k].pc = 1 /\ kids[k].counters = <<>>
             /\ kids[k].waits = {} /\ kids[k].holder \in {k, frames[g].holder}
        /\ \A k, l \in K : kids[k].path = kids[l].path => k = l
        /\ Instr(g).op = "pipeline" =>
             /\ Instr(g).stages # <<>> /\ IsSeq(Instr(g).stages)
             /\ \A q \in New : \E i : q = PathInStage(CallPath(g), i, 1)
             /\ \A k \in K : \E i \in 1..Instr(g).items :
                  k = Position(g, <<i, 1>>) /\ kids[k].path = PathInStage(CallPath(g), i, 1)
    BY DEF Opens, K
  <2>5. /\ \A k \in K :
             /\ \E c : k = Position(g, c)
             /\ FrameFields(frames'[k]) /\ frames'[k].path \in New
             /\ frames'[k].code \in DOMAIN Code /\ frames'[k].pc = 1 /\ frames'[k].counters = <<>>
             /\ frames'[k].waits = {} /\ frames'[k].holder \in {k, frames[g].holder}
        /\ \A k, l \in K : frames'[k].path = frames'[l].path => k = l
        /\ Instr(g).op = "pipeline" =>
             /\ Instr(g).stages # <<>> /\ IsSeq(Instr(g).stages)
             /\ \A q \in New : \E i : q = PathInStage(CallPath(g), i, 1)
             /\ \A k \in K : \E i \in 1..Instr(g).items :
                  k = Position(g, <<i, 1>>) /\ frames'[k].path = PathInStage(CallPath(g), i, 1)
    BY <2>2, <2>4
  <2>6. QED
    BY <1>3, <1>6, <2>1, <2>3, <2>5 DEF Forks
<1>8. Posts(g, K, {})
  BY <1>5 DEF Opens, Posts
<1>9. QED
  BY <1>7, <1>8 DEF K

\* A scope at one of its calls.
LEMMA AtACall ==
  ASSUME IdentityInvariant, NEW g \in DOMAIN frames, NEW op, At(g, op), op # "stage"
  PROVE  /\ frames[g].waits = {} /\ ~AtEnd(g) /\ Instr(g).op = op
         /\ IsInstruction(Instr(g), Len(Code[frames[g].code]) + 1)
         /\ IsSeq(g) /\ IsSeq(CallPath(g)) /\ IsPath(CallPath(g))
         /\ NestedPath(g) # CallPath(g) /\ \A e : NestedPath(g) # Append(CallPath(g), e)
<1>1. /\ IdentityTypeOK /\ TreeSound /\ PathsSound /\ ScopesCount /\ HostCounts
      /\ frames[g].waits = {} /\ ~AtEnd(g) /\ Instr(g).op = op
  BY DEF IdentityInvariant, CallsAccepted, At
<1>2. ScopeSound(g)
  BY <1>1, ScopesSound
<1>3. IsInstruction(Instr(g), Len(Code[frames[g].code]) + 1)
  BY <1>1, <1>2, InstructionIsSound
<1>4. IsPath(CallPath(g)) /\ IsSeq(CallPath(g)) /\ IsSeq(g)
  BY <1>1, <1>2, NextSegments DEF IsPath, ScopeSound
<1>5. QED
  BY <1>1, <1>3, <1>4, NestedPathDiffers

\* parallel() opens a scope for every branch.
LEMMA ParallelOpens ==
  ASSUME IdentityInvariant, NEW g \in DOMAIN frames, Parallel(g)
  PROVE  \E kids, New : Opens(g, kids, New)
<1> DEFINE branches == DOMAIN Instr(g).bodies
           branch(k) == Last(k)[3][1]
           K == {Position(g, <<b>>) : b \in branches}
           kid(k) == Scope(Instr(g).bodies[branch(k)], PathInBranch(CallPath(g), branch(k)),
                           frames[g].marks, k, CurrentPhase(g))
           kids == [k \in K |-> kid(k)]
           New == {PathInBranch(CallPath(g), b) : b \in branches}
<1>1. /\ frames[g].waits = {} /\ ~AtEnd(g) /\ Instr(g).op = "parallel" /\ IsSeq(g)
      /\ IsSeq(CallPath(g)) /\ Instr(g).bodies \in Seq(DOMAIN Code)
      /\ \A e : NestedPath(g) # Append(CallPath(g), e)
  <2>1. At(g, "parallel")
    BY DEF Parallel
  <2>2. QED
    BY <2>1, AtACall DEF IsInstruction
<1>2. Fork(g, kids) /\ UNCHANGED <<gen, open, seen, refused, nestings>>
  BY DEF Parallel, local
<1>3. \A b \in branches : b \in Nat \ {0} /\ Instr(g).bodies[b] \in DOMAIN Code
  BY <1>1
<1>4. ASSUME NEW b \in branches PROVE branch(Position(g, <<b>>)) = b
  <2>1. Last(Position(g, <<b>>)) = <<frames[g].pc, Iteration(g), <<b>>>>
    BY <1>1, AppendFacts DEF Position
  <2>2. QED
    BY <2>1
<1>5. ASSUME NEW b \in branches
      PROVE  /\ NewPath(g, PathInBranch(CallPath(g), b)) /\ PathInBranch(CallPath(g), b) # NestedPath(g)
             /\ \A d \in branches : /\ ~ Begins(PathInBranch(CallPath(g), b), PathInBranch(CallPath(g), d))
                                    /\ PathInBranch(CallPath(g), b) = PathInBranch(CallPath(g), d) => b = d
  <2>1. NewPath(g, PathInBranch(CallPath(g), b)) /\ PathInBranch(CallPath(g), b) # NestedPath(g)
    BY <1>1, <1>3 DEF NewPath, PathInBranch
  <2>2. ASSUME NEW d \in branches
        PROVE  /\ ~ Begins(PathInBranch(CallPath(g), b), PathInBranch(CallPath(g), d))
               /\ PathInBranch(CallPath(g), b) = PathInBranch(CallPath(g), d) => b = d
    <3>1. Segment(<<"branch">>, b) = Segment(<<"branch">>, d) => b = d
      BY DEF Segment
    <3>2. QED
      BY <1>1, <3>1, Siblings DEF PathInBranch
  <2>3. QED
    BY <2>1, <2>2
<1>6. ASSUME NEW k \in K
      PROVE  \E b \in branches :
               /\ k = Position(g, <<b>>) /\ branch(k) = b
               /\ kids[k].path = PathInBranch(CallPath(g), b) /\ kids[k].path \in New
               /\ FrameFields(kids[k]) /\ kids[k].code \in DOMAIN Code /\ kids[k].pc = 1
               /\ kids[k].counters = <<>> /\ kids[k].waits = {} /\ kids[k].holder = k
  <2>1. PICK b \in branches : k = Position(g, <<b>>)
    OBVIOUS
  <2>2. branch(k) = b
    BY <1>4, <2>1
  <2>3. kids[k] = Scope(Instr(g).bodies[b], PathInBranch(CallPath(g), b), frames[g].marks, k, CurrentPhase(g))
    BY <2>2
  <2>4. PathInBranch(CallPath(g), b) \in New
    OBVIOUS
  <2> HIDE DEF New, kids, K, branch
  <2>5. QED
    BY <1>3, <2>1, <2>2, <2>3, <2>4 DEF Scope, FrameFields
<1>7. DOMAIN kids = K
  OBVIOUS
<1>8. \A q \in New : \E b \in branches : q = PathInBranch(CallPath(g), b)
  OBVIOUS
<1> HIDE DEF kids, New, K, branch, branches
<1>9. ASSUME NEW k \in K, NEW l \in K, kids[k].path = kids[l].path PROVE k = l
  <2>1. PICK b \in branches : k = Position(g, <<b>>) /\ kids[k].path = PathInBranch(CallPath(g), b)
    BY <1>6
  <2>2. PICK d \in branches : l = Position(g, <<d>>) /\ kids[l].path = PathInBranch(CallPath(g), d)
    BY <1>6
  <2>3. b = d
    BY <1>5, <1>9, <2>1, <2>2
  <2>4. QED
    BY <2>1, <2>2, <2>3
<1>10. \A k \in K :
         /\ \E c : k = Position(g, c)
         /\ FrameFields(kids[k]) /\ kids[k].path \in New
         /\ kids[k].code \in DOMAIN Code /\ kids[k].pc = 1 /\ kids[k].counters = <<>>
         /\ kids[k].waits = {} /\ kids[k].holder \in {k, frames[g].holder}
  BY <1>6
<1>11. /\ \A q \in New : NewPath(g, q) /\ q # NestedPath(g)
       /\ \A q, r \in New : ~ Begins(q, r)
  BY <1>5, <1>8
<1>12. Opens(g, kids, New)
  BY <1>1, <1>2, <1>7, <1>9, <1>10, <1>11 DEF Opens
<1>13. QED
  BY <1>12

\* pipeline() opens a scope for every item, in the first stage.
LEMMA PipelineOpens ==
  ASSUME IdentityInvariant, NEW g \in DOMAIN frames, Pipeline(g)
  PROVE  \E kids, New : Opens(g, kids, New)
<1> DEFINE items == 1..Instr(g).items
           item(k) == Last(k)[3][1]
           K == {Position(g, <<i, 1>>) : i \in items}
           kid(k) == Stage(g, CallPath(g), item(k), 1, k)
           kids == [k \in K |-> kid(k)]
           New == {PathInStage(CallPath(g), i, 1) : i \in items}
<1>1. /\ frames[g].waits = {} /\ ~AtEnd(g) /\ Instr(g).op = "pipeline" /\ IsSeq(g)
      /\ IsSeq(CallPath(g)) /\ Instr(g).stages \in Seq(DOMAIN Code) \ {<<>>} /\ Instr(g).items \in Nat
      /\ \A e : NestedPath(g) # Append(CallPath(g), e)
  <2>1. At(g, "pipeline")
    BY DEF Pipeline
  <2>2. QED
    BY <2>1, AtACall DEF IsInstruction
<1>2. Fork(g, kids) /\ UNCHANGED <<gen, open, seen, refused, nestings>>
  BY DEF Pipeline, local
<1>3. Instr(g).stages[1] \in DOMAIN Code /\ Instr(g).stages # <<>> /\ IsSeq(Instr(g).stages)
  BY <1>1, OwnElements
<1>4. ASSUME NEW i \in items PROVE item(Position(g, <<i, 1>>)) = i
  <2>1. Last(Position(g, <<i, 1>>)) = <<frames[g].pc, Iteration(g), <<i, 1>>>>
    BY <1>1, AppendFacts DEF Position
  <2>2. QED
    BY <2>1
<1>5. ASSUME NEW i \in items
      PROVE  /\ NewPath(g, PathInStage(CallPath(g), i, 1)) /\ PathInStage(CallPath(g), i, 1) # NestedPath(g)
             /\ \A j \in items : /\ ~ Begins(PathInStage(CallPath(g), i, 1), PathInStage(CallPath(g), j, 1))
                                 /\ PathInStage(CallPath(g), i, 1) = PathInStage(CallPath(g), j, 1) => i = j
  <2>1. i \in Nat \ {0}
    BY <1>1
  <2>2. NewPath(g, PathInStage(CallPath(g), i, 1)) /\ PathInStage(CallPath(g), i, 1) # NestedPath(g)
    BY <1>1, <2>1 DEF NewPath, PathInStage
  <2>3. ASSUME NEW j \in items
        PROVE  /\ ~ Begins(PathInStage(CallPath(g), i, 1), PathInStage(CallPath(g), j, 1))
               /\ PathInStage(CallPath(g), i, 1) = PathInStage(CallPath(g), j, 1) => i = j
    <3>1. Segment(<<"stage", 1>>, i) = Segment(<<"stage", 1>>, j) => i = j
      BY DEF Segment
    <3>2. QED
      BY <1>1, <3>1, Siblings DEF PathInStage
  <2>4. QED
    BY <2>2, <2>3
<1>6. ASSUME NEW k \in K
      PROVE  \E i \in items :
               /\ k = Position(g, <<i, 1>>)
               /\ kids[k].path = PathInStage(CallPath(g), i, 1) /\ kids[k].path \in New
               /\ FrameFields(kids[k]) /\ kids[k].code \in DOMAIN Code /\ kids[k].pc = 1
               /\ kids[k].counters = <<>> /\ kids[k].waits = {} /\ kids[k].holder = k
  <2>1. PICK i \in items : k = Position(g, <<i, 1>>)
    OBVIOUS
  <2>2. item(k) = i
    BY <1>4, <2>1
  <2>3. kids[k] = Scope(Instr(g).stages[1], PathInStage(CallPath(g), i, 1), frames[g].marks, k, CurrentPhase(g))
    BY <2>2 DEF Stage
  <2>4. PathInStage(CallPath(g), i, 1) \in New
    OBVIOUS
  <2> HIDE DEF New, kids, K, item, items
  <2>5. QED
    BY <1>3, <2>1, <2>2, <2>3, <2>4 DEF Scope, FrameFields
<1>7. DOMAIN kids = K
  OBVIOUS
<1>8. \A q \in New : \E i \in items : q = PathInStage(CallPath(g), i, 1)
  OBVIOUS
<1> HIDE DEF kids, New, K, item, items
<1>9. ASSUME NEW k \in K, NEW l \in K, kids[k].path = kids[l].path PROVE k = l
  <2>1. PICK i \in items : k = Position(g, <<i, 1>>) /\ kids[k].path = PathInStage(CallPath(g), i, 1)
    BY <1>6
  <2>2. PICK j \in items : l = Position(g, <<j, 1>>) /\ kids[l].path = PathInStage(CallPath(g), j, 1)
    BY <1>6
  <2>3. i = j
    BY <1>5, <1>9, <2>1, <2>2
  <2>4. QED
    BY <2>1, <2>2, <2>3
<1>10. \A k \in K :
         /\ \E c : k = Position(g, c)
         /\ FrameFields(kids[k]) /\ kids[k].path \in New
         /\ kids[k].code \in DOMAIN Code /\ kids[k].pc = 1 /\ kids[k].counters = <<>>
         /\ kids[k].waits = {} /\ kids[k].holder \in {k, frames[g].holder}
  BY <1>6
<1>11. /\ \A q \in New : NewPath(g, q) /\ q # NestedPath(g)
       /\ \A q, r \in New : ~ Begins(q, r)
  BY <1>5, <1>8
<1>12. /\ \A q \in New : \E i : q = PathInStage(CallPath(g), i, 1)
       /\ \A k \in K : \E i \in 1..Instr(g).items :
            k = Position(g, <<i, 1>>) /\ kids[k].path = PathInStage(CallPath(g), i, 1)
  BY <1>6, <1>8 DEF items
<1>13. Opens(g, kids, New)
  BY <1>1, <1>2, <1>3, <1>7, <1>9, <1>10, <1>11, <1>12 DEF Opens
<1>14. QED
  BY <1>13

\* invokeHelper() opens one scope, whose path is that of the call.
LEMMA HelperOpens ==
  ASSUME IdentityInvariant, NEW g \in DOMAIN frames, Helper(g)
  PROVE  \E kids, New : Opens(g, kids, New)
<1> DEFINE k == Position(g, <<>>)
           kid == Scope(Instr(g).body, CallPath(g), frames[g].marks, frames[g].holder, "none")
           kids == [x \in {k} |-> kid]
           New == {CallPath(g)}
<1>1. /\ frames[g].waits = {} /\ ~AtEnd(g) /\ Instr(g).op = "helper"
      /\ IsSeq(CallPath(g)) /\ Instr(g).body \in DOMAIN Code /\ NestedPath(g) # CallPath(g)
  <2>1. At(g, "helper")
    BY DEF Helper
  <2>2. QED
    BY <2>1, AtACall DEF IsInstruction
<1>2. Fork(g, kids) /\ UNCHANGED <<gen, open, seen, refused, nestings>>
  BY DEF Helper, local
<1>3. ~ Begins(CallPath(g), CallPath(g))
  BY <1>1 DEF Begins, IsSeq
<1>4. NewPath(g, CallPath(g))
  BY DEF NewPath
<1>5. /\ FrameFields(kid) /\ kid.path = CallPath(g) /\ kid.code \in DOMAIN Code /\ kid.pc = 1
      /\ kid.counters = <<>> /\ kid.waits = {} /\ kid.holder = frames[g].holder
  BY <1>1 DEF Scope, FrameFields
<1>6. DOMAIN kids = {k} /\ kids[k] = kid /\ \E c : k = Position(g, c)
  OBVIOUS
<1> HIDE DEF kid, kids, k
<1>7. Opens(g, kids, New)
  BY <1>1, <1>2, <1>3, <1>4, <1>5, <1>6 DEF Opens
<1>8. QED
  BY <1>7

\* A nested workflow is not taken for a changed one.
LEMMA WorkflowAccepted ==
  ASSUME IdentityInvariant, NEW g \in DOMAIN frames, NEW n \in nested, n[1] = NestedPath(g)
  PROVE  n[2] = Instr(g).request[frames[g].ok]
<1> DEFINE p == frames[g].path
           site == Segment(Key(g), 0)
           what == <<"request", Instr(g).request[frames[g].ok]>>
           last == Segment(what, Counter(nestings, NestedBase(g)) + 1)
<1>1. NestedPath(g) = Append(Append(p, site), last) /\ IsSeq(Append(p, site))
  BY NextSegments, OldPaths DEF IsPath, IdentityInvariant
<1>2. Last(NestedPath(g)) = last
  BY <1>1, AppendFacts
<1>3. last.through = what
  BY DEF Segment
<1>4. Last(n[1]).through = <<"request", n[2]>>
  BY DEF IdentityInvariant, NestedSound
<1>5. QED
  BY <1>2, <1>3, <1>4

\* workflow() opens one scope, whose path is of its own kind.
LEMMA WorkflowOpens ==
  ASSUME IdentityInvariant, NEW g \in DOMAIN frames, Workflow(g)
  PROVE  (\E kids, New : Opens(g, kids, New)) /\ NestedSound'
<1> DEFINE request == Instr(g).request[frames[g].ok]
           path0 == NestedPath(g)
           k == Position(g, <<request>>)
           kid == Scope(Instr(g).body, path0, <<>>, k, CurrentPhase(g))
           kids == [x \in {k} |-> Scope(Instr(g).body, path0, <<>>, x, CurrentPhase(g))]
           New == {path0}
<1>1. /\ frames[g].waits = {} /\ ~AtEnd(g) /\ Instr(g).op = "workflow"
      /\ Instr(g).body \in DOMAIN Code
  <2>1. At(g, "workflow")
    BY DEF Workflow
  <2>2. QED
    BY <2>1, AtACall DEF IsInstruction
<1>2. ~ \E n \in nested : n[1] = path0 /\ n[2] # request
  BY WorkflowAccepted
<1>3. /\ nested' = nested \cup {<<path0, request>>} /\ nestings' = Bumped(nestings, NestedBase(g))
      /\ Fork(g, kids) /\ UNCHANGED <<gen, open, seen, refused>>
  BY <1>2 DEF Workflow
<1>4. IsPath(path0) /\ Last(path0).through = <<"request", request>>
  <2> DEFINE p == frames[g].path
             site == Segment(Key(g), 0)
             last == Segment(<<"request", request>>, Counter(nestings, NestedBase(g)) + 1)
  <2>1. path0 = Append(Append(p, site), last) /\ IsSeq(Append(p, site)) /\ IsPath(path0)
    BY NextSegments, OldPaths DEF IsPath, IdentityInvariant
  <2>2. Last(path0) = last
    BY <2>1, AppendFacts
  <2>3. QED
    BY <2>1, <2>2 DEF Segment
<1>5. ~ Begins(path0, path0)
  BY <1>4 DEF Begins, IsPath, IsSeq
<1>6. NewPath(g, path0)
  BY DEF NewPath
<1>7. /\ FrameFields(kid) /\ kid.path = path0 /\ kid.code \in DOMAIN Code /\ kid.pc = 1
      /\ kid.counters = <<>> /\ kid.waits = {} /\ kid.holder = k
  BY <1>1 DEF Scope, FrameFields
<1>8. DOMAIN kids = {k} /\ kids[k] = kid /\ \E c : k = Position(g, c)
  OBVIOUS
<1> HIDE DEF kid, kids, k, request
<1>9. NestedSound'
  <2>1. \A n \in nested : Last(n[1]).through = <<"request", n[2]>>
    BY DEF IdentityInvariant, NestedSound
  <2>2. QED
    BY <1>3, <1>4, <2>1 DEF NestedSound
<1> HIDE DEF path0
<1>10. Opens(g, kids, New)
  BY <1>1, <1>3, <1>5, <1>6, <1>7, <1>8 DEF Opens, path0
<1>11. QED
  BY <1>9, <1>10

\* agent() posts a call, whose path is new.
LEMMA AgentPosts ==
  ASSUME IdentityInvariant, NEW g \in DOMAIN frames, CallAgent(g)
  PROVE  Forks(g, {}, {CallPath(g)}) /\ Posts(g, {}, {Position(g, <<>>)}) /\ UNCHANGED nested
<1> DEFINE w == Position(g, <<>>)
           b == Bumped(frames[g].counters, Key(g))
           c == [path |-> CallPath(g), status |-> "posted", whose |-> w,
                 prompt |-> Instr(g).request[frames[g].ok],
                 phase |-> CurrentPhase(g), identity |-> <<>>]
           t == frames[g]
<1>1. /\ frames[g].waits = {} /\ ~AtEnd(g) /\ Instr(g).op = "agent"
      /\ IsSeq(CallPath(g)) /\ NestedPath(g) # CallPath(g)
  <2>1. At(g, "agent")
    BY DEF CallAgent
  <2>2. QED
    BY <2>1, AtACall
<1>2. /\ open' = With(open, w, c)
      /\ frames' = [frames EXCEPT ![g].waits = {w}, ![g].counters = b]
      /\ UNCHANGED <<gen, seen, nestings, nested, refused>>
  BY DEF CallAgent
<1>3. ~ Begins(CallPath(g), CallPath(g)) /\ NewPath(g, CallPath(g))
  BY <1>1 DEF Begins, IsSeq, NewPath
<1>4. /\ DOMAIN open' = DOMAIN open \cup {w} /\ open'[w] = c
      /\ \A v \in DOMAIN open \ {w} : open'[v] = open[v]
  <2> HIDE DEF w, c
  <2>1. QED
    BY <1>2 DEF With
<1>5. CallFields(c) /\ c.status = "posted" /\ c.path = CallPath(g)
  BY DEF CallFields
<1>6. FrameFields(t)
  BY DEF IdentityInvariant, TreeSound
<1>7. /\ DOMAIN frames' = DOMAIN frames
      /\ \A x \in DOMAIN frames \ {g} : frames'[x] = frames[x]
      /\ frames'[g] = [t EXCEPT !.counters = b, !.waits = {w}]
  <2>1. DOMAIN frames' = DOMAIN frames /\ \A x \in DOMAIN frames \ {g} : frames'[x] = frames[x]
    BY <1>2
  <2>2. frames'[g] = [t EXCEPT !.waits = {w}, !.counters = b]
    BY <1>2
  <2> HIDE DEF t, b, w
  <2>3. [t EXCEPT !.waits = {w}, !.counters = b] = [t EXCEPT !.counters = b, !.waits = {w}]
    OBVIOUS
  <2>4. QED
    BY <2>1, <2>2, <2>3
<1>8. frames'[g].waits = {w} /\ frames'[g].path = t.path
  <2> HIDE DEF t, b, w
  <2>1. QED
    BY <1>6, <1>7 DEF FrameFields
<1>9. \E e : w = Position(g, e)
  OBVIOUS
<1> HIDE DEF w, c
<1>10. Paths' \subseteq Paths \cup {CallPath(g)}
  <2>1. \A f \in DOMAIN frames : frames'[f].path = frames[f].path
    BY <1>7, <1>8
  <2>2. seen' = seen /\ DOMAIN frames' = DOMAIN frames
    BY <1>2, <1>7
  <2>3. \A v \in DOMAIN open' : open'[v].path = CallPath(g) \/ (v \in DOMAIN open /\ open'[v].path = open[v].path)
    BY <1>4, <1>5
  <2>4. QED
    BY <2>1, <2>2, <2>3 DEF Paths
<1>11. \E W : frames'[g] = [frames[g] EXCEPT !.counters = Bumped(@, Key(g)), !.waits = W]
  BY <1>7
<1>12. Forks(g, {}, {CallPath(g)})
  BY <1>1, <1>2, <1>3, <1>7, <1>10, <1>11 DEF Forks
<1>13. Posts(g, {}, {w})
  BY <1>2, <1>4, <1>5, <1>8, <1>9 DEF Posts
<1>14. QED
  BY <1>2, <1>12, <1>13 DEF w

\* Every call of a scope keeps the invariant.
LEMMA ForkKeeps ==
  ASSUME IdentityInvariant, NEW g, NEW K, NEW New, NEW C, Forks(g, K, New), Posts(g, K, C),
         NestedSound'
  PROVE  IdentityInvariant'
<1>1. /\ IdentityTypeOK /\ NeverRefused /\ TreeSound /\ PathsSound /\ ScopesCount /\ HostCounts
      /\ StagesInOrder /\ CallsSound
  BY DEF IdentityInvariant, CallsAccepted
<1>2. IdentityTypeOK' /\ TreeSound'
  BY <1>1, ForkedTreeSound
<1>3. PathsSound' /\ ScopesCount' /\ HostCounts' /\ StagesInOrder'
  BY <1>1, ForkedPathsSound, ForkedScopesCount, ForkedHostCounts, ForkedStagesInOrder
<1>4. CallsSound'
  BY <1>1, ForkedCallsSound
<1>5. NeverRefused'
  BY <1>1 DEF NeverRefused, Posts
<1>6. QED
  BY <1>2, <1>3, <1>4, <1>5 DEF IdentityInvariant, CallsAccepted

\* parallel(), pipeline(), a helper, workflow() and agent() do.
LEMMA CallsKeep ==
  ASSUME IdentityInvariant, NEW g \in DOMAIN frames,
         Parallel(g) \/ Pipeline(g) \/ Helper(g) \/ Workflow(g) \/ CallAgent(g)
  PROVE  IdentityInvariant'
<1>1. TreeSound /\ NestedSound
  BY DEF IdentityInvariant
<1>2. \A kids, New : Opens(g, kids, New) => Forks(g, DOMAIN kids, New) /\ Posts(g, DOMAIN kids, {})
  BY <1>1, OpensForks
<1>3. ASSUME NestedSound', \E kids, New : Opens(g, kids, New) PROVE IdentityInvariant'
  BY <1>2, <1>3, ForkKeeps
<1>4. nested' = nested => NestedSound'
  BY <1>1 DEF NestedSound
<1>5. CASE Parallel(g)
  <2>1. nested' = nested
    BY <1>5 DEF Parallel, local
  <2>2. QED
    BY <1>3, <1>4, <1>5, <2>1, ParallelOpens
<1>6. CASE Pipeline(g)
  <2>1. nested' = nested
    BY <1>6 DEF Pipeline, local
  <2>2. QED
    BY <1>3, <1>4, <1>6, <2>1, PipelineOpens
<1>7. CASE Helper(g)
  <2>1. nested' = nested
    BY <1>7 DEF Helper, local
  <2>2. QED
    BY <1>3, <1>4, <1>7, <2>1, HelperOpens
<1>8. CASE Workflow(g)
  BY <1>3, <1>8, WorkflowOpens
<1>9. CASE CallAgent(g)
  <2>1. nested' = nested /\ Forks(g, {}, {CallPath(g)}) /\ Posts(g, {}, {Position(g, <<>>)})
    BY <1>9, AgentPosts
  <2>2. QED
    BY <1>4, <2>1, ForkKeeps
<1>10. QED
  BY <1>5, <1>6, <1>7, <1>8, <1>9

----------------------------------------------------------------------------
(***************************************************************************)
(* Steps that open no scope: phases, loops, answers, and bodies that end.  *)
(***************************************************************************)
\* A step that opens no scope and posts no call: the scopes and calls D are over.
Stays(D) ==
  /\ UNCHANGED <<gen, refused, nestings, nested>>
  /\ DOMAIN frames' = DOMAIN frames \ D /\ DOMAIN open' = DOMAIN open \ D
  /\ \A d \in D : d # Root /\ (d \in DOMAIN frames => frames[d].waits = {})
  /\ \A f \in DOMAIN frames' :
       /\ FrameFields(frames'[f])
       /\ frames'[f].path = frames[f].path /\ frames'[f].counters = frames[f].counters
       /\ frames'[f].code = frames[f].code /\ frames'[f].holder = frames[f].holder
       /\ frames'[f].pc \in 1..(Len(Code[frames[f].code]) + 1)
       /\ frames'[f].waits = frames[f].waits \ D
       /\ frames'[f].waits # {} =>
            /\ frames'[f].pc = frames[f].pc
            /\ frames'[f].marks = frames[f].marks /\ frames'[f].turns = frames[f].turns
  /\ \A w \in DOMAIN open' :
       /\ CallFields(open'[w]) /\ open'[w].path = open[w].path
       /\ open'[w].status \in {"posted", "live", "replayed"}
       /\ open'[w].status = "posted" => open[w].path \notin seen'
  /\ seen' \subseteq Paths

\* The tree stays sound.
LEMMA TreeStays ==
  ASSUME IdentityTypeOK, TreeSound, NEW D, Stays(D)
  PROVE  IdentityTypeOK' /\ TreeSound'
<1>1. /\ gen' = gen /\ refused' = refused
      /\ DOMAIN frames' = DOMAIN frames \ D /\ DOMAIN open' = DOMAIN open \ D
      /\ \A d \in D : d # Root /\ (d \in DOMAIN frames => frames[d].waits = {})
  BY DEF Stays
<1>2. \A f \in DOMAIN frames' :
        /\ FrameFields(frames'[f])
        /\ frames'[f].code = frames[f].code /\ frames'[f].holder = frames[f].holder
        /\ frames'[f].pc \in 1..(Len(Code[frames[f].code]) + 1)
        /\ frames'[f].waits = frames[f].waits \ D
        /\ frames'[f].waits # {} => frames'[f].pc = frames[f].pc
  BY DEF Stays
<1>3. \A w \in DOMAIN open' :
        CallFields(open'[w]) /\ open'[w].status \in {"posted", "live", "replayed"}
  BY DEF Stays
<1>4. /\ Root \in DOMAIN frames /\ DOMAIN frames \cap DOMAIN open = {}
      /\ \A f \in DOMAIN frames :
           /\ IsSeq(f) /\ Prefixes(f) \subseteq DOMAIN frames /\ frames[f].holder \in Prefixes(f)
           /\ frames[f].waits # {} => ~AtEnd(f)
           /\ \A k \in frames[f].waits : k # Root /\ Front(k) = f
      /\ \A f \in DOMAIN frames \ {Root} : f \in frames[Front(f)].waits
  BY DEF TreeSound
<1>5. /\ gen \in 1..Generations /\ refused \in BOOLEAN
      /\ \A f \in DOMAIN frames : /\ frames[f].code \in DOMAIN Code
                                  /\ frames[f].waits \subseteq DOMAIN frames \cup DOMAIN open
      /\ \A w \in DOMAIN open : Front(w) \in DOMAIN frames /\ frames[Front(w)].waits = {w}
  BY DEF IdentityTypeOK
<1>6. Root \in DOMAIN frames' /\ DOMAIN frames' \cap DOMAIN open' = {}
  BY <1>1, <1>4
<1>7. ASSUME NEW f \in DOMAIN frames' PROVE Prefixes(f) \subseteq DOMAIN frames'
  <2>1. SUFFICES ASSUME NEW d \in D, d \in Prefixes(f) PROVE FALSE
    BY <1>1, <1>4, <1>7
  <2>2. f \in DOMAIN frames /\ d # f /\ IsSeq(f) /\ d \in DOMAIN frames
    BY <1>1, <1>4, <2>1
  <2>3. PICK k \in Prefixes(f) : k # <<>> /\ Front(k) = d
    BY <2>1, <2>2, PrefixesFacts
  <2>4. k \in frames[d].waits
    BY <1>4, <2>2, <2>3 DEF Root
  <2>5. QED
    BY <1>1, <2>2, <2>4
<1>8. ASSUME NEW f \in DOMAIN frames' \ {Root} PROVE f \in frames'[Front(f)].waits
  <2>1. f \in DOMAIN frames \ {Root} /\ f \notin D
    BY <1>1
  <2>2. f \in frames[Front(f)].waits /\ Front(f) \in DOMAIN frames
    BY <2>1, ParentIsThere
  <2>3. Front(f) \in DOMAIN frames'
    BY <1>1, <2>2
  <2>4. QED
    BY <1>2, <2>1, <2>2, <2>3
<1>9. ASSUME NEW f \in DOMAIN frames'
      PROVE  /\ frames'[f].waits # {} => ~ AtEnd(f)'
             /\ \A k \in frames'[f].waits : k # Root /\ Front(k) = f
             /\ frames'[f].waits \subseteq DOMAIN frames' \cup DOMAIN open'
  <2>1. f \in DOMAIN frames /\ frames'[f].waits = frames[f].waits \ D
    BY <1>1, <1>2
  <2>2. ASSUME frames'[f].waits # {} PROVE ~ AtEnd(f)'
    <3>1. ~ AtEnd(f) /\ frames'[f].pc = frames[f].pc /\ frames'[f].code = frames[f].code
      BY <1>2, <1>4, <2>1, <2>2
    <3>2. QED
      BY <3>1 DEF AtEnd
  <2>3. QED
    BY <1>1, <1>4, <1>5, <2>1, <2>2
<1>10. ASSUME NEW w \in DOMAIN open' PROVE Front(w) \in DOMAIN frames' /\ frames'[Front(w)].waits = {w}
  <2>1. w \in DOMAIN open /\ w \notin D
    BY <1>1
  <2>2. Front(w) \in DOMAIN frames /\ frames[Front(w)].waits = {w}
    BY <1>5, <2>1
  <2>3. Front(w) \in DOMAIN frames'
    BY <1>1, <2>2
  <2>4. QED
    BY <1>2, <2>1, <2>2, <2>3
<1>11. TreeSound'
  <2>1. \A f \in DOMAIN frames' :
          /\ FrameFields(frames'[f]) /\ IsSeq(f) /\ Prefixes(f) \subseteq DOMAIN frames'
          /\ frames'[f].holder \in Prefixes(f)
    BY <1>1, <1>2, <1>4, <1>7
  <2>2. QED
    BY <1>3, <1>6, <1>8, <1>9, <2>1 DEF TreeSound, Root
<1>12. IdentityTypeOK'
  <2>1. ASSUME NEW f \in DOMAIN frames'
        PROVE  /\ frames'[f].code \in DOMAIN Code /\ frames'[f].pc \in 1..(Len(Code[frames'[f].code]) + 1)
               /\ frames'[f].holder \in DOMAIN frames'
    <3>1. f \in DOMAIN frames /\ frames'[f].holder \in Prefixes(f) /\ frames'[f].code = frames[f].code
      BY <1>1, <1>2, <1>4
    <3>2. QED
      BY <1>2, <1>5, <1>7, <3>1
  <2>2. QED
    BY <1>1, <1>3, <1>5, <1>9, <1>10, <2>1 DEF IdentityTypeOK
<1>13. QED
  BY <1>11, <1>12

\* So does what the paths tell, and the calls.
LEMMA PathsStay ==
  ASSUME IdentityInvariant, NEW D, Stays(D), TreeSound'
  PROVE  PathsSound' /\ ScopesCount' /\ HostCounts' /\ StagesInOrder' /\ CallsSound' /\ NestedSound'
<1>1. /\ IdentityTypeOK /\ TreeSound /\ PathsSound /\ ScopesCount /\ HostCounts /\ StagesInOrder
      /\ CallsSound /\ NestedSound
  BY DEF IdentityInvariant, CallsAccepted
<1>2. /\ DOMAIN frames' \subseteq DOMAIN frames /\ DOMAIN open' \subseteq DOMAIN open
      /\ nestings' = nestings /\ nested' = nested /\ seen' \subseteq Paths
      /\ \A f \in DOMAIN frames' : /\ frames'[f].path = frames[f].path
                                   /\ frames'[f].counters = frames[f].counters
                                   /\ frames'[f].code = frames[f].code
                                   /\ frames'[f].waits # {} =>
                                        /\ frames'[f].pc = frames[f].pc
                                        /\ frames'[f].marks = frames[f].marks
                                        /\ frames'[f].turns = frames[f].turns
  BY DEF Stays
<1>12. \A w \in DOMAIN open' :
         /\ open'[w].path = open[w].path
         /\ open'[w].status = "posted" => open[w].path \notin seen'
  BY DEF Stays
<1>3. Paths' \subseteq Paths
  <2>1. \A f \in DOMAIN frames' : frames'[f].path \in Paths
    BY <1>1, <1>2, OldPaths
  <2>2. \A w \in DOMAIN open' : open'[w].path \in Paths
    <3>1. \A w \in DOMAIN open : open[w].path \in Paths
      BY DEF Paths
    <3>2. QED
      BY <1>2, <1>12, <3>1
  <2>3. Paths' = seen' \cup {frames'[f].path : f \in DOMAIN frames'}
                 \cup {open'[w].path : w \in DOMAIN open'}
    BY DEF Paths
  <2>4. QED
    BY <1>2, <2>1, <2>2, <2>3
<1>4. /\ Root \in DOMAIN frames'
      /\ \A f \in DOMAIN frames' \ {Root} :
           f \in frames'[Front(f)].waits /\ Front(f) \in DOMAIN frames'
  <2>1. Root \in DOMAIN frames' /\ \A f \in DOMAIN frames' \ {Root} : f \in frames'[Front(f)].waits
    BY DEF TreeSound, Root
  <2>2. ASSUME NEW f \in DOMAIN frames' \ {Root} PROVE Front(f) \in DOMAIN frames'
    <3>1. f \in DOMAIN frames \ {Root} /\ IsSeq(f) /\ f # <<>>
      BY <1>1, <1>2 DEF TreeSound, Root
    <3>2. f = Append(Front(f), Last(f)) /\ IsSeq(Front(f))
      BY <3>1, FrontFacts
    <3>3. Front(f) \in Prefixes(Front(f)) /\ Prefixes(f) = Prefixes(Front(f)) \cup {f}
      <4> DEFINE up == Front(f)
      <4>1. f = Append(up, Last(f)) /\ IsSeq(up)
        BY <3>2
      <4> HIDE DEF up
      <4>2. up \in Prefixes(up) /\ Prefixes(f) = Prefixes(up) \cup {f}
        BY <4>1, PrefixesFacts
      <4>3. QED
        BY <4>2 DEF up
    <3>4. Prefixes(f) \subseteq DOMAIN frames'
      BY DEF TreeSound
    <3>5. QED
      BY <3>3, <3>4
  <2>3. QED
    BY <2>1, <2>2
<1>5. PathsSound'
  <2>1. \A q \in Paths' : IsPath(q)
    BY <1>1, <1>3 DEF PathsSound
  <2>2. QED
    BY <1>1, <1>2, <1>4, <2>1 DEF PathsSound, Root
<1>6. ScopesCount'
  BY <1>1, <1>2, <1>3 DEF ScopesCount
<1>7. HostCounts'
  BY <1>1, <1>2, <1>3 DEF HostCounts
<1>8. StagesInOrder'
  <2>1. SUFFICES ASSUME NEW f \in DOMAIN frames', f # Root, NEW up, up = Front(f),
                        Instr(up)'.op = "pipeline"
                 PROVE  StageSound(f, up, Last(f)[3][1], Last(f)[3][2])'
    BY DEF StagesInOrder, Root
  <2> DEFINE i == Last(f)[3][1]
             s == Last(f)[3][2]
  <2>2. /\ frames'[up].path = frames[up].path /\ frames'[up].counters = frames[up].counters
        /\ frames'[up].code = frames[up].code /\ frames'[up].pc = frames[up].pc
        /\ frames'[up].marks = frames[up].marks /\ frames'[up].turns = frames[up].turns
    <3>1. up \in DOMAIN frames' /\ frames'[up].waits # {}
      BY <1>4, <2>1
    <3>2. QED
      BY <1>2, <3>1
  <2>3. Instr(up)' = Instr(up) /\ Key(up)' = Key(up) /\ \A c : Position(up, c)' = Position(up, c)
    BY <2>2, SameScope
  <2>4. Around(up)' = Around(up)
    BY <2>2, <2>3 DEF Around
  <2>5. StageSound(f, up, i, s)
    BY <1>1, <1>2, <2>1, <2>3 DEF StagesInOrder
  <2>6. frames'[f].path = frames[f].path
    BY <1>2, <2>1
  <2>7. QED
    BY <1>3, <2>2, <2>3, <2>4, <2>5, <2>6 DEF StageSound
<1>9. CallsSound'
  <2>1. SUFFICES ASSUME NEW w \in DOMAIN open'
                 PROVE  /\ \E e \in Range(open'[w].path) : open'[w].path = Append(frames'[Front(w)].path, e)
                        /\ open'[w].status = "posted" => open'[w].path \notin seen'
    BY DEF CallsSound
  <2>2. w \in DOMAIN open /\ Front(w) \in DOMAIN frames'
    <3>1. w \in DOMAIN open /\ w \notin D /\ DOMAIN frames' = DOMAIN frames \ D
      BY DEF Stays
    <3>2. Front(w) \in DOMAIN frames /\ frames[Front(w)].waits = {w}
      BY <1>1, <3>1 DEF IdentityTypeOK
    <3>3. Front(w) \notin D
      BY <3>2 DEF Stays
    <3>4. QED
      BY <3>1, <3>2, <3>3
  <2>3. \E e \in Range(open[w].path) : open[w].path = Append(frames[Front(w)].path, e)
    BY <1>1, <2>2 DEF CallsSound
  <2>4. open'[w].path = open[w].path /\ frames'[Front(w)].path = frames[Front(w)].path
        /\ (open'[w].status = "posted" => open[w].path \notin seen')
    <3>1. \A f \in DOMAIN frames' : frames'[f].path = frames[f].path
      BY <1>2
    <3>2. frames'[Front(w)].path = frames[Front(w)].path
      BY <2>2, <3>1
    <3>3. QED
      BY <1>12, <3>2
  <2>5. QED
    BY <2>3, <2>4
<1>10. NestedSound'
  BY <1>1, <1>2 DEF NestedSound
<1>11. QED
  BY <1>5, <1>6, <1>7, <1>8, <1>9, <1>10

\* A step that opens nothing keeps the invariant.
LEMMA StayKeeps ==
  ASSUME IdentityInvariant, NEW D, Stays(D)
  PROVE  IdentityInvariant'
<1>1. IdentityTypeOK /\ TreeSound /\ NeverRefused
  BY DEF IdentityInvariant, CallsAccepted
<1>2. IdentityTypeOK' /\ TreeSound'
  BY <1>1, TreeStays
<1>3. NeverRefused'
  BY <1>1 DEF NeverRefused, Stays
<1>4. QED
  BY <1>2, <1>3, PathsStay DEF IdentityInvariant, CallsAccepted

\* A step of one scope that keeps its path and counters, and is not waiting.
LEMMA InPlace ==
  ASSUME IdentityInvariant, NEW g \in DOMAIN frames, frames[g].waits = {},
         UNCHANGED <<gen, open, seen, nestings, nested, refused>>,
         DOMAIN frames' = DOMAIN frames,
         \A x \in DOMAIN frames :
           /\ FrameFields(frames'[x])
           /\ frames'[x].path = frames[x].path /\ frames'[x].counters = frames[x].counters
           /\ frames'[x].code = frames[x].code /\ frames'[x].holder = frames[x].holder
           /\ frames'[x].waits = frames[x].waits,
         \A x \in DOMAIN frames \ {g} :
           /\ frames'[x].pc = frames[x].pc
           /\ frames'[x].marks = frames[x].marks /\ frames'[x].turns = frames[x].turns,
         frames'[g].pc \in 1..(Len(Code[frames[g].code]) + 1)
  PROVE  IdentityInvariant'
<1>1. \A x \in DOMAIN frames : frames[x].pc \in 1..(Len(Code[frames[x].code]) + 1)
  BY DEF IdentityInvariant, CallsAccepted, IdentityTypeOK
<1>2. ASSUME NEW w \in DOMAIN open
      PROVE  /\ CallFields(open[w]) /\ open[w].status \in {"posted", "live", "replayed"}
             /\ open[w].status = "posted" => open[w].path \notin seen
  BY DEF IdentityInvariant, CallsAccepted, IdentityTypeOK, TreeSound, CallsSound
<1>3. seen \subseteq Paths
  BY DEF Paths
<1>4. Stays({})
  BY <1>1, <1>2, <1>3 DEF Stays
<1>5. QED
  BY <1>4, StayKeeps

\* phase() keeps it.
LEMMA PhaseKeeps ==
  ASSUME IdentityInvariant, NEW g \in DOMAIN frames, Phase(g)
  PROVE  IdentityInvariant'
<1> DEFINE h == frames[g].holder
           title == Instr(g).title
<1>1. /\ frames[g].waits = {} /\ ~AtEnd(g) /\ UNCHANGED <<gen, open, seen, nestings, nested, refused>>
      /\ frames' = [frames EXCEPT ![h].phase = title, ![g].pc = @ + 1]
  BY DEF Phase, At, local
<1>2. \A x \in DOMAIN frames : FrameFields(frames[x]) /\ ScopeSound(x)
  BY ScopesSound DEF IdentityInvariant, CallsAccepted, TreeSound
<1>3. frames[g].pc + 1 \in 1..(Len(Code[frames[g].code]) + 1)
  BY <1>1, <1>2, InstructionIsSound
<1> HIDE DEF h, title
<1>4. ASSUME NEW x \in DOMAIN frames
      PROVE  /\ FrameFields(frames'[x])
             /\ frames'[x].path = frames[x].path /\ frames'[x].counters = frames[x].counters
             /\ frames'[x].code = frames[x].code /\ frames'[x].holder = frames[x].holder
             /\ frames'[x].waits = frames[x].waits
             /\ frames'[x].marks = frames[x].marks /\ frames'[x].turns = frames[x].turns
             /\ frames'[x].pc = IF x = g THEN frames[x].pc + 1 ELSE frames[x].pc
  <2> DEFINE t == frames[x]
             to == IF x = g THEN t.pc + 1 ELSE t.pc
             phase == IF x = h THEN title ELSE t.phase
  <2>1. frames'[x] = [path |-> t.path, code |-> t.code, pc |-> to, counters |-> t.counters,
                      marks |-> t.marks, turns |-> t.turns, holder |-> t.holder, phase |-> phase,
                      ok |-> t.ok, waits |-> t.waits]
    <3>1. FrameFields(t)
      BY <1>2
    <3>2. CASE x = g /\ x = h
      <4>1. frames'[x] = [[t EXCEPT !.phase = title] EXCEPT !.pc = @ + 1]
        BY <1>1, <3>2
      <4> HIDE DEF t
      <4>2. QED
        BY <3>1, <3>2, <4>1 DEF FrameFields
    <3>3. CASE x = g /\ x # h
      <4>1. frames'[x] = [t EXCEPT !.pc = @ + 1]
        BY <1>1, <3>3
      <4> HIDE DEF t
      <4>2. QED
        BY <3>1, <3>3, <4>1 DEF FrameFields
    <3>4. CASE x # g /\ x = h
      <4>1. frames'[x] = [t EXCEPT !.phase = title]
        BY <1>1, <3>4
      <4> HIDE DEF t
      <4>2. QED
        BY <3>1, <3>4, <4>1 DEF FrameFields
    <3>5. CASE x # g /\ x # h
      <4>1. frames'[x] = t
        BY <1>1, <3>5
      <4> HIDE DEF t
      <4>2. QED
        BY <3>1, <3>5, <4>1 DEF FrameFields
    <3>6. QED
      BY <3>2, <3>3, <3>4, <3>5
  <2> HIDE DEF t, phase
  <2>2. /\ FrameFields(frames'[x]) /\ frames'[x].path = t.path /\ frames'[x].counters = t.counters
        /\ frames'[x].code = t.code /\ frames'[x].holder = t.holder /\ frames'[x].waits = t.waits
        /\ frames'[x].marks = t.marks /\ frames'[x].turns = t.turns /\ frames'[x].pc = to
    <3> HIDE DEF to
    <3>1. QED
      BY <2>1 DEF FrameFields
  <2>3. QED
    BY <2>2 DEF t
<1>5. DOMAIN frames' = DOMAIN frames
  BY <1>1
<1>6. QED
  BY <1>1, <1>3, <1>4, <1>5, InPlace

\* A step that changes the marks, the loops and the place of one scope keeps it.
LEMMA GoesOn ==
  ASSUME IdentityInvariant, NEW g \in DOMAIN frames, frames[g].waits = {},
         UNCHANGED <<gen, open, seen, nestings, nested, refused>>,
         NEW marks, NEW turns, NEW to \in 1..(Len(Code[frames[g].code]) + 1),
         frames' = [frames EXCEPT ![g].marks = marks, ![g].turns = turns, ![g].pc = to]
  PROVE  IdentityInvariant'
<1> DEFINE t == frames[g]
<1>1. DOMAIN frames' = DOMAIN frames /\ \A x \in DOMAIN frames \ {g} : frames'[x] = frames[x]
  OBVIOUS
<1>2. frames'[g] = [t EXCEPT !.marks = marks, !.turns = turns, !.pc = to]
  OBVIOUS
<1>3. \A x \in DOMAIN frames : FrameFields(frames[x])
  BY DEF IdentityInvariant, TreeSound
<1>4. /\ FrameFields(frames'[g]) /\ frames'[g].path = t.path /\ frames'[g].counters = t.counters
      /\ frames'[g].code = t.code /\ frames'[g].holder = t.holder /\ frames'[g].waits = t.waits
      /\ frames'[g].pc = to
  <2>1. FrameFields(t)
    BY <1>3
  <2> HIDE DEF t
  <2>2. QED
    BY <1>2, <2>1 DEF FrameFields
<1>5. \A x \in DOMAIN frames :
        /\ FrameFields(frames'[x])
        /\ frames'[x].path = frames[x].path /\ frames'[x].counters = frames[x].counters
        /\ frames'[x].code = frames[x].code /\ frames'[x].holder = frames[x].holder
        /\ frames'[x].waits = frames[x].waits
  BY <1>1, <1>3, <1>4
<1>6. frames'[g].pc \in 1..(Len(Code[frames[g].code]) + 1)
  BY <1>4
<1>7. QED
  BY <1>1, <1>5, <1>6, InPlace

\* The top of a loop's body and a jump keep it.
LEMMA LoopsKeep ==
  ASSUME IdentityInvariant, NEW g \in DOMAIN frames, Mark(g) \/ Jump(g)
  PROVE  IdentityInvariant'
<1>1. /\ frames[g].waits = {} /\ ~AtEnd(g) /\ UNCHANGED <<gen, open, seen, nestings, nested, refused>>
  BY DEF Mark, Jump, At, local
<1>2. /\ frames[g].pc + 1 \in 1..(Len(Code[frames[g].code]) + 1)
      /\ IsInstruction(Instr(g), Len(Code[frames[g].code]) + 1)
  <2>1. ScopeSound(g)
    BY ScopesSound DEF IdentityInvariant, CallsAccepted
  <2>2. QED
    BY <1>1, <2>1, InstructionIsSound
<1> DEFINE t == frames[g]
<1>3. CASE Mark(g)
  <2> DEFINE marks == Bumped(t.marks, Instr(g).loop)
             turns == Merge(Bumped(t.turns, Instr(g).loop), [l \in Instr(g).inner |-> 0])
             to == t.pc + 1
  <2>1. frames' = [frames EXCEPT ![g].marks = Bumped(@, Instr(g).loop),
                     ![g].turns = Merge(Bumped(@, Instr(g).loop), [l \in Instr(g).inner |-> 0]),
                     ![g].pc = @ + 1]
    BY <1>3 DEF Mark
  <2>2. frames' = [frames EXCEPT ![g].marks = marks, ![g].turns = turns, ![g].pc = to]
    <3>1. FrameFields(t)
      BY DEF IdentityInvariant, TreeSound
    <3>2. DOMAIN frames' = DOMAIN frames
      BY <2>1
    <3>3. frames'[g] = [t EXCEPT !.marks = marks, !.turns = turns, !.pc = to]
      <4> DEFINE a == [t EXCEPT !.marks = marks]
                 b == [a EXCEPT !.turns = Merge(Bumped(@, Instr(g).loop), [l \in Instr(g).inner |-> 0])]
      <4>1. frames'[g] = [b EXCEPT !.pc = @ + 1]
        BY <2>1
      <4>2. a.turns = t.turns
        <5> HIDE DEF t, marks
        <5>1. QED
          BY <3>1 DEF FrameFields
      <4>3. b = [a EXCEPT !.turns = turns]
        BY <4>2
      <4>4. b.pc = t.pc
        <5> HIDE DEF t, marks, turns
        <5>1. QED
          BY <3>1, <4>3 DEF FrameFields
      <4>5. frames'[g] = [b EXCEPT !.pc = to]
        BY <4>1, <4>4
      <4> HIDE DEF t, marks, turns, to
      <4>6. QED
        BY <4>3, <4>5
    <3>4. QED
      BY <2>1, <3>2, <3>3
  <2> HIDE DEF marks, turns
  <2>3. to \in 1..(Len(Code[frames[g].code]) + 1)
    BY <1>2
  <2> HIDE DEF to
  <2>4. QED
    BY <1>1, <2>2, <2>3, GoesOn
<1>4. CASE Jump(g)
  <2> DEFINE i == Instr(g)
             more == Counter(t.turns, i.loop) < i.bound
             taken == \/ i.when = "ok" /\ t.ok
                      \/ i.when = "more" /\ more
                      \/ i.when = "retry" /\ more /\ ~ t.ok
             to == IF taken THEN i.to ELSE t.pc + 1
  <2>1. frames' = [frames EXCEPT ![g].pc = IF taken THEN i.to ELSE @ + 1]
    BY <1>4 DEF Jump
  <2>2. i.op = "jump"
    BY <1>4 DEF Jump, At
  <2>3. i.to \in 1..(Len(Code[frames[g].code]) + 1)
    BY <1>2, <2>2 DEF IsInstruction
  <2> HIDE DEF taken, i
  <2>4. to \in 1..(Len(Code[frames[g].code]) + 1)
    BY <1>2, <2>3
  <2>5. frames' = [frames EXCEPT ![g].pc = to]
    BY <2>1
  <2> DEFINE marks == t.marks
             turns == t.turns
  <2>6. frames' = [frames EXCEPT ![g].marks = marks, ![g].turns = turns, ![g].pc = to]
    <3>1. FrameFields(t)
      BY DEF IdentityInvariant, TreeSound
    <3>2. [t EXCEPT !.pc = to] = [t EXCEPT !.marks = marks, !.turns = turns, !.pc = to]
      <4> HIDE DEF t, to
      <4>1. QED
        BY <3>1 DEF FrameFields
    <3>3. QED
      BY <2>5, <3>2
  <2> HIDE DEF to, marks, turns
  <2>7. QED
    BY <1>1, <2>4, <2>6, GoesOn
<1>5. QED
  BY <1>3, <1>4

\* Calls that the host has not seen yet have paths of their own.
LEMMA PostedPathsDiffer ==
  ASSUME IdentityInvariant, NEW v \in DOMAIN open, NEW w \in DOMAIN open,
         open[v].path = open[w].path
  PROVE  v = w
<1> DEFINE f == Front(v)
           h == Front(w)
<1>1. f \in DOMAIN frames /\ frames[f].waits = {v} /\ h \in DOMAIN frames /\ frames[h].waits = {w}
  BY DEF IdentityInvariant, CallsAccepted, IdentityTypeOK
<1>2. /\ \E e : open[v].path = Append(frames[f].path, e)
      /\ \E e : open[w].path = Append(frames[h].path, e)
  BY DEF IdentityInvariant, CallsSound
<1>3. IsSeq(frames[f].path) /\ IsSeq(frames[h].path) /\ (frames[f].path = frames[h].path => f = h)
  BY <1>1, OldPaths DEF IdentityInvariant, PathsSound
<1> HIDE DEF f, h
<1>4. Front(open[v].path) = frames[f].path /\ Front(open[w].path) = frames[h].path
  <2>1. \A p, e : IsSeq(p) => Front(Append(p, e)) = p
    BY AppendFacts
  <2>2. QED
    BY <1>2, <1>3, <2>1
<1>5. f = h
  BY <1>3, <1>4
<1>6. QED
  BY <1>1, <1>5

\* The host accepts a call: it has not seen its path.
LEMMA PrepareKeeps ==
  ASSUME IdentityInvariant, NEW w \in DOMAIN open, PrepareAgent(w)
  PROVE  IdentityInvariant'
<1> DEFINE c == open[w]
<1>1. c.status = "posted" /\ UNCHANGED <<gen, frames, nestings, nested>>
  BY DEF PrepareAgent
<1>2. c.path \notin seen
  BY <1>1 DEF IdentityInvariant, CallsSound
<1>3. /\ seen' = seen \cup {c.path} /\ refused' = refused
      /\ \/ \E r : open' = [open EXCEPT ![w].status = "replayed", ![w].whose = r]
         \/ \E d : open' = [open EXCEPT ![w].status = "live", ![w].identity = d]
  BY <1>2 DEF PrepareAgent
<1>4. \A v \in DOMAIN open : CallFields(open[v]) /\ open[v].status \in {"posted", "live", "replayed"}
  BY DEF IdentityInvariant, CallsAccepted, IdentityTypeOK, TreeSound
<1>5. /\ DOMAIN open' = DOMAIN open /\ \A v \in DOMAIN open \ {w} : open'[v] = open[v]
      /\ CallFields(open'[w]) /\ open'[w].path = c.path /\ open'[w].status \in {"live", "replayed"}
  <2>1. CallFields(c)
    BY <1>4
  <2>2. ASSUME NEW r, open' = [open EXCEPT ![w].status = "replayed", ![w].whose = r]
        PROVE  /\ DOMAIN open' = DOMAIN open /\ \A v \in DOMAIN open \ {w} : open'[v] = open[v]
               /\ CallFields(open'[w]) /\ open'[w].path = c.path /\ open'[w].status = "replayed"
    <3>1. /\ DOMAIN open' = DOMAIN open /\ \A v \in DOMAIN open \ {w} : open'[v] = open[v]
          /\ open'[w] = [c EXCEPT !.status = "replayed", !.whose = r]
      BY <2>2
    <3> HIDE DEF c
    <3>2. QED
      BY <2>1, <3>1 DEF CallFields
  <2>3. ASSUME NEW d, open' = [open EXCEPT ![w].status = "live", ![w].identity = d]
        PROVE  /\ DOMAIN open' = DOMAIN open /\ \A v \in DOMAIN open \ {w} : open'[v] = open[v]
               /\ CallFields(open'[w]) /\ open'[w].path = c.path /\ open'[w].status = "live"
    <3>1. /\ DOMAIN open' = DOMAIN open /\ \A v \in DOMAIN open \ {w} : open'[v] = open[v]
          /\ open'[w] = [c EXCEPT !.status = "live", !.identity = d]
      BY <2>3
    <3> HIDE DEF c
    <3>2. QED
      BY <2>1, <3>1 DEF CallFields
  <2> HIDE DEF c
  <2>4. QED
    BY <1>3, <2>2, <2>3
<1>6. \A v \in DOMAIN open \ {w} : open[v].status = "posted" => open[v].path \notin seen \cup {c.path}
  <2>1. \A v \in DOMAIN open : open[v].status = "posted" => open[v].path \notin seen
    BY DEF IdentityInvariant, CallsSound
  <2>2. \A v \in DOMAIN open \ {w} : open[v].path # c.path
    BY PostedPathsDiffer
  <2>3. QED
    BY <2>1, <2>2
<1>7. seen' \subseteq Paths
  BY <1>3 DEF Paths
<1>8. ASSUME NEW f \in DOMAIN frames
      PROVE  FrameFields(frames[f]) /\ frames[f].pc \in 1..(Len(Code[frames[f].code]) + 1)
  BY DEF IdentityInvariant, CallsAccepted, IdentityTypeOK, TreeSound
<1> HIDE DEF c
<1>9. ASSUME NEW v \in DOMAIN open'
      PROVE  /\ CallFields(open'[v]) /\ open'[v].path = open[v].path
             /\ open'[v].status \in {"posted", "live", "replayed"}
             /\ open'[v].status = "posted" => open[v].path \notin seen'
  <2>1. CASE v = w
    BY <1>5, <2>1 DEF c
  <2>2. CASE v # w
    BY <1>3, <1>4, <1>5, <1>6, <2>2
  <2>3. QED
    BY <2>1, <2>2
<1>10. Stays({})
  BY <1>1, <1>3, <1>5, <1>7, <1>8, <1>9 DEF Stays
<1>11. QED
  BY <1>10, StayKeeps

\* An answer lets the scope go on.
LEMMA AnswerKeeps ==
  ASSUME IdentityInvariant, NEW w \in DOMAIN open, AnswerAgent(w)
  PROVE  IdentityInvariant'
<1> DEFINE g == Front(w)
           t == frames[g]
<1>1. /\ g \in DOMAIN frames /\ t.waits = {w} /\ IdentityTypeOK /\ TreeSound /\ CallsSound
  BY DEF IdentityInvariant, CallsAccepted, IdentityTypeOK
<1>2. PICK ok \in BOOLEAN : frames' = [frames EXCEPT ![g].ok = ok, ![g].waits = {}, ![g].pc = @ + 1]
  BY DEF AnswerAgent
<1>3. /\ open' = [v \in DOMAIN open \ {w} |-> open[v]]
      /\ UNCHANGED <<gen, seen, nestings, nested, refused>>
  BY DEF AnswerAgent
<1>4. \A x \in DOMAIN frames : FrameFields(frames[x]) /\ ScopeSound(x)
  BY <1>1, ScopesSound DEF TreeSound
<1>5. t.pc + 1 \in 1..(Len(Code[t.code]) + 1)
  <2>1. ~ AtEnd(g)
    BY <1>1, <1>4 DEF ScopeSound
  <2>2. QED
    BY <1>1, <1>4, <2>1, InstructionIsSound
<1>6. /\ w # Root /\ w \notin DOMAIN frames
      /\ \A x \in DOMAIN frames \ {g} : w \notin frames[x].waits
  BY <1>1 DEF TreeSound
<1>7. DOMAIN frames' = DOMAIN frames /\ \A x \in DOMAIN frames \ {g} : frames'[x] = frames[x]
  BY <1>2
<1>8. /\ FrameFields(frames'[g]) /\ frames'[g].path = t.path /\ frames'[g].counters = t.counters
      /\ frames'[g].code = t.code /\ frames'[g].holder = t.holder /\ frames'[g].waits = {}
      /\ frames'[g].pc = t.pc + 1
  <2> DEFINE a == [t EXCEPT !.ok = ok, !.waits = {}]
             to == t.pc + 1
  <2>1. FrameFields(t)
    BY <1>1, <1>4
  <2>2. frames'[g] = [a EXCEPT !.pc = @ + 1]
    BY <1>1, <1>2
  <2>3. a.pc = t.pc
    <3> HIDE DEF t
    <3>1. QED
      BY <2>1 DEF FrameFields
  <2>4. frames'[g] = [a EXCEPT !.pc = to]
    BY <2>2, <2>3
  <2> HIDE DEF t, to
  <2>5. QED
    BY <2>1, <2>4 DEF FrameFields, to
<1>9. DOMAIN open' = DOMAIN open \ {w} /\ \A v \in DOMAIN open' : open'[v] = open[v]
  BY <1>3
<1>10. \A v \in DOMAIN open :
         /\ CallFields(open[v]) /\ open[v].status \in {"posted", "live", "replayed"}
         /\ open[v].status = "posted" => open[v].path \notin seen
  BY <1>1 DEF IdentityTypeOK, TreeSound, CallsSound
<1>11. seen \subseteq Paths
  BY DEF Paths
<1> HIDE DEF g
<1>12. ASSUME NEW x \in DOMAIN frames'
       PROVE  /\ FrameFields(frames'[x])
              /\ frames'[x].path = frames[x].path /\ frames'[x].counters = frames[x].counters
              /\ frames'[x].code = frames[x].code /\ frames'[x].holder = frames[x].holder
              /\ frames'[x].pc \in 1..(Len(Code[frames[x].code]) + 1)
              /\ frames'[x].waits = frames[x].waits \ {w}
              /\ frames'[x].waits # {} =>
                   /\ frames'[x].pc = frames[x].pc
                   /\ frames'[x].marks = frames[x].marks /\ frames'[x].turns = frames[x].turns
  <2>1. CASE x = g
    BY <1>1, <1>5, <1>8, <2>1
  <2>2. CASE x # g
    <3>1. x \in DOMAIN frames /\ frames'[x] = frames[x] /\ w \notin frames[x].waits
      BY <1>6, <1>7, <2>2
    <3>2. FrameFields(frames[x]) /\ frames[x].pc \in 1..(Len(Code[frames[x].code]) + 1)
      BY <1>4, <3>1 DEF ScopeSound
    <3>3. QED
      BY <3>1, <3>2
  <2>3. QED
    BY <2>1, <2>2
<1>13. ASSUME NEW v \in DOMAIN open'
       PROVE  /\ CallFields(open'[v]) /\ open'[v].path = open[v].path
              /\ open'[v].status \in {"posted", "live", "replayed"}
              /\ open'[v].status = "posted" => open[v].path \notin seen'
  BY <1>3, <1>9, <1>10
<1>14. Stays({w})
  BY <1>3, <1>6, <1>7, <1>9, <1>11, <1>12, <1>13 DEF Stays
<1>15. QED
  BY <1>14, StayKeeps

\* What a scope that ends leaves.
LEMMA EndingScope ==
  ASSUME IdentityTypeOK, TreeSound, NEW f \in DOMAIN frames, f # Root, frames[f].waits = {}
  PROVE  /\ Front(f) \in DOMAIN frames /\ Front(f) # f /\ f \in frames[Front(f)].waits
         /\ f \notin DOMAIN open
         /\ \A x \in DOMAIN frames \ {Front(f)} : f \notin frames[x].waits
         /\ \A x \in DOMAIN frames \ {f} : f \notin Prefixes(x)
<1>1. Front(f) \in DOMAIN frames /\ f \in frames[Front(f)].waits
  BY ParentIsThere
<1>2. /\ f \notin DOMAIN open
      /\ \A x \in DOMAIN frames \ {Front(f)} : f \notin frames[x].waits
      /\ \A k \in DOMAIN frames \ {Root} : k \in frames[Front(k)].waits
      /\ \A x \in DOMAIN frames : IsSeq(x) /\ Prefixes(x) \subseteq DOMAIN frames
  BY DEF TreeSound
<1>3. ASSUME NEW x \in DOMAIN frames \ {f}, f \in Prefixes(x) PROVE FALSE
  <2>1. PICK k \in Prefixes(x) : k # <<>> /\ Front(k) = f
    BY <1>2, <1>3, PrefixesFacts
  <2>2. k \in frames[f].waits
    BY <1>2, <2>1 DEF Root
  <2>3. QED
    BY <2>2
<1>4. QED
  BY <1>1, <1>2, <1>3

\* A body that ends lets its caller go on, after the last.
LEMMA EndKeeps ==
  ASSUME IdentityInvariant, NEW f \in DOMAIN frames, EndBody(f),
         ~ (Instr(Front(f)).op = "pipeline" /\ Last(f)[3][2] < Len(Instr(Front(f)).stages))
  PROVE  IdentityInvariant'
<1> DEFINE up == Front(f)
           rest == frames[up].waits \ {f}
           others == [k \in DOMAIN frames \ {f} |-> frames[k]]
           t == frames[up]
<1>1. /\ IdentityTypeOK /\ TreeSound /\ CallsSound /\ f # Root /\ frames[f].waits = {}
      /\ UNCHANGED <<gen, open, seen, nestings, nested, refused>>
  BY DEF IdentityInvariant, CallsAccepted, EndBody, local
<1>2. frames' = [others EXCEPT ![up].waits = rest, ![up].pc = IF rest = {} THEN @ + 1 ELSE @]
  BY DEF EndBody
<1>3. /\ up \in DOMAIN frames /\ up # f /\ f \in frames[up].waits /\ f \notin DOMAIN open
      /\ \A x \in DOMAIN frames \ {up} : f \notin frames[x].waits
  BY <1>1, EndingScope
<1>4. \A x \in DOMAIN frames : FrameFields(frames[x]) /\ ScopeSound(x)
  BY <1>1, ScopesSound DEF TreeSound
<1>5. t.pc + 1 \in 1..(Len(Code[t.code]) + 1)
  <2>1. ~ AtEnd(up)
    BY <1>3, <1>4 DEF ScopeSound
  <2>2. QED
    BY <1>3, <1>4, <2>1, InstructionIsSound
<1>6. DOMAIN others = DOMAIN frames \ {f} /\ \A x \in DOMAIN others : others[x] = frames[x]
  OBVIOUS
<1>7. DOMAIN frames' = DOMAIN frames \ {f} /\ \A x \in DOMAIN frames \ {f, up} : frames'[x] = frames[x]
  <2> HIDE DEF others, rest, up
  <2>1. QED
    BY <1>2, <1>6
<1>8. /\ FrameFields(frames'[up]) /\ frames'[up].path = t.path /\ frames'[up].counters = t.counters
      /\ frames'[up].code = t.code /\ frames'[up].holder = t.holder /\ frames'[up].waits = rest
      /\ frames'[up].marks = t.marks /\ frames'[up].turns = t.turns
      /\ frames'[up].pc = IF rest = {} THEN t.pc + 1 ELSE t.pc
  <2> DEFINE a == [t EXCEPT !.waits = rest]
             to == IF rest = {} THEN t.pc + 1 ELSE t.pc
  <2>1. FrameFields(t)
    BY <1>3, <1>4
  <2>2. frames'[up] = [a EXCEPT !.pc = IF rest = {} THEN @ + 1 ELSE @]
    <3>1. up \in DOMAIN others /\ others[up] = t
      BY <1>3, <1>6
    <3> HIDE DEF others, rest, up, t
    <3>2. QED
      BY <1>2, <3>1
  <2>3. a.pc = t.pc
    <3> HIDE DEF t, rest
    <3>1. QED
      BY <2>1 DEF FrameFields
  <2>4. frames'[up] = [a EXCEPT !.pc = to]
    BY <2>2, <2>3
  <2> HIDE DEF t, to, rest
  <2>5. QED
    BY <2>1, <2>4 DEF FrameFields, to
<1>9. \A v \in DOMAIN open :
        /\ CallFields(open[v]) /\ open[v].status \in {"posted", "live", "replayed"}
        /\ open[v].status = "posted" => open[v].path \notin seen
  BY <1>1 DEF IdentityTypeOK, TreeSound, CallsSound
<1>10. seen \subseteq Paths
  BY DEF Paths
<1> HIDE DEF up
<1>11. ASSUME NEW x \in DOMAIN frames'
       PROVE  /\ FrameFields(frames'[x])
              /\ frames'[x].path = frames[x].path /\ frames'[x].counters = frames[x].counters
              /\ frames'[x].code = frames[x].code /\ frames'[x].holder = frames[x].holder
              /\ frames'[x].pc \in 1..(Len(Code[frames[x].code]) + 1)
              /\ frames'[x].waits = frames[x].waits \ {f}
              /\ frames'[x].waits # {} =>
                   /\ frames'[x].pc = frames[x].pc
                   /\ frames'[x].marks = frames[x].marks /\ frames'[x].turns = frames[x].turns
  <2>1. CASE x = up
    <3>1. t.pc \in 1..(Len(Code[t.code]) + 1)
      BY <1>3, <1>4 DEF ScopeSound
    <3>2. QED
      BY <1>5, <1>8, <2>1, <3>1
  <2>2. CASE x # up
    <3>1. x \in DOMAIN frames /\ frames'[x] = frames[x] /\ f \notin frames[x].waits
      BY <1>3, <1>7, <2>2
    <3>2. FrameFields(frames[x]) /\ frames[x].pc \in 1..(Len(Code[frames[x].code]) + 1)
      BY <1>4, <3>1 DEF ScopeSound
    <3>3. QED
      BY <3>1, <3>2
  <2>3. QED
    BY <2>1, <2>2
<1>12. ASSUME NEW v \in DOMAIN open'
       PROVE  /\ CallFields(open'[v]) /\ open'[v].path = open[v].path
              /\ open'[v].status \in {"posted", "live", "replayed"}
              /\ open'[v].status = "posted" => open[v].path \notin seen'
  BY <1>1, <1>9
<1>13. DOMAIN open' = DOMAIN open \ {f}
  BY <1>1, <1>3
<1>14. Stays({f})
  BY <1>1, <1>7, <1>10, <1>11, <1>12, <1>13 DEF Stays
<1>15. QED
  BY <1>14, StayKeeps

----------------------------------------------------------------------------
(***************************************************************************)
(* An item of a pipeline goes on to its next stage.                        *)
(***************************************************************************)
\* What begins a path begins a longer one.
LEMMA BeginsLonger ==
  ASSUME NEW p, IsSeq(p), NEW q, IsSeq(q), Begins(p, q), NEW e
  PROVE  Begins(p, Append(q, e)) /\ Following(p, Append(q, e)) = Following(p, q)
<1> DEFINE a == Append(q, e)
           n == Len(p)
           m == Len(q)
<1>1. n < m /\ n \in Nat /\ m \in Nat /\ \A j \in 1..n : q[j] = p[j]
  BY DEF Begins, IsSeq
<1>2. Len(a) = m + 1 /\ \A j \in 1..m : a[j] = q[j]
  BY AppendFacts
<1> HIDE DEF a, n, m
<1>3. (\A j \in 1..n : j \in 1..m) /\ n + 1 \in 1..m /\ n < m + 1
  BY <1>1
<1>4. n < Len(a) /\ (\A j \in 1..n : a[j] = p[j]) /\ a[n + 1] = q[n + 1]
  BY <1>1, <1>2, <1>3
<1>5. QED
  BY <1>4 DEF Begins, Following, a, n

\* The path of an item's next stage is new, and is counted as that of its stage is.
LEMMA NextStageIsNew ==
  ASSUME IdentityInvariant, NEW f \in DOMAIN frames \ {Root},
         NEW up, up = Front(f), Instr(up).op = "pipeline",
         NEW i, i = Last(f)[3][1], NEW s, s = Last(f)[3][2],
         NEW C, C = Around(up), NEW q, q = PathInStage(C, i, s + 1)
  PROVE  /\ IsPath(q) /\ q # <<>> /\ Last(q).nth # 0
         /\ \A r \in Paths : r # q /\ ~ Begins(q, r)
         /\ Position(up, <<i, s + 1>>) \notin DOMAIN frames
         /\ \A x \in DOMAIN frames : Begins(frames[x].path, q) =>
              IsCounted(Following(frames[x].path, q), frames[x].counters)
         /\ RequestsCounted(q, nestings)
<1> DEFINE seg == Segment(<<"stage", s>>, i)
           new == Segment(<<"stage", s + 1>>, i)
<1>1. /\ IdentityTypeOK /\ TreeSound /\ PathsSound /\ ScopesCount /\ HostCounts /\ StagesInOrder
  BY DEF IdentityInvariant, CallsAccepted
<1>2. /\ up \in DOMAIN frames /\ i \in Nat \ {0} /\ s \in Nat /\ f = Position(up, <<i, s>>)
      /\ IsPath(C) /\ C # <<>> /\ Last(C).nth # 0 /\ Front(C) = frames[up].path
      /\ frames[f].path = Append(C, seg) /\ Begins(C, frames[f].path)
      /\ \A x \in DOMAIN frames : frames[x].path # C
  BY <1>1, AroundAStage
<1>3. StageSound(f, up, i, s)
  BY <1>1 DEF StagesInOrder
<1>4. IsSeq(C) /\ q = Append(C, new)
  BY <1>2 DEF IsPath, PathInStage
<1>5. new.nth = i /\ new.through = <<"stage", s + 1>>
  BY DEF Segment
<1>6. IsPath(q) /\ q # <<>> /\ Last(q).nth # 0 /\ IsSeq(q)
  <2>1. i \in Nat
    BY <1>2
  <2>2. IsPath(q)
    BY <1>2, <1>4, <2>1, LongerPath
  <2> HIDE DEF new
  <2>3. Last(q) = new /\ q # <<>>
    <3>1. IsSeq(C)
      BY <1>4
    <3>2. Last(Append(C, new)) = new /\ Append(C, new) # <<>>
      BY <3>1, AppendFacts
    <3>3. QED
      BY <1>4, <3>2
  <2>4. QED
    BY <1>2, <1>5, <2>2, <2>3 DEF IsPath
<1> HIDE DEF new
<1>7. ASSUME NEW r \in Paths, Begins(C, r), Following(C, r) = new PROVE FALSE
  <2>1. InOrder(new, i, s)
    BY <1>2, <1>3, <1>7 DEF StageSound
  <2>2. s + 1 \in 1..s
    BY <1>5, <2>1 DEF InOrder
  <2>3. QED
    BY <1>2, <2>2
<1>8. \A r \in Paths : r # q /\ ~ Begins(q, r)
  <2>1. ASSUME NEW r \in Paths, r = q PROVE FALSE
    BY <1>4, <1>7, <2>1, BeginsFacts
  <2>2. ASSUME NEW r \in Paths, Begins(Append(C, new), r) PROVE FALSE
    <3>1. IsSeq(r)
      BY <1>1, OldPaths
    <3>2. QED
      BY <1>4, <1>7, <2>2, <3>1, BeginsFacts
  <2>3. QED
    BY <1>4, <2>1, <2>2
<1>9. Position(up, <<i, s + 1>>) \notin DOMAIN frames
  <2> DEFINE k == Position(up, <<i, s + 1>>)
  <2>1. SUFFICES ASSUME k \in DOMAIN frames PROVE FALSE
    OBVIOUS
  <2> DEFINE top == <<frames[up].pc, Iteration(up), <<i, s + 1>>>>
  <2>2. k = Append(up, top) /\ IsSeq(up)
    BY <1>1, <1>2 DEF Position, TreeSound
  <2>3. top[3][1] = i /\ top[3][2] = s + 1
    OBVIOUS
  <2> HIDE DEF k, top
  <2>7. Front(k) = up /\ Last(k) = top /\ k # Root
    BY <2>2, AppendFacts DEF Root
  <2>4. StageSound(k, up, i, s + 1)
    BY <1>1, <2>1, <2>3, <2>7 DEF StagesInOrder
  <2>5. frames[k].path = q
    BY <2>4 DEF StageSound
  <2>6. QED
    BY <1>1, <1>8, <2>1, <2>5, OldPaths
<1>10. ASSUME NEW x \in DOMAIN frames, Begins(frames[x].path, q)
       PROVE  IsCounted(Following(frames[x].path, q), frames[x].counters)
  <2> DEFINE p == frames[x].path
  <2>1. IsSeq(p) /\ p # C /\ frames[f].path \in Paths
    BY <1>1, <1>2, OldPaths
  <2> HIDE DEF p
  <2>2. Begins(p, Append(C, new))
    BY <1>4, <1>10 DEF p
  <2>3. Begins(p, C) /\ Following(p, Append(C, new)) = Following(p, C)
    BY <1>4, <2>1, <2>2, BeginsFacts
  <2>4. Begins(p, Append(C, seg)) /\ Following(p, Append(C, seg)) = Following(p, C)
    BY <1>4, <2>1, <2>3, BeginsLonger
  <2>5. IsCounted(Following(p, frames[f].path), frames[x].counters)
    BY <1>1, <1>2, <2>1, <2>4 DEF ScopesCount, p
  <2>6. QED
    BY <1>2, <1>4, <2>3, <2>4, <2>5 DEF p
<1>11. RequestsCounted(q, nestings)
  <2>1. frames[up].path \in Paths /\ IsSeq(frames[up].path)
    BY <1>1, <1>2, OldPaths
  <2>2. RequestsCounted(frames[up].path, nestings)
    BY <1>1, <2>1 DEF HostCounts
  <2>3. frames[up].path = <<>> \/ Last(frames[up].path).nth # 0
    BY <1>1, <1>2 DEF PathsSound
  <2>4. \E e : C = Append(frames[up].path, e)
    BY DEF Around
  <2>5. RequestsCounted(C, nestings)
    BY <2>1, <2>2, <2>3, <2>4, LongerRequests
  <2>6. QED
    BY <1>2, <1>4, <2>5, LongerRequests
<1>12. QED
  BY <1>6, <1>8, <1>9, <1>10, <1>11

\* The scope f is over, and "next" is that of its item's next stage, with the path q.
NextStage(f, up, i, s, next, q) ==
  /\ f # Root /\ frames[f].waits = {} /\ up = Front(f) /\ Instr(up).op = "pipeline"
  /\ i = Last(f)[3][1] /\ s = Last(f)[3][2] /\ s < Len(Instr(up).stages)
  /\ next = Position(up, <<i, s + 1>>) /\ q = PathInStage(Around(up), i, s + 1)
  /\ UNCHANGED <<gen, open, seen, nestings, nested, refused>>
  /\ DOMAIN frames' = (DOMAIN frames \ {f}) \cup {next}
  /\ \A x \in DOMAIN frames \ {f, up} : frames'[x] = frames[x]
  /\ /\ FrameFields(frames'[up])
     /\ frames'[up].path = frames[up].path /\ frames'[up].counters = frames[up].counters
     /\ frames'[up].code = frames[up].code /\ frames'[up].pc = frames[up].pc
     /\ frames'[up].marks = frames[up].marks /\ frames'[up].turns = frames[up].turns
     /\ frames'[up].holder = frames[up].holder
     /\ frames'[up].waits = (frames[up].waits \ {f}) \cup {next}
  /\ /\ FrameFields(frames'[next]) /\ frames'[next].path = q
     /\ frames'[next].code \in DOMAIN Code /\ frames'[next].pc = 1
     /\ frames'[next].counters = <<>> /\ frames'[next].waits = {} /\ frames'[next].holder = next

\* Where it is, and what it leaves as it was.
LEMMA NextStageFacts ==
  ASSUME IdentityInvariant, NEW f \in DOMAIN frames, NEW up, NEW i, NEW s, NEW next, NEW q,
         NextStage(f, up, i, s, next, q)
  PROVE  /\ up \in DOMAIN frames /\ up # f /\ f \in frames[up].waits
         /\ next \notin DOMAIN frames /\ next \notin DOMAIN open /\ next # Root
         /\ \E c : next = Append(up, c) /\ c[3] = <<i, s + 1>>
         /\ Front(next) = up /\ Last(next)[3] = <<i, s + 1>>
         /\ \A x \in DOMAIN frames \ {f} :
              /\ x \in DOMAIN frames' /\ x # next
              /\ FrameFields(frames'[x])
              /\ frames'[x].path = frames[x].path /\ frames'[x].counters = frames[x].counters
              /\ frames'[x].code = frames[x].code /\ frames'[x].pc = frames[x].pc
              /\ frames'[x].marks = frames[x].marks /\ frames'[x].turns = frames[x].turns
              /\ frames'[x].holder = frames[x].holder
         /\ Paths' \subseteq Paths \cup {q}
<1>1. IdentityTypeOK /\ TreeSound
  BY DEF IdentityInvariant, CallsAccepted
<1>2. /\ f # Root /\ frames[f].waits = {} /\ up = Front(f) /\ Instr(up).op = "pipeline"
      /\ i = Last(f)[3][1] /\ s = Last(f)[3][2] /\ next = Position(up, <<i, s + 1>>)
      /\ q = PathInStage(Around(up), i, s + 1)
  BY DEF NextStage
<1>3. up \in DOMAIN frames /\ up # f /\ f \in frames[up].waits
  BY <1>1, <1>2, EndingScope
<1>4. next \notin DOMAIN frames
  BY <1>2, NextStageIsNew
<1> DEFINE top == <<frames[up].pc, Iteration(up), <<i, s + 1>>>>
<1>5. top[3] = <<i, s + 1>> /\ next = Append(up, top) /\ IsSeq(up)
  BY <1>1, <1>2, <1>3 DEF Position, TreeSound
<1> HIDE DEF top
<1>6. Front(next) = up /\ Last(next) = top /\ next # Root
  BY <1>5, AppendFacts DEF Root
<1>7. next \notin DOMAIN open
  <2>1. ASSUME next \in DOMAIN open PROVE FALSE
    <3>1. frames[up].waits = {next}
      BY <1>1, <1>6, <2>1 DEF IdentityTypeOK
    <3>2. f = next
      BY <1>3, <3>1
    <3>3. QED
      BY <1>4, <3>2
  <2>2. QED
    BY <2>1
<1>8. ASSUME NEW x \in DOMAIN frames \ {f}
      PROVE  /\ x \in DOMAIN frames' /\ x # next
             /\ FrameFields(frames'[x])
             /\ frames'[x].path = frames[x].path /\ frames'[x].counters = frames[x].counters
             /\ frames'[x].code = frames[x].code /\ frames'[x].pc = frames[x].pc
             /\ frames'[x].marks = frames[x].marks /\ frames'[x].turns = frames[x].turns
             /\ frames'[x].holder = frames[x].holder
  <2>1. x \in DOMAIN frames' /\ x # next
    BY <1>4 DEF NextStage
  <2>2. CASE x = up
    BY <2>1, <2>2 DEF NextStage
  <2>3. CASE x # up
    <3>1. frames'[x] = frames[x]
      BY <2>3 DEF NextStage
    <3>2. FrameFields(frames[x])
      BY <1>1 DEF TreeSound
    <3>3. QED
      BY <2>1, <3>1, <3>2
  <2>4. QED
    BY <2>2, <2>3
<1>9. Paths' \subseteq Paths \cup {q}
  <2>1. \A x \in DOMAIN frames' : frames'[x].path = q \/ (x \in DOMAIN frames /\ frames'[x].path = frames[x].path)
    <3>1. DOMAIN frames' = (DOMAIN frames \ {f}) \cup {next} /\ frames'[next].path = q
      BY DEF NextStage
    <3>2. QED
      BY <1>8, <3>1
  <2>2. seen' = seen /\ open' = open
    BY DEF NextStage
  <2>3. QED
    BY <2>1, <2>2 DEF Paths
<1>10. QED
  BY <1>3, <1>4, <1>5, <1>6, <1>7, <1>8, <1>9

\* The paths stay sound and counted.
LEMMA NextStagePaths ==
  ASSUME IdentityInvariant, NEW f \in DOMAIN frames, NEW up, NEW i, NEW s, NEW next, NEW q,
         NextStage(f, up, i, s, next, q)
  PROVE  PathsSound' /\ ScopesCount' /\ HostCounts'
<1>1. /\ IdentityTypeOK /\ TreeSound /\ PathsSound /\ ScopesCount /\ HostCounts
  BY DEF IdentityInvariant, CallsAccepted
<1>2. /\ next # Root
      /\ \A x \in DOMAIN frames \ {f} :
           frames'[x].path = frames[x].path /\ frames'[x].counters = frames[x].counters
      /\ Paths' \subseteq Paths \cup {q}
  BY NextStageFacts
<1>3. /\ IsPath(q) /\ q # <<>> /\ Last(q).nth # 0
      /\ \A r \in Paths : r # q /\ ~ Begins(q, r)
      /\ \A x \in DOMAIN frames : Begins(frames[x].path, q) =>
           IsCounted(Following(frames[x].path, q), frames[x].counters)
      /\ RequestsCounted(q, nestings)
  <2>1. /\ f \in DOMAIN frames \ {Root} /\ up = Front(f) /\ Instr(up).op = "pipeline"
        /\ i = Last(f)[3][1] /\ s = Last(f)[3][2] /\ q = PathInStage(Around(up), i, s + 1)
    BY DEF NextStage
  <2>2. QED
    BY <2>1, NextStageIsNew
<1>4. /\ f # Root /\ DOMAIN frames' = (DOMAIN frames \ {f}) \cup {next} /\ nestings' = nestings
      /\ frames'[next].path = q /\ frames'[next].counters = <<>>
  BY DEF NextStage
<1>5. Root \in DOMAIN frames /\ \A x \in DOMAIN frames : frames[x].path \in Paths
  BY <1>1, OldPaths DEF TreeSound
<1>6. PathsSound'
  <2>1. \A r \in Paths' : IsPath(r)
    BY <1>1, <1>2, <1>3 DEF PathsSound
  <2>2. frames'[Root].path = <<>>
    BY <1>1, <1>2, <1>4, <1>5 DEF PathsSound
  <2>3. ASSUME NEW x \in DOMAIN frames' \ {Root} PROVE frames'[x].path # <<>> /\ Last(frames'[x].path).nth # 0
    BY <1>1, <1>2, <1>3, <1>4, <2>3 DEF PathsSound
  <2>4. ASSUME NEW x \in DOMAIN frames', NEW y \in DOMAIN frames', frames'[x].path = frames'[y].path
        PROVE  x = y
    <3>1. CASE x # next /\ y # next
      BY <1>1, <1>2, <1>4, <2>4, <3>1 DEF PathsSound
    <3>2. CASE x = next /\ y # next
      BY <1>2, <1>3, <1>4, <1>5, <2>4, <3>2
    <3>3. CASE x # next /\ y = next
      BY <1>2, <1>3, <1>4, <1>5, <2>4, <3>3
    <3>4. QED
      BY <3>1, <3>2, <3>3
  <2>5. QED
    BY <2>1, <2>2, <2>3, <2>4 DEF PathsSound, Root
<1>7. ScopesCount'
  <2>1. SUFFICES ASSUME NEW x \in DOMAIN frames'
                 PROVE  /\ \A key \in DOMAIN frames'[x].counters :
                             frames'[x].counters[key] \in Nat /\ key[1] # "stage"
                        /\ \A r \in Paths' : Begins(frames'[x].path, r) =>
                             IsCounted(Following(frames'[x].path, r), frames'[x].counters)
    BY DEF ScopesCount
  <2>2. CASE x = next
    <3>1. ~ Begins(q, q)
      BY <1>3 DEF Begins, IsPath, IsSeq
    <3>2. \A r \in Paths' : ~ Begins(q, r)
      BY <1>2, <1>3, <3>1
    <3>3. QED
      BY <1>4, <2>2, <3>2
  <2>3. CASE x # next
    <3>1. x \in DOMAIN frames \ {f}
      BY <1>4, <2>3
    <3>2. frames'[x].path = frames[x].path /\ frames'[x].counters = frames[x].counters
      BY <1>2, <3>1
    <3>3. /\ \A key \in DOMAIN frames[x].counters : frames[x].counters[key] \in Nat /\ key[1] # "stage"
          /\ \A r \in Paths : Begins(frames[x].path, r) =>
               IsCounted(Following(frames[x].path, r), frames[x].counters)
      BY <1>1, <3>1 DEF ScopesCount
    <3>4. QED
      BY <1>2, <1>3, <3>1, <3>2, <3>3
  <2>4. QED
    BY <2>2, <2>3
<1>8. HostCounts'
  BY <1>1, <1>2, <1>3, <1>4 DEF HostCounts
<1>9. QED
  BY <1>6, <1>7, <1>8

\* An item is in one stage of a pipeline.
LEMMA OneStage ==
  ASSUME IdentityInvariant, NEW f \in DOMAIN frames \ {Root}, NEW h \in DOMAIN frames \ {Root},
         NEW up, up = Front(f), up = Front(h), Instr(up).op = "pipeline",
         Last(f)[3][1] = Last(h)[3][1]
  PROVE  f = h
<1> DEFINE C == Around(up)
           i == Last(f)[3][1]
           s == Last(f)[3][2]
           u == Last(h)[3][2]
           mine == Segment(<<"stage", s>>, i)
           other == Segment(<<"stage", u>>, i)
<1>1. IdentityTypeOK /\ TreeSound /\ PathsSound /\ ScopesCount /\ StagesInOrder
  BY DEF IdentityInvariant, CallsAccepted
<1>2. /\ f = Position(up, <<i, s>>) /\ s \in Nat /\ IsPath(C)
      /\ frames[f].path = Append(C, mine)
  BY <1>1, AroundAStage
<1>3. /\ h = Position(up, <<i, u>>) /\ u \in Nat /\ frames[h].path = Append(C, other)
  BY <1>1, AroundAStage
<1>4. IsSeq(C) /\ frames[f].path \in Paths /\ frames[h].path \in Paths
  BY <1>1, <1>2, OldPaths DEF IsPath
<1>5. StageSound(f, up, i, s) /\ StageSound(h, up, i, u)
  BY <1>1 DEF StagesInOrder
<1>6. mine.through = <<"stage", s>> /\ mine.nth = i /\ other.through = <<"stage", u>> /\ other.nth = i
  BY DEF Segment
<1>7. /\ Begins(C, Append(C, mine)) /\ Following(C, Append(C, mine)) = mine
      /\ Begins(C, Append(C, other)) /\ Following(C, Append(C, other)) = other
  BY <1>4, BeginsFacts
<1>8. InOrder(other, i, s) /\ InOrder(mine, i, u)
  BY <1>2, <1>3, <1>4, <1>5, <1>7 DEF StageSound
<1>9. u \in 1..s /\ s \in 1..u
  BY <1>6, <1>8 DEF InOrder
<1>10. s = u
  BY <1>2, <1>3, <1>9
<1>11. QED
  BY <1>2, <1>3, <1>10

\* Items go through their stages in order.
LEMMA NextStageInOrder ==
  ASSUME IdentityInvariant, NEW f \in DOMAIN frames, NEW up, NEW i, NEW s, NEW next, NEW q,
         NextStage(f, up, i, s, next, q)
  PROVE  StagesInOrder'
<1> DEFINE C == Around(up)
           new == Segment(<<"stage", s + 1>>, i)
<1>1. /\ IdentityTypeOK /\ TreeSound /\ PathsSound /\ ScopesCount /\ HostCounts /\ StagesInOrder
  BY DEF IdentityInvariant, CallsAccepted
<1>2. /\ f # Root /\ up = Front(f) /\ Instr(up).op = "pipeline"
      /\ i = Last(f)[3][1] /\ s = Last(f)[3][2] /\ s < Len(Instr(up).stages)
      /\ next = Position(up, <<i, s + 1>>) /\ q = PathInStage(C, i, s + 1)
      /\ DOMAIN frames' = (DOMAIN frames \ {f}) \cup {next} /\ frames'[next].path = q
  BY DEF NextStage
<1>3. /\ up \in DOMAIN frames \ {f} /\ Front(next) = up /\ Last(next)[3] = <<i, s + 1>>
      /\ Paths' \subseteq Paths \cup {q}
  BY NextStageFacts
<1>4. \A x \in DOMAIN frames \ {f} :
        /\ frames'[x].path = frames[x].path /\ frames'[x].counters = frames[x].counters
        /\ frames'[x].code = frames[x].code /\ frames'[x].pc = frames[x].pc
        /\ frames'[x].marks = frames[x].marks /\ frames'[x].turns = frames[x].turns
  BY NextStageFacts
<1>5. /\ i \in Nat \ {0} /\ s \in Nat /\ IsPath(C) /\ Front(C) = frames[up].path
      /\ frames[f].path = Append(C, Segment(<<"stage", s>>, i))
  BY <1>1, <1>2, AroundAStage
<1>6. StageSound(f, up, i, s)
  BY <1>1, <1>2 DEF StagesInOrder
<1>7. /\ new.nth = i /\ new.through = <<"stage", s + 1>> /\ q = Append(C, new) /\ IsSeq(C)
  BY <1>2, <1>5 DEF Segment, PathInStage, IsPath
<1>8. ASSUME NEW x \in DOMAIN frames \ {f}
      PROVE  /\ Instr(x)' = Instr(x) /\ Key(x)' = Key(x) /\ Around(x)' = Around(x)
             /\ \A c : Position(x, c)' = Position(x, c)
  <2>1. /\ frames'[x].path = frames[x].path /\ frames'[x].counters = frames[x].counters
        /\ frames'[x].code = frames[x].code /\ frames'[x].pc = frames[x].pc
        /\ frames'[x].marks = frames[x].marks /\ frames'[x].turns = frames[x].turns
    BY <1>4
  <2>2. Instr(x)' = Instr(x) /\ Key(x)' = Key(x) /\ \A c : Position(x, c)' = Position(x, c)
    BY <2>1, SameScope
  <2>3. Around(x)' = Around(x)
    BY <2>1, <2>2 DEF Around
  <2>4. QED
    BY <2>2, <2>3
<1> HIDE DEF C, new
<1>9. Begins(C, q) /\ Following(C, q) = new
  BY <1>7, BeginsFacts
<1>10. SUFFICES ASSUME NEW h \in DOMAIN frames', h # Root, NEW mine, mine = Front(h),
                       Instr(mine)'.op = "pipeline"
                PROVE  StageSound(h, mine, Last(h)[3][1], Last(h)[3][2])'
  BY DEF StagesInOrder, Root
<1>11. CASE h = next
  <2>1. mine = up /\ Last(h)[3][1] = i /\ Last(h)[3][2] = s + 1
    BY <1>3, <1>10, <1>11
  <2>2. Instr(up)' = Instr(up) /\ Key(up)' = Key(up) /\ Around(up)' = C
        /\ \A c : Position(up, c)' = Position(up, c)
    BY <1>3, <1>8 DEF C
  <2>3. \A r \in Paths' : Begins(C, r) => InOrder(Following(C, r), i, s + 1)
    <3>1. ASSUME NEW r \in Paths, Begins(C, r) PROVE InOrder(Following(C, r), i, s + 1)
      <4>1. InOrder(Following(C, r), i, s)
        BY <1>6, <3>1 DEF StageSound, C
      <4> DEFINE e == Following(C, r)
      <4>2. e.through[1] = "stage" /\ e.nth = i => e.through[2] \in 1..s
        BY <4>1 DEF InOrder
      <4>3. 1..s \subseteq 1..(s + 1)
        BY <1>5
      <4>4. QED
        BY <4>2, <4>3 DEF InOrder
    <3>2. InOrder(new, i, s + 1)
      BY <1>5, <1>7 DEF InOrder
    <3>3. QED
      BY <1>3, <1>9, <3>1, <3>2
  <2>4. i \in 1..Instr(up).items /\ s + 1 \in 1..Len(Instr(up).stages)
    <3>1. i \in 1..Instr(up).items /\ s \in 1..Len(Instr(up).stages)
      BY <1>6 DEF StageSound
    <3>2. QED
      BY <1>2, <1>5, <3>1
  <2>5. Counter(frames'[up].counters, Key(up)) # 0
    <3>1. frames'[up].counters = frames[up].counters
      BY <1>3, <1>4
    <3>2. QED
      BY <1>6, <3>1 DEF StageSound
  <2>6. StageSound(next, up, i, s + 1)'
    BY <1>2, <2>2, <2>3, <2>4, <2>5 DEF StageSound, C
  <2>7. QED
    BY <1>11, <2>1, <2>6
<1>12. CASE h # next
  <2> DEFINE j == Last(h)[3][1]
             u == Last(h)[3][2]
             D == Around(mine)
  <2>1. h \in DOMAIN frames \ {f} /\ h \in DOMAIN frames \ {Root}
    BY <1>2, <1>10, <1>12
  <2>2. mine \in DOMAIN frames \ {f}
    <3>1. mine \in DOMAIN frames /\ frames[mine].waits # {}
      BY <1>1, <1>10, <2>1, ParentIsThere
    <3>2. frames[f].waits = {}
      BY DEF NextStage
    <3>3. QED
      BY <3>1, <3>2
  <2>3. Instr(mine)' = Instr(mine) /\ Key(mine)' = Key(mine) /\ Around(mine)' = D
        /\ \A c : Position(mine, c)' = Position(mine, c)
    BY <1>8, <2>2
  <2>4. Instr(mine).op = "pipeline"
    BY <1>10, <2>3
  <2>5. StageSound(h, mine, j, u)
    BY <1>1, <1>10, <2>1, <2>4 DEF StagesInOrder
  <2>6. /\ IsPath(D) /\ Front(D) = frames[mine].path
    BY <1>1, <1>10, <2>1, <2>4, AroundAStage
  <2>7. IsSeq(D)
    BY <2>6 DEF IsPath
  <2>8. Begins(D, q) => InOrder(Following(D, q), j, u)
    <3>1. CASE D = C
      <4>1. frames[mine].path = frames[up].path
        BY <1>5, <2>6, <3>1
      <4>2. mine = up
        BY <1>1, <1>3, <2>2, <4>1 DEF PathsSound
      <4>3. j # i
        <5>1. ASSUME j = i PROVE FALSE
          <6>1. f = h
            BY <1>2, <1>10, <2>1, <4>2, <5>1, OneStage
          <6>2. QED
            BY <2>1, <6>1
        <5>2. QED
          BY <5>1
      <4>4. Following(D, q) = new
        BY <1>9, <3>1
      <4>5. QED
        BY <1>7, <4>3, <4>4 DEF InOrder
    <3>2. CASE D # C
      <4>1. SUFFICES ASSUME Begins(D, q) PROVE InOrder(Following(D, q), j, u)
        OBVIOUS
      <4> HIDE DEF D, j, u
      <4>2. Begins(D, Append(C, new))
        BY <1>7, <4>1
      <4>3. Begins(D, C) /\ Following(D, Append(C, new)) = Following(D, C)
        BY <1>7, <2>7, <3>2, <4>2, BeginsFacts
      <4>4. Begins(D, frames[f].path) /\ Following(D, frames[f].path) = Following(D, C)
        BY <1>5, <1>7, <2>7, <4>3, BeginsLonger
      <4>5. frames[f].path \in Paths
        BY <1>1, OldPaths
      <4>6. InOrder(Following(D, frames[f].path), j, u)
        BY <2>5, <4>4, <4>5 DEF StageSound, D
      <4>7. QED
        BY <1>7, <4>3, <4>4, <4>6
    <3>3. QED
      BY <3>1, <3>2
  <2>9. \A r \in Paths' : Begins(D, r) => InOrder(Following(D, r), j, u)
    <3>1. \A r \in Paths : Begins(D, r) => InOrder(Following(D, r), j, u)
      BY <2>5 DEF StageSound
    <3>2. QED
      BY <1>3, <2>8, <3>1
  <2>10. frames'[h].path = frames[h].path /\ frames'[mine].counters = frames[mine].counters
    BY <1>4, <2>1, <2>2
  <2> HIDE DEF j, u
  <2>11. StageSound(h, mine, j, u)'
    BY <2>3, <2>5, <2>9, <2>10 DEF StageSound
  <2>12. QED
    BY <2>11 DEF j, u
<1>13. QED
  BY <1>11, <1>12

\* The tree stays sound, and the calls.
LEMMA NextStageTree ==
  ASSUME IdentityInvariant, NEW f \in DOMAIN frames, NEW up, NEW i, NEW s, NEW next, NEW q,
         NextStage(f, up, i, s, next, q)
  PROVE  IdentityTypeOK' /\ TreeSound' /\ CallsSound' /\ NestedSound'
<1>1. /\ IdentityTypeOK /\ TreeSound /\ PathsSound /\ CallsSound /\ NestedSound
  BY DEF IdentityInvariant, CallsAccepted
<1>2. /\ f # Root /\ frames[f].waits = {} /\ up = Front(f)
      /\ gen' = gen /\ open' = open /\ seen' = seen /\ nested' = nested /\ refused' = refused
      /\ DOMAIN frames' = (DOMAIN frames \ {f}) \cup {next}
      /\ frames'[up].waits = (frames[up].waits \ {f}) \cup {next}
      /\ \A x \in DOMAIN frames \ {f, up} : frames'[x] = frames[x]
  BY DEF NextStage
<1>3. /\ FrameFields(frames'[next]) /\ frames'[next].code \in DOMAIN Code
      /\ frames'[next].pc = 1 /\ frames'[next].waits = {} /\ frames'[next].holder = next
  BY DEF NextStage
<1>4. /\ up \in DOMAIN frames /\ up # f /\ f \in frames[up].waits
      /\ next \notin DOMAIN frames /\ next \notin DOMAIN open /\ next # Root
      /\ Front(next) = up
  BY NextStageFacts
<1>5. PICK c : next = Append(up, c)
  BY NextStageFacts
<1>6. \A x \in DOMAIN frames \ {f} :
        /\ x \in DOMAIN frames' /\ x # next /\ FrameFields(frames'[x])
        /\ frames'[x].path = frames[x].path /\ frames'[x].code = frames[x].code
        /\ frames'[x].pc = frames[x].pc /\ frames'[x].holder = frames[x].holder
  BY NextStageFacts
<1>7. /\ f \notin DOMAIN open
      /\ \A x \in DOMAIN frames \ {up} : f \notin frames[x].waits
      /\ \A x \in DOMAIN frames \ {f} : f \notin Prefixes(x)
  BY <1>1, <1>2, EndingScope
<1>8. /\ Root \in DOMAIN frames /\ DOMAIN frames \cap DOMAIN open = {}
      /\ \A x \in DOMAIN frames :
           /\ IsSeq(x) /\ Prefixes(x) \subseteq DOMAIN frames /\ frames[x].holder \in Prefixes(x)
           /\ frames[x].waits # {} => ~AtEnd(x)
           /\ \A k \in frames[x].waits : k # Root /\ Front(k) = x
      /\ \A w \in DOMAIN open : CallFields(open[w])
  BY <1>1 DEF TreeSound
<1>9. /\ gen \in 1..Generations /\ refused \in BOOLEAN
      /\ \A x \in DOMAIN frames :
           /\ frames[x].code \in DOMAIN Code
           /\ frames[x].pc \in 1..(Len(Code[frames[x].code]) + 1)
           /\ frames[x].waits \subseteq DOMAIN frames \cup DOMAIN open
      /\ \A w \in DOMAIN open :
           /\ Front(w) \in DOMAIN frames /\ frames[Front(w)].waits = {w}
           /\ open[w].status \in {"posted", "live", "replayed"}
  BY <1>1 DEF IdentityTypeOK
<1>10. /\ IsSeq(next) /\ Prefixes(next) = Prefixes(up) \cup {next} /\ next \in Prefixes(next)
  <2>1. IsSeq(up)
    BY <1>4, <1>8
  <2>2. QED
    BY <1>5, <2>1, AppendFacts, PrefixesFacts
<1>11. ASSUME NEW x \in DOMAIN frames'
       PROVE  /\ FrameFields(frames'[x]) /\ IsSeq(x) /\ Prefixes(x) \subseteq DOMAIN frames'
              /\ frames'[x].holder \in Prefixes(x)
              /\ frames'[x].waits # {} => ~ AtEnd(x)'
              /\ \A k \in frames'[x].waits : k # Root /\ Front(k) = x
              /\ frames'[x].waits \subseteq DOMAIN frames' \cup DOMAIN open'
              /\ frames'[x].code \in DOMAIN Code
              /\ frames'[x].pc \in 1..(Len(Code[frames'[x].code]) + 1)
  <2>1. CASE x = next
    <3>1. Prefixes(up) \subseteq DOMAIN frames'
      BY <1>2, <1>4, <1>7, <1>8
    <3>2. 1 \in 1..(Len(Code[frames'[next].code]) + 1)
      BY <1>3, BodiesAreSequences
    <3>3. QED
      BY <1>2, <1>3, <1>10, <2>1, <3>1, <3>2
  <2>2. CASE x # next
    <3>1. x \in DOMAIN frames \ {f}
      BY <1>2, <2>2
    <3>2. Prefixes(x) \subseteq DOMAIN frames'
      BY <1>2, <1>7, <1>8, <3>1
    <3>3. ~ AtEnd(x) => ~ AtEnd(x)'
      BY <1>6, <3>1 DEF AtEnd
    <3>4. CASE x = up
      <4>1. ~ AtEnd(up)
        BY <1>4, <1>8
      <4>2. \A k \in frames'[up].waits : k # Root /\ Front(k) = up
        BY <1>2, <1>4, <1>8
      <4>3. frames'[up].waits \subseteq DOMAIN frames' \cup DOMAIN open'
        BY <1>2, <1>4, <1>9
      <4>4. QED
        BY <1>6, <1>8, <1>9, <3>1, <3>2, <3>3, <3>4, <4>1, <4>2, <4>3
    <3>5. CASE x # up
      <4>1. frames'[x] = frames[x] /\ f \notin frames[x].waits
        BY <1>2, <1>7, <3>1, <3>5
      <4>2. frames'[x].waits \subseteq DOMAIN frames' \cup DOMAIN open'
        BY <1>2, <1>9, <3>1, <4>1
      <4>3. QED
        BY <1>6, <1>8, <1>9, <3>1, <3>2, <3>3, <4>1, <4>2
    <3>6. QED
      BY <3>4, <3>5
  <2>3. QED
    BY <2>1, <2>2
<1>12. ASSUME NEW x \in DOMAIN frames' \ {Root} PROVE x \in frames'[Front(x)].waits
  <2>1. CASE x = next
    BY <1>2, <1>4, <2>1
  <2>2. CASE x # next
    <3>1. x \in DOMAIN frames \ {f}
      BY <1>2, <2>2
    <3>2. Front(x) \in DOMAIN frames /\ x \in frames[Front(x)].waits
      BY <1>1, <3>1, ParentIsThere
    <3>3. CASE Front(x) = up
      BY <1>2, <3>1, <3>2, <3>3
    <3>4. CASE Front(x) # up
      <4>1. Front(x) # f
        BY <1>2, <3>2
      <4>2. frames'[Front(x)] = frames[Front(x)]
        BY <1>2, <3>2, <3>4, <4>1
      <4>3. QED
        BY <3>2, <4>2
    <3>5. QED
      BY <3>3, <3>4
  <2>3. QED
    BY <2>1, <2>2
<1>13. ASSUME NEW w \in DOMAIN open
       PROVE  /\ Front(w) \in DOMAIN frames' /\ frames'[Front(w)].waits = {w}
              /\ frames'[Front(w)].path = frames[Front(w)].path
  <2>1. Front(w) \in DOMAIN frames /\ frames[Front(w)].waits = {w}
    BY <1>9
  <2>2. Front(w) # f /\ Front(w) # up
    <3>1. w # f
      BY <1>7
    <3>2. QED
      BY <1>2, <1>4, <2>1, <3>1
  <2>3. frames'[Front(w)] = frames[Front(w)]
    BY <1>2, <2>1, <2>2
  <2>4. QED
    BY <1>2, <2>1, <2>2, <2>3
<1>14. TreeSound'
  <2>1. Root \in DOMAIN frames' /\ DOMAIN frames' \cap DOMAIN open' = {}
    BY <1>2, <1>4, <1>8
  <2>2. \A w \in DOMAIN open' : CallFields(open'[w])
    BY <1>2, <1>8
  <2>3. QED
    BY <1>11, <1>12, <2>1, <2>2 DEF TreeSound, Root
<1>15. IdentityTypeOK'
  <2>1. \A x \in DOMAIN frames' : frames'[x].holder \in DOMAIN frames'
    BY <1>11
  <2>2. QED
    BY <1>2, <1>9, <1>11, <1>13, <2>1 DEF IdentityTypeOK
<1>16. CallsSound'
  BY <1>1, <1>2, <1>13 DEF CallsSound
<1>17. NestedSound'
  BY <1>1, <1>2 DEF NestedSound
<1>18. QED
  BY <1>14, <1>15, <1>16, <1>17

\* An item that goes on to its next stage keeps the invariant.
LEMMA NextStageKeeps ==
  ASSUME IdentityInvariant, NEW f \in DOMAIN frames, EndBody(f),
         Instr(Front(f)).op = "pipeline", Last(f)[3][2] < Len(Instr(Front(f)).stages)
  PROVE  IdentityInvariant'
<1> DEFINE up == Front(f)
           i == Last(f)[3][1]
           s == Last(f)[3][2]
           next == Position(up, <<i, s + 1>>)
           q == PathInStage(Around(up), i, s + 1)
           t == frames[up]
           waits == (t.waits \ {f}) \cup {next}
           others == [k \in DOMAIN frames \ {f} |-> frames[k]]
           old == [others EXCEPT ![up].waits = waits]
           item == Stage(up, Front(frames[f].path), i, s + 1, next)
<1>1. /\ IdentityTypeOK /\ TreeSound /\ PathsSound /\ ScopesCount /\ StagesInOrder /\ NeverRefused
  BY DEF IdentityInvariant, CallsAccepted
<1>2. /\ f # Root /\ frames[f].waits = {}
      /\ UNCHANGED <<gen, open, seen, nestings, nested, refused>>
  BY DEF EndBody, local
<1>3. frames' = With(old, next, item)
  BY DEF EndBody
<1>4. up \in DOMAIN frames /\ up # f
  BY <1>1, <1>2, EndingScope
<1>5. /\ next \notin DOMAIN frames
  BY <1>2, NextStageIsNew
<1>6. s \in Nat /\ IsSeq(Around(up)) /\ Front(frames[f].path) = Around(up)
  <2>1. /\ s \in Nat /\ IsPath(Around(up))
        /\ frames[f].path = Append(Around(up), Segment(<<"stage", s>>, i))
    BY <1>1, <1>2, AroundAStage
  <2>2. QED
    BY <2>1, AppendFacts DEF IsPath
<1>7. /\ FrameFields(item) /\ item.path = q /\ item.pc = 1 /\ item.counters = <<>>
      /\ item.waits = {} /\ item.holder = next /\ item.code = Instr(up).stages[s + 1]
  <2>1. item = Scope(Instr(up).stages[s + 1], q, t.marks, next, CurrentPhase(up))
    BY <1>6 DEF Stage
  <2> HIDE DEF item, q, next, s
  <2>2. QED
    BY <2>1 DEF Scope, FrameFields
<1>8. item.code \in DOMAIN Code
  <2>1. ScopeSound(up) /\ ~ AtEnd(up)
    <3>1. f \in t.waits
      BY <1>1, <1>2, EndingScope
    <3>2. ScopeSound(up)
      BY <1>1, <1>4, ScopesSound
    <3>3. QED
      BY <3>1, <3>2 DEF ScopeSound
  <2>2. IsInstruction(Instr(up), Len(Code[t.code]) + 1)
    BY <2>1, InstructionIsSound
  <2>3. Instr(up).stages \in Seq(DOMAIN Code)
    BY <2>2 DEF IsInstruction
  <2>4. s + 1 \in 1..Len(Instr(up).stages)
    BY <1>6, <2>3
  <2>5. QED
    BY <1>7, <2>3, <2>4
<1>9. /\ DOMAIN old = DOMAIN frames \ {f}
      /\ \A x \in DOMAIN frames \ {f, up} : old[x] = frames[x]
      /\ old[up] = [t EXCEPT !.waits = waits]
  <2>1. DOMAIN others = DOMAIN frames \ {f} /\ \A x \in DOMAIN others : others[x] = frames[x]
    OBVIOUS
  <2> HIDE DEF others, waits, up
  <2>2. QED
    BY <1>4, <2>1
<1>10. /\ DOMAIN frames' = (DOMAIN frames \ {f}) \cup {next} /\ frames'[next] = item
       /\ \A x \in DOMAIN frames \ {f} : frames'[x] = old[x]
  <2>1. \A x \in DOMAIN frames \ {f} : x # next
    BY <1>5
  <2> HIDE DEF old, item, next
  <2>2. QED
    BY <1>3, <1>9, <2>1 DEF With
<1>11. /\ FrameFields(frames'[up])
       /\ frames'[up].path = t.path /\ frames'[up].counters = t.counters
       /\ frames'[up].code = t.code /\ frames'[up].pc = t.pc
       /\ frames'[up].marks = t.marks /\ frames'[up].turns = t.turns
       /\ frames'[up].holder = t.holder /\ frames'[up].waits = waits
  <2>1. FrameFields(t)
    BY <1>1, <1>4 DEF TreeSound
  <2>2. frames'[up] = [t EXCEPT !.waits = waits]
    BY <1>4, <1>9, <1>10
  <2> HIDE DEF t, waits
  <2>3. QED
    BY <2>1, <2>2 DEF FrameFields
<1>12. \A x \in DOMAIN frames \ {f, up} : frames'[x] = frames[x]
  BY <1>9, <1>10
<1> HIDE DEF item, old, others
<1>13. NextStage(f, up, i, s, next, q)
  BY <1>2, <1>7, <1>8, <1>10, <1>11, <1>12 DEF NextStage
<1> HIDE DEF up, i, s, next, q
<1>14. IdentityTypeOK' /\ TreeSound' /\ CallsSound' /\ NestedSound'
  BY <1>13, NextStageTree
<1>15. PathsSound' /\ ScopesCount' /\ HostCounts' /\ StagesInOrder'
  BY <1>13, NextStagePaths, NextStageInOrder
<1>16. NeverRefused'
  BY <1>1, <1>2 DEF NeverRefused
<1>17. QED
  BY <1>14, <1>15, <1>16 DEF IdentityInvariant, CallsAccepted

----------------------------------------------------------------------------
(***************************************************************************)
(* Runs begin and are resumed; every call is accepted.                     *)
(***************************************************************************)
\* A run that has just begun: its script has one scope, and no call was made.
FreshRun ==
  /\ gen \in 1..Generations
  /\ \E code \in DOMAIN Code : frames = [f \in {Root} |-> Scope(code, <<>>, <<>>, Root, "none")]
  /\ open = <<>> /\ seen = {} /\ nestings = <<>> /\ refused = FALSE
  /\ NestedSound

\* It satisfies the invariant.
LEMMA FreshRunSound == FreshRun => IdentityInvariant
<1> SUFFICES ASSUME FreshRun PROVE IdentityInvariant
  OBVIOUS
<1>1. /\ gen \in 1..Generations /\ refused = FALSE
      /\ open = <<>> /\ seen = {} /\ nestings = <<>> /\ NestedSound
  BY DEF FreshRun
<1>2. PICK code \in DOMAIN Code :
        frames = [f \in {Root} |-> Scope(code, <<>>, <<>>, Root, "none")]
  BY DEF FreshRun
<1> DEFINE t == frames[Root]
<1>3. DOMAIN frames = {Root} /\ t = Scope(code, <<>>, <<>>, Root, "none")
  BY <1>2
<1>4. /\ t.code = code /\ t.pc = 1 /\ t.path = <<>> /\ t.counters = <<>> /\ t.holder = Root
      /\ t.waits = {} /\ FrameFields(t)
  <2> HIDE DEF t
  <2>1. QED
    BY <1>3 DEF Scope, FrameFields
<1>5. DOMAIN open = {} /\ DOMAIN nestings = {}
  BY <1>1
<1>6. IsSeq(Root) /\ Root \in Prefixes(Root) /\ Prefixes(Root) = {Root}
  <2>1. IsSeq(Root)
    BY DEF IsSeq, Root
  <2>2. Prefixes(Root) = {SubSeq(Root, 1, 0)} /\ SubSeq(Root, 1, 0) = Root
    BY DEF Prefixes, Root
  <2>3. QED
    BY <2>1, <2>2
<1>7. Paths = {<<>>}
  BY <1>1, <1>3, <1>4, <1>5 DEF Paths
<1>8. ~ Begins(<<>>, <<>>) /\ Len(<<>>) = 0
  BY DEF Begins
<1>9. IdentityTypeOK
  <2>1. 1 \in 1..(Len(Code[code]) + 1)
    BY BodiesAreSequences
  <2> HIDE DEF t
  <2>2. ASSUME NEW f \in DOMAIN frames PROVE f = Root /\ frames[f] = t
    BY <1>3, <2>2 DEF t
  <2>3. QED
    BY <1>1, <1>3, <1>4, <1>5, <2>1, <2>2 DEF IdentityTypeOK
<1> HIDE DEF t
<1>10. \A f \in DOMAIN frames : f = Root /\ frames[f] = t
  BY <1>3 DEF t
<1>11. TreeSound
  BY <1>3, <1>4, <1>5, <1>6, <1>10 DEF TreeSound
<1>12. PathsSound
  <2>1. IsPath(<<>>)
    BY <1>6, <1>8 DEF IsPath, Root
  <2>2. QED
    BY <1>3, <1>4, <1>7, <1>10, <2>1 DEF PathsSound
<1>13. ScopesCount
  BY <1>4, <1>7, <1>8, <1>10 DEF ScopesCount
<1>14. HostCounts
  BY <1>5, <1>7, <1>8 DEF HostCounts, RequestsCounted
<1>15. StagesInOrder /\ CallsSound
  BY <1>3, <1>5 DEF StagesInOrder, CallsSound
<1>16. QED
  BY <1>1, <1>9, <1>11, <1>12, <1>13, <1>14, <1>15 DEF IdentityInvariant, CallsAccepted, NeverRefused

\* The invariant holds when the first run begins.
LEMMA IdentityStart == IdentityInit => IdentityInvariant
<1>1. IdentityInit => FreshRun
  BY CodeAssumption DEF IdentityInit, FreshRun, NestedSound
<1>2. QED
  BY <1>1, FreshRunSound

\* A run that is resumed keeps what the journal has, and begins afresh.
LEMMA ResumeIsFresh == ASSUME IdentityInvariant, ResumeScript PROVE FreshRun'
<1>1. IdentityTypeOK /\ TreeSound /\ NestedSound
  BY DEF IdentityInvariant, CallsAccepted
<1>2. gen' \in 1..Generations
  BY <1>1, CodeAssumption DEF ResumeScript, IdentityTypeOK
<1>3. frames[Root].code \in DOMAIN Code
  BY <1>1 DEF IdentityTypeOK, TreeSound
<1>4. NestedSound'
  BY <1>1 DEF ResumeScript, NestedSound
<1>5. QED
  BY <1>2, <1>3, <1>4 DEF ResumeScript, FreshRun

\* A step that changes nothing keeps the invariant.
LEMMA IdentityStutters == ASSUME IdentityInvariant, UNCHANGED identityVars PROVE IdentityInvariant'
<1>1. UNCHANGED <<gen, frames, open, seen, nestings, nested, refused>>
  BY DEF identityVars
<1>2. \A f \in DOMAIN frames :
        FrameFields(frames[f]) /\ frames[f].pc \in 1..(Len(Code[frames[f].code]) + 1)
  BY DEF IdentityInvariant, CallsAccepted, IdentityTypeOK, TreeSound
<1>3. \A w \in DOMAIN open :
        /\ CallFields(open[w]) /\ open[w].status \in {"posted", "live", "replayed"}
        /\ open[w].status = "posted" => open[w].path \notin seen
  BY DEF IdentityInvariant, CallsAccepted, IdentityTypeOK, TreeSound, CallsSound
<1>4. seen \subseteq Paths
  BY DEF Paths
<1>5. Stays({})
  BY <1>1, <1>2, <1>3, <1>4 DEF Stays
<1>6. QED
  BY <1>5, StayKeeps

\* Every step keeps the invariant.
LEMMA IdentityStep == IdentityInvariant /\ [IdentityNext]_(identityVars) => IdentityInvariant'
<1> SUFFICES ASSUME IdentityInvariant, [IdentityNext]_(identityVars) PROVE IdentityInvariant'
  OBVIOUS
<1>1. ASSUME NEW f \in DOMAIN frames, Phase(f) \/ Mark(f) \/ Jump(f) PROVE IdentityInvariant'
  BY <1>1, PhaseKeeps, LoopsKeep
<1>2. ASSUME NEW f \in DOMAIN frames,
             Parallel(f) \/ Pipeline(f) \/ Helper(f) \/ Workflow(f) \/ CallAgent(f)
      PROVE  IdentityInvariant'
  BY <1>2, CallsKeep
<1>3. ASSUME NEW f \in DOMAIN frames, EndBody(f) PROVE IdentityInvariant'
  BY <1>3, EndKeeps, NextStageKeeps
<1>4. ASSUME NEW w \in DOMAIN open, PrepareAgent(w) \/ AnswerAgent(w) PROVE IdentityInvariant'
  BY <1>4, PrepareKeeps, AnswerKeeps
<1>5. CASE ResumeScript
  <2>1. FreshRun'
    BY <1>5, ResumeIsFresh
  <2>2. FreshRun' => IdentityInvariant'
    BY FreshRunSound, PTL
  <2>3. QED
    BY <2>1, <2>2
<1>6. CASE ScriptSettled \/ UNCHANGED identityVars
  BY <1>6, IdentityStutters DEF ScriptSettled
<1>7. QED
  BY <1>1, <1>2, <1>3, <1>4, <1>5, <1>6 DEF IdentityNext

\* For every script that the parser accepts, every number of resumes and wherever each
\* run dies: no call is refused for its identity.  However branches, items, helpers and
\* loops interleave, no two calls of a run have one path, and a nested workflow is never
\* taken for a changed one.
THEOREM EveryCallAccepted == IdentitySpec => []CallsAccepted
<1>1. IdentityInvariant => CallsAccepted
  BY DEF IdentityInvariant
<1>2. QED
  BY <1>1, IdentityStart, IdentityStep, PTL DEF IdentitySpec
=============================================================================
