-------------------------- MODULE AdmissionProofs --------------------------
(***************************************************************************)
(* Proofs about the admission of agents, for every limit, any panels and   *)
(* branches and any parallel() calls: the slots are accounted for, and     *)
(* what a panel was promised is there for its branches.                    *)
(***************************************************************************)
EXTENDS Admission, FiniteSetTheorems, SequenceTheorems, WellFoundedInduction, TLAPS

----------------------------------------------------------------------------
(***************************************************************************)
(* Reservations, slots and paths.                                          *)
(***************************************************************************)
\* A reservation is a panel's or a branch's.
LEMMA Ids ==
  /\ \A p \in Panel : PanelId(p) \in Id /\ PanelId(p) \notin Branch /\ PanelId(p)[1] = p
  /\ \A b \in Branch : b \in Id /\ b[1] \in Panel /\ b[2] \in 1..branchBound
                       /\ b = <<b[1], b[2]>>
  /\ \A id \in Id : id[1] \in Panel /\ (id \in Branch \/ id = PanelId(id[1]))
  /\ Panel \subseteq Nat
  /\ \A p \in Panel, i \in 1..branchBound :
       /\ BranchId(p, i) \in Id /\ BranchId(p, i) \in Branch /\ BranchId(p, i)[1] = p
       /\ BranchId(p, i) # PanelId(p)
       /\ \A j \in 1..branchBound : BranchId(p, i) = BranchId(p, j) => i = j
BY AdmissionAssumption DEF PanelId, BranchId, Id, Branch, Panel

\* Any slots are finitely many.
LEMMA SlotSets ==
  ASSUME NEW S \in SUBSET Slot
  PROVE  IsFiniteSet(S) /\ Cardinality(S) \in Nat
BY AdmissionAssumption, FS_Subset, FS_CardinalityType

\* Slots that are added to others add to their number.
LEMMA AddSlots ==
  ASSUME NEW S \in SUBSET Slot, NEW T \in SUBSET Slot, S \cap T = {}
  PROVE  Cardinality(S \cup T) = Cardinality(S) + Cardinality(T)
<1>1. IsFiniteSet(S) /\ IsFiniteSet(T) /\ Cardinality(S) \in Nat /\ Cardinality(T) \in Nat
  BY SlotSets
<1>2. Cardinality(S \cap T) = 0
  BY FS_EmptySet
<1>3. Cardinality(S \cup T) = Cardinality(S) + Cardinality(T) - Cardinality(S \cap T)
  BY <1>1, FS_Union
<1>4. QED
  BY <1>1, <1>2, <1>3

\* Slots that are taken from others leave the rest.
LEMMA TakeSlots ==
  ASSUME NEW S \in SUBSET Slot, NEW T \in SUBSET S
  PROVE  Cardinality(S \ T) + Cardinality(T) = Cardinality(S)
<1>1. S \ T \in SUBSET Slot /\ T \in SUBSET Slot /\ (S \ T) \cap T = {}
      /\ (S \ T) \cup T = S
  OBVIOUS
<1>2. Cardinality(S) = Cardinality(S \ T) + Cardinality(T)
  BY <1>1, AddSlots
<1>3. QED
  BY <1>2

\* The last of these, for one slot.
LEMMA TakeSlot ==
  ASSUME NEW S \in SUBSET Slot, NEW s \in S
  PROVE  Cardinality(S \ {s}) + 1 = Cardinality(S)
<1>1. Cardinality(S \ {s}) + Cardinality({s}) = Cardinality(S)
  BY TakeSlots
<1>2. Cardinality({s}) = 1
  BY FS_Singleton
<1>3. QED
  BY <1>1, <1>2

\* A set of naturals that is not empty has a least element.
LEMMA Least ==
  ASSUME NEW T \in SUBSET Nat, T # {}
  PROVE  Min(T) \in T /\ \A m \in T : Min(T) <= m
<1> DEFINE R == OpToRel(<, Nat)
<1>1. IsWellFoundedOn(R, Nat)
  BY NatLessThanWellFounded
<1>2. \A m, n \in Nat : m < n => <<m, n>> \in R
  BY DEF OpToRel
<1> HIDE DEF R
<1>3. PICK x \in T : \A y \in T : ~ (<<y, x>> \in R)
  BY <1>1, WFMin
<1>4. \A y \in T : x <= y
  <2>1. SUFFICES ASSUME NEW y \in T PROVE x <= y
    OBVIOUS
  <2>2. x \in Nat /\ y \in Nat /\ ~ (<<y, x>> \in R)
    BY <1>3
  <2>3. ~ (y < x)
    BY <1>2, <2>2
  <2>4. QED
    BY <2>2, <2>3
<1>5. QED
  BY <1>3, <1>4 DEF Min

\* What is on a path.
LEMMA OnPath ==
  ASSUME NEW p \in Seq(Id)
  PROVE  /\ Len(p) \in Nat /\ DOMAIN p = 1..Len(p)
         /\ \A i \in 1..Len(p) : p[i] \in Id
         /\ \A id : id \in Range(p) <=> \E i \in 1..Len(p) : p[i] = id
         /\ p # <<>> <=> Len(p) > 0
         /\ p # <<>> => Head(p) = p[1] /\ Head(p) \in Range(p)
BY LenProperties, ElementOfSeq, EmptySeq DEF Range

\* A slot goes on to nowhere, or to the first live reservation of its path.
LEMMA OnwardLemma ==
  ASSUME NEW ids, NEW p \in Seq(Id)
  PROVE  \/ Onward(ids, p) = <<>> /\ \A i \in 1..Len(p) : p[i] \notin ids
         \/ \E d \in 0..(Len(p) - 1) :
              /\ Onward(ids, p) \in Seq(Id)
              /\ Len(Onward(ids, p)) = Len(p) - d
              /\ \A i \in 1..(Len(p) - d) : Onward(ids, p)[i] = p[d + i]
              /\ p[d + 1] \in ids
              /\ \A i \in 1..d : p[i] \notin ids
<1> DEFINE alive == {i \in DOMAIN p : p[i] \in ids}
<1>1. Len(p) \in Nat /\ DOMAIN p = 1..Len(p) /\ \A i \in 1..Len(p) : p[i] \in Id
  BY OnPath
<1>2. CASE alive = {}
  BY <1>1, <1>2 DEF Onward
<1>3. CASE alive # {}
  <2>1. alive \in SUBSET Nat
    BY <1>1
  <2>2. Min(alive) \in alive /\ \A m \in alive : Min(alive) <= m
    BY <1>3, <2>1, Least
  <2> DEFINE n == Min(alive)
             q == Onward(ids, p)
  <2>3. n \in alive /\ \A m \in alive : n <= m
    BY <2>2
  <2> HIDE DEF n
  <2>4. n \in 1..Len(p) /\ p[n] \in ids /\ \A i \in 1..(n - 1) : p[i] \notin ids
    <3>1. n \in 1..Len(p) /\ p[n] \in ids
      BY <1>1, <2>3
    <3>2. ASSUME NEW i \in 1..(n - 1), p[i] \in ids PROVE FALSE
      <4>1. i \in 1..Len(p) /\ i < n
        BY <1>1, <3>1
      <4>2. i \in alive
        BY <1>1, <3>2, <4>1
      <4>3. n <= i
        BY <2>3, <4>2
      <4>4. QED
        BY <3>1, <4>1, <4>3
    <3>3. QED
      BY <3>1, <3>2
  <2>5. q = SubSeq(p, n, Len(p))
    BY <1>3 DEF Onward, n
  <2> HIDE DEF alive, q
  <2>6. \A i \in n..Len(p) : p[i] \in Id
    BY <1>1, <2>4
  <2>7. /\ q \in Seq(Id) /\ Len(q) = IF n <= Len(p) THEN Len(p) - n + 1 ELSE 0
        /\ \A i \in 1..(Len(p) - n + 1) : q[i] = p[n + i - 1]
    BY <1>1, <2>4, <2>5, <2>6, SubSeqProperties
  <2>8. n - 1 \in 0..(Len(p) - 1) /\ (n - 1) + 1 = n /\ Len(p) - (n - 1) = Len(p) - n + 1
    BY <1>1, <2>4
  <2>9. \A i \in 1..(Len(p) - (n - 1)) : q[i] = p[(n - 1) + i]
    <3>1. SUFFICES ASSUME NEW i \in 1..(Len(p) - (n - 1)) PROVE q[i] = p[(n - 1) + i]
      OBVIOUS
    <3>2. (n - 1) + i = n + i - 1 /\ i \in 1..(Len(p) - n + 1)
      BY <1>1, <2>4
    <3>3. QED
      BY <2>7, <3>2
  <2>10. Len(q) = Len(p) - (n - 1) /\ \A i \in 1..(n - 1) : p[i] \notin ids
    BY <1>1, <2>4, <2>7
  <2>11. \E d \in 0..(Len(p) - 1) :
           /\ q \in Seq(Id) /\ Len(q) = Len(p) - d
           /\ \A i \in 1..(Len(p) - d) : q[i] = p[d + i]
           /\ p[d + 1] \in ids /\ \A i \in 1..d : p[i] \notin ids
    <3> USE <2>8
    <3>1. WITNESS n - 1 \in 0..(Len(p) - 1)
    <3>2. QED
      BY <2>4, <2>7, <2>8, <2>9, <2>10
  <2>12. QED
    BY <2>11 DEF q
<1>4. QED
  BY <1>2, <1>3

\* What a slot keeps of its path when it goes on.
LEMMA OnwardFacts ==
  ASSUME NEW ids, NEW p \in Seq(Id), NEW q, q = Onward(ids, p)
  PROVE  /\ q \in Seq(Id)
         /\ \A id : id \in Range(q) => id \in Range(p)
         /\ \A id \in ids : id \in Range(p) => id \in Range(q)
         /\ q # <<>> => Head(q) \in ids
         /\ p # <<>> /\ Head(p) \in ids => q = p
         /\ p = <<>> => q = <<>>
         /\ Returns(p) => Returns(q)
<1>1. Len(p) \in Nat /\ DOMAIN p = 1..Len(p) /\ \A i \in 1..Len(p) : p[i] \in Id
  BY OnPath
<1>2. \A id : id \in Range(p) <=> \E i \in 1..Len(p) : p[i] = id
  BY OnPath
<1>3. /\ p # <<>> <=> Len(p) > 0
      /\ p # <<>> => Head(p) = p[1]
  BY OnPath
<1>4. CASE q = <<>> /\ \A i \in 1..Len(p) : p[i] \notin ids
  <2>1. q \in Seq(Id) /\ DOMAIN q = {} /\ \A id : id \notin Range(q)
    BY <1>4, EmptySeq DEF Range
  <2>2. \A id \in ids : id \notin Range(p)
    BY <1>2, <1>4
  <2>3. p # <<>> => Head(p) \notin ids
    BY <1>1, <1>3, <1>4
  <2>4. Returns(q)
    BY <2>1 DEF Returns
  <2>5. QED
    BY <1>4, <2>1, <2>2, <2>3, <2>4
<1>5. ASSUME NEW d \in 0..(Len(p) - 1),
             q \in Seq(Id), Len(q) = Len(p) - d,
             \A i \in 1..(Len(p) - d) : q[i] = p[d + i],
             p[d + 1] \in ids, \A i \in 1..d : p[i] \notin ids
      PROVE  /\ q \in Seq(Id)
             /\ \A id : id \in Range(q) => id \in Range(p)
             /\ \A id \in ids : id \in Range(p) => id \in Range(q)
             /\ q # <<>> => Head(q) \in ids
             /\ p # <<>> /\ Head(p) \in ids => q = p
             /\ p = <<>> => q = <<>>
             /\ Returns(p) => Returns(q)
  <2>1. /\ Len(q) \in Nat /\ DOMAIN q = 1..Len(q)
        /\ \A id : id \in Range(q) <=> \E i \in 1..Len(q) : q[i] = id
        /\ q # <<>> => Head(q) = q[1]
    BY <1>5, OnPath
  <2>2. \A i \in 1..Len(q) : d + i \in 1..Len(p) /\ q[i] = p[d + i]
    BY <1>1, <1>5
  <2>3. \A id : id \in Range(q) => id \in Range(p)
    BY <1>2, <2>1, <2>2
  <2>4. ASSUME NEW j \in 1..Len(p), j > d
        PROVE  j - d \in 1..Len(q) /\ q[j - d] = p[j]
    <3>1. j - d \in 1..(Len(p) - d) /\ d + (j - d) = j
      BY <1>1, <2>4
    <3>2. QED
      BY <1>5, <3>1
  <2>5. \A id \in ids : id \in Range(p) => id \in Range(q)
    <3>1. SUFFICES ASSUME NEW id \in ids, NEW j \in 1..Len(p), p[j] = id
                   PROVE  id \in Range(q)
      BY <1>2
    <3>2. j > d
      BY <1>1, <1>5, <3>1
    <3>3. QED
      BY <2>1, <2>4, <3>1, <3>2
  <2>6. Len(q) > 0 /\ q[1] \in ids
    <3>1. 1 \in 1..(Len(p) - d)
      BY <1>1
    <3>2. QED
      BY <1>1, <1>5, <3>1
  <2>7. ASSUME p # <<>>, Head(p) \in ids PROVE q = p
    <3>1. d = 0
      <4>1. 1 \notin 1..d
        BY <1>3, <1>5, <2>7
      <4>2. QED
        BY <4>1
    <3>2. Len(q) = Len(p) /\ \A i \in 1..Len(q) : q[i] = p[i]
      BY <1>1, <1>5, <3>1
    <3>3. QED
      BY <1>5, <3>2, SeqEqual
  <2>8. ASSUME Returns(p) PROVE Returns(q)
    <3>1. SUFFICES ASSUME NEW i \in DOMAIN q, q[i] \in Branch
                   PROVE  \E j \in DOMAIN q : i < j /\ q[j] = PanelId(q[i][1])
      BY DEF Returns
    <3>2. i \in Nat /\ d + i \in DOMAIN p /\ p[d + i] = q[i]
      BY <1>1, <2>1, <2>2
    <3>3. PICK j \in DOMAIN p : d + i < j /\ p[j] = PanelId(q[i][1])
      BY <2>8, <3>1, <3>2 DEF Returns
    <3>4. j - d \in DOMAIN q /\ q[j - d] = p[j] /\ i < j - d
      BY <1>1, <2>1, <2>4, <3>2, <3>3
    <3>5. QED
      BY <3>3, <3>4
  <2>9. p # <<>>
    BY <1>1, <1>3, <2>6
  <2>10. q # <<>> => Head(q) \in ids
    BY <2>1, <2>6
  <2>11. QED
    BY <1>5, <2>3, <2>5, <2>7, <2>8, <2>9, <2>10
<1>6. QED
  BY <1>4, <1>5, OnwardLemma

\* A path with a reservation in front of it.
LEMMA InFront ==
  ASSUME NEW x \in Id, NEW p \in Seq(Id), NEW q, q = Via(x, p)
  PROVE  /\ q \in Seq(Id) /\ q # <<>> /\ Head(q) = x /\ Len(q) = Len(p) + 1
         /\ q[1] = x /\ \A i \in 1..Len(p) : q[i + 1] = p[i]
         /\ \A id : id \in Range(q) <=> id = x \/ id \in Range(p)
<1>1. /\ <<x>> \in Seq(Id) /\ Len(<<x>>) = 1 /\ <<x>>[1] = x
      /\ Len(p) \in Nat /\ DOMAIN p = 1..Len(p)
  BY OnPath
<1>2. q \in Seq(Id) /\ Len(q) = 1 + Len(p)
      /\ \A i \in 1..(1 + Len(p)) : q[i] = IF i <= 1 THEN <<x>>[i] ELSE p[i - 1]
  BY <1>1, ConcatProperties DEF Via
<1>3. q[1] = x /\ \A i \in 1..Len(p) : q[i + 1] = p[i]
  <2>1. 1 \in 1..(1 + Len(p)) /\ 1 <= 1
    BY <1>1
  <2>2. q[1] = x
    BY <1>1, <1>2, <2>1
  <2>3. ASSUME NEW i \in 1..Len(p) PROVE q[i + 1] = p[i]
    <3>1. i + 1 \in 1..(1 + Len(p)) /\ ~ (i + 1 <= 1) /\ (i + 1) - 1 = i
      BY <1>1
    <3>2. QED
      BY <1>2, <3>1
  <2>4. QED
    BY <2>2, <2>3
<1>4. /\ q # <<>> <=> Len(q) > 0
      /\ q # <<>> => Head(q) = q[1]
      /\ \A id : id \in Range(q) <=> \E i \in 1..Len(q) : q[i] = id
      /\ \A id : id \in Range(p) <=> \E i \in 1..Len(p) : p[i] = id
  BY <1>2, OnPath
<1>5. ASSUME NEW id, id \in Range(q) PROVE id = x \/ id \in Range(p)
  <2>1. PICK i \in 1..Len(q) : q[i] = id
    BY <1>4, <1>5
  <2>2. i = 1 \/ (i - 1 \in 1..Len(p) /\ (i - 1) + 1 = i)
    BY <1>1, <1>2
  <2>3. CASE i = 1
    BY <1>3, <2>1, <2>3
  <2>4. CASE i - 1 \in 1..Len(p) /\ (i - 1) + 1 = i
    <3>1. p[i - 1] = id
      BY <1>3, <2>1, <2>4
    <3>2. QED
      BY <1>4, <2>4, <3>1
  <2>5. QED
    BY <2>2, <2>3, <2>4
<1>6. ASSUME NEW id, id = x \/ id \in Range(p) PROVE id \in Range(q)
  <2>1. 1 \in 1..Len(q) /\ \A i \in 1..Len(p) : i + 1 \in 1..Len(q)
    BY <1>1, <1>2
  <2>2. QED
    BY <1>3, <1>4, <1>6, <2>1
<1>7. QED
  BY <1>1, <1>2, <1>3, <1>4, <1>5, <1>6

\* A dead reservation in front of a path changes nothing of where it leads.
LEMMA PastTheDead ==
  ASSUME NEW ids, NEW x \in Id, x \notin ids, NEW p \in Seq(Id)
  PROVE  Onward(ids, Via(x, p)) = Onward(ids, p)
<1> DEFINE q == Via(x, p)
<1>1. /\ q \in Seq(Id) /\ Len(q) = Len(p) + 1 /\ q[1] = x /\ Len(p) \in Nat
      /\ \A i \in 1..Len(p) : q[i + 1] = p[i]
  BY InFront, OnPath
<1> HIDE DEF q
<1>2. CASE \A i \in 1..Len(p) : p[i] \notin ids
  <2>1. ASSUME NEW i \in 1..Len(q) PROVE q[i] \notin ids
    <3>1. i = 1 \/ (i - 1 \in 1..Len(p) /\ (i - 1) + 1 = i)
      BY <1>1
    <3>2. QED
      BY <1>1, <1>2, <3>1
  <2>2. \A i \in DOMAIN p : p[i] \notin ids
    BY <1>2, OnPath
  <2>3. \A i \in DOMAIN q : q[i] \notin ids
    BY <1>1, <2>1, OnPath
  <2>4. QED
    BY <2>2, <2>3 DEF Onward, q
<1>3. CASE \E i \in 1..Len(p) : p[i] \in ids
  <2>1. PICK d \in 0..(Len(p) - 1) :
          /\ Onward(ids, p) \in Seq(Id)
          /\ Len(Onward(ids, p)) = Len(p) - d
          /\ \A i \in 1..(Len(p) - d) : Onward(ids, p)[i] = p[d + i]
          /\ p[d + 1] \in ids
          /\ \A i \in 1..d : p[i] \notin ids
    BY <1>3, OnwardLemma
  <2>2. d \in Nat /\ d + 1 \in 1..Len(p) /\ (d + 1) + 1 \in 1..Len(q)
    BY <1>1
  <2>3. q[(d + 1) + 1] \in ids
    BY <1>1, <2>1, <2>2
  <2>4. PICK e \in 0..(Len(q) - 1) :
          /\ Onward(ids, q) \in Seq(Id)
          /\ Len(Onward(ids, q)) = Len(q) - e
          /\ \A i \in 1..(Len(q) - e) : Onward(ids, q)[i] = q[e + i]
          /\ q[e + 1] \in ids
          /\ \A i \in 1..e : q[i] \notin ids
    BY <1>1, <2>2, <2>3, OnwardLemma
  <2>5. e = d + 1
    <3>1. e \in Nat /\ e # 0
      BY <1>1, <2>4
    <3>2. e \in 1..Len(p) /\ q[e + 1] = p[e]
      BY <1>1, <3>1
    <3>3. ~ (e \in 1..d)
      BY <2>1, <2>4, <3>2
    <3>4. ~ ((d + 1) + 1 \in 1..e)
      BY <2>3, <2>4
    <3>5. QED
      BY <2>2, <3>1, <3>3, <3>4
  <2>6. Len(q) - e = Len(p) - d
    BY <1>1, <2>2, <2>5
  <2>7. ASSUME NEW i \in 1..(Len(p) - d) PROVE Onward(ids, q)[i] = Onward(ids, p)[i]
    <3>1. d + i \in 1..Len(p) /\ e + i = (d + i) + 1
      BY <1>1, <2>2, <2>5
    <3>2. QED
      BY <1>1, <2>1, <2>4, <2>6, <3>1
  <2>8. /\ Len(Onward(ids, q)) = Len(Onward(ids, p))
        /\ \A i \in 1..Len(Onward(ids, q)) : Onward(ids, q)[i] = Onward(ids, p)[i]
    BY <2>1, <2>4, <2>6, <2>7
  <2>9. Onward(ids, q) = Onward(ids, p)
    BY <2>1, <2>4, <2>8, SeqEqual
  <2>10. QED
    BY <2>9 DEF q
<1>4. QED
  BY <1>2, <1>3

----------------------------------------------------------------------------
(***************************************************************************)
(* What the history and the slots become.                                  *)
(***************************************************************************)
\* A call is the branch's, and its panel's.
LEMMA CallHistory ==
  ASSUME NEW h \in History, NEW ctx \in Context, NEW c, c = Called(h, ctx)
  PROVE  /\ c \in History
         /\ c.granted = h.granted /\ c.spent = h.spent /\ c.reserve = h.reserve
         /\ ctx \in Branch => c.asked = h.asked \cup {ctx}
         /\ ctx \notin Branch => c = h
         /\ \A p \in Panel :
              c.calls[p] = IF ctx \in Branch /\ ctx[1] = p THEN h.calls[p] + 1 ELSE h.calls[p]
<1>1. /\ h.granted \in [Id -> Nat] /\ h.spent \in [Id -> Nat] /\ h.calls \in [Panel -> Nat]
      /\ h.reserve \in [Panel -> Nat] /\ h.asked \in SUBSET Branch
  BY DEF History
<1>2. CASE ctx = Root
  <2>1. ctx \notin Branch
    BY <1>2 DEF Root, Branch
  <2>2. c = h
    BY <1>2 DEF Called
  <2>3. QED
    BY <2>1, <2>2
<1>3. CASE ctx # Root
  <2>1. ctx \in Branch /\ ctx[1] \in Panel
    BY <1>3, Ids DEF Context
  <2>2. c = [h EXCEPT !.calls = [h.calls EXCEPT ![ctx[1]] = @ + 1],
                      !.asked = h.asked \cup {ctx}]
    BY <1>3 DEF Called, History
  <2>3. /\ c.granted = h.granted /\ c.spent = h.spent /\ c.reserve = h.reserve
        /\ c.asked = h.asked \cup {ctx}
        /\ c.calls = [h.calls EXCEPT ![ctx[1]] = @ + 1]
    BY <2>2 DEF History
  <2>4. c.calls \in [Panel -> Nat] /\ c.asked \in SUBSET Branch
    BY <1>1, <2>1, <2>3
  <2>5. c \in History
    BY <1>1, <2>2, <2>4 DEF History
  <2>6. QED
    BY <1>1, <2>1, <2>3, <2>5
<1>4. QED
  BY <1>2, <1>3

\* A slot that becomes an agent is spent by all on its path.
LEMMA SpentHistory ==
  ASSUME NEW h \in History, NEW p, NEW c, c = Spent(h, p)
  PROVE  /\ c \in History
         /\ c.granted = h.granted /\ c.reserve = h.reserve
         /\ c.calls = h.calls /\ c.asked = h.asked
         /\ \A id \in Id : c.spent[id] = IF id \in Range(p) THEN h.spent[id] + 1 ELSE h.spent[id]
<1>1. /\ h.granted \in [Id -> Nat] /\ h.spent \in [Id -> Nat] /\ h.calls \in [Panel -> Nat]
      /\ h.reserve \in [Panel -> Nat] /\ h.asked \in SUBSET Branch
  BY DEF History
<1> DEFINE spent == [id \in Id |-> IF id \in Range(p) THEN h.spent[id] + 1 ELSE h.spent[id]]
<1>2. c = [h EXCEPT !.spent = spent]
  BY DEF Spent, History
<1>3. spent \in [Id -> Nat]
  BY <1>1
<1>4. /\ c.granted = h.granted /\ c.reserve = h.reserve
      /\ c.calls = h.calls /\ c.asked = h.asked /\ c.spent = spent
  BY <1>2 DEF History
<1>5. c \in History
  BY <1>1, <1>2, <1>3 DEF History
<1>6. QED
  BY <1>3, <1>4, <1>5

\* What remains of the history when reservations are released.
LEMMA LiveHistory ==
  ASSUME NEW h \in History, NEW ids, NEW c, c = OfLive(h, ids)
  PROVE  /\ c \in History
         /\ \A id \in Id : /\ id \in ids => c.granted[id] = h.granted[id]
                                            /\ c.spent[id] = h.spent[id]
                           /\ id \notin ids => c.granted[id] = 0 /\ c.spent[id] = 0
         /\ \A p \in Panel : /\ PanelId(p) \in ids => c.calls[p] = h.calls[p]
                                                      /\ c.reserve[p] = h.reserve[p]
                             /\ PanelId(p) \notin ids => c.calls[p] = 0
         /\ c.asked = h.asked \cap ids
BY DEF OfLive, History

\* The parts of an account.
LEMMA AccountIs ==
  /\ Account.root = rootFree /\ Account.live = live /\ Account.path = path
  /\ \A id : Held(Account, id) = {s \in Slot : path[s] # <<>> /\ Head(path[s]) = id}
  /\ AtRoot(Account) = Slot \ Reserved
BY DEF Account, Held, AtRoot, Reserved

\* A slot leaves its reservation and becomes an agent: the account of all that it
\* was drawn through holds, and nobody else's slots are touched.
LEMMA SpendLemma ==
  ASSUME AdmissionInvariant, NEW s \in Reserved, NEW h \in History,
         h.granted = history.granted, h.spent = history.spent,
         path' = [path EXCEPT ![s] = <<>>], history' = Spent(h, path[s]), live' = live
  PROVE  /\ path' \in [Slot -> Seq(Id)]
         /\ Cardinality(Reserved') + 1 = Cardinality(Reserved)
         /\ \A t \in Reserved' : Head(path[t])' \in live'
         /\ \A t \in Slot : path'[t] = path[t] \/ path'[t] = <<>>
         /\ BranchesReturn'
         /\ NoSlotStolen'
         /\ \A b \in live : b # Head(path[s]) => Held(Account, b)' = Held(Account, b)
<1>1. /\ s \in Slot /\ path \in [Slot -> Seq(Id)] /\ path[s] # <<>> /\ live \subseteq Id
      /\ history \in History
  BY DEF Reserved, AdmissionInvariant, TypeOK
<1>2. /\ path' \in [Slot -> Seq(Id)] /\ path'[s] = <<>>
      /\ \A t \in Slot : t # s => path'[t] = path[t]
  BY <1>1, EmptySeq
<1>3. Reserved \in SUBSET Slot /\ Reserved' = Reserved \ {s}
  BY <1>1, <1>2 DEF Reserved
<1>4. Cardinality(Reserved') + 1 = Cardinality(Reserved)
  BY <1>3, TakeSlot
<1>5. \A t \in Reserved' : Head(path[t])' \in live'
  BY <1>2, <1>3 DEF AdmissionInvariant, Conservation, Reserved
<1>6. DOMAIN path'[s] = {}
  BY <1>2
<1>7. BranchesReturn'
  <2>1. SUFFICES ASSUME NEW t \in Slot PROVE Returns(path'[t])
    BY DEF BranchesReturn, Returns, Branch, Panel, PanelId
  <2>2. CASE t = s
    BY <1>2, <1>6, <2>2 DEF Returns
  <2>3. CASE t # s
    BY <1>2, <2>3 DEF AdmissionInvariant, BranchesReturn
  <2>4. QED
    BY <2>2, <2>3
<1>8. NoSlotStolen'
  <2>1. SUFFICES ASSUME NEW id \in live
                 PROVE  history'.granted[id] = history'.spent[id] + Cardinality(Beneath(id)')
    BY DEF NoSlotStolen
  <2>2. /\ id \in Id /\ history'.granted = history.granted
        /\ history'.spent[id] = IF id \in Range(path[s]) THEN history.spent[id] + 1
                                ELSE history.spent[id]
    BY <1>1, SpentHistory
  <2>3. Beneath(id) \in SUBSET Slot /\ Beneath(id)' = Beneath(id) \ {s}
    <3>1. id \notin Range(path'[s])
      BY <1>6 DEF Range
    <3>2. QED
      BY <1>1, <1>2, <3>1 DEF Beneath
  <2>4. history.granted[id] = history.spent[id] + Cardinality(Beneath(id))
    BY DEF AdmissionInvariant, NoSlotStolen
  <2>5. CASE id \in Range(path[s])
    <3>1. s \in Beneath(id)
      BY <1>1, <2>5 DEF Beneath
    <3>2. Cardinality(Beneath(id)') + 1 = Cardinality(Beneath(id))
      BY <2>3, <3>1, TakeSlot
    <3>3. /\ history.spent[id] \in Nat /\ Cardinality(Beneath(id)) \in Nat
          /\ Cardinality(Beneath(id)') \in Nat
      BY <1>1, <2>2, <2>3, SlotSets DEF History
    <3>4. QED
      BY <2>2, <2>4, <2>5, <3>2, <3>3
  <2>6. CASE id \notin Range(path[s])
    <3>1. Beneath(id)' = Beneath(id)
      BY <2>3, <2>6 DEF Beneath
    <3>2. QED
      BY <2>2, <2>4, <2>6, <3>1
  <2>7. QED
    BY <2>5, <2>6
<1>9. ASSUME NEW b \in live, b # Head(path[s])
      PROVE  Held(Account, b)' = Held(Account, b)
  <2>1. /\ Held(Account, b) = {t \in Slot : path[t] # <<>> /\ Head(path[t]) = b}
        /\ Held(Account, b)' = {t \in Slot : path'[t] # <<>> /\ Head(path'[t]) = b}
    BY DEF Account, Held
  <2>2. QED
    BY <1>1, <1>2, <1>9, <2>1
<1>10. QED
  BY <1>2, <1>4, <1>5, <1>7, <1>8, <1>9

----------------------------------------------------------------------------
(***************************************************************************)
(* Calls.                                                                  *)
(***************************************************************************)
\* The reservations of a branch, and those of the script body.
LEMMA Named ==
  ASSUME NEW ctx \in Context
  PROVE  /\ ctx \notin Branch => ctx = Root /\ ReservationsOf(ctx) = <<>>
         /\ ctx \in Branch =>
              /\ ctx # Root /\ ctx[1] \in Panel /\ ctx \in Id
              /\ PanelId(ctx[1]) \in Id /\ PanelId(ctx[1]) \notin Branch
              /\ ReservationsOf(ctx) = <<ctx, PanelId(ctx[1])>>
              /\ ReservationsOf(ctx) \in Seq(Id)
              /\ DOMAIN ReservationsOf(ctx) = {1, 2}
              /\ Range(ReservationsOf(ctx)) = {ctx, PanelId(ctx[1])}
<1>1. CASE ctx \notin Branch
  BY <1>1 DEF Context, ReservationsOf
<1>2. CASE ctx \in Branch
  <2>1. /\ ctx \in Id /\ ctx[1] \in Panel /\ PanelId(ctx[1]) \in Id
        /\ PanelId(ctx[1]) \notin Branch
    BY <1>2, Ids
  <2>2. ctx # Root
    BY <1>2 DEF Root, Branch
  <2>3. ReservationsOf(ctx) = <<ctx, PanelId(ctx[1])>>
    BY <2>2 DEF ReservationsOf
  <2>4. /\ ReservationsOf(ctx) \in Seq(Id) /\ DOMAIN ReservationsOf(ctx) = {1, 2}
        /\ ReservationsOf(ctx)[1] = ctx /\ ReservationsOf(ctx)[2] = PanelId(ctx[1])
    BY <2>1, <2>3
  <2>5. Range(ReservationsOf(ctx)) = {ctx, PanelId(ctx[1])}
    BY <2>4 DEF Range
  <2>6. QED
    BY <1>2, <2>1, <2>2, <2>3, <2>4, <2>5
<1>3. QED
  BY <1>1, <1>2

\* What the count of the slots says: none are left unless there is room.
LEMMA Room ==
  ASSUME AdmissionInvariant
  PROVE  /\ rootFree \in Nat /\ consumed \in Nat /\ Cardinality(Reserved) \in Nat
         /\ maxAgents \in Nat
         /\ rootFree + consumed + Cardinality(Reserved) = maxAgents
BY SlotSets, AdmissionAssumption DEF AdmissionInvariant, TypeOK, Conservation, Reserved

\* The slot that a branch gets from its reservations is one of its panel's.
LEMMA OfThePanel ==
  ASSUME AdmissionInvariant, NEW ctx \in Context, NEW s \in Slot,
         Gives(ReservationsOf(ctx), s)
  PROVE  /\ ctx \in Branch /\ s \in Reserved
         /\ Head(path[s]) \in {ctx, PanelId(ctx[1])}
         /\ PanelId(ctx[1]) \in Range(path[s])
<1>1. PICK k \in DOMAIN ReservationsOf(ctx) : s \in Held(Account, ReservationsOf(ctx)[k])
  BY DEF Gives
<1>2. ctx \in Branch
  BY <1>1, Named
<1>3. s \in Reserved /\ Head(path[s]) \in {ctx, PanelId(ctx[1])}
  BY <1>1, <1>2, Named, AccountIs DEF Reserved
<1>4. path[s] \in Seq(Id)
  BY DEF AdmissionInvariant, TypeOK
<1>5. /\ path[s] # <<>> /\ Head(path[s]) = path[s][1] /\ Head(path[s]) \in Range(path[s])
      /\ DOMAIN path[s] = 1..Len(path[s]) /\ 1 \in DOMAIN path[s]
      /\ \A id : id \in Range(path[s]) <=> \E i \in 1..Len(path[s]) : path[s][i] = id
  BY <1>3, <1>4, OnPath DEF Reserved
<1>6. CASE Head(path[s]) = ctx
  <2>1. \E j \in DOMAIN path[s] : 1 < j /\ path[s][j] = PanelId(ctx[1])
    BY <1>2, <1>5, <1>6 DEF AdmissionInvariant, BranchesReturn, Returns
  <2>2. QED
    BY <1>2, <1>3, <1>5, <2>1
<1>7. CASE Head(path[s]) = PanelId(ctx[1])
  BY <1>2, <1>3, <1>5, <1>7
<1>8. QED
  BY <1>3, <1>6, <1>7

\* A call that takes a slot out of the reservations it was given.
LEMMA ConsumeReservedInvariant ==
  ASSUME AdmissionInvariant, NEW ctx \in Context, ConsumeReserved(ctx)
  PROVE  AdmissionInvariant'
<1>1. PICK s \in Slot : /\ Gives(ReservationsOf(ctx), s)
                        /\ path' = [path EXCEPT ![s] = <<>>]
                        /\ history' = Spent(Called(history, ctx), path[s])
  BY DEF ConsumeReserved
<1>2. /\ consumed' = consumed + 1 /\ rootFree' = rootFree /\ live' = live
      /\ contingent' = contingent /\ parents' = parents /\ nextPanel' = nextPanel
      /\ trace' = trace /\ ended' = ended
      /\ Live(ReservationsOf(ctx))
  BY DEF ConsumeReserved
<1>3. /\ ctx \in Branch /\ s \in Reserved /\ ctx[1] \in Panel
      /\ Head(path[s]) \in {ctx, PanelId(ctx[1])}
      /\ PanelId(ctx[1]) \in Range(path[s])
      /\ ctx \in live /\ PanelId(ctx[1]) \in live /\ PanelId(ctx[1]) \notin Branch
  BY <1>1, <1>2, OfThePanel, Named DEF Live
<1> DEFINE h == Called(history, ctx)
<1>4. /\ h \in History /\ h.granted = history.granted /\ h.spent = history.spent
      /\ h.reserve = history.reserve /\ h.asked = history.asked \cup {ctx}
      /\ \A p \in Panel : h.calls[p] = IF ctx[1] = p THEN history.calls[p] + 1
                                       ELSE history.calls[p]
  BY <1>3, CallHistory DEF AdmissionInvariant, TypeOK
<1>5. history' = Spent(h, path[s])
  BY <1>1
<1> HIDE DEF h
<1>6. /\ history' \in History
      /\ history'.granted = history.granted /\ history'.reserve = history.reserve
      /\ history'.calls = h.calls /\ history'.asked = history.asked \cup {ctx}
      /\ \A id \in Id : history'.spent[id] = IF id \in Range(path[s]) THEN history.spent[id] + 1
                                             ELSE history.spent[id]
  BY <1>4, <1>5, SpentHistory
<1>7. /\ path' \in [Slot -> Seq(Id)]
      /\ Cardinality(Reserved') + 1 = Cardinality(Reserved)
      /\ \A t \in Reserved' : Head(path[t])' \in live'
      /\ \A t \in Slot : path'[t] = path[t] \/ path'[t] = <<>>
      /\ BranchesReturn' /\ NoSlotStolen'
      /\ \A b \in live : b # Head(path[s]) => Held(Account, b)' = Held(Account, b)
  BY <1>1, <1>2, <1>3, <1>4, <1>5, SpendLemma
<1>8. Cardinality(Reserved') \in Nat
  BY SlotSets DEF Reserved
<1>9. TypeOK' /\ Conservation'
  <2>1. consumed' \in 0..maxAgents /\ rootFree' + consumed' + Cardinality(Reserved') = maxAgents
    <3>1. /\ rootFree \in Nat /\ consumed \in Nat /\ Cardinality(Reserved) \in Nat
          /\ maxAgents \in Nat
          /\ rootFree + consumed + Cardinality(Reserved) = maxAgents
      BY Room
    <3>2. /\ consumed' = consumed + 1 /\ rootFree' = rootFree
          /\ Cardinality(Reserved') + 1 = Cardinality(Reserved)
      BY <1>2, <1>7
    <3> QED
      BY <1>8, <3>1, <3>2
  <2>2. QED
    BY <1>2, <1>6, <1>7, <2>1 DEF AdmissionInvariant, TypeOK, Conservation
<1>10. FirstCallGuaranteed'
  <2>1. SUFFICES ASSUME NEW b \in live \cap Branch, b \notin history'.asked
                 PROVE  Cardinality(Held(Account, b)') >= history'.granted[b]
    BY <1>2 DEF FirstCallGuaranteed
  <2>2. b \notin history.asked /\ b # Head(path[s])
    BY <1>3, <1>6, <2>1
  <2>3. QED
    BY <1>6, <1>7, <2>1, <2>2 DEF AdmissionInvariant, FirstCallGuaranteed
<1>11. OnlyOpened'
  <2>1. ASSUME NEW t \in Slot, NEW i \in DOMAIN path'[t]
        PROVE  path'[t][i][1] \in 1..nextPanel
    <3>1. path'[t] = path[t]
      BY <1>7, <2>1
    <3>2. QED
      BY <2>1, <3>1 DEF AdmissionInvariant, OnlyOpened
  <2>2. ASSUME NEW id \in Id, id[1] > nextPanel PROVE id \notin Range(path[s])
    <3>1. SUFFICES ASSUME NEW i \in DOMAIN path[s], path[s][i] = id PROVE FALSE
      BY DEF Range
    <3>2. id[1] \in 1..nextPanel /\ nextPanel \in Nat
      BY <1>3, <3>1 DEF AdmissionInvariant, OnlyOpened, TypeOK, Reserved
    <3>3. QED
      BY <2>2, <3>2
  <2>3. QED
    BY <1>2, <1>6, <2>1, <2>2 DEF AdmissionInvariant, OnlyOpened
<1>12. CallsCovered'
  <2>1. SUFFICES ASSUME NEW p \in Panel
                 PROVE  IF PanelId(p) \in live
                        THEN history'.calls[p] + contingent[p] + history'.granted[PanelId(p)]
                               <= history'.spent[PanelId(p)] + history'.reserve[p]
                        ELSE history'.calls[p] = 0
    BY <1>2 DEF CallsCovered, PanelId
  <2>2. /\ PanelId(p) \in Id /\ history.calls[p] \in Nat /\ contingent[p] \in Nat
        /\ history.granted[PanelId(p)] \in Nat /\ history.spent[PanelId(p)] \in Nat
        /\ history.reserve[p] \in Nat
    BY Ids DEF AdmissionInvariant, TypeOK, History
  <2>3. IF PanelId(p) \in live
        THEN history.calls[p] + contingent[p] + history.granted[PanelId(p)]
               <= history.spent[PanelId(p)] + history.reserve[p]
        ELSE history.calls[p] = 0
    BY DEF AdmissionInvariant, CallsCovered
  <2>4. /\ history'.granted[PanelId(p)] = history.granted[PanelId(p)]
        /\ history'.reserve[p] = history.reserve[p]
    BY <1>6
  <2>5. CASE p = ctx[1]
    <3>1. /\ history'.calls[p] = history.calls[p] + 1
          /\ history'.spent[PanelId(p)] = history.spent[PanelId(p)] + 1
          /\ PanelId(p) \in live
      BY <1>3, <1>4, <1>6, <2>2, <2>5
    <3>2. QED
      BY <2>2, <2>3, <2>4, <3>1
  <2>6. CASE p # ctx[1]
    <3>1. history'.calls[p] = history.calls[p]
      BY <1>4, <1>6, <2>6
    <3>2. \/ history'.spent[PanelId(p)] = history.spent[PanelId(p)] + 1
          \/ history'.spent[PanelId(p)] = history.spent[PanelId(p)]
      BY <1>6, <2>2
    <3>3. QED
      BY <2>2, <2>3, <2>4, <3>1, <3>2
  <2>7. QED
    BY <2>5, <2>6
<1>13. ParentsAsked'
  BY <1>2, <1>3, <1>6 DEF AdmissionInvariant, ParentsAsked
<1>14. QED
  BY <1>7, <1>9, <1>10, <1>11, <1>12, <1>13 DEF AdmissionInvariant

\* A panel's call that draws upstream uses up one of its contingent slots.
LEMMA ContingentCovers ==
  ASSUME AdmissionInvariant, NEW ctx \in Branch, ctx \in live, PanelId(ctx[1]) \in live,
         contingent[ctx[1]] > 0, contingent' = [contingent EXCEPT ![ctx[1]] = @ - 1],
         live' = live, history' \in History, history'.granted = history.granted,
         history'.reserve = history.reserve,
         \A p \in Panel : history'.calls[p] = IF ctx[1] = p THEN history.calls[p] + 1
                                              ELSE history.calls[p],
         \A id \in Id : history'.spent[id] \in {history.spent[id], history.spent[id] + 1}
  PROVE  CallsCovered' /\ contingent' \in [Panel -> Nat]
<1>1. /\ contingent \in [Panel -> Nat] /\ ctx[1] \in Panel
      /\ contingent[ctx[1]] - 1 \in Nat
  BY Ids DEF AdmissionInvariant, TypeOK
<1>2. /\ contingent' \in [Panel -> Nat] /\ contingent'[ctx[1]] = contingent[ctx[1]] - 1
      /\ \A p \in Panel : p # ctx[1] => contingent'[p] = contingent[p]
  BY <1>1
<1>3. ASSUME NEW p \in Panel
      PROVE  IF PanelId(p) \in live
             THEN history'.calls[p] + contingent'[p] + history'.granted[PanelId(p)]
                    <= history'.spent[PanelId(p)] + history'.reserve[p]
             ELSE history'.calls[p] = 0
  <2>1. /\ PanelId(p) \in Id /\ history.calls[p] \in Nat /\ contingent[p] \in Nat
        /\ history.granted[PanelId(p)] \in Nat /\ history.spent[PanelId(p)] \in Nat
        /\ history.reserve[p] \in Nat
    BY Ids DEF AdmissionInvariant, TypeOK, History
  <2>2. IF PanelId(p) \in live
        THEN history.calls[p] + contingent[p] + history.granted[PanelId(p)]
               <= history.spent[PanelId(p)] + history.reserve[p]
        ELSE history.calls[p] = 0
    BY DEF AdmissionInvariant, CallsCovered
  <2>3. /\ history'.granted[PanelId(p)] = history.granted[PanelId(p)]
        /\ history'.reserve[p] = history.reserve[p]
        /\ history'.spent[PanelId(p)] \in
             {history.spent[PanelId(p)], history.spent[PanelId(p)] + 1}
    BY <2>1
  <2>4. CASE p = ctx[1]
    <3>1. /\ history'.calls[p] = history.calls[p] + 1 /\ contingent'[p] = contingent[p] - 1
          /\ PanelId(p) \in live
      BY <1>2, <2>4
    <3>2. QED
      BY <2>1, <2>2, <2>3, <3>1
  <2>5. CASE p # ctx[1]
    <3>1. history'.calls[p] = history.calls[p] /\ contingent'[p] = contingent[p]
      BY <1>2, <2>5
    <3>2. QED
      BY <2>1, <2>2, <2>3, <3>1
  <2>6. QED
    BY <2>4, <2>5
<1>4. QED
  BY <1>2, <1>3 DEF CallsCovered, PanelId

\* A call of a panel whose own slots are used up.
LEMMA ConsumeContingentInvariant ==
  ASSUME AdmissionInvariant, NEW ctx \in Branch, ConsumeContingent(ctx)
  PROVE  AdmissionInvariant'
<1> DEFINE p == ctx[1]
           h == Called(history, ctx)
<1>1. /\ consumed' = consumed + 1 /\ live' = live
      /\ parents' = parents /\ nextPanel' = nextPanel /\ trace' = trace /\ ended' = ended
      /\ Live(ReservationsOf(ctx)) /\ Live(parents[p])
      /\ contingent[p] > 0 /\ contingent' = [contingent EXCEPT ![p] = @ - 1]
  BY DEF ConsumeContingent
<1>2. /\ ctx \in Context /\ p \in Panel /\ ctx \in live /\ PanelId(p) \in live
  BY <1>1, Named, Ids DEF Live, Context
<1>3. /\ h \in History /\ h.granted = history.granted /\ h.spent = history.spent
      /\ h.reserve = history.reserve /\ h.asked = history.asked \cup {ctx}
      /\ \A q \in Panel : h.calls[q] = IF p = q THEN history.calls[q] + 1
                                       ELSE history.calls[q]
  BY <1>2, CallHistory DEF AdmissionInvariant, TypeOK
<1>4. /\ consumed' = consumed + 1 /\ rootFree \in Nat /\ consumed \in Nat
      /\ Cardinality(Reserved) \in Nat /\ Cardinality(Reserved') \in Nat
      /\ maxAgents \in Nat /\ rootFree + consumed + Cardinality(Reserved) = maxAgents
  BY <1>1, Room, SlotSets DEF Reserved
<1>5. history'.asked = history.asked \cup {ctx} => ParentsAsked'
  BY <1>1, <1>2 DEF AdmissionInvariant, ParentsAsked
<1>6. CASE \E s \in Slot : /\ Gives(parents[p], s)
                           /\ path' = [path EXCEPT ![s] = <<>>]
                           /\ history' = Spent(Called(history, ctx), path[s])
                           /\ UNCHANGED rootFree
  <2>1. PICK s \in Slot : /\ Gives(parents[p], s)
                          /\ path' = [path EXCEPT ![s] = <<>>]
                          /\ history' = Spent(h, path[s])
                          /\ rootFree' = rootFree
    BY <1>6
  <2> HIDE DEF h
  <2>2. PICK k \in DOMAIN parents[p] : s \in Held(Account, parents[p][k])
    BY <2>1 DEF Gives
  <2>3. s \in Reserved /\ Head(path[s]) = parents[p][k] /\ parents[p][k] \in live
    BY <1>1, <2>2, AccountIs DEF Live, Range, Reserved
  <2>4. \A b \in live \cap Branch : b \notin history.asked => b # Head(path[s])
    BY <1>2, <2>2, <2>3 DEF AdmissionInvariant, ParentsAsked
  <2>5. /\ history' \in History
        /\ history'.granted = history.granted /\ history'.reserve = history.reserve
        /\ history'.calls = h.calls /\ history'.asked = history.asked \cup {ctx}
        /\ \A id \in Id : history'.spent[id] = IF id \in Range(path[s])
                                               THEN history.spent[id] + 1
                                               ELSE history.spent[id]
    BY <1>3, <2>1, SpentHistory
  <2>6. /\ path' \in [Slot -> Seq(Id)]
        /\ Cardinality(Reserved') + 1 = Cardinality(Reserved)
        /\ \A t \in Reserved' : Head(path[t])' \in live'
        /\ \A t \in Slot : path'[t] = path[t] \/ path'[t] = <<>>
        /\ BranchesReturn' /\ NoSlotStolen'
        /\ \A b \in live : b # Head(path[s]) => Held(Account, b)' = Held(Account, b)
    BY <1>1, <1>3, <2>1, <2>3, SpendLemma
  <2>7. CallsCovered' /\ contingent' \in [Panel -> Nat]
    <3>1. \A id \in Id : history'.spent[id] \in {history.spent[id], history.spent[id] + 1}
      BY <2>5
    <3>2. \A q \in Panel : history'.calls[q] = IF ctx[1] = q THEN history.calls[q] + 1
                                               ELSE history.calls[q]
      BY <1>3, <2>5
    <3>3. QED
      BY <1>1, <1>2, <2>5, <3>1, <3>2, ContingentCovers
  <2>8. TypeOK' /\ Conservation'
    <3>1. consumed' \in 0..maxAgents /\ rootFree' + consumed' + Cardinality(Reserved') = maxAgents
      <4>1. rootFree' = rootFree /\ Cardinality(Reserved') + 1 = Cardinality(Reserved)
        BY <2>1, <2>6
      <4>2. QED
        BY <1>4, <4>1
    <3>2. QED
      BY <1>1, <2>1, <2>5, <2>6, <2>7, <3>1 DEF AdmissionInvariant, TypeOK, Conservation
  <2>9. FirstCallGuaranteed'
    <3>1. SUFFICES ASSUME NEW b \in live \cap Branch, b \notin history'.asked
                   PROVE  Cardinality(Held(Account, b)') >= history'.granted[b]
      BY <1>1 DEF FirstCallGuaranteed
    <3>2. b \notin history.asked /\ b # Head(path[s])
      BY <2>4, <2>5, <3>1
    <3>3. QED
      BY <2>5, <2>6, <3>1, <3>2 DEF AdmissionInvariant, FirstCallGuaranteed
  <2>10. OnlyOpened'
    <3>1. ASSUME NEW t \in Slot, NEW i \in DOMAIN path'[t]
          PROVE  path'[t][i][1] \in 1..nextPanel
      <4>1. path'[t] = path[t]
        BY <2>6, <3>1
      <4>2. QED
        BY <3>1, <4>1 DEF AdmissionInvariant, OnlyOpened
    <3>2. ASSUME NEW id \in Id, id[1] > nextPanel PROVE id \notin Range(path[s])
      <4>1. SUFFICES ASSUME NEW i \in DOMAIN path[s], path[s][i] = id PROVE FALSE
        BY DEF Range
      <4>2. id[1] \in 1..nextPanel /\ nextPanel \in Nat
        BY <4>1 DEF AdmissionInvariant, OnlyOpened, TypeOK
      <4>3. QED
        BY <3>2, <4>2
    <3>3. QED
      BY <1>1, <2>5, <3>1, <3>2 DEF AdmissionInvariant, OnlyOpened
  <2>11. QED
    BY <1>5, <2>5, <2>6, <2>7, <2>8, <2>9, <2>10 DEF AdmissionInvariant
<1>7. CASE /\ rootFree > 0 /\ rootFree' = rootFree - 1
           /\ history' = Called(history, ctx) /\ UNCHANGED path
  <2>1. history' = h /\ path' = path /\ rootFree' = rootFree - 1 /\ rootFree > 0
    BY <1>7
  <2> HIDE DEF h
  <2>2. Reserved' = Reserved /\ \A b \in live : Held(Account, b)' = Held(Account, b)
    BY <2>1 DEF Reserved, Held, Account
  <2>3. CallsCovered' /\ contingent' \in [Panel -> Nat]
    BY <1>1, <1>2, <1>3, <2>1, ContingentCovers
  <2>4. TypeOK' /\ Conservation'
    <3>1. /\ consumed' \in 0..maxAgents /\ rootFree' \in Nat
          /\ rootFree' + consumed' + Cardinality(Reserved') = maxAgents
      <4>1. rootFree' = rootFree - 1 /\ rootFree > 0 /\ Reserved' = Reserved
        BY <2>1, <2>2
      <4>2. QED
        BY <1>4, <4>1
    <3>2. QED
      BY <1>1, <1>3, <2>1, <2>2, <2>3, <3>1 DEF AdmissionInvariant, TypeOK, Conservation
  <2>5. NoSlotStolen' /\ FirstCallGuaranteed' /\ BranchesReturn'
    BY <1>1, <1>3, <2>1, <2>2
      DEF AdmissionInvariant, NoSlotStolen, FirstCallGuaranteed, BranchesReturn, Returns, Beneath
  <2>6. OnlyOpened'
    BY <1>1, <1>3, <2>1 DEF AdmissionInvariant, OnlyOpened
  <2>7. QED
    BY <1>3, <1>5, <2>1, <2>3, <2>4, <2>5, <2>6 DEF AdmissionInvariant
<1>8. QED
  BY <1>6, <1>7 DEF ConsumeContingent

\* A call of the script body takes one of the root's slots.
LEMMA ConsumeRootInvariant ==
  ASSUME AdmissionInvariant, ConsumeRoot
  PROVE  AdmissionInvariant'
<1>1. /\ rootFree > 0 /\ rootFree' = rootFree - 1 /\ consumed' = consumed + 1
      /\ live' = live /\ path' = path /\ contingent' = contingent /\ parents' = parents
      /\ nextPanel' = nextPanel /\ trace' = trace /\ ended' = ended /\ history' = history
  BY DEF ConsumeRoot
<1>2. Reserved' = Reserved /\ \A b : Held(Account, b)' = Held(Account, b)
  BY <1>1 DEF Reserved, Held, Account
<1>3. /\ consumed' \in 0..maxAgents /\ rootFree' \in Nat
      /\ rootFree' + consumed' + Cardinality(Reserved') = maxAgents
  <2>1. /\ rootFree \in Nat /\ consumed \in Nat /\ Cardinality(Reserved) \in Nat
        /\ maxAgents \in Nat /\ rootFree + consumed + Cardinality(Reserved) = maxAgents
    BY Room
  <2>2. QED
    BY <1>1, <1>2, <2>1
<1>4. TypeOK' /\ Conservation'
  BY <1>1, <1>2, <1>3 DEF AdmissionInvariant, TypeOK, Conservation
<1>5. NoSlotStolen' /\ FirstCallGuaranteed' /\ BranchesReturn'
  BY <1>1, <1>2
    DEF AdmissionInvariant, NoSlotStolen, FirstCallGuaranteed, BranchesReturn, Returns, Beneath
<1>6. OnlyOpened' /\ CallsCovered' /\ ParentsAsked'
  BY <1>1 DEF AdmissionInvariant, OnlyOpened, CallsCovered, ParentsAsked
<1>7. QED
  BY <1>4, <1>5, <1>6 DEF AdmissionInvariant

----------------------------------------------------------------------------
(***************************************************************************)
(* Releases.                                                               *)
(***************************************************************************)
\* The slots that leave a released reservation are where they would be without it,
\* and what is left is as it was.
LEMMA ReleaseLemma ==
  ASSUME AdmissionInvariant, NEW ids, Release(ids),
         consumed' = consumed, nextPanel' = nextPanel, trace' \in SUBSET trace,
         ended' \in BOOLEAN, \A id \in live \ ids : id[1] \in trace',
         ended' => trace' = {}
  PROVE  AdmissionInvariant'
<1> DEFINE left == live \ ids
           gone == {s \in Reserved : Onward(left, path[s]) = <<>>}
<1>1. /\ live \subseteq Id /\ path \in [Slot -> Seq(Id)] /\ history \in History
      /\ rootFree \in Nat /\ contingent \in [Panel -> Nat] /\ parents \in [Panel -> Seq(Id)]
      /\ nextPanel \in 0..panelBound /\ trace \subseteq 1..nextPanel
  BY DEF AdmissionInvariant, TypeOK
<1>2. /\ live' = left
      /\ path' = [s \in Slot |-> Onward(left, path[s])]
      /\ rootFree' = rootFree + Cardinality(gone)
  <2>1. {s \in Slot \ AtRoot(Account) : [t \in Slot |-> Onward(left, path[t])][s] = <<>>} = gone
    BY DEF AtRoot, Account, Reserved
  <2>2. QED
    BY <2>1 DEF Release, SetAccount, Released, Account
<1>3. /\ contingent' = [p \in Panel |-> IF PanelId(p) \in left THEN contingent[p] ELSE 0]
      /\ parents' = [p \in Panel |-> IF PanelId(p) \in left THEN parents[p] ELSE <<>>]
      /\ history' = OfLive(history, left)
  BY DEF Release, Released, Account
<1> HIDE DEF left
<1>4. /\ history' \in History
      /\ \A id \in Id : /\ id \in left => history'.granted[id] = history.granted[id]
                                          /\ history'.spent[id] = history.spent[id]
                        /\ id \notin left => history'.granted[id] = 0 /\ history'.spent[id] = 0
      /\ \A p \in Panel : /\ PanelId(p) \in left => history'.calls[p] = history.calls[p]
                                                   /\ history'.reserve[p] = history.reserve[p]
                          /\ PanelId(p) \notin left => history'.calls[p] = 0
      /\ history'.asked = history.asked \cap left
  BY <1>1, <1>3, LiveHistory
<1>5. left \subseteq live /\ left \subseteq Id /\ \A id \in left : id[1] \in trace'
  BY <1>1 DEF left
<1>6. ASSUME NEW s \in Slot
      PROVE  /\ path'[s] \in Seq(Id)
             /\ \A id : id \in Range(path'[s]) => id \in Range(path[s])
             /\ \A id \in left : id \in Range(path[s]) => id \in Range(path'[s])
             /\ path'[s] # <<>> => Head(path'[s]) \in left
             /\ path[s] # <<>> /\ Head(path[s]) \in left => path'[s] = path[s]
             /\ path[s] = <<>> => path'[s] = <<>>
             /\ Returns(path'[s])
  <2>1. path[s] \in Seq(Id) /\ path'[s] = Onward(left, path[s])
    BY <1>1, <1>2
  <2>2. Returns(path[s])
    BY DEF AdmissionInvariant, BranchesReturn
  <2>3. QED
    BY <2>1, <2>2, OnwardFacts
<1>7. path' \in [Slot -> Seq(Id)]
  BY <1>2, <1>6
<1>8. rootFree' \in Nat /\ rootFree' + consumed' + Cardinality(Reserved') = maxAgents
  <2>1. Reserved' = Reserved \ gone /\ gone \in SUBSET Reserved /\ Reserved \in SUBSET Slot
    BY <1>2, <1>6 DEF Reserved
  <2>2. Cardinality(Reserved \ gone) + Cardinality(gone) = Cardinality(Reserved)
    BY <2>1, TakeSlots
  <2>3. Cardinality(gone) \in Nat /\ Cardinality(Reserved \ gone) \in Nat
    BY <2>1, SlotSets
  <2>4. /\ rootFree \in Nat /\ consumed \in Nat /\ maxAgents \in Nat
        /\ rootFree + consumed + Cardinality(Reserved) = maxAgents
    BY Room
  <2>5. Cardinality(Reserved') = Cardinality(Reserved \ gone)
    BY <2>1
  <2> HIDE DEF gone
  <2>6. QED
    BY <1>2, <2>2, <2>3, <2>4, <2>5
<1>9. TypeOK' /\ Conservation'
  <2>1. contingent' \in [Panel -> Nat] /\ parents' \in [Panel -> Seq(Id)]
    BY <1>1, <1>3, EmptySeq
  <2>2. \A s \in Reserved' : Head(path'[s]) \in live'
    BY <1>2, <1>6 DEF Reserved
  <2>3. trace' \subseteq 1..nextPanel /\ consumed' \in 0..maxAgents
    BY <1>1 DEF AdmissionInvariant, TypeOK
  <2>4. QED
    BY <1>1, <1>2, <1>4, <1>5, <1>7, <1>8, <2>1, <2>2, <2>3 DEF TypeOK, Conservation
<1>10. NoSlotStolen'
  <2>1. SUFFICES ASSUME NEW id \in left
                 PROVE  history'.granted[id] = history'.spent[id] + Cardinality(Beneath(id)')
    BY <1>2 DEF NoSlotStolen
  <2>2. Beneath(id)' = Beneath(id)
    BY <1>6 DEF Beneath
  <2>3. QED
    BY <1>4, <1>5, <2>2 DEF AdmissionInvariant, NoSlotStolen
<1>11. FirstCallGuaranteed'
  <2>1. SUFFICES ASSUME NEW b \in left \cap Branch, b \notin history'.asked
                 PROVE  Cardinality(Held(Account, b)') >= history'.granted[b]
    BY <1>2 DEF FirstCallGuaranteed
  <2>2. b \notin history.asked /\ b \in live /\ history'.granted[b] = history.granted[b]
    BY <1>4, <1>5, <2>1
  <2>3. Cardinality(Held(Account, b)) >= history.granted[b]
    BY <2>1, <2>2 DEF AdmissionInvariant, FirstCallGuaranteed
  <2>4. /\ Held(Account, b) \in SUBSET Held(Account, b)'
        /\ Held(Account, b)' \in SUBSET Slot /\ Held(Account, b) \in SUBSET Slot
    BY <1>6, <2>1 DEF Held, Account
  <2>5. /\ Cardinality(Held(Account, b)) <= Cardinality(Held(Account, b)')
        /\ Cardinality(Held(Account, b)) \in Nat /\ Cardinality(Held(Account, b)') \in Nat
    BY <2>4, SlotSets, FS_Subset
  <2>6. history.granted[b] \in Nat
    BY <1>1, <1>5, <2>1 DEF History
  <2>7. QED
    BY <2>2, <2>3, <2>5, <2>6
<1>12. OnlyOpened'
  <2>1. ASSUME NEW s \in Slot, NEW i \in DOMAIN path'[s]
        PROVE  path'[s][i][1] \in 1..nextPanel
    <3>1. path'[s][i] \in Range(path[s])
      BY <1>6, <2>1 DEF Range
    <3>2. PICK j \in DOMAIN path[s] : path[s][j] = path'[s][i]
      BY <3>1 DEF Range
    <3>3. QED
      BY <3>2 DEF AdmissionInvariant, OnlyOpened
  <2>2. ASSUME NEW id \in Id, id[1] > nextPanel
        PROVE  history'.granted[id] = 0 /\ history'.spent[id] = 0
    BY <1>4, <2>2 DEF AdmissionInvariant, OnlyOpened
  <2>3. QED
    BY <1>2, <1>5, <2>1, <2>2 DEF OnlyOpened
<1>13. CallsCovered'
  <2>1. SUFFICES ASSUME NEW p \in Panel
                 PROVE  IF PanelId(p) \in left
                        THEN history'.calls[p] + contingent'[p] + history'.granted[PanelId(p)]
                               <= history'.spent[PanelId(p)] + history'.reserve[p]
                        ELSE history'.calls[p] = 0
    BY <1>2 DEF CallsCovered, PanelId
  <2>2. CASE PanelId(p) \in left
    <3>1. /\ history'.calls[p] = history.calls[p] /\ history'.reserve[p] = history.reserve[p]
          /\ history'.granted[PanelId(p)] = history.granted[PanelId(p)]
          /\ history'.spent[PanelId(p)] = history.spent[PanelId(p)]
          /\ contingent'[p] = contingent[p] /\ PanelId(p) \in live
      BY <1>3, <1>4, <1>5, <2>2
    <3>2. QED
      BY <2>2, <3>1 DEF AdmissionInvariant, CallsCovered
  <2>3. CASE PanelId(p) \notin left
    BY <1>4, <2>3
  <2>4. QED
    BY <2>2, <2>3
<1>14. ParentsAsked'
  <2>1. ASSUME NEW p \in Panel, NEW i \in DOMAIN parents'[p]
        PROVE  /\ parents'[p][i] \in left \cap Branch => parents'[p][i] \in history'.asked
               /\ parents'[p][i][1] \in 1..nextPanel
    <3>1. parents'[p] = parents[p]
      <4>1. parents'[p] = parents[p] \/ parents'[p] = <<>>
        BY <1>3
      <4>2. QED
        BY <2>1, <4>1
    <3>2. QED
      BY <1>4, <1>5, <2>1, <3>1 DEF AdmissionInvariant, ParentsAsked
  <2>2. QED
    BY <1>2, <1>4, <2>1 DEF ParentsAsked
<1>15. BranchesReturn'
  BY <1>6 DEF BranchesReturn, Returns, Branch, Panel, PanelId
<1>16. QED
  BY <1>9, <1>10, <1>11, <1>12, <1>13, <1>14, <1>15 DEF AdmissionInvariant

\* A branch is released, a panel with what is left of it, or all of them.
LEMMA ReleasesInvariant ==
  ASSUME AdmissionInvariant,
         (\E b \in Branch : ReleaseBranch(b)) \/ (\E p \in Panel : ReleasePanel(p)) \/ Drain
  PROVE  AdmissionInvariant'
<1>1. /\ live \subseteq Id /\ \A id \in live : id[1] \in trace
      /\ ended \in BOOLEAN
      /\ ended => trace = {}
  BY DEF AdmissionInvariant, TypeOK, OnlyOpened
<1>2. ASSUME NEW b \in Branch, ReleaseBranch(b) PROVE AdmissionInvariant'
  <2>1. /\ Release({b}) /\ consumed' = consumed /\ nextPanel' = nextPanel
        /\ trace' = trace /\ ended' = ended
    BY <1>2 DEF ReleaseBranch
  <2>2. trace' \in SUBSET trace /\ \A id \in live \ {b} : id[1] \in trace'
    BY <1>1, <2>1
  <2>3. ended' \in BOOLEAN
    BY <1>1, <2>1
  <2>4. ended' => trace' = {}
    BY <1>1, <2>1
  <2>5. QED
    BY <2>1, <2>2, <2>3, <2>4, ReleaseLemma
<1>3. ASSUME NEW p \in Panel, ReleasePanel(p) PROVE AdmissionInvariant'
  <2>1. /\ Release(IdsOf(p)) /\ consumed' = consumed /\ nextPanel' = nextPanel
        /\ trace' = trace \ {p} /\ ended' = ended /\ ~ended
    BY <1>3 DEF ReleasePanel
  <2>2. \A id \in live \ IdsOf(p) : id[1] \in trace'
    BY <1>1, <2>1 DEF IdsOf
  <2>3. trace' \in SUBSET trace
    BY <2>1
  <2>4. ended' \in BOOLEAN
    BY <1>1, <2>1
  <2>5. ended' => trace' = {}
    BY <1>1, <2>1
  <2>6. QED
    BY <2>1, <2>2, <2>3, <2>4, <2>5, ReleaseLemma
<1>4. CASE Drain
  <2> DEFINE ids == UNION {IdsOf(p) : p \in trace}
  <2>1. /\ Release(ids) /\ consumed' = consumed /\ nextPanel' = nextPanel
        /\ trace' = {} /\ ended' = TRUE
    BY <1>4 DEF Drain
  <2>2. live \ ids = {}
    BY <1>1 DEF IdsOf
  <2> HIDE DEF ids
  <2>3. QED
    BY <1>1, <2>1, <2>2, ReleaseLemma
<1>5. QED
  BY <1>2, <1>3, <1>4

----------------------------------------------------------------------------
(***************************************************************************)
(* Panels.                                                                 *)
(***************************************************************************)
\* The branches of a panel, and how its reservation is split.
LEMMA ShapeFacts ==
  ASSUME NEW needs \in BoundedSeq(BOOLEAN, branchBound), NEW reserve \in Nat, NEW credit,
         NEW n \in Nat, n = LiveSlots(needs, reserve, credit)
  PROVE  /\ DOMAIN needs \subseteq 1..branchBound
         /\ ContingentSlots(needs, reserve, credit) + n = reserve
<1>1. PICK m \in 0..branchBound : needs \in [1..m -> BOOLEAN]
  BY DEF BoundedSeq, SeqOf
<1>2. DOMAIN needs = 1..m /\ m \in Nat /\ m <= branchBound /\ branchBound \in Nat
  BY <1>1, AdmissionAssumption
<1>3. DOMAIN needs \subseteq 1..branchBound
  BY <1>2
<1>4. ContingentSlots(needs, reserve, credit) = reserve - n
  BY DEF ContingentSlots
<1>5. QED
  BY <1>3, <1>4

\* Nothing mentions the next panel yet.
LEMMA Fresh ==
  ASSUME AdmissionInvariant, NEW p \in Panel, p = nextPanel + 1
  PROVE  /\ \A id \in live : id[1] \in 1..nextPanel /\ id[1] # p
         /\ \A s \in Slot : \A id \in Range(path[s]) : id[1] \in 1..nextPanel /\ id[1] # p
         /\ \A id \in Id : id[1] = p => history.granted[id] = 0 /\ history.spent[id] = 0
         /\ history.calls[p] = 0
         /\ \A q \in Panel : \A i \in DOMAIN parents[q] :
              parents[q][i][1] \in 1..nextPanel /\ parents[q][i][1] # p
         /\ nextPanel \in Nat
<1>1. nextPanel \in Nat /\ p > nextPanel /\ \A k \in 1..nextPanel : k # p
  BY DEF AdmissionInvariant, TypeOK
<1>2. \A id \in live : id[1] \in 1..nextPanel
  BY DEF AdmissionInvariant, TypeOK, OnlyOpened
<1>3. \A s \in Slot : \A id \in Range(path[s]) : id[1] \in 1..nextPanel
  BY DEF AdmissionInvariant, OnlyOpened, Range
<1>4. \A id \in Id : id[1] = p => history.granted[id] = 0 /\ history.spent[id] = 0
  BY <1>1 DEF AdmissionInvariant, OnlyOpened
<1>5. history.calls[p] = 0
  <2>1. PanelId(p) \notin live
    BY <1>1, <1>2, Ids
  <2>2. QED
    BY <2>1 DEF AdmissionInvariant, CallsCovered
<1>6. \A q \in Panel : \A i \in DOMAIN parents[q] : parents[q][i][1] \in 1..nextPanel
  BY DEF AdmissionInvariant, ParentsAsked
<1>7. QED
  BY <1>1, <1>2, <1>3, <1>4, <1>5, <1>6

\* A slot that the panel drew keeps the way back that it had.
LEMMA DrawnPanelSlot ==
  ASSUME AdmissionInvariant, NEW p \in Panel, p = nextPanel + 1, NEW s \in Slot, NEW r,
         r = Via(PanelId(p), path[s])
  PROVE  /\ r \in Seq(Id) /\ r # <<>> /\ Head(r) = PanelId(p)
         /\ \A id \in Id : id \in Range(r) <=> id \in Range(path[s]) \/ id = PanelId(p)
         /\ \A k \in DOMAIN r : r[k][1] \in 1..p
         /\ Returns(r)
         /\ Onward(live, r) = path[s]
<1>1. /\ path[s] \in Seq(Id) /\ PanelId(p) \in Id /\ PanelId(p) \notin Branch
      /\ PanelId(p)[1] = p
  BY Ids DEF AdmissionInvariant, TypeOK
<1>2. /\ Len(path[s]) \in Nat /\ DOMAIN path[s] = 1..Len(path[s])
      /\ p \in Nat /\ \A k \in 1..nextPanel : k \in 1..p
  BY <1>1, OnPath DEF AdmissionInvariant, TypeOK, Panel
<1>3. /\ r \in Seq(Id) /\ r # <<>> /\ Head(r) = PanelId(p) /\ Len(r) = Len(path[s]) + 1
      /\ r[1] = PanelId(p) /\ \A k \in 1..Len(path[s]) : r[k + 1] = path[s][k]
      /\ \A id : id \in Range(r) <=> id = PanelId(p) \/ id \in Range(path[s])
  <2>1. PICK x \in Id, w \in Seq(Id) : x = PanelId(p) /\ w = path[s]
    BY <1>1
  <2>2. r = Via(x, w)
    BY <2>1
  <2>3. r \in Seq(Id) /\ r # <<>>
    BY <2>2, InFront
  <2>4. Head(r) = x /\ Len(r) = Len(w) + 1
    BY <2>2, InFront
  <2>5. r[1] = x
    BY <2>2, InFront
  <2>6. \A k \in 1..Len(w) : r[k + 1] = w[k]
    <3>1. \A k \in 1..Len(w) : Via(x, w)[k + 1] = w[k]
      BY InFront
    <3>2. QED
      BY <2>2, <3>1
  <2>7. \A id : id \in Range(r) <=> id = x \/ id \in Range(w)
    BY <2>2, InFront
  <2>8. QED
    BY <2>1, <2>3, <2>4, <2>5, <2>6, <2>7
<1>4. PanelId(p) \notin live
  BY <1>1, Fresh
<1>5. Onward(live, path[s]) = path[s]
  <2>1. path[s] # <<>> => Head(path[s]) \in live
    BY DEF AdmissionInvariant, Conservation, Reserved
  <2>2. QED
    BY <1>1, <2>1, OnwardFacts
<1>6. Onward(live, r) = path[s]
  BY <1>1, <1>4, <1>5, PastTheDead
<1>7. DOMAIN r = 1..Len(r)
  BY <1>3, OnPath
<1>8. \A k \in 1..Len(r) : k = 1 \/ (k - 1 \in 1..Len(path[s]) /\ r[k] = path[s][k - 1])
  <2>1. SUFFICES ASSUME NEW k \in 1..Len(r), k # 1
                 PROVE  k - 1 \in 1..Len(path[s]) /\ r[k] = path[s][k - 1]
    OBVIOUS
  <2>2. k - 1 \in 1..Len(path[s]) /\ (k - 1) + 1 = k
    BY <1>2, <1>3, <2>1
  <2>3. QED
    BY <1>3, <2>2
<1>9. \A k \in DOMAIN r : r[k][1] \in 1..p
  <2>1. \A k \in DOMAIN path[s] : path[s][k][1] \in 1..p
    BY <1>2 DEF AdmissionInvariant, OnlyOpened
  <2>2. SUFFICES ASSUME NEW k \in DOMAIN r PROVE r[k][1] \in 1..p
    OBVIOUS
  <2>3. CASE k = 1
    <3>1. r[k][1] = p /\ p \in 1..p
      BY <1>1, <1>2, <1>3, <2>3 DEF Panel
    <3>2. QED
      BY <3>1
  <2>4. CASE k # 1
    BY <1>2, <1>7, <1>8, <2>1, <2>4
  <2>5. QED
    BY <2>3, <2>4
<1>10. Returns(r)
  <2>1. SUFFICES ASSUME NEW k \in DOMAIN r, r[k] \in Branch
                 PROVE  \E j \in DOMAIN r : k < j /\ r[j] = PanelId(r[k][1])
    BY DEF Returns
  <2>2. k - 1 \in DOMAIN path[s] /\ r[k] = path[s][k - 1] /\ k \in Nat
    BY <1>1, <1>2, <1>3, <1>7, <1>8, <2>1
  <2>3. PICK j \in DOMAIN path[s] : k - 1 < j /\ path[s][j] = PanelId(r[k][1])
    BY <2>1, <2>2 DEF AdmissionInvariant, BranchesReturn, Returns
  <2>4. j + 1 \in DOMAIN r /\ k < j + 1
    BY <1>2, <1>3, <1>7, <2>2, <2>3
  <2>5. QED
    BY <1>2, <1>3, <2>3, <2>4
<1>11. QED
  BY <1>3, <1>6, <1>9, <1>10

\* So does one that is set aside for a branch, by way of the panel.
LEMMA DrawnBranchSlot ==
  ASSUME AdmissionInvariant, NEW p \in Panel, p = nextPanel + 1, NEW s \in Slot, NEW q,
         NEW i \in 1..branchBound, q = Via(BranchId(p, i), Via(PanelId(p), path[s]))
  PROVE  /\ q # <<>> /\ Head(q) = BranchId(p, i)
         /\ \A id \in Id : id \in Range(q) <=>
              \/ id \in Range(path[s]) \/ id = PanelId(p) \/ id = BranchId(p, i)
         /\ \A k \in DOMAIN q : q[k][1] \in 1..p
         /\ Returns(q)
         /\ Onward(live, q) = path[s]
<1>1. PICK r : r = Via(PanelId(p), path[s])
  OBVIOUS
<1>2. /\ r \in Seq(Id) /\ r # <<>> /\ Head(r) = PanelId(p)
      /\ \A id \in Id : id \in Range(r) <=> id \in Range(path[s]) \/ id = PanelId(p)
      /\ \A k \in DOMAIN r : r[k][1] \in 1..p
      /\ Returns(r)
      /\ Onward(live, r) = path[s]
  <2>1. r \in Seq(Id) /\ r # <<>> /\ Head(r) = PanelId(p)
    BY <1>1, DrawnPanelSlot
  <2>2. \A id \in Id : id \in Range(r) <=> id \in Range(path[s]) \/ id = PanelId(p)
    BY <1>1, DrawnPanelSlot
  <2>3. \A k \in DOMAIN r : r[k][1] \in 1..p
    BY <1>1, DrawnPanelSlot
  <2>4. Returns(r)
    BY <1>1, DrawnPanelSlot
  <2>5. Onward(live, r) = path[s]
    BY <1>1, DrawnPanelSlot
  <2>6. QED
    BY <2>1, <2>2, <2>3, <2>4, <2>5
<1>3. BranchId(p, i) \in Id /\ BranchId(p, i)[1] = p /\ p \in 1..p
  BY Ids DEF Branch, Id, Panel
<1>4. BranchId(p, i) \notin live
  BY <1>3, Fresh
<1>5. PICK x \in Id : x = BranchId(p, i)
  BY <1>3
<1>6. q = Via(x, r)
  BY <1>1, <1>5
<1>7. /\ q \in Seq(Id) /\ q # <<>> /\ Head(q) = x /\ Len(q) = Len(r) + 1
      /\ q[1] = x /\ \A k \in 1..Len(r) : q[k + 1] = r[k]
      /\ \A id : id \in Range(q) <=> id = x \/ id \in Range(r)
  BY <1>2, <1>6, InFront
<1>8. /\ DOMAIN q = 1..Len(q) /\ DOMAIN r = 1..Len(r) /\ Len(r) \in Nat /\ Len(r) > 0
      /\ r[1] = Head(r)
  BY <1>2, <1>7, OnPath
<1>9. Onward(live, q) = path[s]
  BY <1>2, <1>4, <1>5, <1>6, PastTheDead
<1>10. ASSUME NEW k \in DOMAIN q, k # 1
       PROVE  k - 1 \in DOMAIN r /\ q[k] = r[k - 1] /\ k \in Nat
  <2>1. k - 1 \in 1..Len(r) /\ (k - 1) + 1 = k /\ k \in Nat
    BY <1>7, <1>8, <1>10
  <2>2. q[(k - 1) + 1] = r[k - 1]
    BY <1>7, <2>1
  <2>3. QED
    BY <1>8, <2>1, <2>2
<1>11. ASSUME NEW k \in DOMAIN q PROVE q[k][1] \in 1..p
  <2>1. CASE k = 1
    BY <1>3, <1>5, <1>7, <2>1
  <2>2. CASE k # 1
    BY <1>2, <1>10, <2>2
  <2>3. QED
    BY <2>1, <2>2
<1>12. Returns(q)
  <2>1. SUFFICES ASSUME NEW k \in DOMAIN q, q[k] \in Branch
                 PROVE  \E j \in DOMAIN q : k < j /\ q[j] = PanelId(q[k][1])
    BY DEF Returns
  <2>2. CASE k = 1
    <3>1. 1 \in 1..Len(r) /\ 1 + 1 \in DOMAIN q /\ 1 < 1 + 1
      BY <1>7, <1>8
    <3>2. q[1 + 1] = PanelId(p)
      BY <1>2, <1>7, <1>8, <3>1
    <3>3. q[k][1] = p
      BY <1>3, <1>5, <1>7, <2>2
    <3>4. QED
      BY <2>2, <3>1, <3>2, <3>3
  <2>3. CASE k # 1
    <3>1. k - 1 \in DOMAIN r /\ q[k] = r[k - 1] /\ k \in Nat
      BY <1>10, <2>3
    <3>2. PICK j \in DOMAIN r : k - 1 < j /\ r[j] = PanelId(q[k][1])
      BY <1>2, <2>1, <3>1 DEF Returns
    <3>3. j \in 1..Len(r) /\ q[j + 1] = r[j]
      BY <1>7, <1>8
    <3>4. j + 1 \in DOMAIN q /\ k < j + 1
      BY <1>7, <1>8, <3>1, <3>2, <3>3
    <3>5. QED
      BY <3>2, <3>3, <3>4
  <2>4. QED
    BY <2>2, <2>3
<1>13. QED
  BY <1>2, <1>5, <1>7, <1>9, <1>11, <1>12

\* The paths after panel p has drawn these slots and set one aside for each branch
\* that needs one.
Opens(to, p, drawn, needy, first) ==
  /\ \A s \in Slot \ drawn : to[s] = path[s]
  /\ \A s \in drawn :
       \/ /\ \A i \in needy : first[i] # s
          /\ to[s] = Via(PanelId(p), path[s])
       \/ \E i \in needy :
            /\ first[i] = s /\ \A j \in needy : first[j] = s => j = i
            /\ to[s] = Via(BranchId(p, i), Via(PanelId(p), path[s]))

\* What the opened panel's slots and the others look like, one by one.
Opened(to, p, drawn, needy, first) ==
  /\ \A s \in drawn : /\ to[s] # <<>>
                      /\ \/ Head(to[s]) = PanelId(p)
                         \/ \E i \in needy : Head(to[s]) = BranchId(p, i)
  /\ \A s \in drawn : \A id \in Id : id \in Range(to[s]) <=>
       \/ id \in Range(path[s]) \/ id = PanelId(p)
       \/ \E i \in needy : id = BranchId(p, i) /\ first[i] = s
  /\ \A i \in needy : first[i] \in drawn /\ Head(to[first[i]]) = BranchId(p, i)
  /\ \A s \in Slot : \A k \in DOMAIN to[s] : to[s][k][1] \in 1..p
  /\ \A s \in Slot : Returns(to[s])
  /\ \A s \in Slot : Onward(live, to[s]) = path[s]

\* They keep the ways back that they had.
LEMMA OpenedSlots ==
  ASSUME AdmissionInvariant, NEW p \in Panel, p = nextPanel + 1, NEW drawn \in SUBSET Slot,
         NEW needy \in SUBSET (1..branchBound), NEW first \in [needy -> drawn],
         NEW to, Opens(to, p, drawn, needy, first)
  PROVE  Opened(to, p, drawn, needy, first)
<1>1. /\ \A s \in Slot \ drawn : to[s] = path[s]
      /\ \A s \in drawn :
           \/ /\ \A i \in needy : first[i] # s
              /\ to[s] = Via(PanelId(p), path[s])
           \/ \E i \in needy :
                /\ first[i] = s /\ \A j \in needy : first[j] = s => j = i
                /\ to[s] = Via(BranchId(p, i), Via(PanelId(p), path[s]))
  BY DEF Opens
<1>2. /\ \A i \in needy : first[i] \in drawn
      /\ \A i \in needy : i \in 1..branchBound
  OBVIOUS
<1>3. ASSUME NEW s \in drawn
      PROVE  /\ to[s] # <<>>
             /\ Head(to[s]) = PanelId(p) \/ \E i \in needy : Head(to[s]) = BranchId(p, i)
             /\ \A id \in Id : id \in Range(to[s]) <=>
                  \/ id \in Range(path[s]) \/ id = PanelId(p)
                  \/ \E i \in needy : id = BranchId(p, i) /\ first[i] = s
             /\ \A i \in needy : first[i] = s => Head(to[s]) = BranchId(p, i)
             /\ \A k \in DOMAIN to[s] : to[s][k][1] \in 1..p
             /\ Returns(to[s])
             /\ Onward(live, to[s]) = path[s]
  <2> DEFINE q == to[s]
  <2>1. CASE /\ \A i \in needy : first[i] # s
             /\ q = Via(PanelId(p), path[s])
    <3>1. s \in Slot
      OBVIOUS
    <3> HIDE DEF q
    <3>2. q # <<>> /\ Head(q) = PanelId(p)
      BY <2>1, <3>1, DrawnPanelSlot
    <3>3. \A id \in Id : id \in Range(q) <=> id \in Range(path[s]) \/ id = PanelId(p)
      BY <2>1, <3>1, DrawnPanelSlot
    <3>4. \A k \in DOMAIN q : q[k][1] \in 1..p
      BY <2>1, <3>1, DrawnPanelSlot
    <3>5. Returns(q)
      BY <2>1, <3>1, DrawnPanelSlot
    <3>6. Onward(live, q) = path[s]
      BY <2>1, <3>1, DrawnPanelSlot
    <3>7. QED
      BY <2>1, <3>2, <3>3, <3>4, <3>5, <3>6 DEF q
  <2>2. ASSUME NEW i \in needy, first[i] = s, \A j \in needy : first[j] = s => j = i,
               q = Via(BranchId(p, i), Via(PanelId(p), path[s]))
        PROVE  /\ q # <<>>
               /\ Head(q) = PanelId(p) \/ \E j \in needy : Head(q) = BranchId(p, j)
               /\ \A id \in Id : id \in Range(q) <=>
                    \/ id \in Range(path[s]) \/ id = PanelId(p)
                    \/ \E j \in needy : id = BranchId(p, j) /\ first[j] = s
               /\ \A j \in needy : first[j] = s => Head(q) = BranchId(p, j)
               /\ \A k \in DOMAIN q : q[k][1] \in 1..p
               /\ Returns(q)
               /\ Onward(live, q) = path[s]
    <3>1. i \in 1..branchBound /\ s \in Slot
      BY <1>2
    <3> HIDE DEF q
    <3>2. q # <<>> /\ Head(q) = BranchId(p, i)
      <4>1. q # <<>>
        BY <2>2, <3>1, DrawnBranchSlot
      <4>2. Head(q) = BranchId(p, i)
        BY <2>2, <3>1, DrawnBranchSlot
      <4>3. QED
        BY <4>1, <4>2
    <3>3. \A id \in Id : id \in Range(q) <=>
            \/ id \in Range(path[s]) \/ id = PanelId(p) \/ id = BranchId(p, i)
      BY <2>2, <3>1, DrawnBranchSlot
    <3>4. \A k \in DOMAIN q : q[k][1] \in 1..p
      BY <2>2, <3>1, DrawnBranchSlot
    <3>5. Returns(q)
      BY <2>2, <3>1, DrawnBranchSlot
    <3>6. Onward(live, q) = path[s]
      BY <2>2, <3>1, DrawnBranchSlot
    <3>7. \A j \in needy : first[j] = s => Head(q) = BranchId(p, j)
      BY <2>2, <3>2
    <3>8. \A id \in Id : id \in Range(q) <=>
            \/ id \in Range(path[s]) \/ id = PanelId(p)
            \/ \E j \in needy : id = BranchId(p, j) /\ first[j] = s
      BY <2>2, <3>3
    <3>9. QED
      BY <3>2, <3>4, <3>5, <3>6, <3>7, <3>8
  <2>3. \/ /\ \A i \in needy : first[i] # s
           /\ q = Via(PanelId(p), path[s])
        \/ \E i \in needy :
             /\ first[i] = s /\ \A j \in needy : first[j] = s => j = i
             /\ q = Via(BranchId(p, i), Via(PanelId(p), path[s]))
    BY <1>1
  <2> HIDE DEF q
  <2>4. CASE /\ \A i \in needy : first[i] # s
             /\ q = Via(PanelId(p), path[s])
    BY <2>1, <2>4 DEF q
  <2>5. CASE \E i \in needy :
               /\ first[i] = s /\ \A j \in needy : first[j] = s => j = i
               /\ q = Via(BranchId(p, i), Via(PanelId(p), path[s]))
    BY <2>2, <2>5 DEF q
  <2>6. QED
    BY <2>3, <2>4, <2>5
<1>4. ASSUME NEW s \in Slot \ drawn
      PROVE  /\ \A k \in DOMAIN path[s] : path[s][k][1] \in 1..p
             /\ Returns(path[s])
             /\ Onward(live, path[s]) = path[s]
  <2>1. path[s] \in Seq(Id) /\ nextPanel \in Nat
    BY DEF AdmissionInvariant, TypeOK
  <2>2. \A k \in DOMAIN path[s] : path[s][k][1] \in 1..nextPanel
    BY DEF AdmissionInvariant, OnlyOpened
  <2>3. \A k \in 1..nextPanel : k \in 1..p
    BY <2>1
  <2>4. path[s] # <<>> => Head(path[s]) \in live
    BY DEF AdmissionInvariant, Conservation, Reserved
  <2>5. Onward(live, path[s]) = path[s]
    BY <2>1, <2>4, OnwardFacts
  <2>6. QED
    BY <2>2, <2>3, <2>5 DEF AdmissionInvariant, BranchesReturn
<1>5. \A s \in Slot : /\ \A k \in DOMAIN to[s] : to[s][k][1] \in 1..p
                      /\ Onward(live, to[s]) = path[s]
  BY <1>1, <1>3, <1>4
<1>6. \A s \in Slot : Returns(to[s])
  BY <1>1, <1>3, <1>4
<1>7. QED
  BY <1>2, <1>3, <1>5, <1>6 DEF Opened

\* What the history says of a panel that was opened.
PanelHistory(h, ctx, p, n, needy, reserve) ==
  /\ h \in History
  /\ h.spent = history.spent /\ h.calls = history.calls
  /\ h.asked = history.asked \cup ({ctx} \ {Root})
  /\ \A q \in Panel : h.reserve[q] = IF q = p THEN reserve ELSE history.reserve[q]
  /\ \A id \in Id : h.granted[id] =
       IF id = PanelId(p) THEN n ELSE IF id \in BranchesOf(p, needy) THEN 1
       ELSE history.granted[id]

\* That a branch has asked is all that changes.
LEMMA AskedHistory ==
  ASSUME AdmissionInvariant, NEW ctx \in Context, NEW h, h = Asked(history, ctx)
  PROVE  /\ h \in History
         /\ h.spent = history.spent /\ h.calls = history.calls
         /\ h.granted = history.granted /\ h.reserve = history.reserve
         /\ h.asked = history.asked \cup ({ctx} \ {Root})
<1>1. history \in History /\ ({ctx} \ {Root}) \subseteq Branch
  BY DEF AdmissionInvariant, TypeOK, Context
<1>2. QED
  BY <1>1 DEF Asked, History

\* A panel's opening records what it was granted.
LEMMA OpenHistory ==
  ASSUME AdmissionInvariant, NEW ctx \in Context, NEW p \in Panel, NEW n \in Nat,
         NEW needy, NEW reserve \in Nat
  PROVE  PanelHistory(Granted(Asked(history, ctx), p, n, needy, reserve),
                      ctx, p, n, needy, reserve)
<1> DEFINE h == Asked(history, ctx)
           c == Granted(h, p, n, needy, reserve)
           granted == [id \in Id |-> IF id = PanelId(p) THEN n
                                     ELSE IF id \in BranchesOf(p, needy) THEN 1
                                     ELSE h.granted[id]]
           reserves == [h.reserve EXCEPT ![p] = reserve]
<1>1. /\ h \in History
      /\ h.spent = history.spent /\ h.calls = history.calls
      /\ h.granted = history.granted /\ h.reserve = history.reserve
      /\ h.asked = history.asked \cup ({ctx} \ {Root})
  BY AskedHistory
<1> HIDE DEF h
<1>2. /\ h.granted \in [Id -> Nat] /\ h.spent \in [Id -> Nat] /\ h.calls \in [Panel -> Nat]
      /\ h.reserve \in [Panel -> Nat] /\ h.asked \in SUBSET Branch
  BY <1>1 DEF History
<1>3. c = [h EXCEPT !.reserve = reserves, !.granted = granted]
  BY <1>1 DEF Granted, History
<1>4. granted \in [Id -> Nat] /\ reserves \in [Panel -> Nat]
  BY <1>2
<1>5. /\ c.spent = h.spent /\ c.calls = h.calls /\ c.asked = h.asked
      /\ c.reserve = reserves /\ c.granted = granted
  BY <1>1, <1>3 DEF History
<1>6. c \in History
  BY <1>1, <1>2, <1>3, <1>4 DEF History
<1>7. \A q \in Panel : reserves[q] = IF q = p THEN reserve ELSE h.reserve[q]
  BY <1>2
<1> HIDE DEF c
<1>8. PanelHistory(c, ctx, p, n, needy, reserve)
  BY <1>1, <1>5, <1>6, <1>7 DEF PanelHistory
<1>9. QED
  BY <1>8 DEF c, h

\* Of the drawn slots those that were the root's are reserved now.
LEMMA DrawnAccount ==
  ASSUME AdmissionInvariant, NEW n, NEW ids, NEW drawn \in SUBSET Slot,
         MayDraw(Account, n, ids, drawn)
  PROVE  /\ rootFree - Cardinality(drawn \cap AtRoot(Account)) \in Nat
         /\ Cardinality(Reserved \cup drawn)
              = Cardinality(Reserved) + Cardinality(drawn \cap AtRoot(Account))
<1> DEFINE new == drawn \cap AtRoot(Account)
<1>1. new \in SUBSET Slot /\ Reserved \in SUBSET Slot /\ Reserved \cap new = {}
      /\ Reserved \cup drawn = Reserved \cup new
  BY AccountIs DEF Reserved
<1>2. Cardinality(Reserved \cup new) = Cardinality(Reserved) + Cardinality(new)
  BY <1>1, AddSlots
<1>3. Cardinality(new) <= rootFree
  BY AccountIs DEF MayDraw
<1>4. Cardinality(new) \in Nat /\ rootFree \in Nat
  BY <1>1, SlotSets, Room
<1>5. rootFree - Cardinality(new) \in Nat
  <2> HIDE DEF new
  <2>1. QED
    BY <1>3, <1>4
<1>6. QED
  BY <1>1, <1>2, <1>5

\* The slots of a reservation that the panel was not opened with are left alone.
LEMMA OthersKeep ==
  ASSUME NEW ctx \in Context, NEW n, NEW drawn \in SUBSET Slot,
         MayDraw(Account, n, ReservationsOf(ctx), drawn),
         NEW b \in Branch, b # ctx
  PROVE  drawn \cap Held(Account, b) = {}
<1> DEFINE ids == ReservationsOf(ctx)
<1>1. \A s \in drawn : s \in AtRoot(Account) \/ \E k \in DOMAIN ids : s \in Held(Account, ids[k])
  BY DEF MayDraw
<1>2. \A k \in DOMAIN ids : ids[k] # b
  <2>1. CASE ctx \in Branch
    <3>1. DOMAIN ids = {1, 2} /\ ids = <<ctx, PanelId(ctx[1])>> /\ PanelId(ctx[1]) \notin Branch
      BY <2>1, Named
    <3>2. ids[1] = ctx /\ ids[2] = PanelId(ctx[1])
      BY <3>1
    <3> HIDE DEF ids
    <3>3. QED
      BY <3>1, <3>2
  <2>2. CASE ctx \notin Branch
    <3>1. ids = <<>>
      BY <2>2, Named
    <3> HIDE DEF ids
    <3>2. QED
      BY <3>1
  <2>3. QED
    BY <2>1, <2>2
<1> HIDE DEF ids
<1>3. SUFFICES ASSUME NEW s \in drawn, s \in Held(Account, b) PROVE FALSE
  OBVIOUS
<1>4. s \in Slot /\ path[s] # <<>> /\ Head(path[s]) = b
  BY <1>3, AccountIs
<1>5. s \notin AtRoot(Account)
  BY <1>4, AccountIs DEF Reserved
<1>6. PICK k \in DOMAIN ids : s \in Held(Account, ids[k])
  BY <1>1, <1>3, <1>5
<1>7. Head(path[s]) = ids[k]
  BY <1>6, AccountIs
<1>8. QED
  BY <1>2, <1>4, <1>7

\* A panel that is opened has the slots that its branches were promised.
LEMMA PanelOpened ==
  ASSUME AdmissionInvariant, NEW ctx \in Context, Live(ReservationsOf(ctx)), ~ended,
         NEW p \in Panel, p = nextPanel + 1, NEW drawn \in SUBSET Slot,
         NEW n \in Nat, MayDraw(Account, n, ReservationsOf(ctx), drawn),
         NEW branches \in SUBSET (1..branchBound), NEW needy \in SUBSET branches,
         NEW first \in [needy -> drawn],
         NEW reserve \in Nat, NEW spare \in Nat, spare + n = reserve,
         nextPanel' = p, consumed' = consumed, ended' = ended,
         rootFree' = rootFree - Cardinality(drawn \cap AtRoot(Account)),
         live' = live \cup {PanelId(p)} \cup BranchesOf(p, branches),
         path' \in [Slot -> Seq(Id)],
         Opens(path', p, drawn, needy, first),
         trace' = trace \cup {p}, contingent' = [contingent EXCEPT ![p] = spare],
         parents' = [parents EXCEPT ![p] = ReservationsOf(ctx)],
         PanelHistory(history', ctx, p, n, needy, reserve)
  PROVE  AdmissionInvariant'
<1> DEFINE ids == ReservationsOf(ctx)
<1>1. /\ history' \in History
      /\ history'.spent = history.spent /\ history'.calls = history.calls
      /\ history'.asked = history.asked \cup ({ctx} \ {Root})
      /\ \A q \in Panel : history'.reserve[q] = IF q = p THEN reserve ELSE history.reserve[q]
      /\ \A id \in Id : history'.granted[id] =
           IF id = PanelId(p) THEN n ELSE IF id \in BranchesOf(p, needy) THEN 1
           ELSE history.granted[id]
  BY DEF PanelHistory
<1> USE <1>1
<1>2. /\ live \subseteq Id /\ path \in [Slot -> Seq(Id)] /\ history \in History
      /\ contingent \in [Panel -> Nat] /\ parents \in [Panel -> Seq(Id)]
      /\ nextPanel \in 0..panelBound /\ trace \subseteq 1..nextPanel /\ panelBound \in Nat
      /\ ended \in BOOLEAN /\ consumed \in 0..maxAgents
  BY AdmissionAssumption DEF AdmissionInvariant, TypeOK
<1>3. /\ p \in Nat /\ p \in 1..panelBound /\ p \in 1..p /\ \A k \in 1..nextPanel : k \in 1..p
  BY <1>2 DEF Panel
<1>4. /\ PanelId(p) \in Id /\ PanelId(p) \notin Branch /\ PanelId(p)[1] = p
      /\ \A i \in branches : BranchId(p, i) \in Branch /\ BranchId(p, i) \in Id /\ BranchId(p, i)[1] = p
                             /\ BranchId(p, i) # PanelId(p)
  BY Ids DEF Branch, Id
<1>5. \A id : id \in live' <=> \/ id \in live \/ id = PanelId(p)
                               \/ \E i \in branches : id = BranchId(p, i)
  BY DEF BranchesOf
<1>6. /\ \A id \in live : id[1] \in 1..nextPanel /\ id[1] # p
      /\ \A s \in Slot : \A id \in Range(path[s]) : id[1] \in 1..nextPanel /\ id[1] # p
      /\ \A id \in Id : id[1] = p => history.granted[id] = 0 /\ history.spent[id] = 0
      /\ history.calls[p] = 0
      /\ \A q \in Panel : \A i \in DOMAIN parents[q] :
           parents[q][i][1] \in 1..nextPanel /\ parents[q][i][1] # p
  BY Fresh
<1> DEFINE to == path'
<1>7. Opens(to, p, drawn, needy, first) /\ to \in [Slot -> Seq(Id)]
      /\ needy \in SUBSET (1..branchBound)
  OBVIOUS
<1> HIDE DEF to
<1>8. Opened(to, p, drawn, needy, first)
  BY <1>7, OpenedSlots
<1>9. \A s \in drawn : /\ to[s] # <<>>
                       /\ \/ Head(to[s]) = PanelId(p)
                          \/ \E i \in needy : Head(to[s]) = BranchId(p, i)
  BY <1>8 DEF Opened
<1>10. \A s \in drawn : \A id \in Id : id \in Range(to[s]) <=>
        \/ id \in Range(path[s]) \/ id = PanelId(p)
        \/ \E i \in needy : id = BranchId(p, i) /\ first[i] = s
  BY <1>8 DEF Opened
<1>11. \A i \in needy : first[i] \in drawn /\ Head(to[first[i]]) = BranchId(p, i)
  BY <1>8 DEF Opened
<1>12. \A s \in Slot : \A k \in DOMAIN to[s] : to[s][k][1] \in 1..p
  BY <1>8 DEF Opened
<1>13. \A s \in Slot : Returns(to[s])
  BY <1>8 DEF Opened
<1>14. to \in [Slot -> Seq(Id)] /\ \A s \in Slot \ drawn : to[s] = path[s]
  BY <1>7 DEF Opens
<1>15. Reserved' = Reserved \cup drawn
  BY <1>9, <1>14 DEF Reserved, to
<1>16. rootFree' \in Nat /\ rootFree' + consumed' + Cardinality(Reserved') = maxAgents
  <2> DEFINE new == Cardinality(drawn \cap AtRoot(Account))
  <2>1. /\ rootFree - new \in Nat
        /\ Cardinality(Reserved \cup drawn) = Cardinality(Reserved) + new
    BY DrawnAccount
  <2>2. rootFree' = rootFree - new /\ consumed' = consumed
    OBVIOUS
  <2>3. new \in Nat
    <3>1. drawn \cap AtRoot(Account) \in SUBSET Slot
      OBVIOUS
    <3>2. QED
      BY <3>1, SlotSets
  <2> HIDE DEF new
  <2>4. QED
    BY <1>15, <2>1, <2>2, <2>3, Room
<1>17. \A s \in Reserved' : Head(path[s])' \in live'
  <2>1. SUFFICES ASSUME NEW s \in Slot, to[s] # <<>> PROVE Head(to[s]) \in live'
    BY DEF Reserved, to
  <2>2. CASE s \in drawn
    BY <1>5, <1>9, <2>2
  <2>3. CASE s \notin drawn
    BY <1>5, <1>14, <2>1, <2>3 DEF AdmissionInvariant, Conservation, Reserved
  <2>4. QED
    BY <2>2, <2>3
<1>18. TypeOK' /\ Conservation'
  <2>1. live' \subseteq Id
    BY <1>2, <1>4, <1>5
  <2>2. contingent' \in [Panel -> Nat]
    BY <1>2
  <2>3. parents' \in [Panel -> Seq(Id)]
    <3>1. ids \in Seq(Id)
      BY Named, EmptySeq
    <3>2. QED
      BY <1>2, <3>1
  <2>4. trace' \subseteq 1..nextPanel' /\ nextPanel' \in 0..panelBound
    BY <1>2, <1>3
  <2>5. path' \in [Slot -> Seq(Id)] /\ ended' \in BOOLEAN /\ consumed' \in 0..maxAgents
        /\ history' \in History
    BY <1>2
  <2>6. QED
    BY <1>16, <1>17, <2>1, <2>2, <2>3, <2>4, <2>5 DEF TypeOK, Conservation
<1>19. NoSlotStolen'
  <2>1. SUFFICES ASSUME NEW id \in live'
                 PROVE  history'.granted[id] = history'.spent[id] + Cardinality(Beneath(id)')
    BY DEF NoSlotStolen
  <2>2. id \in Id /\ history'.spent[id] = history.spent[id]
    BY <1>2, <1>4, <1>5, <2>1
  <2>3. Beneath(id)' = {s \in Slot : id \in Range(to[s])}
    BY DEF Beneath, to
  <2>4. CASE id \in live
    <3>1. id # PanelId(p) /\ \A i \in branches : id # BranchId(p, i)
      BY <1>4, <1>6, <2>4
    <3>2. \A s \in Slot : id \in Range(to[s]) <=> id \in Range(path[s])
      <4>1. \A i \in needy : id # BranchId(p, i)
        BY <3>1
      <4>2. ASSUME NEW s \in drawn PROVE id \in Range(to[s]) <=> id \in Range(path[s])
        BY <1>10, <2>2, <3>1, <4>1
      <4>3. ASSUME NEW s \in Slot \ drawn PROVE id \in Range(to[s]) <=> id \in Range(path[s])
        BY <1>14
      <4>4. QED
        BY <4>2, <4>3
    <3>3. Beneath(id)' = Beneath(id)
      BY <2>3, <3>2 DEF Beneath
    <3>4. history'.granted[id] = history.granted[id]
      BY <2>2, <3>1 DEF BranchesOf
    <3>5. QED
      BY <2>2, <2>4, <3>3, <3>4 DEF AdmissionInvariant, NoSlotStolen
  <2>5. CASE id = PanelId(p)
    <3>1. \A s \in Slot : id \notin Range(path[s])
      BY <1>4, <1>6, <2>5
    <3>2. \A s \in Slot : id \in Range(to[s]) <=> s \in drawn
      BY <1>10, <1>14, <2>2, <2>5, <3>1
    <3>3. Beneath(id)' = drawn
      BY <2>3, <3>2
    <3>4. history'.granted[id] = n /\ history.spent[id] = 0
      BY <1>4, <1>6, <2>2, <2>5
    <3>5. Cardinality(drawn) = n
      BY DEF MayDraw
    <3>6. QED
      BY <2>2, <3>3, <3>4, <3>5
  <2>6. ASSUME NEW i \in branches, id = BranchId(p, i)
        PROVE  history'.granted[id] = history'.spent[id] + Cardinality(Beneath(id)')
    <3>1. id \in Id /\ id[1] = p /\ id # PanelId(p)
      BY <1>4, <2>6
    <3>2. history.granted[id] = 0 /\ history.spent[id] = 0
      BY <1>6, <3>1
    <3>3. \A s \in Slot : id \notin Range(path[s])
      BY <1>6, <3>1
    <3>4. \A s \in Slot : id \in Range(to[s]) <=> s \in drawn /\ i \in needy /\ first[i] = s
      <4>1. SUFFICES ASSUME NEW s \in Slot
                     PROVE  id \in Range(to[s]) <=> s \in drawn /\ i \in needy /\ first[i] = s
        OBVIOUS
      <4>2. CASE s \in drawn
        <5>1. id \in Range(to[s]) <=> \E j \in needy : id = BranchId(p, j) /\ first[j] = s
          BY <1>10, <3>1, <3>3, <4>2
        <5>2. \A j \in needy : id = BranchId(p, j) => j = i
          BY <2>6, Ids
        <5>3. QED
          BY <2>6, <4>2, <5>1, <5>2
      <4>3. CASE s \notin drawn
        BY <1>14, <3>3, <4>3
      <4>4. QED
        BY <4>2, <4>3
    <3>5. CASE i \in needy
      <4>1. Beneath(id)' = {first[i]}
        BY <1>11, <2>3, <3>4, <3>5
      <4>2. Cardinality(Beneath(id)') = 1
        BY <4>1, FS_Singleton
      <4>3. history'.granted[id] = 1
        BY <2>6, <3>1, <3>5 DEF BranchesOf
      <4>4. QED
        BY <2>2, <3>2, <4>2, <4>3
    <3>6. CASE i \notin needy
      <4>1. Beneath(id)' = {}
        BY <2>3, <3>4, <3>6
      <4>2. Cardinality(Beneath(id)') = 0
        BY <4>1, FS_EmptySet
      <4>3. \A j \in needy : id # BranchId(p, j)
        BY <2>6, <3>6, Ids
      <4>4. history'.granted[id] = history.granted[id]
        BY <3>1, <4>3 DEF BranchesOf
      <4>5. QED
        BY <2>2, <3>2, <4>2, <4>4
    <3>7. QED
      BY <3>5, <3>6
  <2>7. QED
    BY <1>5, <2>1, <2>4, <2>5, <2>6
<1>20. FirstCallGuaranteed'
  <2>1. SUFFICES ASSUME NEW b \in live' \cap Branch, b \notin history'.asked
                 PROVE  Cardinality(Held(Account, b)') >= history'.granted[b]
    BY DEF FirstCallGuaranteed
  <2>2. Held(Account, b)' = {s \in Slot : to[s] # <<>> /\ Head(to[s]) = b}
    BY DEF Held, Account, to
  <2>3. CASE b \in live
    <3>1. b # PanelId(p) /\ \A i \in branches : b # BranchId(p, i)
      BY <1>4, <1>6, <2>3
    <3>2. b # ctx /\ b \notin history.asked
      <4>1. ctx \in Branch => ctx # Root
        BY Named
      <4>2. QED
        BY <2>1, <4>1
    <3>3. drawn \cap Held(Account, b) = {}
      BY <2>1, <3>2, OthersKeep
    <3>4. Held(Account, b) = {s \in Slot : path[s] # <<>> /\ Head(path[s]) = b}
      BY AccountIs
    <3>5. \A s \in Slot : s \in Held(Account, b)' <=> s \in Held(Account, b)
      <4>1. SUFFICES ASSUME NEW s \in Slot
                     PROVE  s \in Held(Account, b)' <=> s \in Held(Account, b)
        OBVIOUS
      <4>2. CASE s \in drawn
        <5>1. Head(to[s]) # b
          BY <1>9, <3>1, <4>2
        <5>2. QED
          BY <2>2, <3>3, <4>2, <5>1
      <4>3. CASE s \notin drawn
        BY <1>14, <2>2, <3>4, <4>3
      <4>4. QED
        BY <4>2, <4>3
    <3>6. Held(Account, b)' = Held(Account, b)
      BY <2>2, <3>4, <3>5
    <3>7. b \in Id /\ history'.granted[b] = history.granted[b]
      BY <1>2, <2>3, <3>1 DEF BranchesOf
    <3>8. QED
      BY <2>1, <2>3, <3>2, <3>6, <3>7 DEF AdmissionInvariant, FirstCallGuaranteed
  <2>4. ASSUME NEW i \in branches, b = BranchId(p, i)
        PROVE  Cardinality(Held(Account, b)') >= history'.granted[b]
    <3>1. b \in Id /\ b[1] = p /\ b # PanelId(p)
      BY <1>4, <2>4
    <3>2. Held(Account, b)' \in SUBSET Slot
      BY <2>2
    <3>3. Cardinality(Held(Account, b)') \in Nat
      BY <3>2, SlotSets
    <3>4. CASE i \in needy
      <4>1. {first[i]} \in SUBSET Held(Account, b)'
        BY <1>9, <1>11, <2>2, <2>4, <3>4
      <4>2. Cardinality({first[i]}) <= Cardinality(Held(Account, b)')
        BY <3>2, <4>1, SlotSets, FS_Subset
      <4>3. Cardinality({first[i]}) = 1
        BY FS_Singleton
      <4>4. history'.granted[b] = 1
        BY <2>4, <3>1, <3>4 DEF BranchesOf
      <4>5. QED
        BY <3>3, <4>2, <4>3, <4>4
    <3>5. CASE i \notin needy
      <4>1. \A j \in needy : b # BranchId(p, j)
        BY <2>4, <3>5, Ids
      <4>2. history'.granted[b] = 0
        BY <1>6, <3>1, <4>1 DEF BranchesOf
      <4>3. QED
        BY <3>3, <4>2
    <3>6. QED
      BY <3>4, <3>5
  <2>5. QED
    BY <1>4, <1>5, <2>1, <2>3, <2>4
<1>21. OnlyOpened'
  <2>1. ASSUME NEW id \in live' PROVE id[1] \in trace'
    <3>1. CASE id \in live
      BY <3>1 DEF AdmissionInvariant, OnlyOpened
    <3>2. CASE id \notin live
      BY <1>4, <1>5, <2>1, <3>2
    <3>3. QED
      BY <3>1, <3>2
  <2>2. \A s \in Slot : \A i \in DOMAIN path'[s] : path'[s][i][1] \in 1..nextPanel'
    BY <1>12 DEF to
  <2>3. ASSUME NEW id \in Id, id[1] > nextPanel'
        PROVE  history'.granted[id] = 0 /\ history'.spent[id] = 0
    <3>1. id[1] # p /\ id[1] > nextPanel
      BY <1>2, <1>3, <2>3, Ids
    <3>2. id # PanelId(p) /\ id \notin BranchesOf(p, needy)
      BY <1>4, <3>1 DEF BranchesOf
    <3>3. history'.granted[id] = history.granted[id]
      BY <2>3, <3>2
    <3>4. QED
      BY <2>3, <3>1, <3>3 DEF AdmissionInvariant, OnlyOpened
  <2>4. ~ended'
    OBVIOUS
  <2>5. QED
    BY <2>1, <2>2, <2>3, <2>4 DEF OnlyOpened
<1>22. BranchesReturn'
  BY <1>13 DEF BranchesReturn, Returns, Branch, Panel, PanelId, to
<1>23. CallsCovered'
  <2>1. SUFFICES ASSUME NEW q \in Panel
                 PROVE  IF PanelId(q) \in live'
                        THEN history'.calls[q] + contingent'[q] + history'.granted[PanelId(q)]
                               <= history'.spent[PanelId(q)] + history'.reserve[q]
                        ELSE history'.calls[q] = 0
    BY DEF CallsCovered, PanelId
  <2>2. PanelId(q) \in Id /\ PanelId(q) \notin Branch /\ PanelId(q)[1] = q
    BY Ids
  <2>3. history'.calls[q] = history.calls[q] /\ history'.spent[PanelId(q)] = history.spent[PanelId(q)]
    OBVIOUS
  <2>4. CASE q = p
    <3>1. /\ history'.calls[q] = 0 /\ history'.spent[PanelId(q)] = 0
          /\ history'.granted[PanelId(q)] = n /\ history'.reserve[q] = reserve
          /\ contingent'[q] = spare
      BY <1>2, <1>6, <2>2, <2>3, <2>4
    <3>2. QED
      BY <3>1
  <2>5. CASE q # p
    <3>1. PanelId(q) # PanelId(p) /\ PanelId(q) \notin BranchesOf(p, needy)
      BY <1>4, <2>2, <2>5 DEF BranchesOf
    <3>2. PanelId(q) \in live' <=> PanelId(q) \in live
      BY <1>4, <1>5, <2>2, <3>1
    <3>3. /\ history'.granted[PanelId(q)] = history.granted[PanelId(q)]
          /\ history'.reserve[q] = history.reserve[q] /\ contingent'[q] = contingent[q]
      BY <1>2, <2>2, <2>5, <3>1
    <3>4. QED
      BY <2>3, <3>2, <3>3 DEF AdmissionInvariant, CallsCovered
  <2>6. QED
    BY <2>4, <2>5
<1>24. ParentsAsked'
  <2>1. history'.asked \subseteq live'
    <3>1. ctx \in Branch => ctx \in live
      BY Named DEF Live
    <3>2. QED
      BY <1>5, <3>1 DEF AdmissionInvariant, ParentsAsked, Context
  <2>2. ASSUME NEW q \in Panel, NEW i \in DOMAIN parents'[q]
        PROVE  /\ parents'[q][i] \in live' \cap Branch => parents'[q][i] \in history'.asked
               /\ parents'[q][i][1] \in 1..nextPanel'
    <3>1. CASE q = p
      <4>1. parents'[q] = ids
        BY <1>2, <3>1
      <4>2. ctx \in Branch /\ ids[i] \in {ctx, PanelId(ctx[1])} /\ PanelId(ctx[1]) \notin Branch
            /\ ctx # Root
        <5>1. ctx \in Branch
          BY <2>2, <4>1, Named
        <5>2. /\ DOMAIN ids = {1, 2} /\ ids = <<ctx, PanelId(ctx[1])>>
              /\ PanelId(ctx[1]) \notin Branch /\ ctx # Root
          BY <5>1, Named
        <5>3. ids[1] = ctx /\ ids[2] = PanelId(ctx[1])
          BY <5>2
        <5> HIDE DEF ids
        <5>4. QED
          BY <2>2, <4>1, <5>1, <5>2, <5>3
      <4>3. ids[i] \in live
        BY <2>2, <4>1 DEF Live, Range
      <4>4. QED
        BY <1>3, <1>6, <4>1, <4>2, <4>3
    <3>2. CASE q # p
      <4>1. parents'[q] = parents[q]
        BY <1>2, <3>2
      <4>2. parents[q][i][1] \in 1..nextPanel /\ parents[q][i][1] # p
        BY <1>6, <2>2, <4>1
      <4>3. parents[q][i] \in live' => parents[q][i] \in live
        BY <1>4, <1>5, <4>2
      <4>4. QED
        BY <1>3, <2>2, <4>1, <4>2, <4>3 DEF AdmissionInvariant, ParentsAsked
    <3>3. QED
      BY <3>1, <3>2
  <2>3. QED
    BY <2>1, <2>2 DEF ParentsAsked
<1>25. QED
  BY <1>18, <1>19, <1>20, <1>21, <1>22, <1>23, <1>24 DEF AdmissionInvariant

\* The account after a panel has drawn its slots and set some of them aside.
AccountOpened(a, p, drawn, branches, needy, first) ==
  /\ a.root = rootFree - Cardinality(drawn \cap AtRoot(Account))
  /\ a.live = live \cup {PanelId(p)} \cup BranchesOf(p, branches)
  /\ a.path \in [Slot -> Seq(Id)]
  /\ Opens(a.path, p, drawn, needy, first)

\* That is what reservePanelWithBranchNeeds() makes of it.
LEMMA OpenedPaths ==
  ASSUME AdmissionInvariant, NEW p \in Panel, NEW drawn \in SUBSET Slot,
         NEW branches \in SUBSET (1..branchBound), NEW needy \in SUBSET branches,
         NEW first \in [needy -> drawn], \A i, j \in needy : first[i] = first[j] => i = j
  PROVE  AccountOpened(SetAside(Reserve(Account, PanelId(p), drawn), p, branches, first),
                       p, drawn, branches, needy, first)
<1> DEFINE a == Reserve(Account, PanelId(p), drawn)
           opened == SetAside(a, p, branches, first)
<1>1. /\ a.root = rootFree - Cardinality(drawn \cap AtRoot(Account))
      /\ a.live = live \cup {PanelId(p)}
      /\ a.path = [s \in Slot |-> IF s \in drawn THEN Via(PanelId(p), path[s]) ELSE path[s]]
  BY DEF Reserve, Account
<1> HIDE DEF a
<1>2. /\ opened.root = a.root
      /\ opened.live = a.live \cup BranchesOf(p, branches)
      /\ opened.path = [s \in Slot |->
           IF s \in Range(first)
           THEN Via(BranchId(p, CHOOSE i \in DOMAIN first : first[i] = s), a.path[s])
           ELSE a.path[s]]
  BY DEF SetAside
<1> HIDE DEF opened
<1>3. DOMAIN first = needy /\ \A i \in needy : first[i] \in drawn
  OBVIOUS
<1>4. \A s : s \in Range(first) <=> \E i \in needy : first[i] = s
  BY <1>3 DEF Range
<1>5. ASSUME NEW s \in Slot \ drawn PROVE opened.path[s] = path[s]
  <2>1. s \notin Range(first)
    BY <1>3, <1>4
  <2>2. QED
    BY <1>1, <1>2, <2>1
<1>6. ASSUME NEW s \in drawn
      PROVE  \/ /\ \A i \in needy : first[i] # s
                /\ opened.path[s] = Via(PanelId(p), path[s])
             \/ \E i \in needy :
                  /\ first[i] = s /\ \A j \in needy : first[j] = s => j = i
                  /\ opened.path[s] = Via(BranchId(p, i), Via(PanelId(p), path[s]))
  <2>1. a.path[s] = Via(PanelId(p), path[s])
    BY <1>1
  <2>2. CASE s \notin Range(first)
    BY <1>2, <1>4, <2>1, <2>2
  <2>3. CASE s \in Range(first)
    <3> DEFINE k == CHOOSE i \in DOMAIN first : first[i] = s
    <3>1. k \in needy /\ first[k] = s
      BY <1>3, <1>4, <2>3
    <3>2. opened.path[s] = Via(BranchId(p, k), Via(PanelId(p), path[s]))
      BY <1>2, <2>1, <2>3
    <3> HIDE DEF k
    <3>3. \A j \in needy : first[j] = s => j = k
      BY <3>1
    <3>4. QED
      BY <3>1, <3>2, <3>3
  <2>4. QED
    BY <2>2, <2>3
<1>7. Opens(opened.path, p, drawn, needy, first)
  BY <1>5, <1>6 DEF Opens
<1>8. opened.path \in [Slot -> Seq(Id)]
  <2>1. opened.path = [s \in Slot |-> opened.path[s]]
    BY <1>2
  <2>2. ASSUME NEW s \in Slot PROVE opened.path[s] \in Seq(Id)
    <3>1. path[s] \in Seq(Id) /\ PanelId(p) \in Id
      BY Ids DEF AdmissionInvariant, TypeOK
    <3>2. Via(PanelId(p), path[s]) \in Seq(Id)
      BY <3>1, InFront
    <3>3. \A i \in needy : BranchId(p, i) \in Id
      BY Ids
    <3>4. \A i \in needy : Via(BranchId(p, i), Via(PanelId(p), path[s])) \in Seq(Id)
      BY <3>2, <3>3, InFront
    <3>5. CASE s \in drawn
      BY <1>6, <3>2, <3>4, <3>5
    <3>6. CASE s \notin drawn
      BY <1>5, <3>1, <3>6
    <3>7. QED
      BY <3>5, <3>6
  <2>3. QED
    BY <2>1, <2>2
<1>9. AccountOpened(opened, p, drawn, branches, needy, first)
  BY <1>1, <1>2, <1>7, <1>8 DEF AccountOpened
<1>10. QED
  BY <1>9 DEF opened, a

\* A panel whose record could not be written leaves the account as it was.
LEMMA PanelRefused ==
  ASSUME AdmissionInvariant, NEW p \in Panel, p = nextPanel + 1, NEW drawn \in SUBSET Slot,
         NEW n, NEW ids, MayDraw(Account, n, ids, drawn),
         NEW branches \in SUBSET (1..branchBound), NEW needy \in SUBSET branches,
         NEW first \in [needy -> drawn],
         NEW a, AccountOpened(a, p, drawn, branches, needy, first)
  PROVE  Released(a, IdsOf(p)) = Account
<1>1. /\ a.root = rootFree - Cardinality(drawn \cap AtRoot(Account))
      /\ a.live = live \cup {PanelId(p)} \cup BranchesOf(p, branches)
      /\ a.path \in [Slot -> Seq(Id)]
      /\ Opens(a.path, p, drawn, needy, first)
  BY DEF AccountOpened
<1>2. needy \in SUBSET (1..branchBound)
  OBVIOUS
<1>3. Opened(a.path, p, drawn, needy, first)
  BY <1>1, <1>2, OpenedSlots
<1>4. a.live \ IdsOf(p) = live
  <2>1. \A id \in live : id \notin IdsOf(p)
    BY Fresh DEF IdsOf
  <2>2. PanelId(p) \in IdsOf(p)
    BY Ids DEF IdsOf
  <2>3. \A id \in BranchesOf(p, branches) : id \in IdsOf(p)
    BY Ids DEF BranchesOf, IdsOf
  <2>4. QED
    BY <1>1, <2>1, <2>2, <2>3
<1> DEFINE onward == [s \in Slot |-> Onward(live, a.path[s])]
<1>5. onward = path
  <2>1. \A s \in Slot : onward[s] = path[s]
    BY <1>3 DEF Opened
  <2>2. path \in [Slot -> Seq(Id)]
    BY DEF AdmissionInvariant, TypeOK
  <2>3. QED
    BY <2>1, <2>2
<1>6. {s \in Slot \ AtRoot(a) : path[s] = <<>>} = drawn \cap AtRoot(Account)
  <2>1. SUFFICES ASSUME NEW s \in Slot, path[s] = <<>>
                 PROVE  a.path[s] # <<>> <=> s \in drawn
    BY AccountIs DEF AtRoot, Reserved
  <2>2. CASE s \in drawn
    BY <1>3, <2>2 DEF Opened
  <2>3. CASE s \notin drawn
    BY <1>1, <2>1, <2>3 DEF Opens
  <2>4. QED
    BY <2>2, <2>3
<1>7. Released(a, IdsOf(p)) =
        [root |-> a.root + Cardinality({s \in Slot \ AtRoot(a) : onward[s] = <<>>}),
         live |-> live, path |-> onward]
  BY <1>4 DEF Released
<1>8. a.root + Cardinality(drawn \cap AtRoot(Account)) = rootFree
  <2> DEFINE new == Cardinality(drawn \cap AtRoot(Account))
  <2>1. rootFree - new \in Nat
    BY DrawnAccount
  <2>2. drawn \cap AtRoot(Account) \in SUBSET Slot
    OBVIOUS
  <2>3. new \in Nat /\ rootFree \in Nat
    BY <2>2, SlotSets, Room
  <2>4. a.root = rootFree - new
    BY <1>1
  <2> HIDE DEF new
  <2>5. a.root + new = rootFree
    BY <2>3, <2>4
  <2>6. QED
    BY <2>5 DEF new
<1> HIDE DEF onward
<1>9. QED
  BY <1>5, <1>6, <1>7, <1>8 DEF Account

\* That a branch has asked for something disturbs nothing else.
LEMMA AskedInvariant ==
  ASSUME AdmissionInvariant, NEW ctx \in Context, Live(ReservationsOf(ctx)),
         rootFree' = rootFree, live' = live, path' = path, consumed' = consumed,
         contingent' = contingent, parents' = parents, nextPanel' = nextPanel,
         trace' = trace, ended' = ended,
         history' = Asked(history, ctx)
  PROVE  AdmissionInvariant'
<1>1. /\ history' \in History
      /\ history'.granted = history.granted /\ history'.spent = history.spent
      /\ history'.calls = history.calls /\ history'.reserve = history.reserve
      /\ history'.asked = history.asked \cup ({ctx} \ {Root})
  BY AskedHistory
<1>2. Reserved' = Reserved /\ \A b : Held(Account, b)' = Held(Account, b)
  BY DEF Reserved, Held, Account
<1>3. TypeOK' /\ Conservation'
  BY <1>1, <1>2 DEF AdmissionInvariant, TypeOK, Conservation
<1>4. NoSlotStolen' /\ FirstCallGuaranteed' /\ BranchesReturn'
  BY <1>1, <1>2
    DEF AdmissionInvariant, NoSlotStolen, FirstCallGuaranteed, BranchesReturn, Returns, Beneath
<1>5. OnlyOpened' /\ CallsCovered'
  BY <1>1 DEF AdmissionInvariant, OnlyOpened, CallsCovered
<1>6. ctx \in Branch => ctx \in live
  BY Named DEF Live
<1>7. ParentsAsked'
  BY <1>1, <1>6 DEF AdmissionInvariant, ParentsAsked, Context
<1>8. QED
  BY <1>3, <1>4, <1>5, <1>7 DEF AdmissionInvariant

\* A panel is opened, or it is not and all that was reserved for it goes back.
LEMMA OpenPanelInvariant ==
  ASSUME AdmissionInvariant, NEW ctx \in Context,
         NEW needs \in BoundedSeq(BOOLEAN, branchBound), NEW reserve \in Nat, NEW credit,
         OpenPanel(ctx, needs, reserve, credit)
  PROVE  AdmissionInvariant'
<1> DEFINE p == nextPanel + 1
           ids == ReservationsOf(ctx)
           n == LiveSlots(needs, reserve, credit)
           spare == ContingentSlots(needs, reserve, credit)
           branches == DOMAIN needs
           needy == {i \in branches : needs[i]}
           opened(d, f) == SetAside(Reserve(Account, PanelId(p), d), p, branches, f)
<1>1. /\ ~ ended /\ p \in Panel /\ Live(ids) /\ n \in Nat /\ spare \in Nat
      /\ consumed' = consumed /\ ended' = ended
  BY DEF OpenPanel
<1>2. PICK drawn \in SUBSET Slot :
        /\ MayDraw(Account, n, ids, drawn)
        /\ \E first \in Injection(needy, drawn) :
             \/ /\ nextPanel' = p
                /\ SetAccount(opened(drawn, first))
                /\ trace' = trace \cup {p}
                /\ contingent' = [contingent EXCEPT ![p] = spare]
                /\ parents' = [parents EXCEPT ![p] = ids]
                /\ history' = Granted(Asked(history, ctx), p, n, needy, reserve)
             \/ /\ SetAccount(Released(opened(drawn, first), IdsOf(p)))
                /\ history' = Asked(history, ctx)
                /\ UNCHANGED <<nextPanel, trace, contingent, parents>>
  BY DEF OpenPanel
<1>3. PICK first \in Injection(needy, drawn) :
        \/ /\ nextPanel' = p
           /\ SetAccount(opened(drawn, first))
           /\ trace' = trace \cup {p}
           /\ contingent' = [contingent EXCEPT ![p] = spare]
           /\ parents' = [parents EXCEPT ![p] = ids]
           /\ history' = Granted(Asked(history, ctx), p, n, needy, reserve)
        \/ /\ SetAccount(Released(opened(drawn, first), IdsOf(p)))
           /\ history' = Asked(history, ctx)
           /\ UNCHANGED <<nextPanel, trace, contingent, parents>>
  BY <1>2
<1>4. /\ branches \in SUBSET (1..branchBound) /\ n \in Nat /\ spare \in Nat
      /\ reserve \in Nat /\ spare + n = reserve
  BY <1>1, ShapeFacts
<1>5. needy \in SUBSET branches /\ first \in [needy -> drawn]
      /\ \A i, j \in needy : first[i] = first[j] => i = j
  BY DEF Injection, IsInjective
<1> DEFINE a == opened(drawn, first)
<1>6. AccountOpened(a, p, drawn, branches, needy, first)
  <2> HIDE DEF p, needy, branches
  <2>1. QED
    BY <1>1, <1>4, <1>5, OpenedPaths
<1>7. p = nextPanel + 1
  OBVIOUS
<1> HIDE DEF p, needy, branches, n, spare, a
<1>8. CASE /\ nextPanel' = p
           /\ SetAccount(a)
           /\ trace' = trace \cup {p}
           /\ contingent' = [contingent EXCEPT ![p] = spare]
           /\ parents' = [parents EXCEPT ![p] = ids]
           /\ history' = Granted(Asked(history, ctx), p, n, needy, reserve)
  <2>1. /\ rootFree' = rootFree - Cardinality(drawn \cap AtRoot(Account))
        /\ live' = live \cup {PanelId(p)} \cup BranchesOf(p, branches)
        /\ path' \in [Slot -> Seq(Id)]
        /\ Opens(path', p, drawn, needy, first)
    BY <1>6, <1>8 DEF SetAccount, AccountOpened
  <2>2. PanelHistory(history', ctx, p, n, needy, reserve)
    BY <1>1, <1>4, <1>8, OpenHistory
  <2>3. QED
    BY <1>1, <1>2, <1>4, <1>5, <1>7, <1>8, <2>1, <2>2, PanelOpened
<1>9. CASE /\ SetAccount(Released(a, IdsOf(p)))
           /\ history' = Asked(history, ctx)
           /\ UNCHANGED <<nextPanel, trace, contingent, parents>>
  <2>1. Released(a, IdsOf(p)) = Account
    BY <1>1, <1>2, <1>4, <1>5, <1>6, <1>7, PanelRefused
  <2>2. rootFree' = rootFree /\ live' = live /\ path' = path
    BY <1>9, <2>1 DEF SetAccount, Account
  <2>3. QED
    BY <1>1, <1>9, <2>2, AskedInvariant
<1>10. QED
  BY <1>3, <1>8, <1>9 DEF a

----------------------------------------------------------------------------
(***************************************************************************)
(* The invariant, and what follows from it.                                *)
(***************************************************************************)
\* With nothing reserved, all that is left of the budget is the root's.
LEMMA FreshAccount == consumed \in 0..maxAgents /\ AllAtRoot => AdmissionInvariant
<1> SUFFICES ASSUME consumed \in 0..maxAgents, AllAtRoot PROVE AdmissionInvariant
  OBVIOUS
<1>1. /\ rootFree = maxAgents - consumed /\ live = {}
      /\ path = [s \in Slot |-> <<>>] /\ contingent = [p \in Panel |-> 0]
      /\ parents = [p \in Panel |-> <<>>] /\ nextPanel = 0 /\ trace = {} /\ ended = FALSE
      /\ history = EmptyHistory
  BY DEF AllAtRoot
<1>2. /\ history \in History /\ \A p \in Panel : history.calls[p] = 0
      /\ \A id \in Id : history.granted[id] = 0 /\ history.spent[id] = 0
      /\ history.asked = {}
  BY <1>1 DEF EmptyHistory, History
<1>3. /\ rootFree \in Nat /\ consumed \in 0..maxAgents /\ rootFree + consumed = maxAgents
      /\ maxAgents \in Nat /\ nextPanel \in 0..panelBound
  BY <1>1, AdmissionAssumption
<1>4. Reserved = {} /\ \A s \in Slot : path[s] = <<>> /\ DOMAIN path[s] = {}
  BY <1>1 DEF Reserved
<1>5. Cardinality(Reserved) = 0
  BY <1>4, FS_EmptySet
<1>6. path \in [Slot -> Seq(Id)] /\ parents \in [Panel -> Seq(Id)]
      /\ \A p \in Panel : DOMAIN parents[p] = {}
  BY <1>1, EmptySeq
<1>7. TypeOK /\ Conservation
  <2>1. contingent \in [Panel -> Nat] /\ ended \in BOOLEAN
    BY <1>1
  <2>2. live \subseteq Id /\ trace \subseteq 1..nextPanel
    BY <1>1
  <2>3. rootFree + consumed + Cardinality(Reserved) = maxAgents
    BY <1>3, <1>5
  <2>4. TypeOK
    BY <1>2, <1>3, <1>6, <2>1, <2>2 DEF TypeOK
  <2>5. QED
    BY <1>4, <2>3, <2>4 DEF Conservation
<1>8. NoSlotStolen /\ FirstCallGuaranteed
  BY <1>1 DEF NoSlotStolen, FirstCallGuaranteed
<1>9. OnlyOpened /\ BranchesReturn
  BY <1>1, <1>2, <1>4 DEF OnlyOpened, BranchesReturn, Returns
<1>10. CallsCovered /\ ParentsAsked
  BY <1>1, <1>2, <1>6 DEF CallsCovered, ParentsAsked
<1>11. QED
  BY <1>7, <1>8, <1>9, <1>10 DEF AdmissionInvariant

\* Before the script runs nothing is reserved.
LEMMA AdmissionInit == Init => AdmissionInvariant
BY FreshAccount, AdmissionAssumption DEF Init

\* Every operation preserves the invariant.
LEMMA AdmissionStep == AdmissionInvariant /\ [Next]_vars => AdmissionInvariant'
<1> SUFFICES ASSUME AdmissionInvariant, [Next]_vars PROVE AdmissionInvariant'
  OBVIOUS
<1>1. ASSUME NEW ctx \in Context, NEW shape \in Shape,
             OpenPanel(ctx, shape.needs, shape.reserve, shape.credit)
      PROVE  AdmissionInvariant'
  <2>1. shape.needs \in BoundedSeq(BOOLEAN, branchBound) /\ shape.reserve \in Nat
    BY AdmissionAssumption
  <2>2. QED
    BY <1>1, <2>1, OpenPanelInvariant
<1>2. ASSUME NEW ctx \in Context, ConsumeReserved(ctx) PROVE AdmissionInvariant'
  BY <1>2, ConsumeReservedInvariant
<1>3. ASSUME NEW ctx \in Branch, ConsumeContingent(ctx) PROVE AdmissionInvariant'
  BY <1>3, ConsumeContingentInvariant
<1>4. CASE ConsumeRoot
  BY <1>4, ConsumeRootInvariant
<1>5. CASE (\E b \in Branch : ReleaseBranch(b)) \/ (\E p \in Panel : ReleasePanel(p)) \/ Drain
  BY <1>5, ReleasesInvariant
<1>6. CASE Finished \/ UNCHANGED vars
  <2>1. /\ rootFree' = rootFree /\ consumed' = consumed /\ live' = live /\ path' = path
        /\ contingent' = contingent /\ parents' = parents /\ nextPanel' = nextPanel
        /\ trace' = trace /\ ended' = ended /\ history' = history
    BY <1>6 DEF Finished, vars
  <2>2. TypeOK' /\ Conservation'
    BY <2>1 DEF AdmissionInvariant, TypeOK, Conservation, Reserved
  <2>3. NoSlotStolen' /\ FirstCallGuaranteed' /\ BranchesReturn'
    BY <2>1 DEF AdmissionInvariant, NoSlotStolen, FirstCallGuaranteed, BranchesReturn,
                Returns, Beneath, Held, Account
  <2>4. OnlyOpened' /\ CallsCovered' /\ ParentsAsked'
    BY <2>1 DEF AdmissionInvariant, OnlyOpened, CallsCovered, ParentsAsked
  <2>5. QED
    BY <2>2, <2>3, <2>4 DEF AdmissionInvariant
<1>7. QED
  BY <1>1, <1>2, <1>3, <1>4, <1>5, <1>6 DEF Next

\* The inductive invariant of the admission.
THEOREM AdmissionHolds == Spec => []AdmissionInvariant
<1>1. QED
  BY AdmissionInit, AdmissionStep, PTL DEF Spec

\* The lifetime limit: however the script's panels carve up, pass on and release
\* their reservations, in whatever order, every slot is free at the root, with one
\* live reservation that leads back to those it was drawn from, or an agent; and
\* the drain leaves none reserved.
THEOREM SlotsCorrect == Spec => []SlotsAccounted
<1>1. ASSUME AdmissionInvariant PROVE SlotsAccounted
  <2>1. ASSUME ended PROVE live = {} /\ rootFree = maxAgents - consumed
    <3>1. live = {}
      BY <1>1, <2>1 DEF AdmissionInvariant, OnlyOpened
    <3>2. Reserved = {}
      BY <1>1, <3>1 DEF AdmissionInvariant, Conservation
    <3>3. Cardinality(Reserved) = 0
      BY <3>2, FS_EmptySet
    <3>4. /\ rootFree \in Nat /\ consumed \in Nat /\ maxAgents \in Nat
          /\ rootFree + consumed + Cardinality(Reserved) = maxAgents
      BY <1>1, Room
    <3>5. rootFree = maxAgents - consumed
      BY <3>3, <3>4
    <3>6. QED
      BY <3>1, <3>5
  <2>2. QED
    BY <1>1, <2>1 DEF AdmissionInvariant, SlotsAccounted, DrainReturnsAll
<1>2. QED
  BY <1>1, AdmissionHolds, PTL

\* What a panel promised its branches is theirs: a branch that has not called yet
\* has the slot that was set aside for it, whatever its siblings draw, and all of
\* them together start no more agents than the script declared.
THEOREM PromisesCorrect == Spec => []PromisesKept
<1>1. ASSUME AdmissionInvariant PROVE PromisesKept
  <2>1. ASSUME NEW p \in Panel PROVE history.calls[p] <= history.reserve[p]
    <3>1. /\ PanelId(p) \in Id /\ history.calls[p] \in Nat /\ contingent[p] \in Nat
          /\ history.granted[PanelId(p)] \in Nat /\ history.spent[PanelId(p)] \in Nat
          /\ history.reserve[p] \in Nat
      BY <1>1, Ids DEF AdmissionInvariant, TypeOK, History
    <3>2. CASE PanelId(p) \in live
      <4>1. history.calls[p] + contingent[p] + history.granted[PanelId(p)]
              <= history.spent[PanelId(p)] + history.reserve[p]
        BY <1>1, <3>2 DEF AdmissionInvariant, CallsCovered
      <4>2. history.granted[PanelId(p)]
              = history.spent[PanelId(p)] + Cardinality(Beneath(PanelId(p)))
        BY <1>1, <3>2 DEF AdmissionInvariant, NoSlotStolen
      <4>3. Beneath(PanelId(p)) \in SUBSET Slot
        BY DEF Beneath
      <4>4. Cardinality(Beneath(PanelId(p))) \in Nat
        BY <4>3, SlotSets
      <4>5. QED
        BY <3>1, <4>1, <4>2, <4>4
    <3>3. CASE PanelId(p) \notin live
      BY <1>1, <3>1, <3>3 DEF AdmissionInvariant, CallsCovered
    <3>4. QED
      BY <3>2, <3>3
  <2>2. QED
    BY <1>1, <2>1 DEF AdmissionInvariant, PromisesKept, PanelWithinDeclaration
<1>2. QED
  BY <1>1, AdmissionHolds, PTL

----------------------------------------------------------------------------
(***************************************************************************)
(* Releasing reservations together, as the model does, is releasing them   *)
(* one after another, as the code does, in any order.                      *)
(***************************************************************************)
\* A slot that goes on a second time, more reservations having gone, ends where it
\* would have gone at once.
LEMMA OnwardTwice ==
  ASSUME NEW ids, NEW left \in SUBSET ids, NEW p \in Seq(Id)
  PROVE  Onward(left, Onward(ids, p)) = Onward(left, p)
<1> DEFINE q == Onward(ids, p)
<1>1. q \in Seq(Id) /\ Len(p) \in Nat /\ DOMAIN p = 1..Len(p)
  BY OnwardFacts, OnPath
<1>2. Len(q) \in Nat /\ DOMAIN q = 1..Len(q)
  BY <1>1, OnPath
<1>3. CASE \A i \in 1..Len(p) : p[i] \notin left
  <2>1. \A id \in left : id \notin Range(p)
    BY <1>3, OnPath
  <2>2. \A id : id \in Range(q) => id \in Range(p)
    BY OnwardFacts
  <2> HIDE DEF q
  <2>3. \A i \in DOMAIN q : q[i] \notin left
    BY <2>1, <2>2 DEF Range
  <2>4. \A i \in DOMAIN p : p[i] \notin left
    BY <1>1, <1>3
  <2>5. QED
    BY <2>3, <2>4 DEF Onward, q
<1>4. CASE \E i \in 1..Len(p) : p[i] \in left
  <2>1. PICK d \in 0..(Len(p) - 1) :
          /\ q \in Seq(Id)
          /\ Len(q) = Len(p) - d
          /\ \A i \in 1..(Len(p) - d) : q[i] = p[d + i]
          /\ p[d + 1] \in ids
          /\ \A i \in 1..d : p[i] \notin ids
    BY <1>4, OnwardLemma
  <2> HIDE DEF q
  <2>2. PICK e \in 0..(Len(p) - 1) :
          /\ Onward(left, p) \in Seq(Id)
          /\ Len(Onward(left, p)) = Len(p) - e
          /\ \A i \in 1..(Len(p) - e) : Onward(left, p)[i] = p[e + i]
          /\ p[e + 1] \in left
          /\ \A i \in 1..e : p[i] \notin left
    BY <1>4, OnwardLemma
  <2>3. d \in Nat /\ e \in Nat /\ d <= e /\ e + 1 \in 1..Len(p)
    <3>1. d \in Nat /\ e \in Nat /\ e + 1 \in 1..Len(p)
      BY <1>1
    <3>2. ~ (e + 1 \in 1..d)
      BY <2>1, <2>2
    <3>3. QED
      BY <3>1, <3>2
  <2>4. (e - d) + 1 \in 1..Len(q) /\ q[(e - d) + 1] = p[e + 1]
    <3>1. (e - d) + 1 \in 1..(Len(p) - d) /\ d + ((e - d) + 1) = e + 1
      BY <1>1, <2>3
    <3>2. QED
      BY <2>1, <3>1
  <2>5. PICK f \in 0..(Len(q) - 1) :
          /\ Onward(left, q) \in Seq(Id)
          /\ Len(Onward(left, q)) = Len(q) - f
          /\ \A i \in 1..(Len(q) - f) : Onward(left, q)[i] = q[f + i]
          /\ q[f + 1] \in left
          /\ \A i \in 1..f : q[i] \notin left
    BY <2>1, <2>2, <2>4, OnwardLemma
  <2>6. d + f = e
    <3>1. f \in Nat /\ f + 1 \in 1..(Len(p) - d) /\ d + (f + 1) = (d + f) + 1
      BY <1>1, <1>2, <2>1, <2>3
    <3>2. p[(d + f) + 1] \in left
      BY <2>1, <2>5, <3>1
    <3>3. ~ ((d + f) + 1 \in 1..e)
      BY <2>2, <3>2
    <3>4. ~ ((e - d) + 1 \in 1..f)
      BY <2>2, <2>4, <2>5
    <3>5. QED
      BY <2>3, <3>1, <3>3, <3>4
  <2>7. Len(q) - f = Len(p) - e
    <3>1. Len(q) = Len(p) - d /\ f \in Nat
      BY <1>2, <2>1
    <3> HIDE DEF q
    <3>2. QED
      BY <1>1, <2>3, <2>6, <3>1
  <2>8. ASSUME NEW i \in 1..(Len(p) - e) PROVE Onward(left, q)[i] = Onward(left, p)[i]
    <3>1. f + i \in 1..(Len(p) - d) /\ d + (f + i) = e + i
      BY <1>1, <2>3, <2>6
    <3>2. Onward(left, q)[i] = q[f + i]
      BY <2>5, <2>7
    <3>3. q[f + i] = p[d + (f + i)]
      BY <2>1, <3>1
    <3>4. Onward(left, p)[i] = p[e + i]
      BY <2>2
    <3>5. QED
      BY <3>1, <3>2, <3>3, <3>4
  <2>9. /\ Len(Onward(left, q)) = Len(Onward(left, p))
        /\ \A i \in 1..Len(Onward(left, q)) : Onward(left, q)[i] = Onward(left, p)[i]
    BY <2>2, <2>5, <2>7, <2>8
  <2>10. Onward(left, q) = Onward(left, p)
    BY <2>2, <2>5, <2>9, SeqEqual
  <2>11. QED
    BY <2>10 DEF q
<1>5. QED
  BY <1>3, <1>4

\* releasePanel() of some reservations and then of others comes to the same as
\* releasing all of them at once, whatever the slots were drawn through.
THEOREM ReleaseOrder ==
  ASSUME NEW root \in Nat, NEW ids, NEW to \in [Slot -> Seq(Id)], NEW A, NEW B,
         NEW a, a = [root |-> root, live |-> ids, path |-> to]
  PROVE  Released(Released(a, A), B) = Released(a, A \cup B)
<1> DEFINE one == ids \ A
           both == ids \ (A \cup B)
           first == [s \in Slot |-> Onward(one, to[s])]
           last == [s \in Slot |-> Onward(both, to[s])]
           lost == {s \in Slot : to[s] # <<>> /\ first[s] = <<>>}
           then == {s \in Slot : first[s] # <<>> /\ last[s] = <<>>}
           all == {s \in Slot : to[s] # <<>> /\ last[s] = <<>>}
           r == Released(a, A)
<1>1. both \in SUBSET one /\ one \ B = both
  OBVIOUS
<1>2. ASSUME NEW s \in Slot
      PROVE  /\ Onward(both, first[s]) = last[s]
             /\ to[s] = <<>> => first[s] = <<>> /\ last[s] = <<>>
             /\ first[s] = <<>> => last[s] = <<>>
  <2>1. to[s] \in Seq(Id)
    OBVIOUS
  <2>2. Onward(both, Onward(one, to[s])) = Onward(both, to[s])
    BY <1>1, <2>1, OnwardTwice
  <2>3. to[s] = <<>> => Onward(one, to[s]) = <<>> /\ Onward(both, to[s]) = <<>>
    BY <2>1, OnwardFacts
  <2>4. Onward(both, <<>>) = <<>>
    <3> HIDE DEF both
    <3>1. {i \in DOMAIN <<>> : <<>>[i] \in both} = {}
      OBVIOUS
    <3>2. QED
      BY <3>1 DEF Onward
  <2>5. QED
    BY <2>2, <2>3, <2>4
<1>3. r = [root |-> root + Cardinality(lost), live |-> one, path |-> first]
  <2>1. {s \in Slot \ AtRoot(a) : first[s] = <<>>} = lost
    BY DEF AtRoot
  <2>2. QED
    BY <2>1 DEF Released
<1>4. Released(a, A \cup B) = [root |-> root + Cardinality(all), live |-> both, path |-> last]
  <2>1. {s \in Slot \ AtRoot(a) : last[s] = <<>>} = all
    BY DEF AtRoot
  <2>2. QED
    BY <2>1 DEF Released
<1>5. Released(r, B) = [root |-> (root + Cardinality(lost)) + Cardinality(then),
                        live |-> both, path |-> last]
  <2>1. r.root = root + Cardinality(lost) /\ r.live = one /\ r.path = first
    <3> HIDE DEF r, lost, one, first
    <3>1. QED
      BY <1>3
  <2> HIDE DEF r
  <2>2. [s \in Slot |-> Onward(both, first[s])] = last
    BY <1>2
  <2>3. {s \in Slot \ AtRoot(r) : last[s] = <<>>} = then
    BY <2>1 DEF AtRoot
  <2> HIDE DEF first, last, lost, then, one, both
  <2>4. QED
    BY <1>1, <2>1, <2>2, <2>3 DEF Released
<1>6. lost \in SUBSET Slot /\ then \in SUBSET Slot /\ lost \cap then = {} /\ lost \cup then = all
  BY <1>2
<1> HIDE DEF lost, then, all
<1>7. /\ Cardinality(all) = Cardinality(lost) + Cardinality(then)
      /\ Cardinality(lost) \in Nat /\ Cardinality(then) \in Nat
  BY <1>6, AddSlots, SlotSets
<1>8. (root + Cardinality(lost)) + Cardinality(then) = root + Cardinality(all)
  BY <1>7
<1> HIDE DEF first, last, both
<1>9. QED
  BY <1>4, <1>5, <1>8 DEF r
=============================================================================
