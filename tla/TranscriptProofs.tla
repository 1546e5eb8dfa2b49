-------------------------- MODULE TranscriptProofs --------------------------
(***************************************************************************)
(* Proofs about the transcripts of a run, for every set of calls, all      *)
(* sizes of lines and of head, tail and budget, and any number of failures *)
(* of the kinds in Faults.  Except after those that each property names,   *)
(* the budget is what is on disk, a transcript accounts for all that its   *)
(* agent did and tells it in order; and one that has ended is kept.        *)
(***************************************************************************)
EXTENDS TranscriptStore, Integers, SequenceTheorems, FiniteSetTheorems, FunctionTheorems,
        WellFoundedInduction, TLAPS

----------------------------------------------------------------------------
(***************************************************************************)
(* Sums.                                                                   *)
(***************************************************************************)
\* What Total() counts.
Cells(f) == UNION {{x} \X (1..f[x]) : x \in DOMAIN f}

\* The cells of a function, as pairs.
LEMMA CellsArePairs ==
  ASSUME NEW S, NEW f \in [S -> Nat]
  PROVE  \A e : e \in Cells(f) <=> \E x \in S : \E b \in 1..f[x] : e = <<x, b>>
<1>1. DOMAIN f = S
  OBVIOUS
<1>2. QED
  BY <1>1 DEF Cells

\* They are finitely many.
LEMMA CellsFinite ==
  ASSUME NEW S, IsFiniteSet(S), NEW f \in [S -> Nat]
  PROVE  IsFiniteSet(Cells(f)) /\ Cardinality(Cells(f)) \in Nat
<1> DEFINE column == [x \in S |-> {x} \X (1..f[x])]
           columns == {{x} \X (1..f[x]) : x \in S}
<1>1. IsFiniteSet(columns)
  <2>1. column \in Surjection(S, columns)
    BY DEF Surjection
  <2>2. QED
    BY <2>1, FS_Surjection
<1>2. \A x \in S : IsFiniteSet({x} \X (1..f[x]))
  <2>1. SUFFICES ASSUME NEW x \in S PROVE IsFiniteSet({x} \X (1..f[x]))
    OBVIOUS
  <2>2. IsFiniteSet({x})
    BY FS_Singleton
  <2>3. f[x] \in Nat
    OBVIOUS
  <2>4. IsFiniteSet(1..f[x])
    BY <2>3, FS_Interval
  <2>5. QED
    BY <2>2, <2>4, FS_Product
<1>3. \A T \in columns : IsFiniteSet(T)
  BY <1>2
<1>4. Cells(f) = UNION columns
  BY DEF Cells
<1>5. IsFiniteSet(UNION columns)
  BY <1>1, <1>3, FS_UNION
<1>6. QED
  BY <1>4, <1>5, FS_CardinalityType

\* A sum is the number of its cells.
LEMMA TotalCounts ==
  ASSUME NEW f
  PROVE  Total(f) = Cardinality(Cells(f))
BY DEF Total, Cells

\* A sum is a natural number.
LEMMA TotalType ==
  ASSUME NEW S, IsFiniteSet(S), NEW f \in [S -> Nat]
  PROVE  Total(f) \in Nat
BY CellsFinite, TotalCounts

\* f is g on A and h on B, and nothing else.
Joins(f, g, A, h, B) ==
  /\ A \cap B = {}
  /\ f \in [A \cup B -> Nat] /\ g \in [A -> Nat] /\ h \in [B -> Nat]
  /\ (\A x \in A : f[x] = g[x]) /\ (\A x \in B : f[x] = h[x])

\* A sum has two parts.
LEMMA TotalSplit ==
  ASSUME NEW A, NEW B, IsFiniteSet(A), IsFiniteSet(B), NEW f, NEW g, NEW h,
         Joins(f, g, A, h, B)
  PROVE  Total(f) = Total(g) + Total(h)
<1>1. /\ A \cap B = {}
      /\ f \in [A \cup B -> Nat] /\ g \in [A -> Nat] /\ h \in [B -> Nat]
      /\ (\A x \in A : f[x] = g[x]) /\ (\A x \in B : f[x] = h[x])
  BY DEF Joins
<1>2. /\ IsFiniteSet(Cells(g)) /\ Cardinality(Cells(g)) \in Nat
      /\ IsFiniteSet(Cells(h)) /\ Cardinality(Cells(h)) \in Nat
  BY <1>1, CellsFinite
<1>3. Cells(f) = Cells(g) \cup Cells(h) /\ Cells(g) \cap Cells(h) = {}
  <2>1. \A e : e \in Cells(f) <=> \E x \in A \cup B : \E b \in 1..f[x] : e = <<x, b>>
    BY <1>1, CellsArePairs
  <2>2. \A e : e \in Cells(g) <=> \E x \in A : \E b \in 1..g[x] : e = <<x, b>>
    BY <1>1, CellsArePairs
  <2>3. \A e : e \in Cells(h) <=> \E x \in B : \E b \in 1..h[x] : e = <<x, b>>
    BY <1>1, CellsArePairs
  <2>4. ASSUME NEW e PROVE e \in Cells(f) <=> e \in Cells(g) \/ e \in Cells(h)
    BY <1>1, <2>1, <2>2, <2>3
  <2>5. ASSUME NEW e \in Cells(g), e \in Cells(h) PROVE FALSE
    BY <1>1, <2>2, <2>3, <2>5
  <2>6. QED
    BY <2>4, <2>5
<1>4. Cardinality(Cells(g) \cap Cells(h)) = 0
  BY <1>3, FS_EmptySet
<1>5. Cardinality(Cells(f)) = Cardinality(Cells(g)) + Cardinality(Cells(h))
  <2>1. Cardinality(Cells(g) \cup Cells(h))
          = Cardinality(Cells(g)) + Cardinality(Cells(h)) - Cardinality(Cells(g) \cap Cells(h))
    BY <1>2, FS_Union
  <2>2. QED
    BY <1>2, <1>3, <1>4, <2>1
<1>6. QED
  BY <1>5, TotalCounts

\* The sum of one number is that number.
LEMMA TotalOne ==
  ASSUME NEW a, NEW f \in [{a} -> Nat]
  PROVE  Total(f) = f[a]
<1>1. f[a] \in Nat
  OBVIOUS
<1>2. Cells(f) = {a} \X (1..f[a])
  BY DEF Cells
<1>3. IsFiniteSet({a}) /\ Cardinality({a}) = 1
  BY FS_Singleton
<1>4. IsFiniteSet(1..f[a]) /\ Cardinality(1..f[a]) = f[a]
  BY <1>1, FS_Interval
<1>5. Cardinality({a} \X (1..f[a])) = Cardinality({a}) * Cardinality(1..f[a])
  BY <1>3, <1>4, FS_Product
<1>6. Cardinality({a} \X (1..f[a])) = 1 * f[a]
  BY <1>3, <1>4, <1>5
<1>7. 1 * f[a] = f[a]
  BY <1>1
<1>8. QED
  BY <1>2, <1>6, <1>7, TotalCounts

\* The sum of nothing is zero.
LEMMA TotalNone ==
  ASSUME NEW f \in [{} -> Nat]
  PROVE  Total(f) = 0
<1>1. Cells(f) = {}
  BY DEF Cells
<1>2. QED
  BY <1>1, TotalCounts, FS_EmptySet

\* A sum in which one number changes.
LEMMA TotalChange ==
  ASSUME NEW S, IsFiniteSet(S), NEW f \in [S -> Nat], NEW g \in [S -> Nat], NEW a \in S,
         \A x \in S : x # a => f[x] = g[x]
  PROVE  Total(g) + f[a] = Total(f) + g[a]
<1> DEFINE A == {a}
           B == S \ {a}
           rest == [x \in B |-> f[x]]
           fa == [x \in A |-> f[x]]
           ga == [x \in A |-> g[x]]
<1>1. IsFiniteSet(B) /\ IsFiniteSet(A)
  BY FS_Difference, FS_Singleton
<1>2. S = A \cup B /\ A \cap B = {}
  OBVIOUS
<1>3. rest \in [B -> Nat] /\ fa \in [A -> Nat] /\ ga \in [A -> Nat]
  OBVIOUS
<1>4. /\ \A x \in A : f[x] = fa[x] /\ g[x] = ga[x]
      /\ \A x \in B : f[x] = rest[x] /\ g[x] = rest[x]
  OBVIOUS
<1>5. f \in [A \cup B -> Nat] /\ g \in [A \cup B -> Nat]
  BY <1>2
<1> HIDE DEF A, B, rest, fa, ga
<1>6. Total(f) = Total(fa) + Total(rest)
  <2>1. Joins(f, fa, A, rest, B)
    BY <1>2, <1>3, <1>4, <1>5 DEF Joins
  <2>2. QED
    BY <1>1, <2>1, TotalSplit
<1>7. Total(g) = Total(ga) + Total(rest)
  <2>1. Joins(g, ga, A, rest, B)
    BY <1>2, <1>3, <1>4, <1>5 DEF Joins
  <2>2. QED
    BY <1>1, <2>1, TotalSplit
<1>8. Total(fa) = f[a] /\ Total(ga) = g[a]
  <2>1. Total(fa) = fa[a] /\ Total(ga) = ga[a]
    BY <1>3, TotalOne DEF A
  <2>2. QED
    BY <1>4, <2>1 DEF A
<1>9. Total(rest) \in Nat
  BY <1>1, <1>3, TotalType
<1>10. QED
  BY <1>6, <1>7, <1>8, <1>9

\* f is g with the places S for T.
Renames(f, S, g, T, h) ==
  /\ f \in [S -> Nat] /\ g \in [T -> Nat]
  /\ h \in Bijection(S, T)
  /\ \A x \in S : f[x] = g[h[x]]

\* A sum does not depend on the names of its places.
LEMMA TotalMoved ==
  ASSUME NEW S, NEW T, IsFiniteSet(S), NEW f, NEW g, NEW h, Renames(f, S, g, T, h)
  PROVE  Total(f) = Total(g)
<1>1. /\ f \in [S -> Nat] /\ g \in [T -> Nat]
      /\ h \in Bijection(S, T)
      /\ \A x \in S : f[x] = g[h[x]]
  BY DEF Renames
<1> DEFINE move == [e \in Cells(f) |-> <<h[e[1]], e[2]>>]
<1>2. \A e : e \in Cells(f) <=> \E x \in S : \E b \in 1..f[x] : e = <<x, b>>
  BY <1>1, CellsArePairs
<1>3. \A e : e \in Cells(g) <=> \E x \in T : \E b \in 1..g[x] : e = <<x, b>>
  BY <1>1, CellsArePairs
<1>4. /\ \A x \in S : h[x] \in T
      /\ \A x, y \in S : h[x] = h[y] => x = y
      /\ \A z \in T : \E x \in S : h[x] = z
  BY <1>1 DEF Bijection, Injection, IsInjective, Surjection
<1>5. \A x \in S : \A b \in 1..f[x] : <<x, b>> \in Cells(f) /\ move[<<x, b>>] = <<h[x], b>>
  BY <1>2
<1>6. move \in [Cells(f) -> Cells(g)]
  <2>1. ASSUME NEW e \in Cells(f) PROVE <<h[e[1]], e[2]>> \in Cells(g)
    <3>1. PICK x \in S : \E b \in 1..f[x] : e = <<x, b>>
      BY <1>2
    <3>2. PICK b \in 1..f[x] : e = <<x, b>>
      BY <3>1
    <3>3. h[x] \in T /\ b \in 1..g[h[x]]
      BY <1>1, <1>4
    <3>4. <<h[x], b>> \in Cells(g)
      BY <1>3, <3>3
    <3>5. QED
      BY <3>2, <3>4
  <2>2. QED
    BY <2>1
<1>7. \A e, k \in Cells(f) : move[e] = move[k] => e = k
  <2>1. SUFFICES ASSUME NEW e \in Cells(f), NEW k \in Cells(f), move[e] = move[k] PROVE e = k
    OBVIOUS
  <2>2. PICK x \in S : \E b \in 1..f[x] : e = <<x, b>>
    BY <1>2
  <2>3. PICK b \in 1..f[x] : e = <<x, b>>
    BY <2>2
  <2>4. PICK y \in S : \E q \in 1..f[y] : k = <<y, q>>
    BY <1>2
  <2>5. PICK c \in 1..f[y] : k = <<y, c>>
    BY <2>4
  <2>6. <<h[x], b>> = <<h[y], c>>
    BY <1>5, <2>1, <2>3, <2>5
  <2>7. QED
    BY <1>4, <2>3, <2>5, <2>6
<1>8. \A k \in Cells(g) : \E e \in Cells(f) : move[e] = k
  <2>1. SUFFICES ASSUME NEW k \in Cells(g) PROVE \E e \in Cells(f) : move[e] = k
    OBVIOUS
  <2>2. PICK z \in T : \E b \in 1..g[z] : k = <<z, b>>
    BY <1>3
  <2>3. PICK b \in 1..g[z] : k = <<z, b>>
    BY <2>2
  <2>4. PICK x \in S : h[x] = z
    BY <1>4
  <2>5. b \in 1..f[x]
    BY <1>1, <2>3, <2>4
  <2>6. QED
    BY <1>5, <2>3, <2>4, <2>5
<1> HIDE DEF move
<1>9. move \in Bijection(Cells(f), Cells(g))
  BY <1>6, <1>7, <1>8 DEF Bijection, Injection, IsInjective, Surjection
<1>10. Cardinality(Cells(g)) = Cardinality(Cells(f))
  BY <1>1, <1>9, CellsFinite, FS_Bijection DEF ExistsBijection
<1>11. QED
  BY <1>10, TotalCounts

----------------------------------------------------------------------------
(***************************************************************************)
(* The bytes of files.                                                     *)
(***************************************************************************)
\* The lines of a file.
AnyLine == Piece \cup {Marker}

\* Sizes of lines are numbers, and neither the marker nor what is left of a line is of an event.
LEMMA SizesOfLines ==
  /\ \A l \in AnyLine : l.size \in Nat
  /\ LineBytes \in Nat /\ \A l \in Line : l.size <= LineBytes /\ l.event # 0
  /\ \A l \in Cut : l.event = 0 /\ l.version = 2
  /\ Marker \in AnyLine /\ Marker.size = MarkerBytes /\ Marker.event = 0
  /\ Marker \notin Piece
  /\ MarkerBytes \in Nat /\ TailBytes \in Nat /\ HeadBytes \in Nat
<1>1. Marker.size = MarkerBytes /\ Marker.event = 0 /\ Marker.version = 1
  BY DEF Marker
<1>2. LineBytes \in Nat /\ \A l \in Line : l.event # 0 /\ l.size \in Nat /\ l.size <= LineBytes
  BY TranscriptAssumption DEF Line, Size
<1>3. \A l \in Cut : l.event = 0 /\ l.version = 2 /\ l.size \in Nat
  BY TranscriptAssumption DEF Cut, Size
<1>4. MarkerBytes \in Nat /\ TailBytes \in Nat /\ HeadBytes \in Nat
  BY TranscriptAssumption
<1>5. QED
  BY <1>1, <1>2, <1>3, <1>4 DEF AnyLine, Piece

\* The sizes of the lines of a file.
Sizes(lines) == [i \in DOMAIN lines |-> lines[i].size]

\* They are a function on the lines' places.
LEMMA SizesType ==
  ASSUME NEW s \in Seq(AnyLine)
  PROVE  /\ Len(s) \in Nat /\ DOMAIN s = 1..Len(s) /\ IsFiniteSet(1..Len(s))
         /\ Sizes(s) \in [1..Len(s) -> Nat]
         /\ \A i \in 1..Len(s) : Sizes(s)[i] = s[i].size
<1>1. Len(s) \in Nat /\ DOMAIN s = 1..Len(s) /\ s \in [1..Len(s) -> AnyLine]
  BY LenProperties
<1>2. \A i \in 1..Len(s) : s[i].size \in Nat
  BY <1>1, SizesOfLines
<1>3. IsFiniteSet(1..Len(s))
  BY <1>1, FS_Interval
<1>4. QED
  BY <1>1, <1>2, <1>3 DEF Sizes

\* A file has some number of bytes.
LEMMA BytesType ==
  ASSUME NEW s \in Seq(AnyLine)
  PROVE  Bytes(s) \in Nat /\ Bytes(s) = Total(Sizes(s))
<1>1. Bytes(s) = Total(Sizes(s))
  BY DEF Bytes, Sizes
<1>2. IsFiniteSet(1..Len(s)) /\ Sizes(s) \in [1..Len(s) -> Nat]
  BY SizesType
<1>3. Total(Sizes(s)) \in Nat
  BY <1>2, TotalType
<1>4. QED
  BY <1>1, <1>3

\* An empty file has none.
LEMMA BytesEmpty ==
  Bytes(<< >>) = 0
<1>1. << >> \in Seq(AnyLine) /\ DOMAIN << >> = {}
  BY EmptySeq
<1>2. Sizes(<< >>) \in [{} -> Nat]
  BY <1>1 DEF Sizes
<1>3. QED
  BY <1>1, <1>2, TotalNone, BytesType

\* A line has the bytes of its size.
LEMMA BytesOne ==
  ASSUME NEW l \in AnyLine
  PROVE  << l >> \in Seq(AnyLine) /\ Bytes(<< l >>) = l.size
<1>1. /\ << l >> \in Seq(AnyLine) /\ DOMAIN << l >> = {1} /\ << l >>[1] = l
  OBVIOUS
<1>2. Sizes(<< l >>) \in [{1} -> Nat] /\ Sizes(<< l >>)[1] = l.size
  BY <1>1, SizesOfLines DEF Sizes
<1>3. Total(Sizes(<< l >>)) = Sizes(<< l >>)[1]
  BY <1>2, TotalOne
<1>4. QED
  BY <1>1, <1>2, <1>3, BytesType

\* Two files that are put together have the bytes of both.
LEMMA BytesConcat ==
  ASSUME NEW s \in Seq(AnyLine), NEW t \in Seq(AnyLine)
  PROVE  s \o t \in Seq(AnyLine) /\ Bytes(s \o t) = Bytes(s) + Bytes(t)
<1> DEFINE n == Len(s)
           m == Len(t)
           A == 1..n
           B == (n + 1)..(n + m)
           f == Sizes(s \o t)
           g == Sizes(s)
           h == [i \in B |-> f[i]]
           move == [i \in B |-> i - n]
<1>1. /\ s \o t \in Seq(AnyLine) /\ Len(s \o t) = n + m
      /\ \A i \in 1..(n + m) : (s \o t)[i] = IF i <= n THEN s[i] ELSE t[i - n]
  BY ConcatProperties
<1>2. /\ n \in Nat /\ m \in Nat
      /\ f \in [1..(n + m) -> Nat] /\ g \in [A -> Nat] /\ Sizes(t) \in [1..m -> Nat]
      /\ \A i \in 1..(n + m) : f[i] = (s \o t)[i].size
      /\ \A i \in A : g[i] = s[i].size
      /\ \A i \in 1..m : Sizes(t)[i] = t[i].size
  BY <1>1, SizesType
<1>3. A \cup B = 1..(n + m) /\ A \cap B = {}
  BY <1>2
<1>4. \A i \in B : i \in 1..(n + m) /\ i - n \in 1..m /\ ~ (i <= n)
  BY <1>2
<1>5. \A i \in A : i \in 1..(n + m) /\ i <= n
  BY <1>2
<1>6. h \in [B -> Nat]
  BY <1>2, <1>4
<1>7. \A i \in A : f[i] = g[i]
  BY <1>1, <1>2, <1>5
<1>8. \A i \in B : h[i] = Sizes(t)[i - n]
  BY <1>1, <1>2, <1>4
<1>9. IsFiniteSet(A) /\ IsFiniteSet(B)
  <2>1. n + 1 \in Int /\ n + m \in Int
    BY <1>2
  <2>2. QED
    BY <1>2, <2>1, FS_Interval
<1>10. Joins(f, g, A, h, B)
  <2>1. f \in [A \cup B -> Nat]
    BY <1>2, <1>3
  <2>2. \A i \in B : f[i] = h[i]
    OBVIOUS
  <2>3. QED
    BY <1>2, <1>3, <1>6, <1>7, <2>1, <2>2 DEF Joins
<1>11. move \in Bijection(B, 1..m)
  <2>1. move \in [B -> 1..m]
    BY <1>4
  <2>2. \A i, k \in B : move[i] = move[k] => i = k
    BY <1>2
  <2>3. \A k \in 1..m : \E i \in B : move[i] = k
    <3>1. SUFFICES ASSUME NEW k \in 1..m PROVE \E i \in B : move[i] = k
      OBVIOUS
    <3>2. k + n \in B /\ (k + n) - n = k
      BY <1>2
    <3>3. QED
      BY <3>2
  <2>4. QED
    BY <2>1, <2>2, <2>3 DEF Bijection, Injection, IsInjective, Surjection
<1>12. \A i \in B : h[i] = Sizes(t)[move[i]]
  BY <1>8
<1> HIDE DEF A, B, f, g, h, move
<1>13. Total(f) = Total(g) + Total(h)
  BY <1>9, <1>10, TotalSplit
<1>14. Total(h) = Total(Sizes(t))
  <2>1. Renames(h, B, Sizes(t), 1..m, move)
    BY <1>2, <1>6, <1>11, <1>12 DEF Renames
  <2>2. QED
    BY <1>9, <2>1, TotalMoved
<1>15. /\ Bytes(s \o t) = Total(f)
       /\ Bytes(s) = Total(g) /\ Bytes(t) = Total(Sizes(t))
  BY <1>1, BytesType DEF f, g
<1>16. QED
  BY <1>1, <1>13, <1>14, <1>15

\* A line that is appended adds its size.
LEMMA BytesAppend ==
  ASSUME NEW s \in Seq(AnyLine), NEW l \in AnyLine
  PROVE  /\ Append(s, l) \in Seq(AnyLine)
         /\ Bytes(Append(s, l)) = Bytes(s) + l.size
<1>1. Append(s, l) = s \o << l >>
  BY AppendIsConcat
<1>2. << l >> \in Seq(AnyLine) /\ Bytes(<< l >>) = l.size
  BY BytesOne
<1>3. QED
  BY <1>1, <1>2, BytesConcat

\* Every file of pieces may have a marker, and every file of lines may have pieces.
LEMMA LinesAreLines ==
  /\ \A s \in Seq(Piece) : s \in Seq(AnyLine)
  /\ \A s \in Seq(Line) : s \in Seq(AnyLine)
BY SeqMonotonic DEF AnyLine, Piece

\* What is in a file.
LEMMA ElementsType ==
  ASSUME NEW T, NEW s \in Seq(T)
  PROVE  Elements(s) \in SUBSET T
<1>1. \A i \in DOMAIN s : s[i] \in T
  BY LenProperties, ElementOfSeq
<1>2. QED
  BY <1>1 DEF Elements

----------------------------------------------------------------------------
(***************************************************************************)
(* The lines of files, and their order.                                    *)
(***************************************************************************)
\* What is in two files that are put together.
LEMMA ElementsConcat ==
  ASSUME NEW s \in Seq(AnyLine), NEW t \in Seq(AnyLine)
  PROVE  Elements(s \o t) = Elements(s) \cup Elements(t)
<1>1. /\ s \o t \in Seq(AnyLine) /\ Len(s \o t) = Len(s) + Len(t)
      /\ \A i \in 1..(Len(s) + Len(t)) : (s \o t)[i] = IF i <= Len(s) THEN s[i] ELSE t[i - Len(s)]
  BY ConcatProperties
<1>2. /\ Len(s) \in Nat /\ Len(t) \in Nat
      /\ DOMAIN s = 1..Len(s) /\ DOMAIN t = 1..Len(t) /\ DOMAIN (s \o t) = 1..(Len(s) + Len(t))
  BY <1>1, LenProperties
<1>3. ASSUME NEW e \in Elements(s \o t)
      PROVE  e \in Elements(s) \cup Elements(t)
  <2>1. PICK i \in 1..(Len(s) + Len(t)) : e = (s \o t)[i]
    BY <1>2 DEF Elements
  <2>2. CASE i <= Len(s)
    <3>1. i \in DOMAIN s /\ e = s[i]
      BY <1>1, <1>2, <2>1, <2>2
    <3>2. QED
      BY <3>1 DEF Elements
  <2>3. CASE ~ (i <= Len(s))
    <3>1. i - Len(s) \in DOMAIN t /\ e = t[i - Len(s)]
      BY <1>1, <1>2, <2>1, <2>3
    <3>2. QED
      BY <3>1 DEF Elements
  <2>4. QED
    BY <2>2, <2>3
<1>4. ASSUME NEW e \in Elements(s)
      PROVE  e \in Elements(s \o t)
  <2>1. PICK i \in 1..Len(s) : e = s[i]
    BY <1>2 DEF Elements
  <2>2. i \in DOMAIN (s \o t) /\ (s \o t)[i] = e
    BY <1>1, <1>2, <2>1
  <2>3. QED
    BY <2>2 DEF Elements
<1>5. ASSUME NEW e \in Elements(t)
      PROVE  e \in Elements(s \o t)
  <2>1. PICK i \in 1..Len(t) : e = t[i]
    BY <1>2 DEF Elements
  <2>2. /\ i + Len(s) \in 1..(Len(s) + Len(t)) /\ ~ (i + Len(s) <= Len(s))
        /\ (i + Len(s)) - Len(s) = i
    BY <1>2
  <2>3. i + Len(s) \in DOMAIN (s \o t) /\ (s \o t)[i + Len(s)] = e
    BY <1>1, <1>2, <2>1, <2>2
  <2>4. QED
    BY <2>3 DEF Elements
<1>6. QED
  BY <1>3, <1>4, <1>5

\* What is in a file to which a line is appended.
LEMMA ElementsAppend ==
  ASSUME NEW s \in Seq(AnyLine), NEW l \in AnyLine
  PROVE  Elements(Append(s, l)) = Elements(s) \cup {l}
<1>1. Append(s, l) = s \o << l >> /\ << l >> \in Seq(AnyLine)
  BY AppendIsConcat
<1>2. Elements(<< l >>) = {l}
  BY DEF Elements
<1>3. QED
  BY <1>1, <1>2, ElementsConcat

\* Lines of an event in the one file go before those in the other.
Before(s, t) ==
  \A k \in Elements(s), l \in Elements(t) :
    k.event = l.event /\ l.event # 0 => k.version < l.version

\* Two files in order that are put together are in order, if the one goes before the other.
LEMMA InOrderConcat ==
  ASSUME NEW s \in Seq(AnyLine), NEW t \in Seq(AnyLine),
         InOrder(s), InOrder(t), Before(s, t)
  PROVE  InOrder(s \o t)
<1> DEFINE n == Len(s)
           m == Len(t)
           r == s \o t
<1>1. /\ r \in Seq(AnyLine) /\ Len(r) = n + m
      /\ \A i \in 1..(n + m) : r[i] = IF i <= n THEN s[i] ELSE t[i - n]
  BY ConcatProperties
<1>2. /\ n \in Nat /\ m \in Nat
      /\ DOMAIN s = 1..n /\ DOMAIN t = 1..m /\ DOMAIN r = 1..(n + m)
  BY <1>1, LenProperties
<1> HIDE DEF n, m, r
<1>3. SUFFICES ASSUME NEW i \in 1..(n + m), NEW k \in 1..(n + m), i < k,
                      r[i].event = r[k].event, r[i].event # 0
               PROVE  r[i].version < r[k].version
  BY <1>2 DEF InOrder, r
<1>4. CASE k <= n
  <2>1. i \in DOMAIN s /\ k \in DOMAIN s /\ r[i] = s[i] /\ r[k] = s[k]
    BY <1>1, <1>2, <1>3, <1>4
  <2>2. QED
    BY <1>3, <2>1 DEF InOrder
<1>5. CASE i <= n /\ ~ (k <= n)
  <2>1. i \in DOMAIN s /\ k - n \in DOMAIN t /\ r[i] = s[i] /\ r[k] = t[k - n]
    BY <1>1, <1>2, <1>3, <1>5
  <2>2. r[i] \in Elements(s) /\ r[k] \in Elements(t)
    BY <2>1 DEF Elements
  <2>3. QED
    BY <1>3, <2>2 DEF Before
<1>6. CASE ~ (i <= n)
  <2>1. /\ i - n \in DOMAIN t /\ k - n \in DOMAIN t /\ i - n < k - n
        /\ r[i] = t[i - n] /\ r[k] = t[k - n]
    BY <1>1, <1>2, <1>3, <1>6
  <2>2. QED
    BY <1>3, <2>1 DEF InOrder
<1>7. QED
  BY <1>2, <1>3, <1>4, <1>5, <1>6

\* Files without and with one line.
LEMMA InOrderShort ==
  ASSUME NEW l
  PROVE  InOrder(<< l >>) /\ InOrder(<< >>)
BY DEF InOrder

\* A line that goes on with an event may be appended.
LEMMA InOrderAppend ==
  ASSUME NEW s \in Seq(AnyLine), NEW l \in AnyLine, InOrder(s),
         \A k \in Elements(s) : k.event = l.event /\ l.event # 0 => k.version < l.version
  PROVE  InOrder(Append(s, l))
<1>1. Append(s, l) = s \o << l >> /\ << l >> \in Seq(AnyLine)
  BY AppendIsConcat
<1>2. Elements(<< l >>) = {l}
  BY DEF Elements
<1>3. Before(s, << l >>)
  BY <1>2 DEF Before
<1>4. QED
  BY <1>1, <1>3, InOrderShort, InOrderConcat

\* A set of naturals that is not empty has a least element.
LEMMA LeastNat ==
  ASSUME NEW T \in SUBSET Nat, T # {}
  PROVE  LET n == CHOOSE n \in T : \A m \in T : n <= m IN n \in T
<1> DEFINE R == OpToRel(<, Nat)
<1>1. IsWellFoundedOn(R, Nat)
  BY NatLessThanWellFounded
<1>2. \A m, n \in Nat : m < n => <<m, n>> \in R
  BY DEF OpToRel
<1> HIDE DEF R
<1>3. PICK x \in T : \A y \in T : ~ (<<y, x>> \in R)
  BY <1>1, WFMin
<1>4. \A y \in T : x <= y
  <2>1. SUFFICES ASSUME NEW y \in T PROVE x <= y
    OBVIOUS
  <2>2. x \in Nat /\ y \in Nat /\ ~ (<<y, x>> \in R)
    BY <1>3
  <2>3. ~ (y < x)
    BY <1>2, <2>2
  <2>4. QED
    BY <2>2, <2>3
<1>5. QED
  BY <1>3, <1>4

\* What compactTail() keeps is a suffix that fits.
LEMMA KeptFacts ==
  ASSUME NEW s \in Seq(Piece)
  PROVE  /\ Kept(s) \in Seq(Piece)
         /\ Bytes(Kept(s)) <= TailBytes
         /\ Elements(Kept(s)) \in SUBSET Elements(s)
         /\ InOrder(s) => InOrder(Kept(s))
<1> DEFINE fits == {n \in 1..(Len(s) + 1) :
                     /\ Bytes(SubSeq(s, n, Len(s))) <= TailBytes
                     /\ n - 1 \in 1..(Len(s) - 1) => s[n - 1] \notin Cut}
           n == CHOOSE n \in fits : \A m \in fits : n <= m
           kept == SubSeq(s, n, Len(s))
<1>1. Kept(s) = kept
  BY DEF Kept
<1>2. /\ Len(s) \in Nat /\ DOMAIN s = 1..Len(s)
      /\ \A i \in 1..Len(s) : s[i] \in Piece
  BY LenProperties, ElementOfSeq
<1>3. Len(s) + 1 \in fits
  <2>1. SubSeq(s, Len(s) + 1, Len(s)) = << >>
    BY <1>2, SubSeqEmpty
  <2>2. Bytes(<< >>) <= TailBytes
    BY BytesEmpty, SizesOfLines
  <2>3. Len(s) + 1 \in 1..(Len(s) + 1)
    BY <1>2
  <2>4. Bytes(SubSeq(s, Len(s) + 1, Len(s))) <= TailBytes
    BY <2>1, <2>2
  <2>5. (Len(s) + 1) - 1 \notin 1..(Len(s) - 1)
    BY <1>2
  <2>6. QED
    BY <2>3, <2>4, <2>5
<1>4. n \in fits
  <2>1. fits \in SUBSET Nat /\ fits # {}
    BY <1>2, <1>3
  <2> HIDE DEF fits
  <2>2. QED
    BY <2>1, LeastNat
<1>5. n \in 1..(Len(s) + 1) /\ Bytes(kept) <= TailBytes
  BY <1>4
<1> HIDE DEF fits, n
<1>6. /\ kept \in Seq(Piece)
      /\ Len(kept) = IF n <= Len(s) THEN Len(s) - n + 1 ELSE 0
      /\ \A i \in 1..(Len(s) - n + 1) : kept[i] = s[n + i - 1]
  <2>1. n \in Int /\ Len(s) \in Int /\ \A i \in n..Len(s) : s[i] \in Piece
    BY <1>2, <1>5
  <2>2. QED
    BY <2>1, SubSeqProperties
<1>7. DOMAIN kept = 1..(Len(s) - n + 1)
  BY <1>2, <1>5, <1>6, LenProperties
<1>8. \A i \in DOMAIN kept : n + i - 1 \in DOMAIN s /\ kept[i] = s[n + i - 1]
  BY <1>2, <1>5, <1>6, <1>7
<1>9. Elements(kept) \in SUBSET Elements(s)
  BY <1>8 DEF Elements
<1>10. InOrder(s) => InOrder(kept)
  <2>1. SUFFICES ASSUME InOrder(s), NEW i \in DOMAIN kept, NEW k \in DOMAIN kept, i < k,
                        kept[i].event = kept[k].event, kept[i].event # 0
                 PROVE  kept[i].version < kept[k].version
    BY DEF InOrder
  <2>2. n + i - 1 < n + k - 1
    BY <1>5, <1>7, <2>1
  <2>3. QED
    BY <1>8, <2>1, <2>2 DEF InOrder
<1>11. QED
  BY <1>1, <1>5, <1>6, <1>9, <1>10

----------------------------------------------------------------------------
(***************************************************************************)
(* What the writer does: append() and compactTail().                       *)
(***************************************************************************)
\* The files of a call, its writer and the budget.
WriterStates == [files : FilesOfCall, writer : WriterOfCall, used : Nat]

\* The fields of files, and of a writer.
LEMMA FieldsOfState ==
  ASSUME NEW s \in WriterStates
  PROVE  /\ s.files \in FilesOfCall /\ s.writer \in WriterOfCall /\ s.used \in Nat
         /\ s.files.head \in Seq(Piece) /\ s.files.tail \in Seq(Piece)
         /\ s.files.final \in Seq(AnyLine) /\ s.files.made \in BOOLEAN
         /\ s.writer.open \in BOOLEAN /\ s.writer.head \in 0..HeadBytes
         /\ s.writer.tail \in Nat /\ s.writer.omitted \in Nat
BY DEF WriterStates, FilesOfCall, WriterOfCall, AnyLine

\* A state is made of its parts.
LEMMA StateOfFields ==
  ASSUME NEW f \in FilesOfCall, NEW w \in WriterOfCall, NEW u \in Nat
  PROVE  /\ [files |-> f, writer |-> w, used |-> u] \in WriterStates
         /\ [files |-> f, writer |-> w, used |-> u].files = f
         /\ [files |-> f, writer |-> w, used |-> u].writer = w
         /\ [files |-> f, writer |-> w, used |-> u].used = u
BY DEF WriterStates

\* What the writer counts is what its files have.
Synced(f, w) == w.head = Bytes(f.head) /\ w.tail = Bytes(f.tail)

\* What was told or is said to be omitted.
Accounted(f, w) == Bytes(f.head) + Bytes(f.tail) + w.omitted

\* The bytes of files are a natural number.
LEMMA CallBytesType ==
  ASSUME NEW f \in FilesOfCall
  PROVE  /\ Bytes(f.head) \in Nat /\ Bytes(f.tail) \in Nat
         /\ Bytes(f.final) \in Nat
         /\ CallBytes(f) = Bytes(f.head) + Bytes(f.tail) + Bytes(f.final)
         /\ CallBytes(f) \in Nat
<1>1. /\ f.head \in Seq(AnyLine) /\ f.tail \in Seq(AnyLine) /\ f.final \in Seq(AnyLine)
  BY LinesAreLines DEF FilesOfCall, AnyLine
<1>2. /\ Bytes(f.head) \in Nat /\ Bytes(f.tail) \in Nat
      /\ Bytes(f.final) \in Nat
  BY <1>1, BytesType
<1>3. CallBytes(f) = Bytes(f.head) + Bytes(f.tail) + Bytes(f.final)
  BY DEF CallBytes
<1>4. QED
  BY <1>2, <1>3

\* s becomes z when old lines are dropped; or stays, when there is no need to, that fails,
\* or they cannot be read; or lines are dropped, and nobody is told.
Compacts(s, z, fault) ==
  /\ z.files.head = s.files.head /\ z.files.final = s.files.final
  /\ z.files.made = s.files.made
  /\ z.writer.open = s.writer.open /\ z.writer.head = s.writer.head
  /\ \/ /\ s.writer.tail <= TailBytes \/ fault = "compact" \/ Read(s.files.tail) = << >>
        /\ z.files.tail = s.files.tail /\ z.writer.tail = s.writer.tail
        /\ z.writer.omitted = s.writer.omitted /\ z.used = s.used
     \/ /\ s.writer.tail > TailBytes
        /\ z.files.tail = Kept(s.files.tail)
        /\ z.writer.tail = Bytes(z.files.tail)
        /\ z.writer.omitted = s.writer.omitted + (s.writer.tail - z.writer.tail)
        /\ z.used = Less(s.used, s.writer.tail - z.writer.tail)
     \/ /\ fault = "compacted"
        /\ z.files.tail = Kept(s.files.tail) /\ z.writer.tail = s.writer.tail
        /\ z.writer.omitted = s.writer.omitted /\ z.used = s.used

\* What compactTail() does.
LEMMA CompactFacts ==
  ASSUME NEW s \in WriterStates, NEW fault
  PROVE  /\ CompactTail(s, fault) \in WriterStates
         /\ Compacts(s, CompactTail(s, fault), fault)
<1> DEFINE z == CompactTail(s, fault)
           kept == Kept(s.files.tail)
           removed == Less(s.writer.tail, Bytes(kept))
           f == [s.files EXCEPT !.tail = kept]
           w == [s.writer EXCEPT !.tail = Bytes(kept), !.omitted = @ + removed]
           u == Less(s.used, removed)
<1>1. CASE s.writer.tail <= TailBytes \/ Read(s.files.tail) = << >> \/ fault = "compact"
  <2>1. z = s
    BY <1>1 DEF CompactTail
  <2>2. QED
    BY <1>1, <2>1 DEF Compacts
<1>2. CASE /\ ~ (s.writer.tail <= TailBytes \/ Read(s.files.tail) = << >> \/ fault = "compact")
           /\ fault # "compacted"
  <2>1. z = [files |-> f, writer |-> w, used |-> u]
    BY <1>2 DEF CompactTail
  <2>2. /\ s.files \in FilesOfCall /\ s.writer \in WriterOfCall /\ s.used \in Nat
        /\ s.files.tail \in Seq(Piece) /\ s.writer.tail \in Nat /\ s.writer.omitted \in Nat
    BY FieldsOfState
  <2>3. /\ kept \in Seq(Piece) /\ Bytes(kept) \in Nat
        /\ Bytes(kept) <= TailBytes /\ TailBytes \in Nat
    <3>1. kept \in Seq(Piece) /\ Bytes(kept) <= TailBytes
      BY <2>2, KeptFacts
    <3>2. Bytes(kept) \in Nat
      BY <3>1, LinesAreLines, BytesType
    <3>3. QED
      BY <3>1, <3>2, SizesOfLines
  <2> HIDE DEF kept
  <2>4. removed = s.writer.tail - Bytes(kept) /\ removed \in Nat
        /\ s.writer.tail > TailBytes
    BY <1>2, <2>2, <2>3 DEF Less
  <2>5. u \in Nat
    BY <2>2, <2>4 DEF Less
  <2>6. f \in FilesOfCall /\ f.tail = kept /\ f.head = s.files.head
        /\ f.final = s.files.final /\ f.made = s.files.made
    BY <2>2, <2>3 DEF FilesOfCall
  <2>7. s.writer.omitted + removed \in Nat
    BY <2>2, <2>4
  <2>8. w \in WriterOfCall /\ w.open = s.writer.open /\ w.head = s.writer.head
        /\ w.tail = Bytes(kept) /\ w.omitted = s.writer.omitted + removed
    BY <2>2, <2>3, <2>7 DEF WriterOfCall
  <2>9. u = Less(s.used, s.writer.tail - Bytes(kept))
    BY <2>4
  <2> HIDE DEF removed, f, w, u
  <2>10. z \in WriterStates /\ z.files = f /\ z.writer = w /\ z.used = u
    BY <2>1, <2>5, <2>6, <2>8, StateOfFields
  <2>11. Compacts(s, z, fault)
    BY <2>4, <2>6, <2>8, <2>9, <2>10 DEF Compacts, kept
  <2>12. QED
    BY <2>10, <2>11
<1>3. CASE /\ ~ (s.writer.tail <= TailBytes \/ Read(s.files.tail) = << >> \/ fault = "compact")
           /\ fault = "compacted"
  <2>1. z = [s EXCEPT !.files = f]
    BY <1>3 DEF CompactTail, WriterStates
  <2>2. /\ s.files \in FilesOfCall /\ kept \in Seq(Piece)
    <3>1. s.files \in FilesOfCall /\ s.files.tail \in Seq(Piece)
      BY FieldsOfState
    <3>2. QED
      BY <3>1, KeptFacts
  <2> HIDE DEF kept
  <2>3. f \in FilesOfCall /\ f.tail = kept /\ f.head = s.files.head
        /\ f.final = s.files.final /\ f.made = s.files.made
    BY <2>2 DEF FilesOfCall
  <2> HIDE DEF f
  <2>4. z \in WriterStates /\ z.files = f /\ z.writer = s.writer /\ z.used = s.used
    BY <2>1, <2>3 DEF WriterStates
  <2>5. Compacts(s, z, fault)
    BY <1>3, <2>3, <2>4 DEF Compacts, kept
  <2>6. QED
    BY <2>4, <2>5
<1>4. QED
  BY <1>1, <1>2, <1>3

\* What an append that fails may leave of a line: all of it, or a piece of no event.
PartOf(part, line) == part = line \/ part \in Cut

\* A part of a line is a piece.
LEMMA PartsOfLine ==
  ASSUME NEW line \in Line, NEW fault, NEW part \in Parts(line, fault)
  PROVE  PartOf(part, line)
<1>1. line.size \in Nat /\ line.size <= LineBytes /\ LineBytes \in Nat
  BY SizesOfLines DEF AnyLine, Piece
<1>2. 1..(line.size - 1) \in SUBSET Size
  BY <1>1 DEF Size
<1>3. part = line \/ part \in [event : {0}, version : {2}, size : 1..(line.size - 1)]
  BY DEF Parts
<1>4. part = line \/ part \in Cut
  BY <1>2, <1>3 DEF Cut
<1>5. QED
  BY <1>4 DEF PartOf

\* s becomes z when a line is refused; written in part, but counted as omitted; put into the
\* head; or put into the tail, to which then m belongs.
Refuses(s, line, z) ==
  /\ z.files = s.files /\ z.used = s.used
  /\ z.writer.open = s.writer.open /\ z.writer.head = s.writer.head
  /\ z.writer.tail = s.writer.tail
  /\ z.writer.omitted = s.writer.omitted + line.size

TearsHead(s, line, part, z) ==
  /\ s.writer.head + line.size <= HeadBytes
  /\ z.files.head = Append(s.files.head, part) /\ z.files.tail = s.files.tail
  /\ z.files.final = s.files.final /\ z.files.made = s.files.made
  /\ z.writer.open = s.writer.open /\ z.writer.head = s.writer.head

TearsTail(s, line, part, z) ==
  /\ s.writer.head + line.size > HeadBytes
  /\ z.files.head = s.files.head /\ z.files.tail = Append(s.files.tail, part)
  /\ z.files.final = s.files.final /\ z.files.made = s.files.made
  /\ z.writer.open = s.writer.open /\ z.writer.head = s.writer.head

Heads(s, line, z) ==
  /\ s.writer.head + line.size <= HeadBytes
  /\ z.files.head = Append(s.files.head, line) /\ z.files.tail = s.files.tail
  /\ z.files.final = s.files.final /\ z.files.made = s.files.made
  /\ z.writer.open = s.writer.open /\ z.writer.head = s.writer.head + line.size
  /\ z.writer.tail = s.writer.tail /\ z.writer.omitted = s.writer.omitted
  /\ z.used = s.used + line.size

Tails(s, line, m) ==
  /\ s.writer.head + line.size > HeadBytes
  /\ m.files.head = s.files.head /\ m.files.tail = Append(s.files.tail, line)
  /\ m.files.final = s.files.final /\ m.files.made = s.files.made
  /\ m.writer.open = s.writer.open /\ m.writer.head = s.writer.head
  /\ m.writer.tail = s.writer.tail + line.size /\ m.writer.omitted = s.writer.omitted
  /\ m.used = s.used + line.size

Appends(s, line, part, z, fault) ==
  \/ Refuses(s, line, z)
  \/ fault = "torn" /\ (TearsHead(s, line, part, z) \/ TearsTail(s, line, part, z))
  \/ Heads(s, line, z)
  \/ \E m \in WriterStates : Tails(s, line, m) /\ Compacts(m, z, fault)

\* What append() does.
LEMMA AppendFacts ==
  ASSUME NEW s \in WriterStates, NEW line \in Line, NEW part, PartOf(part, line), NEW fault
  PROVE  /\ AppendLine(s, line, part, fault) \in WriterStates
         /\ Appends(s, line, part, AppendLine(s, line, part, fault), fault)
<1> DEFINE z == AppendLine(s, line, part, fault)
<1>1. /\ s.files \in FilesOfCall /\ s.writer \in WriterOfCall /\ s.used \in Nat
      /\ s.files.head \in Seq(Piece) /\ s.files.tail \in Seq(Piece)
      /\ s.writer.head \in 0..HeadBytes
      /\ s.writer.tail \in Nat /\ s.writer.omitted \in Nat
  BY FieldsOfState
<1>2. line.size \in Nat /\ HeadBytes \in Nat /\ line \in Piece
  BY SizesOfLines DEF AnyLine, Piece
<1>3. CASE s.used + line.size > RunBytes \/ fault = "append"
  <2> DEFINE w == [s.writer EXCEPT !.omitted = @ + line.size]
  <2>1. z = [s EXCEPT !.writer = w]
    BY <1>3 DEF AppendLine, WriterStates
  <2>2. s.writer.omitted + line.size \in Nat
    BY <1>1, <1>2
  <2>3. w \in WriterOfCall /\ w.open = s.writer.open /\ w.head = s.writer.head
        /\ w.tail = s.writer.tail /\ w.omitted = s.writer.omitted + line.size
    BY <1>1, <2>2 DEF WriterOfCall
  <2> HIDE DEF w
  <2>4. z \in WriterStates /\ z.files = s.files /\ z.writer = w /\ z.used = s.used
    BY <2>1, <2>3 DEF WriterStates
  <2>5. Refuses(s, line, z)
    BY <2>3, <2>4 DEF Refuses
  <2>6. QED
    BY <2>4, <2>5 DEF Appends
<1>4. CASE ~ (s.used + line.size > RunBytes \/ fault = "append") /\ fault # "torn"
           /\ s.writer.head + line.size <= HeadBytes
  <2> DEFINE f == [s.files EXCEPT !.head = Append(@, line)]
             w == [s.writer EXCEPT !.head = @ + line.size]
             u == s.used + line.size
  <2>1. z = [files |-> f, writer |-> w, used |-> u]
    BY <1>4 DEF AppendLine
  <2>2. Append(s.files.head, line) \in Seq(Piece)
    BY <1>1, <1>2, AppendProperties
  <2>3. s.writer.head + line.size \in 0..HeadBytes
    BY <1>1, <1>2, <1>4
  <2>4. f \in FilesOfCall /\ f.head = Append(s.files.head, line)
        /\ f.tail = s.files.tail /\ f.final = s.files.final /\ f.made = s.files.made
    BY <1>1, <2>2 DEF FilesOfCall
  <2>5. w \in WriterOfCall /\ w.open = s.writer.open
        /\ w.head = s.writer.head + line.size
        /\ w.tail = s.writer.tail /\ w.omitted = s.writer.omitted
    BY <1>1, <2>3 DEF WriterOfCall
  <2>6. u \in Nat
    BY <1>1, <1>2
  <2> HIDE DEF f, w
  <2>7. z \in WriterStates /\ z.files = f /\ z.writer = w /\ z.used = s.used + line.size
    BY <2>1, <2>4, <2>5, <2>6, StateOfFields
  <2>8. Heads(s, line, z)
    BY <1>4, <2>4, <2>5, <2>7 DEF Heads
  <2>9. QED
    BY <2>7, <2>8 DEF Appends
<1>5. CASE ~ (s.used + line.size > RunBytes \/ fault = "append") /\ fault # "torn"
           /\ ~ (s.writer.head + line.size <= HeadBytes)
  <2> DEFINE f == [s.files EXCEPT !.tail = Append(@, line)]
             w == [s.writer EXCEPT !.tail = @ + line.size]
             u == s.used + line.size
             m == [files |-> f, writer |-> w, used |-> u]
  <2>1. z = CompactTail(m, fault)
    BY <1>5 DEF AppendLine
  <2>2. Append(s.files.tail, line) \in Seq(Piece)
    BY <1>1, <1>2, AppendProperties
  <2>3. s.writer.tail + line.size \in Nat
    BY <1>1, <1>2
  <2>4. f \in FilesOfCall /\ f.head = s.files.head
        /\ f.tail = Append(s.files.tail, line) /\ f.final = s.files.final
        /\ f.made = s.files.made
    BY <1>1, <2>2 DEF FilesOfCall
  <2>5. w \in WriterOfCall /\ w.open = s.writer.open /\ w.head = s.writer.head
        /\ w.tail = s.writer.tail + line.size /\ w.omitted = s.writer.omitted
    BY <1>1, <2>3 DEF WriterOfCall
  <2>6. u \in Nat
    BY <1>1, <1>2
  <2> HIDE DEF f, w
  <2>7. m \in WriterStates /\ m.files = f /\ m.writer = w /\ m.used = s.used + line.size
    BY <2>4, <2>5, <2>6, StateOfFields
  <2> HIDE DEF m
  <2>8. s.writer.head + line.size > HeadBytes
    BY <1>1, <1>2, <1>5
  <2>9. Tails(s, line, m)
    BY <2>4, <2>5, <2>7, <2>8 DEF Tails
  <2>10. z \in WriterStates /\ Compacts(m, z, fault)
    BY <2>1, <2>7, CompactFacts
  <2>11. QED
    BY <2>7, <2>9, <2>10 DEF Appends
<1> DEFINE torn == [s.writer EXCEPT !.omitted = @ + line.size]
<1>6. torn \in WriterOfCall /\ torn.open = s.writer.open /\ torn.head = s.writer.head
  <2>1. s.writer.omitted + line.size \in Nat
    BY <1>1, <1>2
  <2>2. QED
    BY <1>1, <2>1 DEF WriterOfCall
<1>7. part \in Piece
  BY <1>2 DEF PartOf, Piece
<1>8. CASE ~ (s.used + line.size > RunBytes \/ fault = "append") /\ fault = "torn"
           /\ s.writer.head + line.size <= HeadBytes
  <2> DEFINE f == [s.files EXCEPT !.head = Append(@, part)]
  <2>1. z = [files |-> f, writer |-> torn, used |-> s.used]
    BY <1>8 DEF AppendLine
  <2>2. Append(s.files.head, part) \in Seq(Piece)
    BY <1>1, <1>7, AppendProperties
  <2>3. f \in FilesOfCall /\ f.head = Append(s.files.head, part)
        /\ f.tail = s.files.tail /\ f.final = s.files.final /\ f.made = s.files.made
    BY <1>1, <2>2 DEF FilesOfCall
  <2> HIDE DEF f, torn
  <2>4. z \in WriterStates /\ z.files = f /\ z.writer = torn
    BY <1>1, <1>6, <2>1, <2>3, StateOfFields
  <2>5. TearsHead(s, line, part, z)
    BY <1>6, <1>8, <2>3, <2>4 DEF TearsHead
  <2>6. QED
    BY <1>8, <2>4, <2>5 DEF Appends
<1>9. CASE ~ (s.used + line.size > RunBytes \/ fault = "append") /\ fault = "torn"
           /\ ~ (s.writer.head + line.size <= HeadBytes)
  <2> DEFINE f == [s.files EXCEPT !.tail = Append(@, part)]
  <2>1. z = [files |-> f, writer |-> torn, used |-> s.used]
    BY <1>9 DEF AppendLine
  <2>2. Append(s.files.tail, part) \in Seq(Piece)
    BY <1>1, <1>7, AppendProperties
  <2>3. f \in FilesOfCall /\ f.head = s.files.head
        /\ f.tail = Append(s.files.tail, part) /\ f.final = s.files.final
        /\ f.made = s.files.made
    BY <1>1, <2>2 DEF FilesOfCall
  <2>4. s.writer.head + line.size > HeadBytes
    BY <1>1, <1>2, <1>9
  <2> HIDE DEF f, torn
  <2>5. z \in WriterStates /\ z.files = f /\ z.writer = torn
    BY <1>1, <1>6, <2>1, <2>3, StateOfFields
  <2>6. TearsTail(s, line, part, z)
    BY <1>6, <2>3, <2>4, <2>5 DEF TearsTail
  <2>7. QED
    BY <1>9, <2>5, <2>6 DEF Appends
<1>10. QED
  BY <1>3, <1>4, <1>5, <1>8, <1>9

\* What no append changes.
LEMMA AppendKeeps ==
  ASSUME NEW s, NEW line, NEW part, NEW z, NEW fault, Appends(s, line, part, z, fault)
  PROVE  /\ z.files.final = s.files.final /\ z.files.made = s.files.made
         /\ z.writer.open = s.writer.open
BY DEF Appends, Refuses, TearsHead, TearsTail, Heads, Tails, Compacts

----------------------------------------------------------------------------
(***************************************************************************)
(* Bytes are accounted for, and lines stay in order.                       *)
(***************************************************************************)
\* Each byte of a line is counted once: in the files, or as omitted; unless a part of it was
\* written, or dropped lines were not told of.
LEMMA AppendCounts ==
  ASSUME NEW s \in WriterStates, NEW line \in Line,
         NEW part, NEW z \in WriterStates, NEW fault, Appends(s, line, part, z, fault),
         fault \notin {"torn", "compacted"}, Synced(s.files, s.writer)
  PROVE  /\ Synced(z.files, z.writer)
         /\ Accounted(z.files, z.writer) = Accounted(s.files, s.writer) + line.size
         /\ CallBytes(s.files) <= s.used =>
              z.used + CallBytes(s.files) = s.used + CallBytes(z.files)
<1>1. /\ s.files \in FilesOfCall /\ s.used \in Nat
      /\ s.files.head \in Seq(AnyLine) /\ s.files.tail \in Seq(AnyLine)
      /\ s.writer.omitted \in Nat /\ line \in AnyLine /\ line.size \in Nat
  BY FieldsOfState, LinesAreLines, SizesOfLines DEF AnyLine, Piece
<1>2. /\ Bytes(s.files.head) \in Nat /\ Bytes(s.files.tail) \in Nat
      /\ Bytes(s.files.final) \in Nat
      /\ CallBytes(s.files)
           = Bytes(s.files.head) + Bytes(s.files.tail) + Bytes(s.files.final)
  BY <1>1, CallBytesType
<1>3. z.files \in FilesOfCall
  BY FieldsOfState
<1>4. CallBytes(z.files)
        = Bytes(z.files.head) + Bytes(z.files.tail) + Bytes(z.files.final)
  BY <1>3, CallBytesType
<1>5. s.writer.head = Bytes(s.files.head) /\ s.writer.tail = Bytes(s.files.tail)
  BY DEF Synced
<1>6. CASE Refuses(s, line, z)
  <2>1. z.files = s.files /\ z.used = s.used /\ z.writer.head = s.writer.head
        /\ z.writer.tail = s.writer.tail /\ z.writer.omitted = s.writer.omitted + line.size
    BY <1>6 DEF Refuses
  <2>2. QED
    BY <1>1, <1>2, <1>5, <2>1 DEF Synced, Accounted
<1>7. CASE Heads(s, line, z)
  <2>1. /\ z.files.head = Append(s.files.head, line) /\ z.files.tail = s.files.tail
        /\ z.files.final = s.files.final /\ z.used = s.used + line.size
        /\ z.writer.head = s.writer.head + line.size
        /\ z.writer.tail = s.writer.tail /\ z.writer.omitted = s.writer.omitted
    BY <1>7 DEF Heads
  <2>2. Bytes(z.files.head) = Bytes(s.files.head) + line.size
    BY <1>1, <2>1, BytesAppend
  <2>3. QED
    BY <1>1, <1>2, <1>4, <1>5, <2>1, <2>2 DEF Synced, Accounted
<1>8. ASSUME NEW m \in WriterStates, Tails(s, line, m), Compacts(m, z, fault)
      PROVE  /\ Synced(z.files, z.writer)
             /\ Accounted(z.files, z.writer) = Accounted(s.files, s.writer) + line.size
             /\ CallBytes(s.files) <= s.used =>
                  z.used + CallBytes(s.files) = s.used + CallBytes(z.files)
  <2>1. /\ m.files.head = s.files.head /\ m.files.tail = Append(s.files.tail, line)
        /\ m.files.final = s.files.final /\ m.used = s.used + line.size
        /\ m.writer.head = s.writer.head
        /\ m.writer.tail = s.writer.tail + line.size /\ m.writer.omitted = s.writer.omitted
    BY <1>8 DEF Tails
  <2>2. Bytes(m.files.tail) = Bytes(s.files.tail) + line.size
    BY <1>1, <2>1, BytesAppend
  <2>3. z.files.head = s.files.head /\ z.files.final = s.files.final
        /\ z.writer.head = s.writer.head
    BY <1>8, <2>1 DEF Compacts
  <2>4. CASE /\ z.files.tail = m.files.tail /\ z.writer.tail = m.writer.tail
             /\ z.writer.omitted = m.writer.omitted /\ z.used = m.used
    BY <1>1, <1>2, <1>4, <1>5, <2>1, <2>2, <2>3, <2>4 DEF Synced, Accounted
  <2>5. CASE /\ m.writer.tail > TailBytes
             /\ z.files.tail = Kept(m.files.tail)
             /\ z.writer.tail = Bytes(z.files.tail)
             /\ z.writer.omitted = m.writer.omitted + (m.writer.tail - z.writer.tail)
             /\ z.used = Less(m.used, m.writer.tail - z.writer.tail)
    <3> DEFINE k == Bytes(z.files.tail)
               h == Bytes(s.files.head)
               t == Bytes(s.files.tail)
               e == Bytes(s.files.final)
    <3>1. k \in Nat /\ k <= TailBytes /\ TailBytes \in Nat
      <4>1. m.files.tail \in Seq(Piece)
        BY FieldsOfState
      <4>2. k <= TailBytes
        BY <2>5, <4>1, KeptFacts
      <4>3. k \in Nat
        BY <1>3, CallBytesType
      <4>4. QED
        BY <4>2, <4>3, SizesOfLines
    <3>2. /\ h \in Nat /\ t \in Nat /\ e \in Nat /\ s.used \in Nat /\ line.size \in Nat
          /\ s.writer.omitted \in Nat
      BY <1>1, <1>2
    <3>3. t + line.size > TailBytes
      BY <1>5, <2>1, <2>5
    <3>4. z.writer.omitted = s.writer.omitted + ((t + line.size) - k)
      BY <1>5, <2>1, <2>5
    <3>5. z.used = Less(s.used + line.size, (t + line.size) - k)
      BY <1>5, <2>1, <2>5
    <3>6. CallBytes(s.files) = h + t + e /\ CallBytes(z.files) = h + k + e
      BY <1>2, <1>4, <2>3
    <3>7. Synced(z.files, z.writer)
      BY <1>5, <2>3, <2>5 DEF Synced
    <3>8. /\ Accounted(z.files, z.writer) = h + k + z.writer.omitted
          /\ Accounted(s.files, s.writer) = h + t + s.writer.omitted
      BY <2>3 DEF Accounted
    <3> HIDE DEF k, h, t, e
    <3>9. Accounted(z.files, z.writer) = Accounted(s.files, s.writer) + line.size
      BY <3>1, <3>2, <3>4, <3>8
    <3>10. ASSUME h + t + e <= s.used
           PROVE  z.used + (h + t + e) = s.used + (h + k + e)
      <4>1. ~ (s.used + line.size > (t + line.size) - k)
              => s.used + line.size = (t + line.size) - k
        BY <3>1, <3>2, <3>10
      <4>2. z.used = (s.used + line.size) - ((t + line.size) - k)
        BY <3>1, <3>2, <3>5, <4>1 DEF Less
      <4>3. QED
        BY <3>1, <3>2, <4>2
    <3>11. QED
      BY <3>6, <3>7, <3>9, <3>10
  <2>6. QED
    BY <1>8, <2>4, <2>5 DEF Compacts
<1>9. QED
  BY <1>6, <1>7, <1>8 DEF Appends

\* How long the tail of a file may be before a line, and after it: as much longer as a
\* compaction fails.
Grows(fault, most, still) ==
  /\ most \in Nat /\ still \in Nat /\ most <= still /\ TailBytes <= still
  /\ fault = "compact" => most + LineBytes <= still

\* The tail is as long as it may be, if what was there could be read.
LEMMA AppendTail ==
  ASSUME NEW s \in WriterStates, NEW line \in Line, NEW part, NEW z \in WriterStates,
         NEW fault, fault \notin {"torn", "compacted"},
         Appends(s, line, part, z, fault), Synced(s.files, s.writer),
         NEW most, NEW still, Grows(fault, most, still),
         Bytes(s.files.tail) <= most, most + LineBytes <= MaxBytes
  PROVE  Bytes(z.files.tail) <= still
<1>1. /\ s.files.tail \in Seq(AnyLine) /\ line \in AnyLine /\ line.size \in Nat
      /\ line.size <= LineBytes /\ LineBytes \in Nat /\ TailBytes \in Nat
  BY FieldsOfState, LinesAreLines, SizesOfLines DEF AnyLine, Piece
<1>2. Bytes(s.files.tail) \in Nat /\ Bytes(z.files.tail) \in Nat /\ MaxBytes \in Nat
  BY FieldsOfState, CallBytesType, SizesOfLines DEF MaxBytes
<1>3. /\ most \in Nat /\ still \in Nat /\ most <= still /\ TailBytes <= still
      /\ fault = "compact" => most + LineBytes <= still
  BY DEF Grows
<1>4. CASE Refuses(s, line, z) \/ Heads(s, line, z)
  <2>1. z.files.tail = s.files.tail
    BY <1>4 DEF Refuses, Heads
  <2>2. QED
    BY <1>2, <1>3, <2>1
<1>5. ASSUME NEW m \in WriterStates, Tails(s, line, m), Compacts(m, z, fault)
      PROVE  Bytes(z.files.tail) <= still
  <2>1. /\ m.files.tail = Append(s.files.tail, line)
        /\ m.writer.tail = s.writer.tail + line.size
    BY <1>5 DEF Tails
  <2>2. /\ Bytes(m.files.tail) = Bytes(s.files.tail) + line.size
        /\ Bytes(m.files.tail) <= most + LineBytes /\ Bytes(m.files.tail) <= MaxBytes
        /\ m.writer.tail = Bytes(m.files.tail)
    <3>1. Bytes(m.files.tail) = Bytes(s.files.tail) + line.size
      BY <1>1, <2>1, BytesAppend
    <3>2. QED
      BY <1>1, <1>2, <1>3, <2>1, <3>1 DEF Synced
  <2>3. Read(m.files.tail) # << >>
    <3>1. m.files.tail # << >>
      BY <1>1, <2>1, AppendProperties
    <3>2. QED
      BY <2>2, <3>1 DEF Read
  <2>4. CASE z.files.tail = m.files.tail
    <3>1. m.writer.tail <= TailBytes \/ fault = "compact" \/ z.files.tail = Kept(m.files.tail)
      BY <1>5, <2>3 DEF Compacts
    <3>2. CASE fault = "compact" \/ m.writer.tail <= TailBytes
      BY <1>1, <1>2, <1>3, <2>2, <2>4, <3>2
    <3>3. CASE z.files.tail = Kept(m.files.tail)
      <4>1. m.files.tail \in Seq(Piece)
        BY FieldsOfState
      <4>2. Bytes(z.files.tail) <= TailBytes
        BY <3>3, <4>1, KeptFacts
      <4>3. QED
        BY <1>1, <1>2, <1>3, <4>2
    <3>4. QED
      BY <3>1, <3>2, <3>3
  <2>5. CASE z.files.tail = Kept(m.files.tail)
    <3>1. m.files.tail \in Seq(Piece)
      BY FieldsOfState
    <3>2. Bytes(z.files.tail) <= TailBytes
      BY <2>5, <3>1, KeptFacts
    <3>3. QED
      BY <1>1, <1>2, <1>3, <3>2
  <2>6. QED
    BY <1>5, <2>4, <2>5 DEF Compacts
<1>6. QED
  BY <1>4, <1>5 DEF Appends

\* A line goes on with what is there: it begins an event, or ends one that has begun.
GoesOn(line, lines) ==
  \A k \in lines : k.event = line.event =>
    k.version = 1 /\ line.version = 2 /\ k.size <= line.size

\* Head and tail are in order, and so are both together.
Ordered(f) ==
  InOrder(f.head) /\ InOrder(f.tail) /\ Before(f.head, f.tail)

\* The lines of the files are among those of the agent, or what is left of them; and a
\* beginning is in the tail only where it did not fit into the head.
Placed(f, w, lines) ==
  /\ \A k \in Elements(f.head) \cup Elements(f.tail) : k \in lines \/ k \in Cut
  /\ \A t \in Elements(f.tail) : t.version = 1 => w.head + t.size > HeadBytes

\* Old lines that are dropped leave the others in order.
LEMMA CompactOrder ==
  ASSUME NEW m \in WriterStates, NEW z, NEW fault, Compacts(m, z, fault),
         NEW lines, Ordered(m.files), Placed(m.files, m.writer, lines)
  PROVE  Ordered(z.files) /\ Placed(z.files, z.writer, lines)
<1>1. m.files.tail \in Seq(Piece)
  BY FieldsOfState
<1>2. /\ z.files.head = m.files.head /\ z.writer.head = m.writer.head
      /\ z.files.tail = m.files.tail \/ z.files.tail = Kept(m.files.tail)
  BY DEF Compacts
<1>3. /\ Elements(z.files.tail) \in SUBSET Elements(m.files.tail)
      /\ InOrder(m.files.tail) => InOrder(z.files.tail)
  BY <1>1, <1>2, KeptFacts
<1>4. Ordered(z.files)
  BY <1>2, <1>3 DEF Ordered, Before
<1>5. Placed(z.files, z.writer, lines)
  BY <1>2, <1>3 DEF Placed
<1>6. QED
  BY <1>4, <1>5

\* A line, or what is left of it, goes on with what there is of its event.
LEMMA PartGoesOn ==
  ASSUME NEW line \in Line, NEW part, PartOf(part, line),
         NEW lines \in SUBSET Line, GoesOn(line, lines)
  PROVE  \A k : (k \in lines \/ k \in Cut) /\ k.event = part.event /\ part.event # 0 =>
                  /\ k \in lines /\ part = line
                  /\ k.version = 1 /\ line.version = 2 /\ k.size <= line.size
                  /\ k.version < part.version
<1>1. \A k \in Cut : k.event = 0
  BY SizesOfLines
<1>2. \A k \in lines : k.event = line.event =>
        k.version = 1 /\ line.version = 2 /\ k.size <= line.size /\ k.version < line.version
  BY DEF GoesOn
<1>3. part.event # 0 => part = line
  BY <1>1 DEF PartOf
<1>4. QED
  BY <1>1, <1>2, <1>3

\* The end of an event that fits into the head finds its beginning there.
LEMMA OrderInHead ==
  ASSUME NEW s \in WriterStates, NEW line \in Line, NEW part, PartOf(part, line),
         NEW z, z.writer.head \in Nat, s.writer.head <= z.writer.head,
         s.writer.head + line.size <= HeadBytes,
         z.files.head = Append(s.files.head, part), z.files.tail = s.files.tail,
         NEW lines \in SUBSET Line,
         GoesOn(line, lines), Ordered(s.files), Placed(s.files, s.writer, lines)
  PROVE  Ordered(z.files) /\ Placed(z.files, z.writer, lines \cup {line})
<1>1. /\ s.files.head \in Seq(AnyLine) /\ s.files.tail \in Seq(AnyLine)
      /\ s.writer.head \in Nat /\ HeadBytes \in Nat /\ line.size \in Nat
      /\ part \in AnyLine
  <2>1. s.writer.head \in 0..HeadBytes /\ HeadBytes \in Nat
    BY FieldsOfState, SizesOfLines
  <2>2. QED
    BY <2>1, FieldsOfState, LinesAreLines, SizesOfLines DEF AnyLine, Piece, PartOf
<1>2. /\ InOrder(s.files.head) /\ InOrder(s.files.tail)
      /\ Before(s.files.head, s.files.tail)
      /\ \A k \in Elements(s.files.head) : k \in lines \/ k \in Cut
      /\ \A k \in Elements(s.files.tail) : k \in lines \/ k \in Cut
      /\ \A t \in Elements(s.files.tail) : t.version = 1 =>
           s.writer.head + t.size > HeadBytes
  BY DEF Ordered, Placed
<1>3. \A k : (k \in lines \/ k \in Cut) /\ k.event = part.event /\ part.event # 0 =>
               /\ k \in lines /\ part = line
               /\ k.version = 1 /\ line.version = 2 /\ k.size <= line.size
               /\ k.version < part.version
  BY PartGoesOn
<1>4. Elements(z.files.head) = Elements(s.files.head) \cup {part}
  BY <1>1, ElementsAppend
<1>5. \A t \in Elements(s.files.tail) : t.size \in Nat
  BY <1>1, ElementsType, SizesOfLines
<1>6. InOrder(z.files.head)
  <2>1. \A k \in Elements(s.files.head) :
          k.event = part.event /\ part.event # 0 => k.version < part.version
    BY <1>2, <1>3
  <2>2. QED
    BY <1>1, <1>2, <2>1, InOrderAppend
<1>7. \A t \in Elements(s.files.tail) : t.event = part.event => part.event = 0
  <2>1. SUFFICES ASSUME NEW t \in Elements(s.files.tail), t.event = part.event, part.event # 0
                 PROVE  FALSE
    OBVIOUS
  <2>2. t.size <= line.size /\ t.size \in Nat /\ s.writer.head + t.size > HeadBytes
    BY <1>2, <1>3, <1>5, <2>1
  <2>3. QED
    BY <1>1, <2>2
<1>8. Before(z.files.head, z.files.tail)
  BY <1>2, <1>4, <1>7 DEF Before
<1>9. \A t \in Elements(z.files.tail) : t.version = 1 =>
        z.writer.head + t.size > HeadBytes
  <2>1. SUFFICES ASSUME NEW t \in Elements(s.files.tail), t.version = 1
                 PROVE  z.writer.head + t.size > HeadBytes
    OBVIOUS
  <2>2. t.size \in Nat /\ s.writer.head + t.size > HeadBytes
    BY <1>2, <1>5, <2>1
  <2>3. QED
    BY <1>1, <2>2
<1>10. QED
  BY <1>2, <1>4, <1>6, <1>8, <1>9 DEF Ordered, Placed, PartOf

\* A line goes to the tail only if it does not fit into the head.
LEMMA OrderInTail ==
  ASSUME NEW s \in WriterStates, NEW line \in Line, NEW part, PartOf(part, line),
         NEW z, z.writer.head = s.writer.head,
         s.writer.head + line.size > HeadBytes,
         z.files.head = s.files.head, z.files.tail = Append(s.files.tail, part),
         NEW lines \in SUBSET Line,
         GoesOn(line, lines), Ordered(s.files), Placed(s.files, s.writer, lines)
  PROVE  Ordered(z.files) /\ Placed(z.files, z.writer, lines \cup {line})
<1>1. /\ s.files.head \in Seq(AnyLine) /\ s.files.tail \in Seq(AnyLine)
      /\ part \in AnyLine
  BY FieldsOfState, LinesAreLines DEF AnyLine, Piece, PartOf
<1>2. /\ InOrder(s.files.head) /\ InOrder(s.files.tail)
      /\ Before(s.files.head, s.files.tail)
      /\ \A k \in Elements(s.files.head) : k \in lines \/ k \in Cut
      /\ \A k \in Elements(s.files.tail) : k \in lines \/ k \in Cut
      /\ \A t \in Elements(s.files.tail) : t.version = 1 =>
           s.writer.head + t.size > HeadBytes
  BY DEF Ordered, Placed
<1>3. \A k : (k \in lines \/ k \in Cut) /\ k.event = part.event /\ part.event # 0 =>
               k.version < part.version
  BY PartGoesOn
<1>4. Elements(z.files.tail) = Elements(s.files.tail) \cup {part}
  BY <1>1, ElementsAppend
<1>5. InOrder(z.files.tail)
  <2>1. \A k \in Elements(s.files.tail) :
          k.event = part.event /\ part.event # 0 => k.version < part.version
    BY <1>2, <1>3
  <2>2. QED
    BY <1>1, <1>2, <2>1, InOrderAppend
<1>6. Before(z.files.head, z.files.tail)
  BY <1>2, <1>3, <1>4 DEF Before
<1>7. part.version = 1 => part = line
  BY SizesOfLines DEF PartOf
<1>8. \A t \in Elements(z.files.tail) : t.version = 1 =>
        z.writer.head + t.size > HeadBytes
  BY <1>2, <1>4, <1>7
<1>9. QED
  BY <1>2, <1>4, <1>5, <1>6, <1>8 DEF Ordered, Placed, PartOf

\* So lines stay in order, and so do those of which a part was written.
LEMMA AppendOrder ==
  ASSUME NEW s \in WriterStates, NEW line \in Line, NEW part, PartOf(part, line),
         NEW z \in WriterStates, NEW fault, Appends(s, line, part, z, fault),
         NEW lines \in SUBSET Line,
         GoesOn(line, lines), Ordered(s.files), Placed(s.files, s.writer, lines)
  PROVE  Ordered(z.files) /\ Placed(z.files, z.writer, lines \cup {line})
<1>1. /\ s.writer.head \in Nat /\ z.writer.head \in Nat /\ line.size \in Nat
      /\ PartOf(line, line)
  <2>1. s.writer.head \in 0..HeadBytes /\ z.writer.head \in 0..HeadBytes
    BY FieldsOfState
  <2>2. QED
    BY <2>1, SizesOfLines DEF AnyLine, Piece, PartOf
<1>2. CASE Refuses(s, line, z)
  <2>1. z.files = s.files /\ z.writer.head = s.writer.head
    BY <1>2 DEF Refuses
  <2>2. QED
    BY <2>1 DEF Placed
<1>3. CASE TearsHead(s, line, part, z)
  <2>1. z.writer.head = s.writer.head /\ s.writer.head <= z.writer.head
    BY <1>1, <1>3 DEF TearsHead
  <2>2. /\ s.writer.head + line.size <= HeadBytes
        /\ z.files.head = Append(s.files.head, part) /\ z.files.tail = s.files.tail
    BY <1>3 DEF TearsHead
  <2>3. QED
    BY <1>1, <2>1, <2>2, OrderInHead
<1>4. CASE TearsTail(s, line, part, z)
  BY <1>4, OrderInTail DEF TearsTail
<1>5. CASE Heads(s, line, z)
  <2>1. s.writer.head <= z.writer.head
    BY <1>1, <1>5 DEF Heads
  <2>2. QED
    BY <1>1, <1>5, <2>1, OrderInHead DEF Heads
<1>6. ASSUME NEW m \in WriterStates, Tails(s, line, m), Compacts(m, z, fault)
      PROVE  Ordered(z.files) /\ Placed(z.files, z.writer, lines \cup {line})
  <2>1. Ordered(m.files) /\ Placed(m.files, m.writer, lines \cup {line})
    BY <1>1, <1>6, OrderInTail DEF Tails
  <2>2. QED
    BY <1>6, <2>1, CompactOrder
<1>7. QED
  BY <1>2, <1>3, <1>4, <1>5, <1>6 DEF Appends

----------------------------------------------------------------------------
(***************************************************************************)
(* finalize().                                                             *)
(***************************************************************************)
\* Files as they are read: what is too long, or cannot be read, reads as empty.
Shown(f, unread) ==
  [f EXCEPT !.head = IF "head" \in unread THEN << >> ELSE Read(@),
            !.tail = IF "tail" \in unread THEN << >> ELSE Read(@)]

\* What is read of files is files, and is what there is where all is read, and not too long.
LEMMA ShownFacts ==
  ASSUME NEW f \in FilesOfCall, NEW unread
  PROVE  /\ Shown(f, unread) \in FilesOfCall
         /\ Shown(f, unread).head = IF "head" \in unread THEN << >> ELSE Read(f.head)
         /\ Shown(f, unread).tail = IF "tail" \in unread THEN << >> ELSE Read(f.tail)
         /\ Shown(f, unread).final = f.final /\ Shown(f, unread).made = f.made
         /\ Bytes(f.head) <= MaxBytes /\ Bytes(f.tail) <= MaxBytes => Shown(f, {}) = f
         /\ Ordered(f) => Ordered(Shown(f, unread))
<1> DEFINE head == IF "head" \in unread THEN << >> ELSE Read(f.head)
           tail == IF "tail" \in unread THEN << >> ELSE Read(f.tail)
<1>1. /\ head \in {f.head, << >>} /\ tail \in {f.tail, << >>}
      /\ Bytes(f.head) <= MaxBytes => Read(f.head) = f.head
      /\ Bytes(f.tail) <= MaxBytes => Read(f.tail) = f.tail
  BY DEF Read
<1>2. << >> \in Seq(Piece)
  BY EmptySeq
<1>3. Shown(f, unread) = [f EXCEPT !.head = head, !.tail = tail]
  BY DEF Shown, FilesOfCall
<1>4. ASSUME Bytes(f.head) <= MaxBytes, Bytes(f.tail) <= MaxBytes
      PROVE  Shown(f, {}) = f
  BY <1>1, <1>4 DEF Shown, FilesOfCall
<1> HIDE DEF head, tail
<1>5. /\ Shown(f, unread) \in FilesOfCall
      /\ Shown(f, unread).head = head /\ Shown(f, unread).tail = tail
      /\ Shown(f, unread).final = f.final /\ Shown(f, unread).made = f.made
  BY <1>1, <1>2, <1>3 DEF FilesOfCall
<1>6. ASSUME Ordered(f) PROVE Ordered(Shown(f, unread))
  <2>1. InOrder(<< >>) /\ \A t : Before(<< >>, t) /\ Before(t, << >>)
    <3>1. DOMAIN << >> = {}
      BY EmptySeq
    <3>2. Elements(<< >>) = {}
      BY <3>1 DEF Elements
    <3>3. QED
      BY <3>1, <3>2 DEF InOrder, Before
  <2>2. QED
    BY <1>1, <1>5, <1>6, <2>1 DEF Ordered
<1>7. QED
  BY <1>4, <1>5, <1>6 DEF head, tail

\* Head, marker or none, and tail.
Joined(f, marker) == f.head \o marker \o f.tail
Markers == {<< >>, << Marker >>}

\* The final file is what is put together of the others.
FinalIsJoined(f) == \E marker \in Markers : f.final = Joined(f, marker)

\* s becomes z: its final file is there already; cannot be written; is written while
\* head and tail, or the tail, stay; or takes their place.
Rests(s, z, unread) ==
  /\ Shown(s.files, unread).head = << >> /\ Shown(s.files, unread).tail = << >> /\ s.files.made
  /\ z.files = s.files /\ ~ z.writer.open
  /\ z.writer.omitted = s.writer.omitted /\ z.used = s.used

Writes(s, z, marker, unread) ==
  /\ z.files.final = Joined(Shown(s.files, unread), marker) /\ z.files.made
  /\ z.writer.omitted = s.writer.omitted

HeadStays(s, z, marker, unread) ==
  /\ Writes(s, z, marker, unread) /\ z.writer = s.writer
  /\ z.files.head = s.files.head /\ z.files.tail = s.files.tail

TailStays(s, z, marker, unread) ==
  /\ Writes(s, z, marker, unread) /\ z.writer = s.writer
  /\ z.files.head = << >> /\ z.files.tail = s.files.tail

Replaces(s, z, marker, unread) ==
  /\ Writes(s, z, marker, unread) /\ ~ z.writer.open
  /\ z.files.head = << >> /\ z.files.tail = << >>
  /\ z.used = s.used + Bytes(marker)

Finalizes(s, z, fault, unread) ==
  \/ Rests(s, z, unread)
  \/ z = s
  \/ \E marker \in Markers :
       \/ fault = "written" /\ HeadStays(s, z, marker, unread)
       \/ fault = "removeTail" /\ TailStays(s, z, marker, unread)
       \/ Replaces(s, z, marker, unread)

\* The marker is a file of one line.
LEMMA MarkersAreFiles ==
  ASSUME NEW marker \in Markers
  PROVE  /\ marker \in Seq(AnyLine) /\ Bytes(marker) \in Nat
         /\ Elements(marker) \in SUBSET {Marker}
         /\ InOrder(marker)
         /\ marker = << >> =>
              Elements(marker) = {} /\ Bytes(marker) = 0
         /\ marker # << >> =>
              Elements(marker) = {Marker} /\ Bytes(marker) = MarkerBytes
<1>1. CASE marker = << >>
  <2>1. marker \in Seq(AnyLine) /\ DOMAIN marker = {}
    BY <1>1, EmptySeq
  <2>2. Elements(marker) = {} /\ InOrder(marker)
    BY <2>1 DEF Elements, InOrder
  <2>3. Bytes(marker) = 0
    BY <1>1, BytesEmpty
  <2>4. QED
    BY <1>1, <2>1, <2>3, <2>2
<1>2. CASE marker = << Marker >>
  <2>1. Marker \in AnyLine /\ Marker.size = MarkerBytes /\ MarkerBytes \in Nat
    BY SizesOfLines
  <2>2. marker \in Seq(AnyLine) /\ Bytes(marker) = MarkerBytes
    BY <1>2, <2>1, BytesOne
  <2>3. Elements(marker) = {Marker}
    BY <1>2 DEF Elements
  <2>4. InOrder(marker) /\ marker # << >>
    BY <1>2, InOrderShort
  <2>5. QED
    BY <2>1, <2>2, <2>3, <2>4
<1>3. QED
  BY <1>1, <1>2 DEF Markers

\* What is put together of files.
LEMMA JoinedFacts ==
  ASSUME NEW f \in FilesOfCall, NEW marker \in Markers
  PROVE  /\ Joined(f, marker) \in Seq(AnyLine)
         /\ Bytes(Joined(f, marker))
              = Bytes(f.head) + Bytes(marker) + Bytes(f.tail)
         /\ Bytes(marker) = MarkedBytes(Joined(f, marker))
         /\ Ordered(f) => InOrder(Joined(f, marker))
<1> DEFINE h == f.head
           t == f.tail
           hm == h \o marker
<1>1. /\ h \in Seq(AnyLine) /\ t \in Seq(AnyLine)
      /\ h \in Seq(Piece) /\ t \in Seq(Piece)
      /\ Joined(f, marker) = hm \o t
  BY LinesAreLines DEF FilesOfCall, Joined
<1>2. /\ Elements(h) \in SUBSET Piece /\ Elements(t) \in SUBSET Piece
  BY <1>1, ElementsType
<1>3. /\ marker \in Seq(AnyLine) /\ Bytes(marker) \in Nat
      /\ Elements(marker) \in SUBSET {Marker} /\ InOrder(marker)
      /\ marker = << >> => Elements(marker) = {} /\ Bytes(marker) = 0
      /\ marker # << >> =>
           Elements(marker) = {Marker} /\ Bytes(marker) = MarkerBytes
  BY MarkersAreFiles
<1> HIDE DEF h, t, hm
<1>4. /\ hm \in Seq(AnyLine)
      /\ Bytes(hm) = Bytes(h) + Bytes(marker)
      /\ Elements(hm) = Elements(h) \cup Elements(marker)
  BY <1>1, <1>3, BytesConcat, ElementsConcat DEF hm
<1>5. /\ hm \o t \in Seq(AnyLine)
      /\ Bytes(hm \o t) = Bytes(hm) + Bytes(t)
      /\ Elements(hm \o t) = Elements(hm) \cup Elements(t)
  BY <1>1, <1>4, BytesConcat, ElementsConcat
<1>6. Bytes(marker) = MarkedBytes(hm \o t)
  <2>1. Marker \notin Piece
    BY SizesOfLines
  <2>2. Marker \in Elements(hm \o t) <=> marker # << >>
    BY <1>2, <1>3, <1>4, <1>5, <2>1
  <2>3. QED
    BY <1>3, <2>2 DEF MarkedBytes
<1>7. ASSUME Ordered(f) PROVE InOrder(hm \o t)
  <2>1. InOrder(h) /\ InOrder(t) /\ Before(h, t)
    BY <1>7 DEF Ordered, h, t
  <2>2. Marker.event = 0
    BY SizesOfLines
  <2>3. Before(h, marker) /\ Before(marker, t)
    BY <1>2, <1>3, <2>2 DEF Before
  <2>4. InOrder(hm)
    BY <1>1, <1>3, <2>1, <2>3, InOrderConcat DEF hm
  <2>5. Before(hm, t)
    BY <1>4, <2>1, <2>3 DEF Before
  <2>6. QED
    BY <1>1, <1>4, <2>1, <2>4, <2>5, InOrderConcat
<1>8. Bytes(hm \o t) = Bytes(h) + Bytes(marker) + Bytes(t)
  BY <1>4, <1>5
<1>9. QED
  BY <1>1, <1>5, <1>6, <1>7, <1>8 DEF h, t

\* What finalize() does.
LEMMA FinalizeFacts ==
  ASSUME NEW s \in WriterStates, NEW fault, NEW unread
  PROVE  /\ Finalize(s, fault, unread) \in WriterStates
         /\ Finalizes(s, Finalize(s, fault, unread), fault, unread)
<1> DEFINE z == Finalize(s, fault, unread)
           marker == IF s.writer.omitted > 0 /\ s.used + MarkerBytes <= RunBytes
                     THEN << Marker >> ELSE << >>
           head == IF "head" \in unread THEN << >> ELSE Read(s.files.head)
           tail == IF "tail" \in unread THEN << >> ELSE Read(s.files.tail)
           final == head \o marker \o tail
           combined == [s.files EXCEPT !.final = final, !.made = TRUE]
           none == head = << >> /\ tail = << >> /\ s.files.made
<1>1. /\ s.files \in FilesOfCall /\ s.writer \in WriterOfCall /\ s.used \in Nat
  BY FieldsOfState
<1>2. marker \in Markers
  BY DEF Markers
<1>3. z = IF none THEN [s EXCEPT !.writer.open = FALSE]
          ELSE IF fault = "write" THEN s
          ELSE IF fault = "written" THEN [s EXCEPT !.files = combined]
          ELSE IF fault = "removeTail" THEN [s EXCEPT !.files = [combined EXCEPT !.head = << >>]]
          ELSE [files |-> [combined EXCEPT !.head = << >>, !.tail = << >>],
                writer |-> [s.writer EXCEPT !.open = FALSE, !.head = 0, !.tail = 0],
                used |-> s.used + Bytes(marker)]
  BY DEF Finalize
<1>4. final = Joined(Shown(s.files, unread), marker)
  BY <1>1, ShownFacts DEF Joined
<1> HIDE DEF marker, final
<1>5. final \in Seq(Piece \cup {Marker}) /\ Bytes(marker) \in Nat
  BY <1>1, <1>2, <1>4, ShownFacts, JoinedFacts, MarkersAreFiles DEF AnyLine
<1>6. combined \in FilesOfCall /\ combined.final = final /\ combined.made
      /\ combined.head = s.files.head /\ combined.tail = s.files.tail
  BY <1>1, <1>5 DEF FilesOfCall
<1>7. << >> \in Seq(Piece)
  BY EmptySeq
<1>8. CASE none
  <2>1. z = [s EXCEPT !.writer.open = FALSE]
    BY <1>3, <1>8
  <2>2. /\ z \in WriterStates /\ z.files = s.files /\ ~ z.writer.open
        /\ z.writer.omitted = s.writer.omitted /\ z.used = s.used
    BY <1>1, <2>1 DEF WriterStates, WriterOfCall
  <2>3. Shown(s.files, unread).head = << >> /\ Shown(s.files, unread).tail = << >>
    BY <1>1, <1>8, ShownFacts
  <2>4. QED
    BY <1>8, <2>2, <2>3 DEF Finalizes, Rests
<1>9. CASE ~ none /\ fault = "write"
  BY <1>3, <1>9 DEF Finalizes
<1>10. CASE ~ none /\ fault = "written"
  <2>1. z = [s EXCEPT !.files = combined]
    BY <1>3, <1>10
  <2> HIDE DEF combined
  <2>2. z \in WriterStates /\ z.files = combined /\ z.writer = s.writer
    BY <1>6, <2>1 DEF WriterStates
  <2>3. HeadStays(s, z, marker, unread)
    BY <1>4, <1>6, <2>2 DEF HeadStays, Writes
  <2>4. QED
    BY <1>2, <1>10, <2>2, <2>3 DEF Finalizes
<1>11. CASE ~ none /\ fault = "removeTail"
  <2> DEFINE f == [combined EXCEPT !.head = << >>]
  <2>1. z = [s EXCEPT !.files = f]
    BY <1>3, <1>11
  <2> HIDE DEF combined
  <2>2. f \in FilesOfCall /\ f.final = final /\ f.made
        /\ f.head = << >> /\ f.tail = s.files.tail
    BY <1>6, <1>7 DEF FilesOfCall
  <2> HIDE DEF f
  <2>3. z \in WriterStates /\ z.files = f /\ z.writer = s.writer
    BY <2>1, <2>2 DEF WriterStates
  <2>4. TailStays(s, z, marker, unread)
    BY <1>4, <2>2, <2>3 DEF TailStays, Writes
  <2>5. QED
    BY <1>2, <1>11, <2>3, <2>4 DEF Finalizes
<1>12. CASE ~ none /\ fault \notin {"write", "written", "removeTail"}
  <2> DEFINE f == [combined EXCEPT !.head = << >>, !.tail = << >>]
             w == [s.writer EXCEPT !.open = FALSE, !.head = 0, !.tail = 0]
             u == s.used + Bytes(marker)
  <2>1. z = [files |-> f, writer |-> w, used |-> u]
    BY <1>3, <1>12
  <2> HIDE DEF combined
  <2>2. f \in FilesOfCall /\ f.final = final /\ f.made
        /\ f.head = << >> /\ f.tail = << >>
    BY <1>6, <1>7 DEF FilesOfCall
  <2>3. w \in WriterOfCall /\ ~ w.open /\ w.omitted = s.writer.omitted
    <3>1. 0 \in 0..HeadBytes
      BY SizesOfLines
    <3>2. QED
      BY <1>1, <3>1 DEF WriterOfCall
  <2>4. u \in Nat
    BY <1>1, <1>5
  <2> HIDE DEF f, w, u
  <2>5. z \in WriterStates /\ z.files = f /\ z.writer = w /\ z.used = u
    BY <2>1, <2>2, <2>3, <2>4, StateOfFields
  <2>6. Replaces(s, z, marker, unread)
    BY <1>4, <2>2, <2>3, <2>5 DEF Replaces, Writes, u
  <2>7. QED
    BY <1>2, <2>5, <2>6 DEF Finalizes
<1>13. QED
  BY <1>8, <1>9, <1>10, <1>11, <1>12

\* An open transcript and a closed one tell all that the agent did.
ToldOpen(f, w, lines) ==
  /\ Accounted(f, w) = Bytes(lines)
  /\ f.made => FinalIsJoined(f)

ToldClosed(f, w, lines) ==
  Bytes(f.final) + w.omitted = Bytes(lines) + MarkedBytes(f.final)

\* Put together, a transcript that could be read still tells all, unless the tail stays: then
\* the head is gone, and another attempt would not know of it.
LEMMA FinalizeCounts ==
  ASSUME NEW s \in WriterStates, NEW z \in WriterStates, NEW fault, NEW unread,
         Finalizes(s, z, fault, unread), fault # "removeTail",
         s.writer.open, Shown(s.files, unread) = s.files, Synced(s.files, s.writer),
         NEW lines, ToldOpen(s.files, s.writer, lines)
  PROVE  /\ z.writer.open =>
              /\ Synced(z.files, z.writer) /\ ToldOpen(z.files, z.writer, lines)
              /\ z.files.tail = s.files.tail
         /\ ~ z.writer.open => ToldClosed(z.files, z.writer, lines)
<1>1. /\ s.files \in FilesOfCall /\ s.writer.omitted \in Nat
      /\ Bytes(s.files.head) \in Nat /\ Bytes(s.files.tail) \in Nat
  BY FieldsOfState, CallBytesType
<1>2. /\ Bytes(s.files.head) + Bytes(s.files.tail) + s.writer.omitted
           = Bytes(lines)
      /\ s.files.made => FinalIsJoined(s.files)
  BY DEF ToldOpen, Accounted
<1>3. CASE Rests(s, z, unread)
  <2>1. /\ s.files.head = << >> /\ s.files.tail = << >> /\ s.files.made
        /\ z.files = s.files /\ ~ z.writer.open /\ z.writer.omitted = s.writer.omitted
    BY <1>3 DEF Rests
  <2>2. PICK marker \in Markers : s.files.final = Joined(s.files, marker)
    BY <1>2, <2>1 DEF FinalIsJoined
  <2>3. /\ Bytes(s.files.final)
             = Bytes(s.files.head) + Bytes(marker) + Bytes(s.files.tail)
        /\ Bytes(marker) = MarkedBytes(s.files.final)
        /\ Bytes(marker) \in Nat
    BY <1>1, <2>2, JoinedFacts, MarkersAreFiles
  <2>4. ToldClosed(z.files, z.writer, lines)
    <3>1. Bytes(s.files.final) + s.writer.omitted
            = Bytes(lines) + MarkedBytes(s.files.final)
      BY <1>1, <1>2, <2>3
    <3>2. QED
      BY <2>1, <3>1 DEF ToldClosed
  <2>5. QED
    BY <2>1, <2>4
<1>4. CASE z = s
  BY <1>4
<1>5. ASSUME NEW marker \in Markers, HeadStays(s, z, marker, unread)
      PROVE  /\ Synced(z.files, z.writer) /\ ToldOpen(z.files, z.writer, lines)
             /\ z.writer.open /\ z.files.tail = s.files.tail
  <2>1. /\ z.files.final = Joined(s.files, marker) /\ z.writer = s.writer
        /\ z.files.head = s.files.head /\ z.files.tail = s.files.tail
    BY <1>5 DEF HeadStays, Writes
  <2>2. z.files.final = Joined(z.files, marker)
    BY <2>1 DEF Joined
  <2>3. FinalIsJoined(z.files)
    BY <2>2 DEF FinalIsJoined
  <2>4. QED
    BY <1>2, <2>1, <2>3 DEF Synced, ToldOpen, Accounted
<1>6. ASSUME NEW marker \in Markers, Replaces(s, z, marker, unread)
      PROVE  ToldClosed(z.files, z.writer, lines) /\ ~ z.writer.open
  <2>1. /\ z.files.final = Joined(s.files, marker) /\ ~ z.writer.open
        /\ z.writer.omitted = s.writer.omitted
    BY <1>6 DEF Replaces, Writes
  <2>2. /\ Bytes(z.files.final)
             = Bytes(s.files.head) + Bytes(marker) + Bytes(s.files.tail)
        /\ Bytes(marker) = MarkedBytes(z.files.final)
        /\ Bytes(marker) \in Nat
    BY <1>1, <2>1, JoinedFacts, MarkersAreFiles
  <2>3. Bytes(z.files.final) + s.writer.omitted
          = Bytes(lines) + MarkedBytes(z.files.final)
    BY <1>1, <1>2, <2>2
  <2>4. QED
    BY <2>1, <2>3 DEF ToldClosed
<1>7. QED
  BY <1>3, <1>4, <1>5, <1>6 DEF Finalizes

\* Put together, the lines are in order.
LEMMA FinalizeOrder ==
  ASSUME NEW s \in WriterStates, NEW z, NEW fault, NEW unread,
         Finalizes(s, z, fault, unread), InOrder(s.files.final), Ordered(s.files)
  PROVE  InOrder(z.files.final) /\ Ordered(z.files)
<1>1. s.files \in FilesOfCall
  BY FieldsOfState
<1>2. InOrder(<< >>) /\ \A t : Before(<< >>, t) /\ Before(t, << >>)
  <2>1. DOMAIN << >> = {}
    BY EmptySeq
  <2>2. Elements(<< >>) = {}
    BY <2>1 DEF Elements
  <2>3. QED
    BY <2>1, <2>2 DEF InOrder, Before
<1>3. CASE Rests(s, z, unread) \/ z = s
  BY <1>3 DEF Rests
<1>4. ASSUME NEW marker \in Markers,
             \/ HeadStays(s, z, marker, unread) \/ TailStays(s, z, marker, unread)
             \/ Replaces(s, z, marker, unread)
      PROVE  InOrder(z.files.final) /\ Ordered(z.files)
  <2>1. z.files.final = Joined(Shown(s.files, unread), marker)
    BY <1>4 DEF HeadStays, TailStays, Replaces, Writes
  <2>2. InOrder(z.files.final)
    BY <1>1, <2>1, ShownFacts, JoinedFacts
  <2>3. /\ z.files.head = s.files.head \/ z.files.head = << >>
        /\ z.files.tail = s.files.tail \/ z.files.tail = << >>
    BY <1>4 DEF HeadStays, TailStays, Replaces
  <2>4. Ordered(z.files)
    BY <1>2, <2>3 DEF Ordered
  <2>5. QED
    BY <2>2, <2>4
<1>5. QED
  BY <1>3, <1>4 DEF Finalizes

\* Where no removal fails and all can be read, the budget is told what the files have more,
\* and where the writer stays open nothing was done.
LEMMA FinalizeBudget ==
  ASSUME NEW s \in WriterStates, NEW z \in WriterStates, NEW fault, NEW unread,
         Finalizes(s, z, fault, unread), fault \notin {"written", "removeTail"},
         Shown(s.files, unread) = s.files, s.writer.open, ~ s.files.made, s.files.final = << >>
  PROVE  /\ z.used + CallBytes(s.files) = s.used + CallBytes(z.files)
         /\ z.writer.open => ~ z.files.made
<1>1. /\ s.files \in FilesOfCall /\ z.files \in FilesOfCall /\ s.used \in Nat
  BY FieldsOfState
<1>2. CASE z = s
  <2>1. s.used \in Nat /\ CallBytes(s.files) \in Nat
    BY <1>1, CallBytesType
  <2>2. QED
    BY <1>2, <2>1
<1>3. ASSUME NEW marker \in Markers, Replaces(s, z, marker, unread)
      PROVE  /\ z.used + CallBytes(s.files) = s.used + CallBytes(z.files)
             /\ ~ z.writer.open
  <2>1. /\ z.files.final = Joined(s.files, marker) /\ ~ z.writer.open
        /\ z.files.head = << >> /\ z.files.tail = << >>
        /\ z.used = s.used + Bytes(marker)
    BY <1>3 DEF Replaces, Writes
  <2>2. /\ Bytes(z.files.final)
             = Bytes(s.files.head) + Bytes(marker) + Bytes(s.files.tail)
        /\ Bytes(marker) \in Nat
    BY <1>1, <2>1, JoinedFacts, MarkersAreFiles
  <2>3. /\ Bytes(s.files.head) \in Nat /\ Bytes(s.files.tail) \in Nat
        /\ CallBytes(s.files)
             = Bytes(s.files.head) + Bytes(s.files.tail) + Bytes(s.files.final)
        /\ CallBytes(z.files)
             = Bytes(z.files.head) + Bytes(z.files.tail) + Bytes(z.files.final)
    BY <1>1, CallBytesType
  <2>4. Bytes(<< >>) = 0
    BY BytesEmpty
  <2>5. /\ CallBytes(s.files) = Bytes(s.files.head) + Bytes(s.files.tail)
        /\ CallBytes(z.files) = Bytes(z.files.final)
    BY <1>1, <2>1, <2>2, <2>3, <2>4
  <2>6. QED
    BY <1>1, <2>1, <2>2, <2>3, <2>5
<1>4. QED
  BY <1>2, <1>3 DEF Finalizes, Rests

\* A file that was never put together has nothing in it.
LEMMA FinalizeMade ==
  ASSUME NEW s, NEW z, NEW fault, NEW unread, Finalizes(s, z, fault, unread),
         ~ s.files.made => s.files.final = << >>
  PROVE  ~ z.files.made => z.files.final = << >>
BY DEF Finalizes, Rests, HeadStays, TailStays, Replaces, Writes

----------------------------------------------------------------------------
(***************************************************************************)
(* reset().                                                                *)
(***************************************************************************)
\* What reset() does.
LEMMA ResetFacts ==
  ASSUME NEW s \in WriterStates, NEW stay
  PROVE  /\ Reset(s, stay) \in WriterStates
         /\ Reset(s, stay).writer.open /\ Reset(s, stay).writer.head = 0
         /\ Reset(s, stay).writer.tail = 0 /\ Reset(s, stay).writer.omitted = 0
         /\ Reset(s, stay).used = Less(s.used, CallBytes(s.files))
         /\ stay = {} => Reset(s, stay).files = NoFiles
         /\ \/ ~ Reset(s, stay).files.made /\ Reset(s, stay).files.final = << >>
            \/ /\ Reset(s, stay).files.made = s.files.made
               /\ Reset(s, stay).files.final = s.files.final
<1> DEFINE f == [head |-> IF "head" \in stay THEN s.files.head ELSE << >>,
                 tail |-> IF "tail" \in stay THEN s.files.tail ELSE << >>,
                 final |-> IF "final" \in stay THEN s.files.final ELSE << >>,
                 made |-> "final" \in stay /\ s.files.made]
           w == [Closed EXCEPT !.open = TRUE]
           u == Less(s.used, CallBytes(s.files))
<1>1. Reset(s, stay) = [files |-> f, writer |-> w, used |-> u]
  BY DEF Reset
<1>2. s.files \in FilesOfCall /\ s.used \in Nat /\ HeadBytes \in Nat
  BY FieldsOfState, SizesOfLines
<1>3. CallBytes(s.files) \in Nat
  BY <1>2, CallBytesType
<1>4. u \in Nat
  BY <1>2, <1>3 DEF Less
<1>5. f \in FilesOfCall
  <2>1. << >> \in Seq(Piece) /\ << >> \in Seq(Piece \cup {Marker})
    BY EmptySeq
  <2>2. /\ s.files.head \in Seq(Piece) /\ s.files.tail \in Seq(Piece)
        /\ s.files.final \in Seq(Piece \cup {Marker}) /\ s.files.made \in BOOLEAN
    BY <1>2 DEF FilesOfCall
  <2>3. ("final" \in stay /\ s.files.made) \in BOOLEAN
    OBVIOUS
  <2>4. QED
    BY <2>1, <2>2, <2>3 DEF FilesOfCall
<1>6. stay = {} => f = NoFiles
  BY DEF NoFiles
<1>7. Closed \in WriterOfCall
  <2>1. 0 \in 0..HeadBytes
    BY <1>2
  <2>2. QED
    BY <2>1 DEF Closed, WriterOfCall
<1>8. Closed.head = 0 /\ Closed.tail = 0 /\ Closed.omitted = 0
  BY DEF Closed
<1>9. w \in WriterOfCall /\ w.open /\ w.head = 0 /\ w.tail = 0 /\ w.omitted = 0
  BY <1>7, <1>8 DEF WriterOfCall
<1>10. \/ ~ f.made /\ f.final = << >>
       \/ f.made = s.files.made /\ f.final = s.files.final
  <2>1. s.files.made \in BOOLEAN
    BY <1>2 DEF FilesOfCall
  <2>2. CASE "final" \in stay
    BY <2>1, <2>2
  <2>3. CASE "final" \notin stay
    BY <2>3
  <2>4. QED
    BY <2>2, <2>3
<1> HIDE DEF f, w
<1>11. /\ Reset(s, stay) \in WriterStates
       /\ Reset(s, stay).files = f
       /\ Reset(s, stay).writer = w
       /\ Reset(s, stay).used = u
  BY <1>1, <1>4, <1>5, <1>9, StateOfFields
<1>12. QED
  BY <1>6, <1>9, <1>10, <1>11

----------------------------------------------------------------------------
(***************************************************************************)
(* A sound transcript, given what failed so far.                           *)
(***************************************************************************)
\* What failed so far leaves a transcript's lines in order; its bytes accounted for; and
\* what is open not put together yet.
OrderCertain(failed) == "reset" \notin failed
BytesCertain(failed) ==
  failed \cap {"reset", "read", "torn", "compacted", "removeTail"} = {}
FilesCertain(failed) ==
  failed \cap {"count", "reset", "read", "torn", "compacted", "written", "removeTail"} = {}

\* A transcript that is open, one whose task runs, and any other; most is what its tail may
\* have.
OpenSound(f, w, lines, failed, most) ==
  /\ w.open
  /\ OrderCertain(failed) => InOrder(f.final) /\ Ordered(f)
  /\ BytesCertain(failed) =>
       Synced(f, w) /\ ToldOpen(f, w, lines) /\ Bytes(f.tail) <= most
  /\ FilesCertain(failed) => ~ f.made

RunningSound(f, w, lines, failed, most) ==
  /\ OpenSound(f, w, lines, failed, most)
  /\ OrderCertain(failed) => ~ f.made /\ Placed(f, w, Elements(lines))

Sound(f, w, lines, failed, most) ==
  /\ w.open => OpenSound(f, w, lines, failed, most)
  /\ ~ w.open =>
       /\ OrderCertain(failed) => InOrder(f.final)
       /\ BytesCertain(failed) /\ lines # << >> => ToldClosed(f, w, lines)

\* A tail that has no more than most and another line is read, where bytes are certain.
Readable(failed, most) ==
  most \in Nat /\ (BytesCertain(failed) => most + LineBytes <= MaxBytes)

\* The more has failed, the less is certain.
LEMMA LessIsCertain ==
  ASSUME NEW failed, NEW more, failed \in SUBSET more
  PROVE  /\ OrderCertain(more) => OrderCertain(failed)
         /\ BytesCertain(more) => BytesCertain(failed)
         /\ FilesCertain(more) => FilesCertain(failed)
         /\ FilesCertain(failed) => BytesCertain(failed)
         /\ BytesCertain(failed) => OrderCertain(failed)
BY DEF OrderCertain, BytesCertain, FilesCertain

\* So another failure claims less of a transcript.
LEMMA SoundStays ==
  ASSUME NEW f \in FilesOfCall, NEW w, NEW lines, NEW failed, NEW more, failed \in SUBSET more,
         NEW most \in Nat, NEW still \in Nat, most <= still
  PROVE  /\ OpenSound(f, w, lines, failed, most) => OpenSound(f, w, lines, more, still)
         /\ RunningSound(f, w, lines, failed, most) => RunningSound(f, w, lines, more, still)
         /\ Sound(f, w, lines, failed, most) => Sound(f, w, lines, more, still)
<1>1. OpenSound(f, w, lines, failed, most) => OpenSound(f, w, lines, more, still)
  <2>1. Bytes(f.tail) \in Nat
    BY CallBytesType
  <2>2. Bytes(f.tail) <= most => Bytes(f.tail) <= still
    BY <2>1
  <2>3. QED
    BY <2>2, LessIsCertain DEF OpenSound
<1>2. RunningSound(f, w, lines, failed, most) => RunningSound(f, w, lines, more, still)
  BY <1>1, LessIsCertain DEF RunningSound
<1>3. Sound(f, w, lines, failed, most) => Sound(f, w, lines, more, still)
  BY <1>1, LessIsCertain DEF Sound
<1>4. QED
  BY <1>1, <1>2, <1>3

\* The lines of an agent.
LEMMA LinesOfAgent ==
  ASSUME NEW lines \in Seq(Line), NEW line \in Line
  PROVE  /\ Elements(lines) \in SUBSET Line
         /\ Append(lines, line) \in Seq(Line)
         /\ Len(Append(lines, line)) = Len(lines) + 1
         /\ Elements(Append(lines, line)) = Elements(lines) \cup {line}
<1>1. \A i \in DOMAIN lines : lines[i] \in Line
  BY LenProperties, ElementOfSeq
<1>2. lines \in Seq(AnyLine) /\ line \in AnyLine
  BY LinesAreLines DEF AnyLine, Piece
<1>3. Elements(Append(lines, line)) = Elements(lines) \cup {line}
  BY <1>2, ElementsAppend
<1>4. Append(lines, line) \in Seq(Line) /\ Len(Append(lines, line)) = Len(lines) + 1
  BY AppendProperties
<1>5. QED
  BY <1>1, <1>3, <1>4 DEF Elements

\* A failure by which bytes are miscounted is known.
Known(fault, failed) ==
  fault \in {"read", "torn", "compacted", "written", "removeTail"} => fault \in failed

\* A running task's transcript stays sound when a line is appended.
LEMMA AppendSound ==
  ASSUME NEW s \in WriterStates, NEW line \in Line, NEW part, PartOf(part, line),
         NEW z \in WriterStates, NEW fault, Appends(s, line, part, z, fault),
         NEW lines \in Seq(Line), GoesOn(line, Elements(lines)),
         NEW failed, Known(fault, failed),
         NEW most, NEW still, Readable(failed, most), Grows(fault, most, still),
         RunningSound(s.files, s.writer, lines, failed, most)
  PROVE  RunningSound(z.files, z.writer, Append(lines, line), failed, still)
<1>1. /\ z.files.final = s.files.final /\ z.files.made = s.files.made
      /\ z.writer.open = s.writer.open
  BY AppendKeeps
<1>2. /\ Elements(lines) \in SUBSET Line
      /\ Elements(Append(lines, line)) = Elements(lines) \cup {line}
  BY LinesOfAgent
<1>3. /\ s.writer.open
      /\ OrderCertain(failed) =>
           /\ InOrder(s.files.final) /\ Ordered(s.files)
           /\ ~ s.files.made /\ Placed(s.files, s.writer, Elements(lines))
      /\ BytesCertain(failed) =>
           /\ Synced(s.files, s.writer) /\ ToldOpen(s.files, s.writer, lines)
           /\ Bytes(s.files.tail) <= most
      /\ FilesCertain(failed) => ~ s.files.made
  BY DEF RunningSound, OpenSound
<1>4. ASSUME OrderCertain(failed)
      PROVE  /\ InOrder(z.files.final) /\ Ordered(z.files) /\ ~ z.files.made
             /\ Placed(z.files, z.writer, Elements(Append(lines, line)))
  <2>1. /\ Ordered(s.files) /\ Placed(s.files, s.writer, Elements(lines))
    BY <1>3, <1>4
  <2>2. /\ Ordered(z.files)
        /\ Placed(z.files, z.writer, Elements(lines) \cup {line})
    BY <1>2, <2>1, AppendOrder
  <2>3. QED
    BY <1>1, <1>2, <1>3, <1>4, <2>2
<1>5. ASSUME BytesCertain(failed)
      PROVE  /\ Synced(z.files, z.writer) /\ ToldOpen(z.files, z.writer, Append(lines, line))
             /\ Bytes(z.files.tail) <= still
  <2>1. /\ Synced(s.files, s.writer) /\ Accounted(s.files, s.writer) = Bytes(lines)
    BY <1>3, <1>5 DEF ToldOpen
  <2>2. fault \notin {"torn", "compacted"}
    BY <1>5 DEF BytesCertain, Known
  <2>3. /\ Synced(z.files, z.writer)
        /\ Accounted(z.files, z.writer) = Accounted(s.files, s.writer) + line.size
    BY <2>1, <2>2, AppendCounts
  <2>4. Bytes(Append(lines, line)) = Bytes(lines) + line.size
    BY LinesAreLines, BytesAppend DEF AnyLine, Piece
  <2>5. OrderCertain(failed)
    BY <1>5 DEF OrderCertain, BytesCertain
  <2>6. ~ z.files.made
    BY <1>4, <2>5
  <2>7. Bytes(z.files.tail) <= still
    BY <1>3, <1>5, <2>2, AppendTail DEF Readable
  <2>8. QED
    BY <2>1, <2>3, <2>4, <2>6, <2>7 DEF ToldOpen
<1>6. QED
  BY <1>1, <1>3, <1>4, <1>5 DEF RunningSound, OpenSound

\* Head and tail of an open one can be read.
LEMMA CanBeRead ==
  ASSUME NEW s \in WriterStates, NEW failed, NEW most, Readable(failed, most),
         BytesCertain(failed), Synced(s.files, s.writer), Bytes(s.files.tail) <= most
  PROVE  Shown(s.files, {}) = s.files
<1>1. /\ s.files \in FilesOfCall /\ s.writer.head \in 0..HeadBytes
      /\ LineBytes \in Nat /\ HeadBytes \in Nat /\ MarkerBytes \in Nat /\ TailBytes \in Nat
  BY FieldsOfState, SizesOfLines
<1>2. Bytes(s.files.tail) \in Nat /\ MaxBytes \in Nat /\ HeadBytes <= MaxBytes
  BY <1>1, CallBytesType DEF MaxBytes
<1>3. Bytes(s.files.head) <= MaxBytes
  BY <1>1, <1>2 DEF Synced
<1>4. Bytes(s.files.tail) <= MaxBytes
  <2>1. most \in Nat /\ most + LineBytes <= MaxBytes
    BY DEF Readable
  <2>2. QED
    BY <1>1, <1>2, <2>1
<1>5. QED
  BY <1>1, <1>3, <1>4, ShownFacts

\* So does an open one that is put together.
LEMMA FinalizeSound ==
  ASSUME NEW s \in WriterStates, NEW z \in WriterStates, NEW fault, NEW unread,
         Finalizes(s, z, fault, unread), NEW lines, ~ s.files.made => s.files.final = << >>,
         NEW failed, Known(fault, failed), unread # {} => fault = "read",
         NEW most, Readable(failed, most),
         OpenSound(s.files, s.writer, lines, failed, most)
  PROVE  Sound(z.files, z.writer, lines, failed, most)
<1>1. /\ s.writer.open
      /\ OrderCertain(failed) => InOrder(s.files.final) /\ Ordered(s.files)
      /\ BytesCertain(failed) =>
           /\ Synced(s.files, s.writer) /\ ToldOpen(s.files, s.writer, lines)
           /\ Bytes(s.files.tail) <= most
      /\ FilesCertain(failed) => ~ s.files.made
  BY DEF OpenSound
<1>2. ASSUME OrderCertain(failed)
      PROVE  InOrder(z.files.final) /\ Ordered(z.files)
  <2>1. InOrder(s.files.final) /\ Ordered(s.files)
    BY <1>1, <1>2
  <2>2. QED
    BY <2>1, FinalizeOrder
<1>3. ASSUME BytesCertain(failed)
      PROVE  /\ z.writer.open =>
                  /\ Synced(z.files, z.writer) /\ ToldOpen(z.files, z.writer, lines)
                  /\ Bytes(z.files.tail) <= most
             /\ ~ z.writer.open => ToldClosed(z.files, z.writer, lines)
  <2>1. Synced(s.files, s.writer) /\ ToldOpen(s.files, s.writer, lines) /\ s.writer.open
    BY <1>1, <1>3
  <2>2. fault # "removeTail" /\ unread = {}
    BY <1>3 DEF BytesCertain, Known
  <2>3. Shown(s.files, unread) = s.files
    BY <1>1, <1>3, <2>2, CanBeRead
  <2>4. /\ z.writer.open =>
             /\ Synced(z.files, z.writer) /\ ToldOpen(z.files, z.writer, lines)
             /\ z.files.tail = s.files.tail
        /\ ~ z.writer.open => ToldClosed(z.files, z.writer, lines)
    BY <2>1, <2>2, <2>3, FinalizeCounts
  <2>5. QED
    BY <1>1, <1>3, <2>4
<1>4. ASSUME FilesCertain(failed), z.writer.open
      PROVE  ~ z.files.made
  <2>1. ~ s.files.made /\ s.files.final = << >> /\ s.writer.open
    BY <1>1, <1>4
  <2>2. fault \notin {"written", "removeTail"} /\ unread = {}
    BY <1>4 DEF FilesCertain, Known
  <2>3. BytesCertain(failed)
    BY <1>4 DEF BytesCertain, FilesCertain
  <2>4. Shown(s.files, unread) = s.files
    BY <1>1, <2>2, <2>3, CanBeRead
  <2>5. QED
    BY <1>4, <2>1, <2>2, <2>4, FinalizeBudget
<1>5. QED
  BY <1>2, <1>3, <1>4 DEF Sound, OpenSound

\* A transcript that was reset is that of a task without lines.
LEMMA ResetSound ==
  ASSUME NEW s \in WriterStates, NEW stay,
         NEW failed, stay # {} => "reset" \in failed, NEW most \in Nat
  PROVE  LET r == Reset(s, stay) IN
         /\ RunningSound(r.files, r.writer, << >>, failed, most)
         /\ OrderCertain(failed) =>
              /\ Synced(r.files, r.writer) /\ CallBytes(r.files) = 0
              /\ r.used = Less(s.used, CallBytes(s.files))
<1> DEFINE r == Reset(s, stay)
<1>1. /\ r \in WriterStates
      /\ r.writer.open /\ r.writer.head = 0 /\ r.writer.tail = 0 /\ r.writer.omitted = 0
      /\ r.used = Less(s.used, CallBytes(s.files))
      /\ stay = {} => r.files = NoFiles
  BY ResetFacts
<1>2. Bytes(<< >>) = 0 /\ Elements(<< >>) = {} /\ InOrder(<< >>)
  <2>1. DOMAIN << >> = {}
    BY EmptySeq
  <2>2. QED
    BY <2>1, BytesEmpty DEF Elements, InOrder
<1> HIDE DEF r
<1>3. ASSUME OrderCertain(failed)
      PROVE  /\ r.files.head = << >> /\ r.files.tail = << >> /\ r.files.final = << >>
             /\ ~ r.files.made
  BY <1>1, <1>3 DEF OrderCertain, NoFiles
<1>4. ASSUME OrderCertain(failed)
      PROVE  /\ InOrder(r.files.final) /\ Ordered(r.files)
             /\ Placed(r.files, r.writer, Elements(<< >>))
             /\ Synced(r.files, r.writer) /\ ToldOpen(r.files, r.writer, << >>)
             /\ CallBytes(r.files) = 0
  <2>1. Ordered(r.files) /\ Placed(r.files, r.writer, Elements(<< >>))
    BY <1>2, <1>3, <1>4 DEF Ordered, Before, Placed
  <2>2. Synced(r.files, r.writer) /\ ToldOpen(r.files, r.writer, << >>)
    BY <1>1, <1>2, <1>3, <1>4 DEF Synced, ToldOpen, Accounted
  <2>3. CallBytes(r.files) = 0
    BY <1>2, <1>3, <1>4 DEF CallBytes
  <2>4. QED
    BY <1>2, <1>3, <1>4, <2>1, <2>2, <2>3
<1>5. /\ BytesCertain(failed) => OrderCertain(failed)
      /\ FilesCertain(failed) => OrderCertain(failed)
  BY DEF OrderCertain, BytesCertain, FilesCertain
<1>6. OpenSound(r.files, r.writer, << >>, failed, most)
  <2>1. OrderCertain(failed) => Bytes(r.files.tail) <= most
    BY <1>2, <1>3
  <2>2. QED
    BY <1>1, <1>3, <1>4, <1>5, <2>1 DEF OpenSound
<1>7. RunningSound(r.files, r.writer, << >>, failed, most)
  BY <1>3, <1>4, <1>6 DEF RunningSound
<1>8. QED
  BY <1>1, <1>4, <1>7 DEF r

\* A task that starts has a sound transcript of one line, and the budget keeps up.
LEMMA StartSound ==
  ASSUME NEW s \in WriterStates, NEW stay, NEW fault,
         NEW line \in Line, NEW part, PartOf(part, line),
         NEW failed, stay # {} => "reset" \in failed, Known(fault, failed),
         NEW most, NEW still, Readable(failed, most), Grows(fault, most, still)
  PROVE  LET z == AppendLine(Reset(s, stay), line, part, fault) IN
         /\ z \in WriterStates
         /\ RunningSound(z.files, z.writer, << line >>, failed, still)
         /\ \/ ~ z.files.made /\ z.files.final = << >>
            \/ z.files.made = s.files.made /\ z.files.final = s.files.final
         /\ FilesCertain(failed) /\ CallBytes(s.files) <= s.used =>
              z.used + CallBytes(s.files) = s.used + CallBytes(z.files)
<1> DEFINE r == Reset(s, stay)
           z == AppendLine(r, line, part, fault)
<1>1. /\ r \in WriterStates /\ RunningSound(r.files, r.writer, << >>, failed, most)
      /\ stay = {} => r.files = NoFiles
      /\ \/ ~ r.files.made /\ r.files.final = << >>
         \/ r.files.made = s.files.made /\ r.files.final = s.files.final
      /\ OrderCertain(failed) =>
           /\ Synced(r.files, r.writer) /\ CallBytes(r.files) = 0
           /\ r.used = Less(s.used, CallBytes(s.files))
  <2>1. most \in Nat
    BY DEF Readable
  <2>2. QED
    BY <2>1, ResetFacts, ResetSound
<1> HIDE DEF r
<1>2. z \in WriterStates /\ Appends(r, line, part, z, fault)
  BY <1>1, AppendFacts
<1> HIDE DEF z
<1>3. RunningSound(z.files, z.writer, << line >>, failed, still)
  <2>1. << >> \in Seq(Line) /\ Append(<< >>, line) = << line >>
    OBVIOUS
  <2>2. GoesOn(line, Elements(<< >>))
    BY DEF GoesOn, Elements
  <2>3. QED
    BY <1>1, <1>2, <2>1, <2>2, AppendSound
<1>4. /\ z.files.final = r.files.final /\ z.files.made = r.files.made
  BY <1>2, AppendKeeps
<1>5. \/ ~ z.files.made /\ z.files.final = << >>
      \/ z.files.made = s.files.made /\ z.files.final = s.files.final
  BY <1>1, <1>4
<1>6. ASSUME FilesCertain(failed), CallBytes(s.files) <= s.used
      PROVE  z.used + CallBytes(s.files) = s.used + CallBytes(z.files)
  <2>1. OrderCertain(failed)
    BY <1>6 DEF FilesCertain, OrderCertain
  <2>2. /\ Synced(r.files, r.writer) /\ CallBytes(r.files) = 0
        /\ r.used = Less(s.used, CallBytes(s.files))
    BY <1>1, <2>1
  <2>3. /\ s.used \in Nat /\ CallBytes(s.files) \in Nat
        /\ z.used \in Nat /\ CallBytes(z.files) \in Nat
    BY <1>2, FieldsOfState, CallBytesType
  <2>4. r.used + CallBytes(s.files) = s.used /\ r.used \in Nat
    BY <1>6, <2>2, <2>3 DEF Less
  <2>5. CallBytes(r.files) <= r.used
    BY <2>2, <2>4
  <2>6. fault \notin {"torn", "compacted"}
    BY <1>6 DEF FilesCertain, Known
  <2>7. z.used + CallBytes(r.files) = r.used + CallBytes(z.files)
    BY <1>1, <1>2, <2>2, <2>5, <2>6, AppendCounts
  <2>8. QED
    BY <2>2, <2>3, <2>4, <2>7
<1>7. QED
  BY <1>2, <1>3, <1>5, <1>6 DEF r, z

----------------------------------------------------------------------------
(***************************************************************************)
(* One step of one call's writer.                                          *)
(***************************************************************************)
\* The state of a call's transcript, and the budget.
LEMMA StateOfCall ==
  ASSUME TypeOK, NEW c \in Call
  PROVE  /\ State(c) \in WriterStates
         /\ State(c).files = files[c] /\ State(c).writer = writer[c]
         /\ State(c).used = used
         /\ files[c] \in FilesOfCall /\ writer[c] \in WriterOfCall
         /\ emitted[c] \in Seq(Line)
<1>1. /\ files[c] \in FilesOfCall /\ writer[c] \in WriterOfCall /\ used \in Nat
      /\ emitted[c] \in Seq(Line)
  BY DEF TypeOK
<1>2. QED
  BY <1>1, StateOfFields DEF State

\* What failed in a session, how often compactions did, and how long a tail may be then to
\* which a line was added each time.
FailedIn(seq, g) == {x \in Faults : [what |-> x, session |-> g] \in Elements(seq)}
Compactions(seq, g) ==
  Cardinality({i \in DOMAIN seq : seq[i] = [what |-> "compact", session |-> g]})
LimitAfter(n) == TailBytes + n * LineBytes
Limit == LimitAfter(FailedCompactions)

\* What is certain after n of them.
LEMMA LimitFacts ==
  ASSUME NEW n \in Nat
  PROVE  /\ LimitAfter(n) \in Nat /\ TailBytes <= LimitAfter(n)
         /\ LimitAfter(n + 1) = LimitAfter(n) + LineBytes
         /\ LimitAfter(n) <= LimitAfter(n + 1)
         /\ (n + 1) * LineBytes <= HeadBytes + MarkerBytes
              <=> LimitAfter(n) + LineBytes <= MaxBytes
<1> DEFINE l == LineBytes
<1>1. l \in Nat /\ TailBytes \in Nat /\ HeadBytes \in Nat /\ MarkerBytes \in Nat
  BY SizesOfLines
<1>2. LimitAfter(n) = TailBytes + n * l /\ LimitAfter(n + 1) = TailBytes + (n + 1) * l
  BY DEF LimitAfter
<1> HIDE DEF l
<1>3. n * l \in Nat /\ (n + 1) * l = n * l + l
  BY <1>1
<1>4. /\ LimitAfter(n) \in Nat /\ TailBytes <= LimitAfter(n)
      /\ LimitAfter(n + 1) = LimitAfter(n) + l
      /\ LimitAfter(n) <= LimitAfter(n + 1)
  BY <1>1, <1>2, <1>3
<1>5. (n + 1) * l <= HeadBytes + MarkerBytes <=> LimitAfter(n) + l <= MaxBytes
  BY <1>1, <1>2, <1>3 DEF MaxBytes
<1>6. QED
  BY <1>4, <1>5 DEF l

\* Failures are counted.
LEMMA CompactionsType ==
  ASSUME NEW seq \in Seq(Failure), NEW g
  PROVE  /\ IsFiniteSet({i \in DOMAIN seq : seq[i] = [what |-> "compact", session |-> g]})
         /\ Compactions(seq, g) \in Nat
<1>1. IsFiniteSet(DOMAIN seq)
  BY LenProperties, FS_Interval
<1>2. IsFiniteSet({i \in DOMAIN seq : seq[i] = [what |-> "compact", session |-> g]})
  BY <1>1, FS_Subset
<1>3. QED
  BY <1>2, FS_CardinalityType DEF Compactions

\* What failed can leave bytes certain only if a tail can be read, now and after a step; and
\* what fails in a session has failed.
LEMMA FailedFacts ==
  ASSUME faults \in Seq(Failure), faults' \in Seq(Failure)
  PROVE  /\ FailedCompactions = Compactions(faults, generation) /\ FailedCompactions \in Nat
         /\ FailedCompactions' = Compactions(faults', generation')
         /\ FailedCompactions' \in Nat
         /\ Failed = FailedIn(faults, generation)
                       \cup IF Limit + LineBytes <= MaxBytes THEN {} ELSE {"read"}
         /\ Failed' = FailedIn(faults', generation')
                        \cup IF Limit' + LineBytes <= MaxBytes THEN {} ELSE {"read"}
<1>1. /\ FailedCompactions = Compactions(faults, generation)
      /\ FailedCompactions' = Compactions(faults', generation')
  BY DEF FailedCompactions, Compactions
<1>2. Compactions(faults, generation) \in Nat /\ Compactions(faults', generation') \in Nat
  BY CompactionsType
<1>3. /\ (FailedCompactions + 1) * LineBytes <= HeadBytes + MarkerBytes
           <=> Limit + LineBytes <= MaxBytes
      /\ (FailedCompactions' + 1) * LineBytes <= HeadBytes + MarkerBytes
           <=> Limit' + LineBytes <= MaxBytes
  <2>1. Limit = LimitAfter(FailedCompactions) /\ Limit' = LimitAfter(FailedCompactions')
    BY DEF Limit, LimitAfter
  <2>2. QED
    BY <1>1, <1>2, <2>1, LimitFacts
<1>4. /\ Failed = FailedIn(faults, generation)
                    \cup IF (FailedCompactions + 1) * LineBytes <= HeadBytes + MarkerBytes
                         THEN {} ELSE {"read"}
      /\ Failed' = FailedIn(faults', generation')
                     \cup IF (FailedCompactions' + 1) * LineBytes <= HeadBytes + MarkerBytes
                          THEN {} ELSE {"read"}
  BY DEF Failed, FailedIn, Elements
<1>5. QED
  BY <1>1, <1>2, <1>3, <1>4

\* What fails in a session has failed, and so has what failed before it.
LEMMA FailedIsEver ==
  ASSUME NEW seq \in Seq(Failure), NEW g
  PROVE  \A x \in FailedIn(seq, g) : x \in {failure.what : failure \in Elements(seq)}
<1>1. SUFFICES ASSUME NEW x \in FailedIn(seq, g)
               PROVE  x \in {failure.what : failure \in Elements(seq)}
  OBVIOUS
<1>2. [what |-> x, session |-> g] \in Elements(seq)
  BY <1>1 DEF FailedIn
<1>3. [what |-> x, session |-> g].what = x
  OBVIOUS
<1>4. QED
  BY <1>2, <1>3

\* So what no session miscounted, this one did not.
LEMMA EverCovers ==
  ASSUME faults \in Seq(Failure), faults' \in Seq(Failure)
  PROVE  /\ OrderCertain(FailedEver) => OrderCertain(Failed)
         /\ OrderCertain(FailedEver') => OrderCertain(Failed')
<1>1. /\ \A x \in FailedIn(faults, generation) : x \in FailedEver
      /\ \A x \in FailedIn(faults', generation') : x \in FailedEver'
  BY FailedIsEver DEF FailedEver, Elements
<1>2. /\ \A x \in Failed : x \in FailedIn(faults, generation) \/ x = "read"
      /\ \A x \in Failed' : x \in FailedIn(faults', generation') \/ x = "read"
  BY FailedFacts
<1>3. QED
  BY <1>1, <1>2 DEF OrderCertain

\* One more failure, and one more failed compaction if it is one.
LEMMA CompactionsGrow ==
  ASSUME NEW seq \in Seq(Failure), NEW fault \in Faults, NEW g \in 1..generationBound
  PROVE  LET more == Append(seq, [what |-> fault, session |-> g]) IN
         /\ Elements(more) = Elements(seq) \cup {[what |-> fault, session |-> g]}
         /\ FailedIn(more, g) = FailedIn(seq, g) \cup {fault}
         /\ more \in Seq(Failure)
         /\ Len(more) = Len(seq) + 1
         /\ fault # "compact" => Compactions(more, g) = Compactions(seq, g)
         /\ fault = "compact" => Compactions(more, g) = Compactions(seq, g) + 1
<1> DEFINE last == [what |-> fault, session |-> g]
           more == Append(seq, last)
           n == Len(seq)
           compaction == [what |-> "compact", session |-> g]
           old == {i \in DOMAIN seq : seq[i] = compaction}
           new == {i \in DOMAIN more : more[i] = compaction}
<1>1. last \in Failure
  BY DEF Failure
<1>2. last = compaction <=> fault = "compact"
  <2>1. last.what = fault /\ compaction.what = "compact"
    OBVIOUS
  <2>2. fault = "compact" => last = compaction
    OBVIOUS
  <2>3. QED
    BY <2>1, <2>2
<1>3. \A x : [what |-> x, session |-> g] = last <=> x = fault
  <2>1. SUFFICES ASSUME NEW x PROVE [what |-> x, session |-> g] = last <=> x = fault
    OBVIOUS
  <2>2. [what |-> x, session |-> g].what = x /\ last.what = fault
    OBVIOUS
  <2>3. QED
    BY <2>2
<1> HIDE DEF last
<1>4. /\ n \in Nat /\ DOMAIN seq = 1..n
      /\ more \in Seq(Failure) /\ Len(more) = n + 1 /\ DOMAIN more = 1..(n + 1)
      /\ \A i \in 1..n : more[i] = seq[i]
      /\ more[n + 1] = last
  BY <1>1, AppendProperties, LenProperties
<1> HIDE DEF more, n, compaction
<1>5. 1..(n + 1) = 1..n \cup {n + 1} /\ n + 1 \notin 1..n
  BY <1>4
<1>6. Elements(more) = Elements(seq) \cup {last}
  BY <1>4, <1>5 DEF Elements
<1>7. FailedIn(more, g) = FailedIn(seq, g) \cup {fault}
  BY <1>3, <1>6 DEF FailedIn
<1>8. IsFiniteSet(old) /\ n + 1 \notin old
  BY <1>4, <1>5, CompactionsType DEF compaction
<1>9. ASSUME fault # "compact" PROVE Compactions(more, g) = Compactions(seq, g)
  <2>1. new = old
    BY <1>2, <1>4, <1>5, <1>9
  <2>2. QED
    BY <2>1 DEF Compactions, compaction
<1>10. ASSUME fault = "compact" PROVE Compactions(more, g) = Compactions(seq, g) + 1
  <2>1. new = old \cup {n + 1}
    BY <1>2, <1>4, <1>5, <1>10
  <2>2. Cardinality(old \cup {n + 1}) = Cardinality(old) + 1
    BY <1>8, FS_AddElement
  <2>3. QED
    BY <2>1, <2>2 DEF Compactions, compaction
<1>11. QED
  BY <1>4, <1>6, <1>7, <1>9, <1>10 DEF more, n, last

\* So far, they leave no more certain than that.
LEMMA LimitType ==
  ASSUME TypeOK
  PROVE  Limit \in Nat /\ Readable(Failed, Limit)
<1>1. faults \in Seq(Failure) /\ Compactions(faults, generation) \in Nat
  BY CompactionsType DEF TypeOK
<1>2. /\ FailedCompactions = Compactions(faults, generation)
      /\ Limit = LimitAfter(FailedCompactions)
  BY DEF FailedCompactions, Compactions, Limit
<1>3. Limit \in Nat
  BY <1>1, <1>2, LimitFacts
<1>4. BytesCertain(Failed) => (FailedCompactions + 1) * LineBytes <= HeadBytes + MarkerBytes
  BY DEF BytesCertain, Failed
<1>5. BytesCertain(Failed) => Limit + LineBytes <= MaxBytes
  BY <1>1, <1>2, <1>4, LimitFacts
<1>6. QED
  BY <1>3, <1>5 DEF Readable

\* A step in which nothing fails changes nothing of that.
LEMMA FailedSame ==
  ASSUME faults' = faults, generation' = generation
  PROVE  Failed' = Failed /\ Limit' = Limit /\ FailedEver' = FailedEver
BY DEF Failed, FailedCompactions, FailedEver, Elements, Limit, LimitAfter

\* What a fault does to what is remembered: in a session g, known or new.
LEMMA FaultIsKept ==
  ASSUME TypeOK, NEW fault, NEW g \in 1..generationBound, Fault(fault, g)
  PROVE  /\ faults' \in Seq(Failure) /\ Len(faults') <= faultBound
         /\ Elements(faults) \in SUBSET Elements(faults')
         /\ FailedEver \in SUBSET FailedEver'
         /\ FailedIn(faults, g) \in SUBSET FailedIn(faults', g)
         /\ fault # "none" => fault \in FailedIn(faults', g)
         /\ fault # "compact" => Compactions(faults', g) = Compactions(faults, g)
         /\ fault = "compact" => Compactions(faults', g) = Compactions(faults, g) + 1
<1> DEFINE more == Append(faults, [what |-> fault, session |-> g])
<1>1. /\ faults \in Seq(Failure) /\ Len(faults) <= faultBound /\ faultBound \in Nat
      /\ Len(faults) \in Nat
  BY LenProperties, TranscriptAssumption DEF TypeOK
<1>2. \/ fault = "none" /\ faults' = faults
      \/ fault \in Faults /\ Len(faults) < faultBound /\ faults' = more
  BY DEF Fault
<1>3. ASSUME fault \in Faults
      PROVE  /\ Elements(faults) \in SUBSET Elements(more)
             /\ FailedIn(more, g) = FailedIn(faults, g) \cup {fault}
             /\ more \in Seq(Failure)
             /\ Len(more) = Len(faults) + 1
             /\ fault # "compact" => Compactions(more, g) = Compactions(faults, g)
             /\ fault = "compact" => Compactions(more, g) = Compactions(faults, g) + 1
  BY <1>1, <1>3, CompactionsGrow
<1> HIDE DEF more
<1>4. fault = "none" => fault # "compact"
  OBVIOUS
<1>5. /\ faults' \in Seq(Failure) /\ Len(faults') <= faultBound
      /\ Elements(faults) \in SUBSET Elements(faults')
      /\ FailedIn(faults, g) \in SUBSET FailedIn(faults', g)
      /\ fault # "none" => fault \in FailedIn(faults', g)
      /\ fault # "compact" => Compactions(faults', g) = Compactions(faults, g)
      /\ fault = "compact" => Compactions(faults', g) = Compactions(faults, g) + 1
  BY <1>1, <1>2, <1>3, <1>4
<1>6. FailedEver \in SUBSET FailedEver'
  BY <1>5 DEF FailedEver, Elements
<1>7. QED
  BY <1>5, <1>6

\* A failure is remembered, and failed compactions are counted.
LEMMA FaultFacts ==
  ASSUME TypeOK, generation > 0, generation' = generation, NEW fault, Fault(fault, generation)
  PROVE  /\ Failed \in SUBSET Failed' /\ FailedEver \in SUBSET FailedEver'
         /\ OrderCertain(FailedEver') => OrderCertain(Failed')
         /\ Readable(Failed', Limit) /\ Readable(Failed', Limit')
         /\ Grows(fault, Limit, Limit')
         /\ fault # "none" => fault \in Failed'
         /\ faults' \in Seq(Failure) /\ Len(faults') <= faultBound
<1>1. faults \in Seq(Failure) /\ generation \in 1..generationBound
  BY TranscriptAssumption DEF TypeOK
<1>2. /\ faults' \in Seq(Failure) /\ Len(faults') <= faultBound
      /\ FailedEver \in SUBSET FailedEver'
      /\ FailedIn(faults, generation) \in SUBSET FailedIn(faults', generation)
      /\ fault # "none" => fault \in FailedIn(faults', generation)
      /\ fault # "compact" =>
           Compactions(faults', generation) = Compactions(faults, generation)
      /\ fault = "compact" =>
           Compactions(faults', generation) = Compactions(faults, generation) + 1
  BY <1>1, FaultIsKept
<1> DEFINE n == FailedCompactions
           m == FailedCompactions'
<1>3. /\ n = Compactions(faults, generation) /\ n \in Nat
      /\ m = Compactions(faults', generation) /\ m \in Nat
      /\ Failed = FailedIn(faults, generation)
                    \cup IF Limit + LineBytes <= MaxBytes THEN {} ELSE {"read"}
      /\ Failed' = FailedIn(faults', generation)
                     \cup IF Limit' + LineBytes <= MaxBytes THEN {} ELSE {"read"}
  BY <1>1, <1>2, FailedFacts
<1>4. /\ Limit = LimitAfter(n) /\ Limit' = LimitAfter(m)
      /\ fault # "compact" => m = n
      /\ fault = "compact" => m = n + 1
  BY <1>2, <1>3 DEF Limit, LimitAfter
<1> HIDE DEF n, m
<1>5. /\ Limit \in Nat /\ Limit' \in Nat /\ TailBytes <= Limit'
      /\ fault # "compact" => Limit' = Limit
      /\ fault = "compact" => Limit' = Limit + LineBytes
  BY <1>3, <1>4, LimitFacts
<1>6. LineBytes \in Nat /\ MaxBytes \in Nat
  BY SizesOfLines DEF MaxBytes
<1>7. Grows(fault, Limit, Limit')
  BY <1>5, <1>6 DEF Grows
<1>8. Limit' + LineBytes <= MaxBytes => Limit + LineBytes <= MaxBytes
  <2>1. Limit' = Limit \/ Limit' = Limit + LineBytes
    BY <1>5
  <2>2. Limit <= Limit'
    BY <1>5, <1>6, <2>1
  <2>3. \A a, b \in Nat : a <= b /\ b + LineBytes <= MaxBytes => a + LineBytes <= MaxBytes
    BY <1>6
  <2>4. QED
    BY <1>5, <2>2, <2>3
<1>9. Failed \in SUBSET Failed' /\ (fault # "none" => fault \in Failed')
  BY <1>2, <1>3, <1>8
<1>10. BytesCertain(Failed') => Limit' + LineBytes <= MaxBytes
  BY <1>3 DEF BytesCertain
<1>11. Readable(Failed', Limit) /\ Readable(Failed', Limit')
  BY <1>5, <1>8, <1>10 DEF Readable
<1>12. OrderCertain(FailedEver') => OrderCertain(Failed')
  BY <1>1, <1>2, EverCovers
<1>13. QED
  BY <1>2, <1>7, <1>9, <1>11, <1>12

\* The files' bytes, by call.
FileBytes == [c \in Call |-> CallBytes(files[c])]

\* They are numbers, of finitely many calls.
LEMMA FileBytesType ==
  ASSUME TypeOK
  PROVE  /\ FileBytes \in [Call -> Nat] /\ IsFiniteSet(Call)
         /\ DiskBytes = Total(FileBytes) /\ DiskBytes \in Nat
<1>1. IsFiniteSet(Call)
  BY TranscriptAssumption
<1>2. \A c \in Call : CallBytes(files[c]) \in Nat
  BY StateOfCall, CallBytesType
<1>3. FileBytes \in [Call -> Nat]
  BY <1>2 DEF FileBytes
<1>4. DiskBytes = Total(FileBytes)
  BY DEF DiskBytes, FileBytes
<1>5. QED
  BY <1>1, <1>3, <1>4, TotalType

\* One call's bytes are part of all.
LEMMA PartOfDisk ==
  ASSUME TypeOK, NEW c \in Call
  PROVE  CallBytes(files[c]) <= DiskBytes
<1> DEFINE g == [FileBytes EXCEPT ![c] = 0]
<1>1. /\ FileBytes \in [Call -> Nat] /\ IsFiniteSet(Call)
      /\ DiskBytes = Total(FileBytes) /\ DiskBytes \in Nat
      /\ FileBytes[c] = CallBytes(files[c]) /\ FileBytes[c] \in Nat
  BY FileBytesType DEF FileBytes
<1>2. g \in [Call -> Nat] /\ g[c] = 0 /\ \A d \in Call : d # c => FileBytes[d] = g[d]
  BY <1>1
<1> HIDE DEF g
<1>3. Total(g) \in Nat
  BY <1>1, <1>2, TotalType
<1>4. Total(g) + FileBytes[c] = Total(FileBytes) + g[c]
  BY <1>1, <1>2, TotalChange
<1>5. QED
  BY <1>1, <1>2, <1>3, <1>4

\* What a step of one call's writer does to the files and the sum of their bytes.
LEMMA WriterStep ==
  ASSUME TypeOK, NEW c \in Call,
         NEW z \in WriterStates, Becomes(c, z)
  PROVE  /\ files' \in [Call -> FilesOfCall]
         /\ writer' \in [Call -> WriterOfCall] /\ used' \in Nat
         /\ files'[c] = z.files /\ writer'[c] = z.writer /\ used' = z.used
         /\ \A d \in Call : d # c => files'[d] = files[d] /\ writer'[d] = writer[d]
         /\ DiskBytes' \in Nat
         /\ DiskBytes' + CallBytes(files[c])
              = DiskBytes + CallBytes(z.files)
<1>1. /\ files \in [Call -> FilesOfCall]
      /\ writer \in [Call -> WriterOfCall]
  BY DEF TypeOK
<1>2. z.files \in FilesOfCall /\ z.writer \in WriterOfCall /\ z.used \in Nat
  BY FieldsOfState
<1>3. /\ files' \in [Call -> FilesOfCall]
      /\ writer' \in [Call -> WriterOfCall] /\ used' \in Nat
      /\ files'[c] = z.files /\ writer'[c] = z.writer /\ used' = z.used
      /\ \A d \in Call : d # c => files'[d] = files[d] /\ writer'[d] = writer[d]
  BY <1>1, <1>2 DEF Becomes
<1>4. \A d \in Call : CallBytes(files'[d]) \in Nat
  BY <1>3, CallBytesType
<1>5. FileBytes' \in [Call -> Nat] /\ FileBytes'[c] = CallBytes(z.files)
  BY <1>3, <1>4 DEF FileBytes
<1>6. \A d \in Call : d # c => FileBytes[d] = FileBytes'[d]
  BY <1>3 DEF FileBytes
<1>7. DiskBytes' = Total(FileBytes')
  BY DEF DiskBytes, FileBytes
<1>8. /\ FileBytes \in [Call -> Nat] /\ IsFiniteSet(Call)
      /\ DiskBytes = Total(FileBytes)
      /\ FileBytes[c] = CallBytes(files[c])
  BY FileBytesType DEF FileBytes
<1>9. Total(FileBytes') + FileBytes[c] = Total(FileBytes) + FileBytes'[c]
  BY <1>5, <1>6, <1>8, TotalChange
<1>10. DiskBytes' \in Nat
  BY <1>5, <1>7, <1>8, TotalType
<1>11. QED
  BY <1>3, <1>5, <1>7, <1>8, <1>9, <1>10

----------------------------------------------------------------------------
(***************************************************************************)
(* The inductive invariant, and every step.                                *)
(***************************************************************************)
\* What is invariant of one call: the transcript that it writes in this session is sound; one
\* from any session is in order; and only that of a task of this session is open.
CallSound(c) ==
  /\ c \in running => RunningSound(files[c], writer[c], emitted[c], Failed, Limit)
  /\ emitted[c] # << >> => alive /\ Sound(files[c], writer[c], emitted[c], Failed, Limit)
  /\ OrderCertain(FailedEver) => InOrder(files[c].final)
  /\ writer[c].open => c \in tasks /\ emitted[c] # << >>

BudgetExact == alive /\ FilesCertain(Failed) => used = DiskBytes

ManifestKept == alive /\ tasks = {} => previous = listed

SessionCounted == alive => generation > 0

StoreInvariant ==
  /\ TypeOK
  /\ \A c \in Call : CallSound(c)
  /\ ManifestKept
  /\ BudgetExact
  /\ SessionCounted

\* A step leaves the calls that it does not touch as they were.
LEMMA OthersStay ==
  ASSUME NEW c, CallSound(c), files'[c] = files[c], writer'[c] = writer[c],
         emitted'[c] = emitted[c], c \in running' => c \in running,
         c \in tasks => c \in tasks', alive' = alive,
         Failed \in SUBSET Failed', FailedEver \in SUBSET FailedEver',
         files[c] \in FilesOfCall, Limit \in Nat, Limit' \in Nat, Limit <= Limit'
  PROVE  CallSound(c)'
<1>1. /\ c \in running => RunningSound(files[c], writer[c], emitted[c], Failed, Limit)
      /\ emitted[c] # << >> => alive /\ Sound(files[c], writer[c], emitted[c], Failed, Limit)
      /\ OrderCertain(FailedEver) => InOrder(files[c].final)
      /\ writer[c].open => c \in tasks /\ emitted[c] # << >>
  BY DEF CallSound
<1>2. /\ c \in running => RunningSound(files[c], writer[c], emitted[c], Failed', Limit')
      /\ emitted[c] # << >> => Sound(files[c], writer[c], emitted[c], Failed', Limit')
      /\ OrderCertain(FailedEver') => InOrder(files[c].final)
  BY <1>1, SoundStays, LessIsCertain
<1>3. /\ c \in running' => RunningSound(files'[c], writer'[c], emitted'[c], Failed', Limit')
      /\ emitted'[c] # << >> =>
           alive' /\ Sound(files'[c], writer'[c], emitted'[c], Failed', Limit')
      /\ OrderCertain(FailedEver') => InOrder(files'[c].final)
  BY <1>1, <1>2
<1>4. writer'[c].open => c \in tasks' /\ emitted'[c] # << >>
  BY <1>1
<1>5. QED
  BY <1>3, <1>4 DEF CallSound

\* What the steps of one call's writer have in common: files, writer and budget become z, a
\* fault may come, and the call is one of the session's tasks.
TakesStep(c, z, fault) ==
  /\ alive /\ alive' /\ Becomes(c, z) /\ Fault(fault, generation)
  /\ emitted' \in [Call -> Seq(Line)]
  /\ \A d \in Call : Len(emitted'[d]) <= lineBound
  /\ emitted'[c] # << >>
  /\ \A d \in Call : d # c => emitted'[d] = emitted[d]
  /\ tasks \in SUBSET tasks' /\ c \in tasks' /\ tasks' \in SUBSET Call
  /\ running' \in SUBSET tasks' /\ running' \in SUBSET (running \cup {c})
  /\ previous' \in SUBSET Call /\ listed' \in SUBSET Call
  /\ generation' = generation
  /\ ~ z.files.made => z.files.final = << >>

\* The transcript and the budget are as they should be after it.
StepIsSound(c, z) ==
  /\ c \in running' => RunningSound(z.files, z.writer, emitted'[c], Failed', Limit')
  /\ Sound(z.files, z.writer, emitted'[c], Failed', Limit')
  /\ FilesCertain(Failed') /\ used = DiskBytes =>
       z.used + CallBytes(files[c]) = used + CallBytes(z.files)

\* Then the invariant holds again.
LEMMA StepKeeps ==
  ASSUME StoreInvariant, NEW c \in Call, NEW z \in WriterStates,
         NEW fault, TakesStep(c, z, fault), StepIsSound(c, z)
  PROVE  StoreInvariant'
<1>1. /\ alive /\ alive' /\ Becomes(c, z) /\ Fault(fault, generation)
      /\ emitted' \in [Call -> Seq(Line)]
      /\ \A d \in Call : Len(emitted'[d]) <= lineBound
      /\ emitted'[c] # << >>
      /\ \A d \in Call : d # c => emitted'[d] = emitted[d]
      /\ tasks \in SUBSET tasks' /\ c \in tasks' /\ tasks' \in SUBSET Call
      /\ running' \in SUBSET tasks' /\ running' \in SUBSET (running \cup {c})
      /\ previous' \in SUBSET Call /\ listed' \in SUBSET Call
      /\ generation' = generation
      /\ ~ z.files.made => z.files.final = << >>
  BY DEF TakesStep
<1>2. TypeOK /\ BudgetExact /\ generation > 0 /\ \A d \in Call : CallSound(d)
  BY <1>1 DEF StoreInvariant, SessionCounted
<1>3. /\ files' \in [Call -> FilesOfCall]
      /\ writer' \in [Call -> WriterOfCall] /\ used' \in Nat
      /\ files'[c] = z.files /\ writer'[c] = z.writer /\ used' = z.used
      /\ \A d \in Call : d # c => files'[d] = files[d] /\ writer'[d] = writer[d]
      /\ DiskBytes' \in Nat
      /\ DiskBytes' + CallBytes(files[c])
           = DiskBytes + CallBytes(z.files)
  BY <1>1, <1>2, WriterStep
<1>4. /\ Failed \in SUBSET Failed' /\ FailedEver \in SUBSET FailedEver'
      /\ OrderCertain(FailedEver') => OrderCertain(Failed')
      /\ faults' \in Seq(Failure) /\ Len(faults') <= faultBound
      /\ Limit \in Nat /\ Limit' \in Nat /\ Limit <= Limit'
  BY <1>1, <1>2, FaultFacts DEF Grows
<1>5. /\ c \in running' => RunningSound(z.files, z.writer, emitted'[c], Failed', Limit')
      /\ Sound(z.files, z.writer, emitted'[c], Failed', Limit')
      /\ FilesCertain(Failed') /\ used = DiskBytes =>
           z.used + CallBytes(files[c]) = used + CallBytes(z.files)
  BY DEF StepIsSound
<1>6. TypeOK'
  <2>1. \A d \in Call : ~ files'[d].made => files'[d].final = << >>
    BY <1>1, <1>2, <1>3 DEF TypeOK
  <2>2. generation' \in 0..generationBound
    BY <1>1, <1>2 DEF TypeOK
  <2>3. QED
    BY <1>1, <1>3, <1>4, <2>1, <2>2 DEF TypeOK
<1>7. CallSound(c)'
  <2>1. OrderCertain(FailedEver') => InOrder(z.files.final)
    BY <1>4, <1>5 DEF Sound, OpenSound
  <2>2. QED
    BY <1>1, <1>3, <1>5, <2>1 DEF CallSound
<1>8. ASSUME NEW d \in Call, d # c PROVE CallSound(d)'
  <2>1. files[d] \in FilesOfCall
    BY <1>2, StateOfCall
  <2>2. QED
    BY <1>1, <1>2, <1>3, <1>4, <1>8, <2>1, OthersStay
<1>9. BudgetExact'
  <2>1. SUFFICES ASSUME FilesCertain(Failed') PROVE used' = DiskBytes'
    BY DEF BudgetExact
  <2>2. used = DiskBytes
    BY <1>1, <1>2, <1>4, <2>1, LessIsCertain DEF BudgetExact
  <2>3. z.used + CallBytes(files[c]) = used + CallBytes(z.files)
    BY <1>5, <2>1, <2>2
  <2>4. /\ CallBytes(files[c]) \in Nat /\ CallBytes(z.files) \in Nat
        /\ used \in Nat
    BY <1>2, StateOfCall, FieldsOfState, CallBytesType DEF TypeOK
  <2>5. QED
    BY <1>3, <2>2, <2>3, <2>4
<1>10. ManifestKept'
  BY <1>1 DEF ManifestKept
<1>11. SessionCounted'
  BY <1>1, <1>2 DEF SessionCounted
<1>12. QED
  BY <1>6, <1>7, <1>8, <1>9, <1>10, <1>11 DEF StoreInvariant

\* persist() lists known calls.
LEMMA PersistType ==
  ASSUME NEW current \in SUBSET Call, NEW earlier \in SUBSET Call,
         Persist(current, earlier)
  PROVE  listed' \in SUBSET Call
BY DEF Persist

\* startTask() keeps it.
LEMMA StartTaskKeeps ==
  ASSUME StoreInvariant, NEW c \in Call, StartTask(c)
  PROVE  StoreInvariant'
<1>1. PICK size \in Size, fault \in AppendFaults \cup {"reset", "none"},
           stay \in SUBSET {"head", "tail", "final"} :
        /\ stay # {} <=> fault = "reset"
        /\ Fault(fault, generation)
        /\ \E part \in Parts(First(size), fault) :
             Becomes(c, AppendLine(Reset(State(c), stay), First(size), part, fault))
        /\ emitted' = [emitted EXCEPT ![c] = << First(size) >>]
  BY DEF StartTask
<1>2. PICK part \in Parts(First(size), fault) :
        Becomes(c, AppendLine(Reset(State(c), stay), First(size), part, fault))
  BY <1>1
<1> DEFINE line == First(size)
           s == State(c)
           z == AppendLine(Reset(s, stay), line, part, fault)
<1>3. /\ alive /\ alive' = alive /\ generation' = generation
      /\ tasks' = tasks \cup {c} /\ running' = running \cup {c}
      /\ previous' = previous \ {c} /\ Persist(tasks', previous')
  BY DEF StartTask
<1>4. /\ TypeOK /\ generation > 0
      /\ tasks \in SUBSET Call /\ running \in SUBSET tasks
      /\ previous \in SUBSET Call
      /\ emitted \in [Call -> Seq(Line)]
      /\ \A d \in Call : Len(emitted[d]) <= lineBound
      /\ ~ files[c].made => files[c].final = << >>
  BY <1>3 DEF StoreInvariant, TypeOK, SessionCounted
<1>5. s \in WriterStates /\ s.files = files[c] /\ s.used = used
  BY <1>4, StateOfCall
<1>6. line \in Line /\ part \in Parts(line, fault)
  BY DEF Line, First
<1>7. /\ stay # {} => "reset" \in Failed'
      /\ Known(fault, Failed')
      /\ Readable(Failed', Limit) /\ Grows(fault, Limit, Limit')
  BY <1>1, <1>3, <1>4, FaultFacts DEF Known
<1>8. Fault(fault, generation) /\ Becomes(c, z)
      /\ emitted' = [emitted EXCEPT ![c] = << line >>]
  BY <1>1, <1>2
<1> HIDE DEF line, s
<1>9. /\ z \in WriterStates
      /\ RunningSound(z.files, z.writer, << line >>, Failed', Limit')
      /\ \/ ~ z.files.made /\ z.files.final = << >>
         \/ z.files.made = s.files.made /\ z.files.final = s.files.final
      /\ FilesCertain(Failed') /\ CallBytes(s.files) <= s.used =>
           z.used + CallBytes(s.files) = s.used + CallBytes(z.files)
  BY <1>5, <1>6, <1>7, PartsOfLine, StartSound
<1> HIDE DEF z
<1>10. emitted'[c] = << line >> /\ << line >> \in Seq(Line) /\ Len(<< line >>) = 1
  BY <1>4, <1>6, <1>8
<1>11. /\ emitted' \in [Call -> Seq(Line)]
       /\ \A d \in Call : Len(emitted'[d]) <= lineBound
       /\ emitted'[c] # << >>
       /\ \A d \in Call : d # c => emitted'[d] = emitted[d]
  <2>1. emitted' \in [Call -> Seq(Line)]
    BY <1>4, <1>8, <1>10
  <2>2. \A d \in Call : d # c => emitted'[d] = emitted[d]
    BY <1>4, <1>8
  <2>3. 1 <= lineBound
    BY TranscriptAssumption
  <2>4. \A d \in Call : Len(emitted'[d]) <= lineBound
    <3>1. Len(emitted'[c]) <= lineBound
      BY <1>10, <2>3
    <3>2. QED
      BY <1>4, <2>2, <3>1
  <2>5. emitted'[c] # << >>
    BY <1>10
  <2>6. QED
    BY <2>1, <2>2, <2>4, <2>5
<1>12. TakesStep(c, z, fault)
  <2>1. ~ z.files.made => z.files.final = << >>
    BY <1>4, <1>5, <1>9
  <2>2. listed' \in SUBSET Call /\ previous' \in SUBSET Call
    BY <1>3, <1>4, PersistType
  <2>3. QED
    BY <1>3, <1>4, <1>8, <1>11, <2>1, <2>2 DEF TakesStep
<1>13. StepIsSound(c, z)
  <2>1. RunningSound(z.files, z.writer, emitted'[c], Failed', Limit')
    BY <1>9, <1>10
  <2>2. Sound(z.files, z.writer, emitted'[c], Failed', Limit')
    BY <2>1 DEF RunningSound, OpenSound, Sound
  <2>3. CallBytes(files[c]) <= DiskBytes
    BY <1>4, PartOfDisk
  <2>4. QED
    BY <1>5, <1>9, <2>1, <2>2, <2>3 DEF StepIsSound
<1>14. QED
  BY <1>9, <1>12, <1>13, StepKeeps

\* A replayed call leaves its transcript as it is.
LEMMA ReplayKeeps ==
  ASSUME StoreInvariant, NEW c \in Call, Replay(c)
  PROVE  StoreInvariant'
<1>1. /\ alive /\ alive' = alive /\ generation' = generation
      /\ tasks' = tasks \cup {c} /\ running' = running /\ files' = files /\ writer' = writer
      /\ emitted' = emitted /\ faults' = faults /\ used' = used
      /\ previous' = previous \ {c} /\ Persist(tasks', previous')
  BY DEF Replay
<1>2. /\ TypeOK /\ BudgetExact /\ \A d \in Call : CallSound(d)
      /\ tasks \in SUBSET Call /\ running \in SUBSET tasks
      /\ previous \in SUBSET Call
  BY DEF StoreInvariant, TypeOK
<1>3. TypeOK'
  <2>1. listed' \in SUBSET Call
    BY <1>1, <1>2, PersistType
  <2>2. /\ tasks' \in SUBSET Call /\ running' \in SUBSET tasks'
        /\ previous' \in SUBSET Call
    BY <1>1, <1>2
  <2>3. QED
    BY <1>1, <1>2, <2>1, <2>2 DEF TypeOK
<1>4. Failed' = Failed /\ FailedEver' = FailedEver /\ DiskBytes' = DiskBytes /\ Limit' = Limit
  BY <1>1, FailedSame DEF DiskBytes
<1>5. ASSUME NEW d \in Call PROVE CallSound(d)'
  <2>1. Limit \in Nat /\ files[d] \in FilesOfCall
    BY <1>2, LimitType, StateOfCall DEF Readable
  <2>2. d \in running' => d \in running
    BY <1>1
  <2>3. QED
    BY <1>1, <1>2, <1>4, <2>1, <2>2, OthersStay
<1>6. BudgetExact'
  BY <1>1, <1>2, <1>4 DEF BudgetExact
<1>7. ManifestKept'
  BY <1>1 DEF ManifestKept
<1>8. SessionCounted'
  BY <1>1 DEF StoreInvariant, SessionCounted
<1>9. QED
  BY <1>3, <1>5, <1>6, <1>7, <1>8 DEF StoreInvariant

\* The next line of a transcript goes on with those that there are.
LEMMA NextLineGoesOn ==
  ASSUME TypeOK, NEW c \in Call,
         NEW line \in NextLines(c)
  PROVE  line \in Line /\ GoesOn(line, Elements(emitted[c]))
<1> DEFINE lines == Elements(emitted[c])
           fresh == {e \in 1..lineBound :
                       (\A l \in lines : l.event < e) /\ \E l \in lines : l.event = e - 1}
           begun == {l \in lines : l.version = 1 /\ \A k \in lines : k.event = l.event => k = l}
           ends == {l \in [event : {b.event : b \in begun}, version : {2}, size : Size] :
                      \A b \in begun : b.event = l.event => b.size <= l.size}
<1>1. line \in [event : fresh, version : {1}, size : Size] \/ line \in ends
  BY DEF NextLines
<1>2. lines \in SUBSET Line
  <2>1. emitted[c] \in Seq(Line)
    BY StateOfCall
  <2>2. \A i \in DOMAIN emitted[c] : emitted[c][i] \in Line
    BY <2>1, LenProperties, ElementOfSeq
  <2>3. QED
    BY <2>2 DEF Elements
<1>3. \A l \in lines : l.event \in Nat \ {0} /\ l.size \in Nat /\ l.version \in {1, 2}
  BY <1>2, TranscriptAssumption DEF Line, Size
<1> HIDE DEF lines
<1>4. CASE line \in [event : fresh, version : {1}, size : Size]
  <2>1. /\ line.event \in Nat \ {0} /\ \A l \in lines : l.event < line.event
    <3>1. lineBound \in Nat
      BY TranscriptAssumption
    <3>2. QED
      BY <1>4, <3>1
  <2>2. line \in Line
    BY <1>4, <2>1 DEF Line
  <2>3. \A l \in lines : l.event # line.event
    BY <1>3, <2>1
  <2>4. QED
    BY <2>2, <2>3 DEF GoesOn, lines
<1>5. CASE line \in ends
  <2>1. /\ line \in [event : {b.event : b \in begun}, version : {2}, size : Size]
        /\ \A b \in begun : b.event = line.event => b.size <= line.size
    BY <1>5
  <2>2. PICK b \in begun : line.event = b.event
    BY <2>1
  <2>3. /\ b \in lines /\ b.version = 1 /\ b.size <= line.size
        /\ \A k \in lines : k.event = line.event => k = b
    BY <2>1, <2>2
  <2>4. line \in Line /\ line.version = 2
    BY <1>3, <2>1, <2>2, <2>3 DEF Line
  <2>5. QED
    BY <2>3, <2>4 DEF GoesOn, lines
<1>6. QED
  BY <1>1, <1>4, <1>5

\* What a running task's transcript is after another line.
LEMMA LineSound ==
  ASSUME StoreInvariant, NEW c \in Call, c \in running,
         NEW line \in NextLines(c), NEW part, PartOf(part, line), NEW fault,
         NEW failed, Failed \in SUBSET failed, Known(fault, failed),
         NEW still, Readable(failed, Limit), Grows(fault, Limit, still)
  PROVE  LET z == AppendLine(State(c), line, part, fault) IN
         /\ z \in WriterStates
         /\ RunningSound(z.files, z.writer, Append(emitted[c], line), failed, still)
         /\ z.files.made = files[c].made /\ z.files.final = files[c].final
         /\ FilesCertain(failed) /\ used = DiskBytes =>
              z.used + CallBytes(files[c]) = used + CallBytes(z.files)
<1> DEFINE s == State(c)
           z == AppendLine(s, line, part, fault)
<1>1. TypeOK /\ CallSound(c)
  BY DEF StoreInvariant
<1>2. /\ s \in WriterStates /\ s.files = files[c] /\ s.writer = writer[c] /\ s.used = used
      /\ emitted[c] \in Seq(Line)
  BY <1>1, StateOfCall
<1>3. line \in Line /\ GoesOn(line, Elements(emitted[c]))
  BY <1>1, NextLineGoesOn
<1> HIDE DEF s
<1>4. z \in WriterStates /\ Appends(s, line, part, z, fault)
  BY <1>2, <1>3, AppendFacts
<1> HIDE DEF z
<1>5. RunningSound(s.files, s.writer, emitted[c], failed, Limit)
  <2>1. RunningSound(files[c], writer[c], emitted[c], Failed, Limit)
    BY <1>1 DEF CallSound
  <2>2. Limit \in Nat /\ Limit <= Limit /\ files[c] \in FilesOfCall
    BY <1>1, LimitType, StateOfCall
  <2>3. RunningSound(files[c], writer[c], emitted[c], failed, Limit)
    BY <2>1, <2>2, SoundStays
  <2>4. QED
    BY <1>2, <2>3
<1>6. RunningSound(z.files, z.writer, Append(emitted[c], line), failed, still)
  BY <1>2, <1>3, <1>4, <1>5, AppendSound
<1>7. z.files.made = s.files.made /\ z.files.final = s.files.final
  BY <1>4, AppendKeeps
<1>8. ASSUME FilesCertain(failed), used = DiskBytes
      PROVE  z.used + CallBytes(files[c]) = used + CallBytes(z.files)
  <2>1. Synced(s.files, s.writer)
    BY <1>5, <1>8 DEF RunningSound, OpenSound, FilesCertain, BytesCertain
  <2>2. CallBytes(s.files) <= s.used
    BY <1>1, <1>2, <1>8, PartOfDisk
  <2>3. fault \notin {"torn", "compacted"}
    BY <1>8 DEF FilesCertain, Known
  <2>4. QED
    BY <1>2, <1>3, <1>4, <2>1, <2>2, <2>3, AppendCounts
<1>9. QED
  BY <1>2, <1>4, <1>6, <1>7, <1>8 DEF s, z

\* The history of a call that has one line more.
LEMMA HistoryGrows ==
  ASSUME TypeOK, NEW c \in Call, NEW line \in Line, Len(emitted[c]) < lineBound,
         lineBound \in Nat, emitted' = [emitted EXCEPT ![c] = Append(@, line)]
  PROVE  /\ emitted'[c] = Append(emitted[c], line) /\ emitted'[c] # << >>
         /\ emitted' \in [Call -> Seq(Line)]
         /\ \A d \in Call : Len(emitted'[d]) <= lineBound
         /\ \A d \in Call : d # c => emitted'[d] = emitted[d]
<1>1. /\ emitted \in [Call -> Seq(Line)]
      /\ \A d \in Call : Len(emitted[d]) <= lineBound
      /\ emitted[c] \in Seq(Line)
  BY DEF TypeOK
<1>2. /\ Append(emitted[c], line) \in Seq(Line)
      /\ Len(Append(emitted[c], line)) = Len(emitted[c]) + 1 /\ Len(emitted[c]) \in Nat
  BY <1>1, LinesOfAgent, LenProperties
<1>3. /\ emitted'[c] = Append(emitted[c], line)
      /\ emitted' \in [Call -> Seq(Line)]
      /\ \A d \in Call : d # c => emitted'[d] = emitted[d]
  BY <1>1, <1>2
<1>4. Len(emitted'[c]) <= lineBound
  BY <1>2, <1>3
<1>5. emitted'[c] # << >>
  BY <1>2, <1>3
<1>6. QED
  BY <1>1, <1>3, <1>4, <1>5

\* record() keeps the invariant.
LEMMA RecordKeeps ==
  ASSUME StoreInvariant, NEW c \in Call, Record(c)
  PROVE  StoreInvariant'
<1>1. PICK line \in NextLines(c), fault \in AppendFaults \cup {"none"} :
        /\ Fault(fault, generation)
        /\ \E part \in Parts(line, fault) : Becomes(c, AppendLine(State(c), line, part, fault))
        /\ emitted' = [emitted EXCEPT ![c] = Append(@, line)]
  BY DEF Record
<1>2. PICK part \in Parts(line, fault) : Becomes(c, AppendLine(State(c), line, part, fault))
  BY <1>1
<1>3. /\ alive /\ alive' = alive /\ generation' = generation /\ c \in running
      /\ Len(emitted[c]) < lineBound
      /\ tasks' = tasks /\ running' = running /\ previous' = previous /\ listed' = listed
  BY DEF Record
<1>4. /\ TypeOK /\ generation > 0
      /\ tasks \in SUBSET Call /\ running \in SUBSET tasks
      /\ previous \in SUBSET Call /\ listed \in SUBSET Call
      /\ ~ files[c].made => files[c].final = << >>
      /\ lineBound \in Nat
  BY <1>3, TranscriptAssumption DEF StoreInvariant, TypeOK, SessionCounted
<1> DEFINE z == AppendLine(State(c), line, part, fault)
<1>5. /\ Failed \in SUBSET Failed' /\ Known(fault, Failed')
      /\ Readable(Failed', Limit) /\ Grows(fault, Limit, Limit')
  BY <1>1, <1>3, <1>4, FaultFacts DEF Known
<1>6. /\ z \in WriterStates
      /\ RunningSound(z.files, z.writer, Append(emitted[c], line), Failed', Limit')
      /\ z.files.made = files[c].made /\ z.files.final = files[c].final
      /\ FilesCertain(Failed') /\ used = DiskBytes =>
           z.used + CallBytes(files[c]) = used + CallBytes(z.files)
  <2>1. PartOf(part, line)
    BY <1>4, NextLineGoesOn, PartsOfLine
  <2>2. QED
    BY <1>3, <1>5, <2>1, LineSound
<1>7. Fault(fault, generation) /\ Becomes(c, z)
  BY <1>1, <1>2
<1> HIDE DEF z
<1>8. line \in Line
  BY <1>4, NextLineGoesOn
<1>9. /\ emitted'[c] = Append(emitted[c], line) /\ emitted'[c] # << >>
      /\ emitted' \in [Call -> Seq(Line)]
      /\ \A d \in Call : Len(emitted'[d]) <= lineBound
      /\ \A d \in Call : d # c => emitted'[d] = emitted[d]
  BY <1>1, <1>3, <1>4, <1>8, HistoryGrows
<1>10. TakesStep(c, z, fault)
  BY <1>3, <1>4, <1>6, <1>7, <1>9 DEF TakesStep
<1>11. StepIsSound(c, z)
  <2>1. RunningSound(z.files, z.writer, emitted'[c], Failed', Limit')
    BY <1>6, <1>9
  <2>2. Sound(z.files, z.writer, emitted'[c], Failed', Limit')
    BY <2>1 DEF RunningSound, OpenSound, Sound
  <2>3. QED
    BY <1>6, <2>1, <2>2 DEF StepIsSound
<1>12. QED
  BY <1>6, <1>10, <1>11, StepKeeps

\* While nothing is miscounted, the budget keeps up with a call's files.
KeepsUp(z, c, failed) ==
  FilesCertain(failed) /\ used = DiskBytes =>
    z.used + CallBytes(files[c]) = used + CallBytes(z.files)

\* There is nothing in a file that is not there.
NoneUnlessMade(f) == ~ f.made => f.final = << >>

\* A transcript that is put together is sound, and the budget keeps up.
LEMMA PutTogether ==
  ASSUME NEW c, NEW m \in WriterStates, NEW lines, NEW fault,
         NEW unread, unread # {} => fault = "read",
         NEW failed, Known(fault, failed), NEW most, Readable(failed, most),
         OpenSound(m.files, m.writer, lines, failed, most),
         NoneUnlessMade(m.files), used \in Nat, files[c] \in FilesOfCall,
         KeepsUp(m, c, failed)
  PROVE  LET z == Finalize(m, fault, unread) IN
         /\ z \in WriterStates
         /\ Sound(z.files, z.writer, lines, failed, most)
         /\ NoneUnlessMade(z.files)
         /\ KeepsUp(z, c, failed)
<1> DEFINE z == Finalize(m, fault, unread)
<1>1. z \in WriterStates /\ Finalizes(m, z, fault, unread)
  BY FinalizeFacts
<1> HIDE DEF z
<1>2. Sound(z.files, z.writer, lines, failed, most)
  BY <1>1, FinalizeSound DEF NoneUnlessMade
<1>3. NoneUnlessMade(z.files)
  BY <1>1, FinalizeMade DEF NoneUnlessMade
<1>4. ASSUME FilesCertain(failed), used = DiskBytes
      PROVE  z.used + CallBytes(files[c]) = used + CallBytes(z.files)
  <2>1. m.writer.open /\ ~ m.files.made /\ m.files.final = << >>
    BY <1>4 DEF OpenSound, NoneUnlessMade
  <2>2. fault \notin {"written", "removeTail"} /\ unread = {}
    BY <1>4 DEF FilesCertain, Known
  <2>3. z.used + CallBytes(m.files) = m.used + CallBytes(z.files)
    <3>1. BytesCertain(failed)
      BY <1>4 DEF BytesCertain, FilesCertain
    <3>2. Synced(m.files, m.writer) /\ Bytes(m.files.tail) <= most
      BY <3>1 DEF OpenSound
    <3>3. Shown(m.files, unread) = m.files
      BY <2>2, <3>1, <3>2, CanBeRead
    <3>4. QED
      BY <1>1, <2>1, <2>2, <3>3, FinalizeBudget
  <2>4. m.used + CallBytes(files[c]) = used + CallBytes(m.files)
    BY <1>4 DEF KeepsUp
  <2>5. /\ m.used \in Nat /\ z.used \in Nat /\ CallBytes(m.files) \in Nat
        /\ CallBytes(z.files) \in Nat /\ CallBytes(files[c]) \in Nat
    BY <1>1, FieldsOfState, CallBytesType
  <2>6. QED
    BY <2>3, <2>4, <2>5
<1>5. QED
  BY <1>1, <1>2, <1>3, <1>4 DEF z, KeepsUp

\* finishTask() keeps the invariant, whether an event has still to be ended or not.
LEMMA FinishTaskKeeps ==
  ASSUME StoreInvariant, NEW c \in Call, FinishTask(c)
  PROVE  StoreInvariant'
<1>1. PICK fault \in AppendFaults \cup FinalizeFaults \cup {"none"},
           unread \in SUBSET {"head", "tail"} :
        /\ unread # {} <=> fault = "read"
        /\ Fault(fault, generation)
        /\ \/ Becomes(c, Finalize(State(c), fault, unread)) /\ UNCHANGED emitted
           \/ /\ Len(emitted[c]) < lineBound
              /\ \E line \in {l \in NextLines(c) : l.version = 2} :
                   /\ \E part \in Parts(line, fault) :
                        Becomes(c, Finalize(AppendLine(State(c), line, part, fault),
                                            fault, unread))
                   /\ emitted' = [emitted EXCEPT ![c] = Append(@, line)]
  BY DEF FinishTask
<1>2. /\ alive /\ alive' = alive /\ generation' = generation /\ c \in running
      /\ tasks' = tasks /\ running' = running \ {c} /\ previous' = previous
      /\ Persist(tasks, previous)
  BY DEF FinishTask
<1>3. /\ TypeOK /\ CallSound(c) /\ generation > 0
      /\ tasks \in SUBSET Call /\ running \in SUBSET tasks
      /\ previous \in SUBSET Call /\ used \in Nat
      /\ emitted \in [Call -> Seq(Line)]
      /\ \A d \in Call : Len(emitted[d]) <= lineBound
      /\ NoneUnlessMade(files[c])
      /\ lineBound \in Nat
  BY <1>2, TranscriptAssumption DEF StoreInvariant, TypeOK, NoneUnlessMade, SessionCounted
<1>4. listed' \in SUBSET Call
  BY <1>2, <1>3, PersistType
<1>5. /\ Failed \in SUBSET Failed' /\ Known(fault, Failed')
      /\ Readable(Failed', Limit) /\ Readable(Failed', Limit') /\ Grows(fault, Limit, Limit')
      /\ Limit \in Nat /\ Limit' \in Nat /\ Limit <= Limit'
  BY <1>1, <1>2, <1>3, FaultFacts DEF Known, Grows
<1>6. /\ State(c) \in WriterStates /\ State(c).files = files[c]
      /\ State(c).writer = writer[c] /\ State(c).used = used
      /\ files[c] \in FilesOfCall
  BY <1>3, StateOfCall
<1>7. ASSUME NEW z \in WriterStates, Becomes(c, z),
             Sound(z.files, z.writer, emitted'[c], Failed', Limit'),
             NoneUnlessMade(z.files),
             KeepsUp(z, c, Failed'),
             emitted' \in [Call -> Seq(Line)],
             \A d \in Call : Len(emitted'[d]) <= lineBound,
             emitted'[c] # << >>,
             \A d \in Call : d # c => emitted'[d] = emitted[d]
      PROVE  StoreInvariant'
  <2>1. TakesStep(c, z, fault)
    BY <1>1, <1>2, <1>3, <1>4, <1>7 DEF TakesStep, NoneUnlessMade
  <2>2. StepIsSound(c, z)
    BY <1>2, <1>7 DEF StepIsSound, KeepsUp
  <2>3. QED
    BY <2>1, <2>2, <1>7, StepKeeps
<1>8. CASE Becomes(c, Finalize(State(c), fault, unread)) /\ UNCHANGED emitted
  <2> DEFINE m == State(c)
             z == Finalize(m, fault, unread)
  <2>1. OpenSound(m.files, m.writer, emitted[c], Failed', Limit')
    BY <1>2, <1>3, <1>5, <1>6, SoundStays DEF CallSound, RunningSound
  <2>2. /\ m \in WriterStates /\ NoneUnlessMade(m.files) /\ KeepsUp(m, c, Failed')
    BY <1>3, <1>6 DEF KeepsUp
  <2>3. Becomes(c, z) /\ emitted' = emitted /\ emitted[c] # << >>
    BY <1>2, <1>3, <1>8 DEF CallSound, RunningSound, OpenSound
  <2> HIDE DEF m
  <2>4. /\ z \in WriterStates
        /\ Sound(z.files, z.writer, emitted[c], Failed', Limit')
        /\ NoneUnlessMade(z.files)
        /\ KeepsUp(z, c, Failed')
    BY <1>1, <1>3, <1>5, <1>6, <2>1, <2>2, PutTogether
  <2> HIDE DEF z
  <2>5. QED
    BY <1>3, <1>7, <2>3, <2>4
<1>9. ASSUME NEW line \in NextLines(c), Len(emitted[c]) < lineBound,
             NEW part \in Parts(line, fault),
             Becomes(c, Finalize(AppendLine(State(c), line, part, fault),
                                 fault, unread)),
             emitted' = [emitted EXCEPT ![c] = Append(@, line)]
      PROVE  StoreInvariant'
  <2> DEFINE m == AppendLine(State(c), line, part, fault)
             z == Finalize(m, fault, unread)
  <2>1. /\ m \in WriterStates
        /\ RunningSound(m.files, m.writer, Append(emitted[c], line), Failed', Limit')
        /\ m.files.made = files[c].made /\ m.files.final = files[c].final
        /\ KeepsUp(m, c, Failed')
    <3>1. PartOf(part, line)
      BY <1>3, NextLineGoesOn, PartsOfLine
    <3>2. QED
      BY <1>2, <1>5, <3>1, LineSound DEF KeepsUp
  <2>2. /\ emitted'[c] = Append(emitted[c], line) /\ emitted'[c] # << >>
        /\ emitted' \in [Call -> Seq(Line)]
        /\ \A d \in Call : Len(emitted'[d]) <= lineBound
        /\ \A d \in Call : d # c => emitted'[d] = emitted[d]
    <3>1. line \in Line
      BY <1>3, NextLineGoesOn
    <3>2. QED
      BY <1>3, <1>9, <3>1, HistoryGrows
  <2>3. Becomes(c, z)
    BY <1>9
  <2> HIDE DEF m
  <2>4. OpenSound(m.files, m.writer, emitted'[c], Failed', Limit')
    BY <2>1, <2>2 DEF RunningSound
  <2>5. NoneUnlessMade(m.files)
    BY <1>3, <2>1 DEF NoneUnlessMade
  <2>6. /\ z \in WriterStates
        /\ Sound(z.files, z.writer, emitted'[c], Failed', Limit')
        /\ NoneUnlessMade(z.files)
        /\ KeepsUp(z, c, Failed')
    BY <1>1, <1>3, <1>5, <1>6, <2>1, <2>4, <2>5, PutTogether
  <2> HIDE DEF z
  <2>7. QED
    BY <1>7, <2>2, <2>3, <2>6
<1>10. QED
  BY <1>1, <1>8, <1>9

\* close() keeps it when it tries once more.
LEMMA CloseTaskKeeps ==
  ASSUME StoreInvariant, NEW c \in Call, CloseTask(c)
  PROVE  StoreInvariant'
<1>1. PICK fault \in FinalizeFaults \cup {"none"}, unread \in SUBSET {"head", "tail"} :
        /\ unread # {} <=> fault = "read"
        /\ Fault(fault, generation) /\ Becomes(c, Finalize(State(c), fault, unread))
  BY DEF CloseTask
<1>2. /\ alive /\ alive' = alive /\ generation' = generation /\ running = {}
      /\ writer[c].open /\ c \in tasks /\ emitted' = emitted
      /\ tasks' = tasks /\ running' = running /\ previous' = previous /\ listed' = listed
  BY DEF CloseTask
<1>3. /\ TypeOK /\ CallSound(c) /\ generation > 0 /\ emitted[c] # << >>
      /\ tasks \in SUBSET Call /\ running \in SUBSET tasks
      /\ previous \in SUBSET Call /\ listed \in SUBSET Call /\ used \in Nat
      /\ emitted \in [Call -> Seq(Line)]
      /\ \A d \in Call : Len(emitted[d]) <= lineBound
      /\ NoneUnlessMade(files[c])
  BY <1>2 DEF StoreInvariant, TypeOK, NoneUnlessMade, CallSound, SessionCounted
<1>4. /\ Failed \in SUBSET Failed' /\ Known(fault, Failed')
      /\ Readable(Failed', Limit')
      /\ Limit \in Nat /\ Limit' \in Nat /\ Limit <= Limit'
  BY <1>1, <1>2, <1>3, FaultFacts DEF Known, Grows
<1> DEFINE m == State(c)
           z == Finalize(m, fault, unread)
<1>5. /\ m \in WriterStates /\ m.files = files[c] /\ m.writer = writer[c] /\ m.used = used
      /\ files[c] \in FilesOfCall
  BY <1>3, StateOfCall
<1>6. OpenSound(m.files, m.writer, emitted[c], Failed', Limit')
  BY <1>2, <1>3, <1>4, <1>5, SoundStays DEF CallSound, Sound
<1>7. Becomes(c, z) /\ NoneUnlessMade(m.files) /\ KeepsUp(m, c, Failed')
  BY <1>1, <1>3, <1>5 DEF KeepsUp
<1> HIDE DEF m
<1>8. /\ z \in WriterStates
      /\ Sound(z.files, z.writer, emitted[c], Failed', Limit')
      /\ NoneUnlessMade(z.files)
      /\ KeepsUp(z, c, Failed')
  BY <1>1, <1>3, <1>4, <1>5, <1>6, <1>7, PutTogether
<1> HIDE DEF z
<1>9. TakesStep(c, z, fault)
  BY <1>1, <1>2, <1>3, <1>7, <1>8 DEF TakesStep, NoneUnlessMade
<1>10. StepIsSound(c, z)
  BY <1>2, <1>8 DEF StepIsSound, KeepsUp
<1>11. QED
  BY <1>8, <1>9, <1>10, StepKeeps

\* At the start there is nothing.
LEMMA StoreStarts ==
  ASSUME Init
  PROVE  StoreInvariant
<1>1. /\ files = [c \in Call |-> NoFiles]
      /\ writer = [c \in Call |-> Closed] /\ used = 0
      /\ tasks = {} /\ running = {} /\ previous = {} /\ listed = {}
      /\ alive = FALSE /\ generation = 0
      /\ emitted = [c \in Call |-> << >>] /\ faults = << >>
  BY DEF Init
<1>2. NoFiles \in FilesOfCall /\ NoFiles.final = << >>
  BY EmptySeq DEF NoFiles, FilesOfCall
<1>3. Closed \in WriterOfCall /\ ~ Closed.open
  <2>1. 0 \in 0..HeadBytes
    BY SizesOfLines
  <2>2. QED
    BY <2>1 DEF Closed, WriterOfCall
<1>4. /\ 0 \in 0..generationBound /\ 0 <= lineBound /\ 0 <= faultBound
  BY TranscriptAssumption
<1>5. << >> \in Seq(Line) /\ << >> \in Seq(Failure) /\ Len(<< >>) = 0
  OBVIOUS
<1>6. TypeOK
  <2>1. files \in [Call -> FilesOfCall] /\ writer \in [Call -> WriterOfCall]
    BY <1>1, <1>2, <1>3
  <2>2. emitted \in [Call -> Seq(Line)]
    BY <1>1, <1>5
  <2>3. \A c \in Call : Len(emitted[c]) <= lineBound
    BY <1>1, <1>4, <1>5
  <2>4. \A c \in Call : ~ files[c].made => files[c].final = << >>
    BY <1>1, <1>2
  <2>5. QED
    BY <1>1, <1>4, <1>5, <2>1, <2>2, <2>3, <2>4 DEF TypeOK
<1>7. ASSUME NEW c \in Call PROVE CallSound(c)
  <2>1. /\ files[c].final = << >> /\ ~ writer[c].open /\ emitted[c] = << >>
        /\ InOrder(<< >>)
    BY <1>1, <1>2, <1>3, InOrderShort
  <2>2. QED
    BY <1>1, <2>1 DEF CallSound
<1>8. QED
  BY <1>1, <1>6, <1>7 DEF StoreInvariant, ManifestKept, BudgetExact, SessionCounted

\* A session that begins finds what is on disk, as far as it can be counted.
LEMMA BeginKeeps ==
  ASSUME StoreInvariant, Begin
  PROVE  StoreInvariant'
<1>1. /\ ~ alive /\ generation < generationBound
      /\ alive' = TRUE /\ generation' = generation + 1
      /\ tasks' = {} /\ running' = {} /\ previous' = listed
      /\ files' = files /\ listed' = listed /\ writer' = writer /\ emitted' = emitted
  BY DEF Begin, disk
<1>2. PICK fault \in {"count", "none"} :
        /\ Fault(fault, generation')
        /\ used' \in IF fault = "count" THEN 0..DiskBytes ELSE {DiskBytes}
  BY DEF Begin
<1>3. /\ TypeOK /\ \A c \in Call : CallSound(c)
      /\ listed \in SUBSET Call /\ generation \in 0..generationBound
  BY DEF StoreInvariant, TypeOK
<1>4. /\ DiskBytes \in Nat /\ DiskBytes' = DiskBytes
      /\ generationBound \in Nat /\ generation' \in 1..generationBound
  BY <1>1, <1>3, FileBytesType, TranscriptAssumption DEF DiskBytes
<1>5. /\ faults' \in Seq(Failure) /\ Len(faults') <= faultBound
      /\ FailedEver \in SUBSET FailedEver'
      /\ fault # "none" => fault \in FailedIn(faults', generation')
  BY <1>2, <1>3, <1>4, FaultIsKept
<1>6. used' \in Nat
  BY <1>2, <1>4
<1>7. TypeOK'
  <2>1. generation' \in 0..generationBound
    BY <1>4
  <2>2. QED
    BY <1>1, <1>3, <1>5, <1>6, <2>1 DEF TypeOK
<1>8. ASSUME NEW c \in Call PROVE CallSound(c)'
  <2>1. /\ emitted[c] = << >> /\ ~ writer[c].open
        /\ OrderCertain(FailedEver) => InOrder(files[c].final)
    BY <1>1, <1>3 DEF CallSound
  <2>2. OrderCertain(FailedEver') => InOrder(files'[c].final)
    BY <1>1, <1>5, <2>1, LessIsCertain
  <2>3. ~ writer'[c].open /\ c \notin running' /\ emitted'[c] = << >>
    BY <1>1, <2>1
  <2>4. QED
    BY <2>2, <2>3 DEF CallSound
<1>9. BudgetExact'
  <2>1. SUFFICES ASSUME FilesCertain(Failed') PROVE used' = DiskBytes'
    BY DEF BudgetExact
  <2>2. FailedIn(faults', generation') \in SUBSET Failed'
    BY DEF FailedIn, Failed, Elements
  <2>3. fault # "count"
    BY <1>5, <2>1, <2>2 DEF FilesCertain
  <2>4. QED
    BY <1>2, <1>4, <2>3
<1>10. ManifestKept' /\ SessionCounted'
  BY <1>1, <1>4 DEF ManifestKept, SessionCounted
<1>11. QED
  BY <1>7, <1>8, <1>9, <1>10 DEF StoreInvariant

\* What a session leaves that is over: files of calls whose lines are in order.
LEMMA OverKeeps ==
  ASSUME StoreInvariant, Over,
         files' \in [Call -> FilesOfCall],
         \A c \in Call :
           /\ ~ files'[c].made => files'[c].final = << >>
           /\ OrderCertain(FailedEver) => InOrder(files'[c].final),
         listed' \in SUBSET Call, generation' = generation, faults' = faults
  PROVE  StoreInvariant'
<1>1. /\ alive' = FALSE
      /\ writer' = [c \in Call |-> Closed]
      /\ emitted' = [c \in Call |-> << >>]
      /\ used' = 0 /\ tasks' = {} /\ running' = {} /\ previous' = {}
  BY DEF Over
<1>2. Closed \in WriterOfCall /\ ~ Closed.open
  <2>1. 0 \in 0..HeadBytes
    BY SizesOfLines
  <2>2. QED
    BY <2>1 DEF Closed, WriterOfCall
<1>3. FailedEver' = FailedEver
  BY FailedSame
<1>4. TypeOK'
  <2>1. /\ generation \in 0..generationBound
        /\ faults \in Seq(Failure) /\ Len(faults) <= faultBound
    BY DEF StoreInvariant, TypeOK
  <2>2. writer' \in [Call -> WriterOfCall]
    BY <1>1, <1>2
  <2>3. << >> \in Seq(Line) /\ Len(<< >>) = 0 /\ 0 <= lineBound
    BY TranscriptAssumption
  <2>4. emitted' \in [Call -> Seq(Line)]
    BY <1>1, <2>3
  <2>5. \A c \in Call : Len(emitted'[c]) <= lineBound
    BY <1>1, <2>3
  <2>6. QED
    BY <1>1, <2>1, <2>2, <2>4, <2>5 DEF TypeOK
<1>5. ASSUME NEW c \in Call PROVE CallSound(c)'
  <2>1. ~ writer'[c].open /\ emitted'[c] = << >> /\ c \notin running'
    BY <1>1, <1>2
  <2>2. OrderCertain(FailedEver') => InOrder(files'[c].final)
    BY <1>3
  <2>3. QED
    BY <2>1, <2>2 DEF CallSound
<1>6. QED
  BY <1>1, <1>4, <1>5 DEF StoreInvariant, ManifestKept, BudgetExact, SessionCounted

\* The lines of every call's transcript are in order, and those of one that is open, too.
LEMMA FinalsInOrder ==
  ASSUME StoreInvariant, NEW c \in Call, OrderCertain(FailedEver)
  PROVE  InOrder(files[c].final) /\ (writer[c].open => Ordered(files[c]))
<1>1. /\ InOrder(files[c].final)
      /\ writer[c].open => Sound(files[c], writer[c], emitted[c], Failed, Limit)
  BY DEF StoreInvariant, CallSound
<1>2. OrderCertain(Failed)
  <2>1. faults \in Seq(Failure)
    BY DEF StoreInvariant, TypeOK
  <2>2. \A x \in FailedIn(faults, generation) : x \in FailedEver
    BY <2>1, FailedIsEver DEF FailedEver
  <2>3. \A x \in Failed : x \in FailedIn(faults, generation) \/ x = "read"
    BY DEF Failed, FailedIn
  <2>4. QED
    BY <2>2, <2>3 DEF OrderCertain
<1>3. QED
  BY <1>1, <1>2 DEF Sound, OpenSound

\* A session that is closed leaves them so.
LEMMA CloseKeeps ==
  ASSUME StoreInvariant, Close
  PROVE  StoreInvariant'
<1>1. /\ Over /\ Persist(tasks, previous)
      /\ files' = files /\ generation' = generation /\ faults' = faults
  BY DEF Close
<1>2. /\ files \in [Call -> FilesOfCall]
      /\ \A c \in Call : ~ files[c].made => files[c].final = << >>
      /\ tasks \in SUBSET Call /\ previous \in SUBSET Call
  BY DEF StoreInvariant, TypeOK
<1>3. listed' \in SUBSET Call
  BY <1>1, <1>2, PersistType
<1>4. \A c \in Call : OrderCertain(FailedEver) => InOrder(files[c].final)
  BY FinalsInOrder
<1>5. QED
  BY <1>1, <1>2, <1>3, <1>4, OverKeeps

\* A session that is killed may leave another state of one call's files.
LEMMA KilledKeeps ==
  ASSUME StoreInvariant, Over, listed' = listed, generation' = generation, faults' = faults,
         NEW c \in Call, NEW f \in FilesOfCall, files' = [files EXCEPT ![c] = f],
         ~ f.made => f.final = << >>, OrderCertain(FailedEver) => InOrder(f.final)
  PROVE  StoreInvariant'
<1>1. /\ files \in [Call -> FilesOfCall]
      /\ \A d \in Call : ~ files[d].made => files[d].final = << >>
      /\ listed' \in SUBSET Call
  BY DEF StoreInvariant, TypeOK
<1>2. \A d \in Call : OrderCertain(FailedEver) => InOrder(files[d].final)
  BY FinalsInOrder
<1>3. /\ files' \in [Call -> FilesOfCall]
      /\ files'[c] = f /\ \A d \in Call : d # c => files'[d] = files[d]
  BY <1>1
<1>4. \A d \in Call :
        /\ ~ files'[d].made => files'[d].final = << >>
        /\ OrderCertain(FailedEver) => InOrder(files'[d].final)
  BY <1>1, <1>2, <1>3
<1>5. QED
  BY <1>1, <1>3, <1>4, OverKeeps

\* And so does one that is killed, in the middle of append() or finalize(), or elsewhere.
LEMMA CrashKeeps ==
  ASSUME StoreInvariant, Crash
  PROVE  StoreInvariant'
<1>1. /\ Over /\ listed' = listed /\ generation' = generation /\ faults' = faults
      /\ \/ files' = files
         \/ \E c \in running : \E line \in NextLines(c) : \E part \in Parts(line, "torn") :
              files' = [files EXCEPT ![c] = AppendLine(State(c), line, part, "torn").files]
         \/ \E c \in {d \in Call : writer[d].open}, at \in {"written", "removeTail"} :
              files' = [files EXCEPT ![c] = Finalize(State(c), at, {}).files]
  BY DEF Crash
<1>2. /\ TypeOK /\ running \in SUBSET Call /\ listed \in SUBSET Call
      /\ files \in [Call -> FilesOfCall]
      /\ \A c \in Call : ~ files[c].made => files[c].final = << >>
  BY DEF StoreInvariant, TypeOK
<1>3. CASE files' = files
  <2>1. \A c \in Call : OrderCertain(FailedEver) => InOrder(files[c].final)
    BY FinalsInOrder
  <2>2. QED
    BY <1>1, <1>2, <1>3, <2>1, OverKeeps
<1>4. ASSUME NEW c \in running, NEW line \in NextLines(c), NEW part \in Parts(line, "torn"),
             files' = [files EXCEPT ![c] = AppendLine(State(c), line, part, "torn").files]
      PROVE  StoreInvariant'
  <2> DEFINE s == State(c)
             z == AppendLine(s, line, part, "torn")
             f == z.files
  <2>1. c \in Call /\ files' = [files EXCEPT ![c] = f]
    BY <1>2, <1>4
  <2>2. s \in WriterStates /\ s.files = files[c]
    BY <1>2, <2>1, StateOfCall
  <2>3. line \in Line
    BY <1>2, <2>1, NextLineGoesOn
  <2>4. PartOf(part, line)
    BY <2>3, PartsOfLine
  <2> HIDE DEF s
  <2>5. z \in WriterStates /\ Appends(s, line, part, z, "torn")
    BY <2>2, <2>3, <2>4, AppendFacts
  <2> HIDE DEF z
  <2>6. f.final = files[c].final /\ f.made = files[c].made
    BY <2>2, <2>5, AppendKeeps
  <2>7. f \in FilesOfCall
    BY <2>5, FieldsOfState
  <2> HIDE DEF f
  <2>8. OrderCertain(FailedEver) => InOrder(f.final)
    BY <2>1, <2>6, FinalsInOrder
  <2>9. QED
    BY <1>1, <1>2, <2>1, <2>6, <2>7, <2>8, KilledKeeps
<1>5. ASSUME NEW c \in Call, writer[c].open, NEW at \in {"written", "removeTail"},
             files' = [files EXCEPT ![c] = Finalize(State(c), at, {}).files]
      PROVE  StoreInvariant'
  <2> DEFINE s == State(c)
             z == Finalize(s, at, {})
             f == z.files
  <2>1. files' = [files EXCEPT ![c] = f]
    BY <1>5
  <2>2. s \in WriterStates /\ s.files = files[c]
    BY <1>2, StateOfCall
  <2> HIDE DEF s
  <2>3. z \in WriterStates /\ Finalizes(s, z, at, {})
    BY <2>2, FinalizeFacts
  <2> HIDE DEF z
  <2>4. ~ f.made => f.final = << >>
    <3>1. ~ s.files.made => s.files.final = << >>
      BY <1>2, <2>2
    <3>2. QED
      BY <2>3, <3>1, FinalizeMade
  <2>5. OrderCertain(FailedEver) => InOrder(f.final)
    <3>1. SUFFICES ASSUME OrderCertain(FailedEver) PROVE InOrder(f.final)
      OBVIOUS
    <3>2. InOrder(s.files.final) /\ Ordered(s.files)
      BY <1>5, <2>2, <3>1, FinalsInOrder
    <3>3. QED
      BY <2>2, <2>3, <3>2, FinalizeOrder
  <2>6. f \in FilesOfCall
    BY <2>3, FieldsOfState
  <2> HIDE DEF f
  <2>7. QED
    BY <1>1, <2>1, <2>4, <2>5, <2>6, KilledKeeps
<1>6. QED
  BY <1>1, <1>3, <1>4, <1>5

\* A step that changes nothing keeps it.
LEMMA StoreStutters ==
  ASSUME StoreInvariant, UNCHANGED vars
  PROVE  StoreInvariant'
<1>1. /\ files' = files /\ listed' = listed /\ writer' = writer /\ used' = used
      /\ tasks' = tasks /\ running' = running /\ previous' = previous
      /\ alive' = alive /\ generation' = generation /\ emitted' = emitted /\ faults' = faults
  BY DEF vars, disk, memory
<1>2. /\ Failed' = Failed /\ DiskBytes' = DiskBytes /\ Limit' = Limit
      /\ FailedEver' = FailedEver
      /\ TypeOK' <=> TypeOK
  BY <1>1, FailedSame DEF DiskBytes, TypeOK
<1>3. ASSUME NEW c \in Call PROVE CallSound(c)'
  <2>1. TypeOK /\ CallSound(c)
    BY DEF StoreInvariant
  <2>2. Limit \in Nat /\ files[c] \in FilesOfCall
    BY <2>1, LimitType, StateOfCall
  <2>3. QED
    BY <1>1, <1>2, <2>1, <2>2, OthersStay
<1>4. QED
  BY <1>1, <1>2, <1>3 DEF StoreInvariant, ManifestKept, BudgetExact, SessionCounted

----------------------------------------------------------------------------
(***************************************************************************)
(* Theorems.                                                               *)
(***************************************************************************)
\* The invariant holds: it says of each transcript, and of the budget, what the failures that
\* there were leave certain.
THEOREM StoreHolds ==
  Spec => []StoreInvariant
<1>1. Init => StoreInvariant
  BY StoreStarts
<1>2. StoreInvariant /\ [Next]_vars => StoreInvariant'
  <2>1. SUFFICES ASSUME StoreInvariant, [Next]_vars PROVE StoreInvariant'
    OBVIOUS
  <2>2. CASE Begin
    BY <2>1, <2>2, BeginKeeps
  <2>3. CASE Close
    BY <2>1, <2>3, CloseKeeps
  <2>4. CASE Crash
    BY <2>1, <2>4, CrashKeeps
  <2>5. ASSUME NEW c \in Call,
               \/ StartTask(c) \/ Replay(c) \/ Record(c)
               \/ FinishTask(c) \/ CloseTask(c)
        PROVE  StoreInvariant'
    BY <2>1, <2>5, StartTaskKeeps, ReplayKeeps, RecordKeeps, FinishTaskKeeps, CloseTaskKeeps
  <2>6. CASE UNCHANGED vars
    BY <2>1, <2>6, StoreStutters
  <2>7. QED
    BY <2>1, <2>2, <2>3, <2>4, <2>5, <2>6 DEF Next, Done
<1>3. QED
  BY <1>1, <1>2, PTL DEF Spec

\* The budget is what is on disk, unless a failure that the code is not told of to the byte
\* came in this session: BudgetIsDisk.
THEOREM BudgetCorrect ==
  Spec => []BudgetIsDisk
<1>1. StoreInvariant => BudgetIsDisk
  BY DEF StoreInvariant, BudgetExact, FilesCertain, BudgetIsDisk
<1>2. QED
  BY <1>1, StoreHolds, PTL

\* A transcript that was put together accounts for all that its agent did, and the later
\* of two lines of an event is the newer; the one but for failures that left bytes unknown,
\* the other but for a removal that did: TranscriptsSound.
THEOREM TranscriptsCorrect ==
  Spec => []TranscriptsSound
<1>1. StoreInvariant => TranscriptsSound
  <2>1. SUFFICES ASSUME StoreInvariant PROVE TranscriptsSound
    OBVIOUS
  <2>2. /\ TypeOK
        /\ \A c \in Call :
             emitted[c] # << >> => Sound(files[c], writer[c], emitted[c], Failed, Limit)
    BY <2>1 DEF StoreInvariant, CallSound
  <2>3. NewestWins
    BY <2>1, FinalsInOrder DEF NewestWins, OrderCertain
  <2>4. NothingUnaccounted
    <3>1. SUFFICES ASSUME Failed \cap {"reset", "read", "torn", "compacted", "removeTail"} = {},
                          NEW c \in tasks \ running, emitted[c] # << >>, ~ writer[c].open
                   PROVE  Bytes(files[c].final) + writer[c].omitted
                            = Bytes(emitted[c]) + MarkedBytes(files[c].final)
      BY DEF NothingUnaccounted
    <3>2. c \in Call
      BY <2>2 DEF TypeOK
    <3>3. QED
      BY <2>2, <3>1, <3>2 DEF Sound, BytesCertain, ToldClosed
  <2>5. QED
    BY <2>2, <2>3, <2>4 DEF TranscriptsSound
<1>2. QED
  BY <1>1, StoreHolds, PTL

\* A transcript that has ended is kept until its call runs again, and so is the manifest of a
\* session without a task: EndedIsKept.
THEOREM EndedStays ==
  Spec => EndedIsKept
<1> DEFINE Ended ==
             /\ \A c \in Call :
                  files[c].made /\ c \notin running /\ ~ writer[c].open =>
                    files'[c] = files[c] \/ c \in running'
             /\ listed \subseteq listed' \/ tasks' # {} \/ tasks # {}
<1>1. StoreInvariant /\ [Next]_vars => [Ended]_vars
  <2>1. SUFFICES ASSUME StoreInvariant, Next PROVE Ended \/ UNCHANGED vars
    OBVIOUS
  <2>2. /\ files \in [Call -> FilesOfCall] /\ running \in SUBSET tasks
    BY <2>1 DEF StoreInvariant, TypeOK
  <2>3. CASE Begin
    BY <2>3 DEF Begin, disk
  <2>4. CASE Close
    <3>1. alive /\ files' = files /\ Persist(tasks, previous)
      BY <2>4 DEF Close
    <3>2. tasks = {} => listed' = listed
      BY <2>1, <3>1 DEF StoreInvariant, ManifestKept, Persist
    <3>3. QED
      BY <3>1, <3>2
  <2>5. CASE Crash
    <3>1. listed' = listed
      BY <2>5 DEF Crash
    <3>2. \A c \in Call : c \notin running /\ ~ writer[c].open => files'[c] = files[c]
      BY <2>2, <2>5 DEF Crash
    <3>3. QED
      BY <3>1, <3>2
  <2>6. ASSUME NEW c \in Call, StartTask(c) PROVE Ended
    <3>1. tasks' = tasks \cup {c} /\ c \in running'
      BY <2>6 DEF StartTask
    <3>2. \A d \in Call : d # c => files'[d] = files[d]
      BY <2>2, <2>6 DEF StartTask, Becomes
    <3>3. QED
      BY <3>1, <3>2
  <2>7. ASSUME NEW c \in Call, Replay(c) PROVE Ended
    BY <2>7 DEF Replay
  <2>8. ASSUME NEW c \in Call, Record(c) \/ FinishTask(c) PROVE Ended
    <3>1. c \in running /\ tasks # {}
      BY <2>2, <2>8 DEF Record, FinishTask
    <3>2. \A d \in Call : d # c => files'[d] = files[d]
      BY <2>2, <2>8 DEF Record, FinishTask, Becomes
    <3>3. QED
      BY <3>1, <3>2
  <2>9. ASSUME NEW c \in Call, CloseTask(c) PROVE Ended
    <3>1. writer[c].open /\ c \in tasks
      BY <2>9 DEF CloseTask
    <3>2. \A d \in Call : d # c => files'[d] = files[d]
      BY <2>2, <2>9 DEF CloseTask, Becomes
    <3>3. QED
      BY <3>1, <3>2
  <2>10. QED
    BY <2>1, <2>3, <2>4, <2>5, <2>6, <2>7, <2>8, <2>9 DEF Next, Done
<1>2. QED
  BY <1>1, StoreHolds, PTL DEF Spec, EndedIsKept
=============================================================================
