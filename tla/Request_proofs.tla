--------------------------- MODULE Request_proofs ---------------------------
(***************************************************************************)
(* Lemmas about texts, tables and requests, for all pieces a text may have *)
(* and tables of any size: what printing and parsing make of a row, what   *)
(* an operation leaves of a table, and what a request may answer.          *)
(***************************************************************************)
EXTENDS Request, SequenceTheorems, FiniteSetTheorems, TLAPS

-----------------------------------------------------------------------------
(* Induction *)

\* A set of natural numbers has a least one.
LEMMA LeastNatural ==
    ASSUME NEW T, T \subseteq Nat, T # {}
    PROVE  \E n \in T : \A m \in T : m >= n
<1> DEFINE U == {1..n : n \in T}
<1>1. U \subseteq FiniteSubsetsOf(Nat) /\ U # {}
  <2> SUFFICES ASSUME NEW n \in T PROVE 1..n \in FiniteSubsetsOf(Nat)
    OBVIOUS
  <2> QED BY FS_Interval DEF FiniteSubsetsOf
<1>2. IsWellFoundedOn(StrictSubsetOrdering(Nat), FiniteSubsetsOf(Nat))
  BY FS_StrictSubsetOrderingWellFounded
<1> HIDE DEF U
<1>3. PICK X \in U : \A Y \in U : ~(<<Y, X>> \in StrictSubsetOrdering(Nat))
  BY <1>1, <1>2, WFMin
<1>4. PICK n \in T : X = 1..n
  BY <1>3 DEF U
<1>5. ASSUME NEW m \in T, m < n PROVE FALSE
  <2>1. 1..m \in U
    BY DEF U
  <2>2. 1..m \subseteq 1..n /\ n \in 1..n /\ n \notin 1..m /\ 1..n \subseteq Nat /\ 1..m \subseteq Nat
    BY <1>5
  <2>3. <<1..m, 1..n>> \in StrictSubsetOrdering(Nat)
    BY <2>2, Zenon DEF StrictSubsetOrdering
  <2> QED BY <1>3, <1>4, <2>1, <2>3
<1> QED BY <1>5

\* Induction over the positions of a sequence, with a set for the property.
LEMMA PositionInduction ==
    ASSUME NEW n \in Nat, NEW T, 1 \in T, \A k \in 1..n : k \in T /\ k < n => k + 1 \in T
    PROVE  1..n \subseteq T
<1> DEFINE U == {k \in 1..n : k \notin T}
<1> SUFFICES ASSUME U # {} PROVE FALSE
  OBVIOUS
<1>1. PICK k \in U : \A m \in U : m >= k
  <2> U \subseteq Nat
    OBVIOUS
  <2> HIDE DEF U
  <2> QED BY LeastNatural
<1>2. k # 1 /\ k \in 1..n /\ k \notin T
  OBVIOUS
<1>3. k - 1 \in 1..n /\ k - 1 < n /\ (k - 1) + 1 = k /\ ~(k - 1 >= k)
  BY <1>2
<1>4. k - 1 \in T
  BY <1>1, <1>3
<1> QED BY <1>2, <1>3, <1>4

-----------------------------------------------------------------------------
(* Printing *)

\* The recursion by which FlattenSeq is defined has a solution, and
\* FlattenSeq is the last value of one.
LEMMA FlattenDefined ==
    ASSUME NEW S, NEW rows \in Seq(Seq(S)), rows # <<>>
    PROVE  \E f : /\ f = [i \in 1..Len(rows) |-> IF i = 1 THEN rows[i] ELSE f[i - 1] \o rows[i]]
                  /\ FlattenSeq(rows) = f[Len(rows)]
<1> DEFINE Is(f, k) == f = [i \in 1..k |-> IF i = 1 THEN rows[i] ELSE f[i - 1] \o rows[i]]
           Has(k) == \E f : Is(f, k)
           T == {k \in 1..Len(rows) : Has(k)}
<1>1. Len(rows) \in Nat /\ Len(rows) >= 1
  OBVIOUS
<1>2. Has(1)
  <2>1. Is([i \in 1..1 |-> rows[i]], 1)
    OBVIOUS
  <2> QED BY <2>1
<1>3. ASSUME NEW k \in 1..Len(rows), Has(k), k < Len(rows)
      PROVE  Has(k + 1)
  <2>1. PICK g : Is(g, k)
    BY <1>3
  <2>2. \A i \in 1..k : g[i] = IF i = 1 THEN rows[i] ELSE g[i - 1] \o rows[i]
    BY <2>1
  <2> DEFINE last == g[k] \o rows[k + 1]
             f == [i \in 1..(k + 1) |-> IF i = k + 1 THEN last ELSE g[i]]
  <2> HIDE DEF last
  <2>3. k \in Nat /\ f = [i \in 1..(k + 1) |-> f[i]]
    OBVIOUS
  <2>4. f[k + 1] = g[k] \o rows[k + 1] /\ \A i \in 1..k : f[i] = g[i]
    <3>1. k + 1 \in 1..(k + 1) /\ \A i \in 1..k : i \in 1..(k + 1) /\ i # k + 1
      OBVIOUS
    <3>2. f[k + 1] = last /\ \A i \in 1..k : f[i] = g[i]
      BY <3>1
    <3> QED BY <3>2 DEF last
  <2> HIDE DEF f
  <2>5. ASSUME NEW i \in 1..(k + 1)
        PROVE  f[i] = IF i = 1 THEN rows[i] ELSE f[i - 1] \o rows[i]
    <3>1. CASE i = 1
      <4>1. 1 \in 1..k /\ k \in Nat
        OBVIOUS
      <4> QED BY <2>2, <2>4, <3>1, <4>1
    <3>2. CASE i # 1 /\ i <= k
      <4>1. i \in 1..k /\ i - 1 \in 1..k
        BY <3>2
      <4> QED BY <2>2, <2>4, <3>2, <4>1
    <3>3. CASE i = k + 1
      <4>1. i - 1 = k /\ k \in 1..k /\ i # 1
        BY <3>3
      <4> QED BY <2>3, <2>4, <3>3, <4>1
    <3> QED BY <3>1, <3>2, <3>3
  <2>6. Is(f, k + 1)
    BY <2>3, <2>5
  <2> QED BY <2>6
<1> HIDE DEF Has
<1>4. 1..Len(rows) \subseteq T
  <2>1. 1 \in T
    BY <1>1, <1>2
  <2>2. \A k \in 1..Len(rows) : k \in T /\ k < Len(rows) => k + 1 \in T
    BY <1>1, <1>3
  <2> HIDE DEF T
  <2> QED BY <1>1, <2>1, <2>2, PositionInduction
<1>5. Has(Len(rows))
  BY <1>1, <1>4
<1> USE DEF Has
<1> DEFINE F == CHOOSE f : Is(f, Len(rows))
<1>6. Is(F, Len(rows))
  BY <1>5
<1>7. FlattenSeq(rows) = F[Len(rows)]
  BY <1>1 DEF FlattenSeq
<1> QED BY <1>6, <1>7

\* Printing one value more appends it.
LEMMA FlattenPrefix ==
    ASSUME NEW S, NEW rows \in Seq(Seq(S)), NEW k \in 1..Len(rows)
    PROVE  FlattenSeq(SubSeq(rows, 1, k)) = FlattenSeq(SubSeq(rows, 1, k - 1)) \o rows[k]
<1> DEFINE s == SubSeq(rows, 1, k)
           t == SubSeq(rows, 1, k - 1)
<1>1. k \in Nat /\ k >= 1 /\ k <= Len(rows) /\ k - 1 \in Nat
  OBVIOUS
<1>2. s \in Seq(Seq(S)) /\ Len(s) = k /\ \A i \in 1..k : s[i] = rows[i]
  BY <1>1, SubSeqProperties
<1>3. t \in Seq(Seq(S)) /\ Len(t) = k - 1 /\ \A i \in 1..(k - 1) : t[i] = rows[i]
  BY <1>1, SubSeqProperties
<1> HIDE DEF s, t
<1>4. PICK f : /\ f = [i \in 1..Len(s) |-> IF i = 1 THEN s[i] ELSE f[i - 1] \o s[i]]
               /\ FlattenSeq(s) = f[Len(s)]
  <2>1. s # <<>>
    BY <1>1, <1>2
  <2> QED BY <1>2, <2>1, FlattenDefined
<1>5. \A i \in 1..k : f[i] = IF i = 1 THEN rows[i] ELSE f[i - 1] \o rows[i]
  BY <1>2, <1>4
<1>6. CASE k = 1
  <2>1. t = <<>>
    BY <1>3, <1>6
  <2>2. FlattenSeq(t) = <<>>
    BY <2>1 DEF FlattenSeq
  <2>3. FlattenSeq(s) = rows[1] /\ rows[1] \in Seq(S)
    BY <1>1, <1>2, <1>4, <1>5, <1>6
  <2>4. \A x \in Seq(S) : <<>> \o x = x
    OBVIOUS
  <2> QED BY <1>6, <2>2, <2>3, <2>4 DEF s, t
<1>7. CASE k # 1
  <2>1. PICK g : /\ g = [i \in 1..Len(t) |-> IF i = 1 THEN t[i] ELSE g[i - 1] \o t[i]]
                 /\ FlattenSeq(t) = g[Len(t)]
    <3>1. t # <<>>
      BY <1>1, <1>3, <1>7
    <3> QED BY <1>3, <3>1, FlattenDefined
  <2>2. \A i \in 1..(k - 1) : g[i] = IF i = 1 THEN rows[i] ELSE g[i - 1] \o rows[i]
    BY <1>3, <2>1
  <2> DEFINE n == k - 1
             T == {i \in 1..n : f[i] = g[i]}
  <2>3. n \in Nat /\ n >= 1 /\ n < k /\ n \in 1..n
    BY <1>1, <1>7
  <2>4. /\ \A i \in 1..n : f[i] = IF i = 1 THEN rows[i] ELSE f[i - 1] \o rows[i]
        /\ \A i \in 1..n : g[i] = IF i = 1 THEN rows[i] ELSE g[i - 1] \o rows[i]
    BY <1>1, <1>5, <2>2
  <2> HIDE DEF n
  <2>5. 1 \in T
    <3>1. 1 \in 1..n
      BY <2>3
    <3> QED BY <2>4, <3>1
  <2>6. \A i \in 1..n : i \in T /\ i < n => i + 1 \in T
    <3> SUFFICES ASSUME NEW i \in 1..n, i \in T, i < n PROVE i + 1 \in T
      OBVIOUS
    <3>1. i + 1 \in 1..n /\ i + 1 # 1 /\ (i + 1) - 1 = i
      BY <2>3
    <3> QED BY <2>4, <3>1
  <2> HIDE DEF T
  <2>7. n \in T
    BY <2>3, <2>5, <2>6, PositionInduction
  <2>8. f[n] = g[n]
    BY <2>7 DEF T
  <2>9. f[k] = f[k - 1] \o rows[k]
    <3>1. k \in 1..k
      BY <1>1
    <3> QED BY <1>5, <1>7, <3>1
  <2> QED BY <1>2, <1>3, <1>4, <2>1, <2>8, <2>9 DEF n, s, t
<1> QED BY <1>6, <1>7

\* What printing makes of values that are texts is a text, with a piece for
\* every piece of a value.
LEMMA FlattenType ==
    ASSUME NEW row \in Row
    PROVE  FlattenSeq(row) \in Text /\ Len(FlattenSeq(row)) >= Len(row)
<1>1. row \in Seq(Seq(Piece)) /\ row # <<>> /\ Len(row) \in Nat /\ Len(row) >= 1
  BY DEF Row, Text
<1>2. PICK f : /\ f = [i \in 1..Len(row) |-> IF i = 1 THEN row[i] ELSE f[i - 1] \o row[i]]
               /\ FlattenSeq(row) = f[Len(row)]
  BY <1>1, FlattenDefined
<1> DEFINE T == {k \in 1..Len(row) : f[k] \in Seq(Piece) /\ Len(f[k]) >= k}
<1>3. \A k \in 1..Len(row) : row[k] \in Seq(Piece) /\ Len(row[k]) >= 1 /\ Len(row[k]) \in Nat
  BY DEF Row, Text
<1>4. 1 \in T
  BY <1>1, <1>2, <1>3
<1>5. ASSUME NEW k \in 1..Len(row), k \in T, k < Len(row)
      PROVE  k + 1 \in T
  <2>1. k + 1 \in 1..Len(row) /\ k + 1 # 1 /\ (k + 1) - 1 = k
    BY <1>1, <1>5
  <2>2. f[k + 1] = f[k] \o row[k + 1]
    BY <1>2, <2>1
  <2>3. f[k] \in Seq(Piece) /\ Len(f[k]) >= k /\ Len(f[k]) \in Nat
    BY <1>5
  <2>4. f[k + 1] \in Seq(Piece) /\ Len(f[k + 1]) = Len(f[k]) + Len(row[k + 1])
    BY <1>3, <2>1, <2>2, <2>3
  <2>5. Len(row[k + 1]) >= 1 /\ Len(row[k + 1]) \in Nat
    BY <1>3, <2>1
  <2>6. Len(f[k + 1]) >= k + 1
    <3> DEFINE a == Len(f[k])
               b == Len(row[k + 1])
    <3>1. a \in Nat /\ b \in Nat /\ a >= k /\ b >= 1 /\ k \in Nat /\ Len(f[k + 1]) = a + b
      BY <1>1, <2>3, <2>4, <2>5
    <3> HIDE DEF a, b
    <3> QED BY <3>1
  <2> QED BY <2>1, <2>4, <2>6
<1>6. Len(row) \in T
  <2> HIDE DEF T
  <2>1. 1..Len(row) \subseteq T
    BY <1>1, <1>4, <1>5, PositionInduction
  <2> QED BY <1>1, <2>1
<1>7. FlattenSeq(row) \in Seq(Piece) /\ Len(FlattenSeq(row)) >= Len(row)
  BY <1>2, <1>6
<1> QED BY <1>1, <1>7 DEF Text

\* The colon-free values of a row are printed one piece each.
LEMMA FlattenColonFree ==
    ASSUME NEW row \in Row, ColonFree(row)
    PROVE  Len(FlattenSeq(row)) = Len(row) /\ \A i \in DOMAIN row : <<FlattenSeq(row)[i]>> = row[i]
<1>1. row \in Seq(Seq(Piece)) /\ row # <<>> /\ Len(row) \in Nat /\ Len(row) >= 1
  BY DEF Row, Text
<1>2. PICK f : /\ f = [i \in 1..Len(row) |-> IF i = 1 THEN row[i] ELSE f[i - 1] \o row[i]]
               /\ FlattenSeq(row) = f[Len(row)]
  BY <1>1, FlattenDefined
<1> DEFINE Good(g, k) == /\ g \in Seq(Piece) /\ Len(g) = k
                         /\ \A i \in 1..k : g[i] = row[i][1]
           T == {k \in 1..Len(row) : Good(f[k], k)}
<1>3. \A k \in 1..Len(row) : row[k] \in Seq(Piece) /\ Len(row[k]) = 1
  BY <1>1 DEF ColonFree
<1>4. 1 \in T
  <2>1. f[1] = row[1] /\ 1 \in 1..Len(row)
    BY <1>1, <1>2
  <2> QED BY <1>3, <2>1
<1>5. ASSUME NEW k \in 1..Len(row), k \in T, k < Len(row)
      PROVE  k + 1 \in T
  <2>1. k + 1 \in 1..Len(row) /\ k + 1 # 1 /\ (k + 1) - 1 = k /\ k \in Nat
    BY <1>1, <1>5
  <2>2. f[k + 1] = f[k] \o row[k + 1]
    BY <1>2, <2>1
  <2>3. f[k] \in Seq(Piece) /\ Len(f[k]) = k /\ \A i \in 1..k : f[k][i] = row[i][1]
    BY <1>5
  <2>4. row[k + 1] \in Seq(Piece) /\ Len(row[k + 1]) = 1
    BY <1>3, <2>1
  <2> DEFINE g == f[k]
             x == row[k + 1]
  <2>5. g \o x \in Seq(Piece) /\ Len(g \o x) = k + 1
        /\ \A i \in 1..(k + 1) : (g \o x)[i] = row[i][1]
    <3> g \in Seq(Piece) /\ Len(g) = k /\ (\A i \in 1..k : g[i] = row[i][1])
        /\ x \in Seq(Piece) /\ Len(x) = 1 /\ x = row[k + 1]
      BY <2>3, <2>4
    <3> HIDE DEF g, x
    <3>1. \A i \in 1..(Len(g) + Len(x)) : (g \o x)[i] = IF i <= Len(g) THEN g[i] ELSE x[i - Len(g)]
      BY ConcatProperties
    <3>2. g \o x \in Seq(Piece) /\ Len(g \o x) = k + 1
      <4>1. g \o x \in Seq(Piece) /\ Len(g \o x) = Len(g) + Len(x)
        BY ConcatProperties
      <4> QED BY <4>1, Zenon
    <3>3. \A i \in 1..k : (g \o x)[i] = g[i]
      <4>1. \A i \in 1..k : i \in 1..(Len(g) + Len(x)) /\ i <= Len(g)
        BY <2>1
      <4> QED BY <3>1, <4>1, Zenon
    <3>4. (g \o x)[k + 1] = x[1]
      <4>1. k + 1 \in 1..(Len(g) + Len(x)) /\ ~(k + 1 <= Len(g)) /\ (k + 1) - Len(g) = 1
        BY <2>1
      <4> QED BY <3>1, <4>1
    <3> QED BY <2>1, <3>2, <3>3, <3>4
  <2> QED BY <2>1, <2>2, <2>5
<1>6. Len(row) \in T
  <2> HIDE DEF T
  <2>1. 1..Len(row) \subseteq T
    BY <1>1, <1>4, <1>5, PositionInduction
  <2> QED BY <1>1, <2>1
<1>7. \A i \in 1..Len(row) : <<row[i][1]>> = row[i]
  BY <1>3
<1>8. Good(FlattenSeq(row), Len(row)) /\ DOMAIN row = 1..Len(row)
  <2>1. Good(f[Len(row)], Len(row))
    BY <1>6
  <2> HIDE DEF Good
  <2> QED BY <1>1, <1>2, <2>1
<1> QED BY <1>7, <1>8

\* A printed row is a text.
LEMMA AsStringType ==
    ASSUME NEW row \in Row
    PROVE  AsString(row) \in Text /\ Len(AsString(row)) = Len(FlattenSeq(row)) + 1
           /\ Last(AsString(row)) = Empty
<1> DEFINE flat == FlattenSeq(row)
<1>1. flat \in Seq(Piece) /\ Len(flat) \in Nat
  BY FlattenType DEF Text
<1> HIDE DEF flat
<1>2. Append(flat, Empty) \in Seq(Piece) /\ Len(Append(flat, Empty)) = Len(flat) + 1
      /\ Append(flat, Empty)[Len(flat) + 1] = Empty
  BY <1>1, EmptyAssumption
<1>3. AsString(row) = Append(flat, Empty)
  BY DEF AsString, flat
<1>4. AsString(row) \in Text /\ Len(AsString(row)) = Len(flat) + 1 /\ Last(AsString(row)) = Empty
  BY <1>1, <1>2, <1>3 DEF Text, Last
<1> QED BY <1>4 DEF flat

-----------------------------------------------------------------------------
(* Parsing *)

\* A parse finds at least one value and never more values than pieces.
LEMMA SplitType ==
    ASSUME NEW t \in Text
    PROVE  Split(t) \in Row /\ Len(Split(t)) <= Len(t)
<1> DEFINE pieces == IF Len(t) > 1 /\ Last(t) = Empty THEN Front(t) ELSE t
<1>1. t \in Seq(Piece) /\ t # <<>> /\ Len(t) \in Nat /\ Len(t) >= 1
  BY DEF Text
<1>2. pieces \in Seq(Piece) /\ Len(pieces) \in Nat /\ Len(pieces) >= 1
      /\ Len(pieces) <= Len(t)
  <2>1. CASE Len(t) > 1 /\ Last(t) = Empty
    BY <1>1, <2>1 DEF Front
  <2>2. CASE ~(Len(t) > 1 /\ Last(t) = Empty)
    BY <1>1, <2>2
  <2> QED BY <2>1, <2>2
<1>3. \A i \in 1..Len(pieces) : <<pieces[i]>> \in Text
  BY <1>2 DEF Text
<1>4. Split(t) = [i \in 1..Len(pieces) |-> <<pieces[i]>>]
  BY DEF Split
<1> HIDE DEF pieces
<1>5. Split(t) \in Seq(Text) /\ Len(Split(t)) = Len(pieces)
  BY <1>2, <1>3, <1>4
<1> QED BY <1>2, <1>5 DEF Row

\* An empty last piece is no value.
LEMMA SplitLen ==
    ASSUME NEW t \in Text, Len(t) > 1, Last(t) = Empty
    PROVE  Len(Split(t)) = Len(t) - 1
<1>1. t \in Seq(Piece) /\ Len(t) \in Nat
  BY DEF Text
<1>2. Len(Front(t)) = Len(t) - 1
  BY <1>1 DEF Front
<1>3. Split(t) = [i \in 1..(Len(t) - 1) |-> <<Front(t)[i]>>]
  BY <1>2 DEF Split
<1> QED BY <1>1, <1>3

\* The name of a row that is parsed is the text before the first colon.
LEMMA SplitName ==
    ASSUME NEW t \in Text
    PROVE  Split(t)[1] = <<t[1]>>
<1> DEFINE pieces == IF Len(t) > 1 /\ Last(t) = Empty THEN Front(t) ELSE t
<1>1. t \in Seq(Piece) /\ Len(t) \in Nat /\ Len(t) >= 1
  BY DEF Text
<1>2. pieces[1] = t[1] /\ Len(pieces) \in Nat /\ Len(pieces) >= 1
  <2>1. CASE Len(t) > 1 /\ Last(t) = Empty
    BY <1>1, <2>1 DEF Front
  <2>2. CASE ~(Len(t) > 1 /\ Last(t) = Empty)
    BY <1>1, <2>2
  <2> QED BY <2>1, <2>2
<1>3. Split(t) = [i \in 1..Len(pieces) |-> <<pieces[i]>>]
  BY DEF Split
<1> HIDE DEF pieces
<1> QED BY <1>2, <1>3

\* What a row without colons is printed to is parsed to that row.
LEMMA PrintedParses ==
    ASSUME NEW row \in Row, ColonFree(row)
    PROVE  Split(AsString(row)) = row
<1> DEFINE text == AsString(row)
<1>1. row \in Seq(Text) /\ Len(row) \in Nat /\ Len(row) >= 1
  BY DEF Row
<1>2. text \in Seq(Piece) /\ Len(text) = Len(row) + 1 /\ Last(text) = Empty
  BY AsStringType, FlattenColonFree DEF Text
<1>3. \A i \in 1..Len(row) : <<text[i]>> = row[i]
  <2> DEFINE flat == FlattenSeq(row)
  <2>1. flat \in Seq(Piece) /\ Len(flat) = Len(row) /\ \A i \in 1..Len(row) : <<flat[i]>> = row[i]
    BY <1>1, FlattenType, FlattenColonFree DEF Text
  <2>2. text = Append(flat, Empty)
    BY DEF AsString
  <2> HIDE DEF flat, text
  <2>3. \A i \in 1..Len(row) : text[i] = flat[i]
    BY <1>1, <2>1, <2>2, EmptyAssumption
  <2> QED BY <2>1, <2>3
<1> HIDE DEF text
<1>4. Front(text) = [i \in 1..Len(row) |-> text[i]] /\ Len(Front(text)) = Len(row)
  BY <1>1, <1>2 DEF Front
<1>5. Split(text) = [i \in 1..Len(row) |-> <<Front(text)[i]>>]
  <2>1. Len(text) > 1
    BY <1>1, <1>2
  <2>2. Split(text) = [i \in 1..Len(Front(text)) |-> <<Front(text)[i]>>]
    BY <1>2, <2>1 DEF Split
  <2> QED BY <1>4, <2>2
<1>6. \A i \in 1..Len(row) : <<Front(text)[i]>> = row[i]
  BY <1>3, <1>4
<1>7. row = [i \in 1..Len(row) |-> row[i]]
  BY <1>1
<1>8. Split(text) = row
  BY <1>5, <1>6, <1>7
<1> QED BY <1>8 DEF text

\* A row that is printed and parsed has no value less, whatever it holds.
LEMMA PrintedWide ==
    ASSUME NEW row \in Row
    PROVE  Split(AsString(row)) \in Row /\ Len(Split(AsString(row))) >= Len(row)
<1>1. Len(row) \in Nat /\ Len(row) >= 1
  BY DEF Row
<1>2. FlattenSeq(row) \in Text /\ Len(FlattenSeq(row)) >= Len(row) /\ Len(FlattenSeq(row)) \in Nat
  BY FlattenType DEF Text
<1>3. AsString(row) \in Text /\ Len(AsString(row)) = Len(FlattenSeq(row)) + 1
      /\ Last(AsString(row)) = Empty
  BY AsStringType
<1>4. Len(Split(AsString(row))) = Len(FlattenSeq(row))
  BY <1>1, <1>2, <1>3, SplitLen
<1> QED BY <1>2, <1>3, <1>4, SplitType

-----------------------------------------------------------------------------
(* Tables *)

\* A row that is found is a row of the table.
LEMMA FoundIndex ==
    ASSUME NEW es \in Seq(Row), NEW name, NEW i \in FirstIndex(Names(es), name)
    PROVE  i \in DOMAIN es /\ es[i] \in Row /\ es[i][1] = name
BY DEF FirstIndex, Names

\* So is a field one of the fields.
LEMMA FoundField ==
    ASSUME NEW fs \in Seq(Text), NEW field, NEW k \in FirstIndex(fs, field)
    PROVE  k \in DOMAIN fs /\ k \in Nat \ {0} /\ fs[k] = field
BY DEF FirstIndex

\* The operations on the table keep it a sequence of rows.
LEMMA ChangeType ==
    ASSUME NEW es \in Seq(Row), NEW i \in DOMAIN es, NEW csv \in Text,
           NEW k \in Nat \ {0}, HasColumn(es[i], k)
    PROVE  /\ Replaced(es, i, csv) \in Seq(Row)
           /\ Appended(es, csv) \in Seq(Row)
           /\ ValueSet(es, i, k, csv) \in Seq(Row)
           /\ Erased(es, i) \in Seq(Row)
<1>1. Split(csv) \in Row
  BY SplitType
<1>2. es[i] \in Row /\ i \in 1..Len(es)
  OBVIOUS
<1>3. [es[i] EXCEPT ![k] = csv] \in Row
  BY <1>2 DEF HasColumn, Row
<1>4. Replaced(es, i, csv) \in Seq(Row)
  BY <1>1, <1>2 DEF Replaced
<1>5. Appended(es, csv) \in Seq(Row)
  BY <1>1 DEF Appended
<1>6. ValueSet(es, i, k, csv) \in Seq(Row)
  BY <1>2, <1>3 DEF ValueSet
<1>7. Erased(es, i) \in Seq(Row)
  BY <1>2 DEF Erased, RemoveAt
<1> QED BY <1>4, <1>5, <1>6, <1>7

\* What a later start finds of a table is one.
LEMMA RereadType ==
    ASSUME NEW es \in Seq(Row)
    PROVE  Reread(es) \in Seq(Row) /\ Len(Reread(es)) = Len(es)
<1>1. \A i \in 1..Len(es) : Split(AsString(es[i])) \in Row
  BY PrintedWide
<1> QED BY <1>1 DEF Reread

\* A row put in the place of one of the same name keeps the names unique.
LEMMA UniqueReplaced ==
    ASSUME NEW es \in Seq(Row), NEW i \in DOMAIN es, NEW r \in Row,
           r[1] = es[i][1], UniqueNames(es)
    PROVE  UniqueNames([es EXCEPT ![i] = r])
BY DEF UniqueNames

\* A row of a name that is not there yet keeps the names unique.
LEMMA UniqueAppended ==
    ASSUME NEW es \in Seq(Row), NEW r \in Row, Absent(Names(es), r[1]), UniqueNames(es)
    PROVE  UniqueNames(Append(es, r))
<1>1. \A j \in DOMAIN es : es[j][1] # r[1]
  BY DEF Absent, Names
<1>2. /\ DOMAIN Append(es, r) = DOMAIN es \cup {Len(es) + 1}
      /\ Append(es, r)[Len(es) + 1] = r
      /\ \A j \in DOMAIN es : Append(es, r)[j] = es[j]
  OBVIOUS
<1> QED BY <1>1, <1>2 DEF UniqueNames

\* The rows that are left keep their order and their places or move up by one.
LEMMA ErasedRows ==
    ASSUME NEW es \in Seq(Row), NEW i \in DOMAIN es
    PROVE  /\ Erased(es, i) \in Seq(Row) /\ Len(Erased(es, i)) = Len(es) - 1
           /\ \A j \in 1..(Len(es) - 1) : Erased(es, i)[j] = IF j < i THEN es[j] ELSE es[j + 1]
<1> DEFINE a == SubSeq(es, 1, i - 1)
           b == SubSeq(es, i + 1, Len(es))
<1>1. i \in 1..Len(es) /\ Len(es) \in Nat
  OBVIOUS
<1>2. a \in Seq(Row) /\ Len(a) = i - 1 /\ \A j \in 1..(i - 1) : a[j] = es[j]
  BY <1>1
<1>3. b \in Seq(Row) /\ Len(b) = Len(es) - i /\ \A j \in 1..(Len(es) - i) : b[j] = es[i + j]
  BY <1>1
<1>4. Erased(es, i) = a \o b
  BY DEF Erased, RemoveAt
<1> HIDE DEF a, b
<1>5. /\ a \o b \in Seq(Row) /\ Len(a \o b) = Len(es) - 1
      /\ \A j \in 1..(Len(es) - 1) : (a \o b)[j] = IF j < i THEN a[j] ELSE b[j - (i - 1)]
  <2>1. /\ a \o b \in Seq(Row) /\ Len(a \o b) = Len(a) + Len(b)
        /\ \A j \in 1..(Len(a) + Len(b)) :
              (a \o b)[j] = IF j <= Len(a) THEN a[j] ELSE b[j - Len(a)]
    BY <1>2, <1>3, ConcatProperties
  <2>2. Len(a) + Len(b) = Len(es) - 1 /\ \A j \in Nat : j <= Len(a) <=> j < i
    BY <1>1, <1>2, <1>3
  <2> QED BY <1>2, <2>1, <2>2
<1>6. ASSUME NEW j \in 1..(Len(es) - 1)
      PROVE  (a \o b)[j] = IF j < i THEN es[j] ELSE es[j + 1]
  <2>1. CASE j < i
    BY <1>1, <1>2, <1>5, <2>1
  <2>2. CASE ~(j < i)
    <3>1. j - (i - 1) \in 1..(Len(es) - i) /\ i + (j - (i - 1)) = j + 1
      BY <1>1, <2>2
    <3>2. (a \o b)[j] = b[j - (i - 1)] /\ b[j - (i - 1)] = es[i + (j - (i - 1))]
      BY <1>3, <1>5, <2>2, <3>1
    <3> QED BY <2>2, <3>1, <3>2
  <2> QED BY <2>1, <2>2
<1> QED BY <1>4, <1>5, <1>6

\* To take a row away keeps the names unique.
LEMMA UniqueErased ==
    ASSUME NEW es \in Seq(Row), NEW i \in DOMAIN es, UniqueNames(es)
    PROVE  UniqueNames(Erased(es, i))
<1> DEFINE new == Erased(es, i)
<1>1. DOMAIN new = 1..(Len(es) - 1)
  BY ErasedRows
<1>2. i \in 1..Len(es) /\ Len(es) \in Nat
  OBVIOUS
<1> SUFFICES ASSUME NEW j \in DOMAIN new, NEW k \in DOMAIN new, new[j][1] = new[k][1]
             PROVE  j = k
  BY DEF UniqueNames
<1>3. /\ new[j] = es[IF j < i THEN j ELSE j + 1]
      /\ new[k] = es[IF k < i THEN k ELSE k + 1]
  BY <1>1, ErasedRows
<1>4. /\ (IF j < i THEN j ELSE j + 1) \in DOMAIN es
      /\ (IF k < i THEN k ELSE k + 1) \in DOMAIN es
  BY <1>1, <1>2
<1>5. (IF j < i THEN j ELSE j + 1) = (IF k < i THEN k ELSE k + 1)
  BY <1>3, <1>4 DEF UniqueNames
<1> QED BY <1>1, <1>2, <1>5

-----------------------------------------------------------------------------
(* Requests *)

\* The components of a request are texts.
LEMMA ParamsType ==
    ASSUME NEW cmd \in Seq(Text) \ {<<>>}
    PROVE  Params(cmd) \in Seq(Text)
<1> DEFINE parts == IF Len(cmd) > 1 /\ Last(cmd) = Blank THEN Front(cmd) ELSE cmd
<1>1. Len(cmd) \in Nat /\ Len(cmd) >= 1
  OBVIOUS
<1>2. parts \in Seq(Text) /\ parts # <<>>
  <2>1. CASE Len(cmd) > 1 /\ Last(cmd) = Blank
    <3>1. Len(cmd) - 1 \in Nat /\ Len(cmd) - 1 >= 1
      BY <1>1, <2>1
    <3>2. Front(cmd) \in Seq(Text) /\ Len(Front(cmd)) = Len(cmd) - 1
      BY <3>1 DEF Front
    <3> QED BY <2>1, <3>1, <3>2
  <2>2. CASE ~(Len(cmd) > 1 /\ Last(cmd) = Blank)
    BY <2>2
  <2> QED BY <2>1, <2>2
<1>3. Params(cmd) = IF Head(parts) = Blank THEN Tail(parts) ELSE parts
  BY DEF Params
<1> HIDE DEF parts
<1>4. Tail(parts) \in Seq(Text)
  BY <1>2
<1> QED BY <1>2, <1>3, <1>4

\* What a response may be.
Response == Seq(Line) \ {<<>>}

OutcomeOK(o) == o.entries \in Seq(Row) /\ o.commit \in BOOLEAN /\ o.lines \in Response

\* A text, a message and the printed rows of a table are responses.
LEMMA ResponseType ==
    /\ \A t \in Text : t \in Line /\ Bare(t) \in Response
    /\ \A m \in Message : Bare(<<m>>) \in Response /\ buildError(m) \in Response
    /\ \A lines \in Seq(Line) : Closed(lines) \in Response
<1>1. \A t \in Text : t \in Line
  BY DEF Text, Line
<1>2. \A m \in Message : <<m>> \in Line
  BY DEF Line
<1>3. \A t \in Line : Bare(t) \in Response
  BY DEF Bare, Response
<1>4. Blank \in Line
  BY EmptyAssumption DEF Blank, Line
<1>5. \A lines \in Seq(Line) : Closed(lines) \in Response
  <2> TAKE lines \in Seq(Line)
  <2>1. Append(lines, Blank) \in Seq(Line) /\ Append(lines, Blank) # <<>>
    BY <1>4, AppendProperties
  <2> QED BY <2>1, Zenon DEF Closed, Response
<1>6. \A m \in Message : buildError(m) \in Response
  <2> TAKE m \in Message
  <2>1. <<<<m>>>> \in Seq(Line)
    BY <1>2
  <2> QED BY <1>5, <2>1 DEF buildError
<1> QED BY <1>1, <1>2, <1>3, <1>5, <1>6

\* The answers of a get leave the table alone.
LEMMA GetType ==
    ASSUME NEW fs \in Row, NEW es \in Seq(Row), NEW name \in Text, NEW field \in Text,
           NEW o \in GetAll(es) \cup GetOne(fs, es, name, field)
    PROVE  OutcomeOK(o) /\ o.entries = es /\ ~o.commit
<1>1. fs \in Seq(Text)
  BY DEF Row
<1>2. CASE o \in GetAll(es)
  <2> DEFINE lines == [i \in DOMAIN es |-> AsString(es[i])]
  <2>1. lines \in Seq(Line)
    <3>1. \A i \in 1..Len(es) : AsString(es[i]) \in Line
      BY AsStringType, ResponseType
    <3> QED BY <3>1
  <2> HIDE DEF lines
  <2>2. Closed(lines) \in Response
    BY <2>1, ResponseType
  <2>3. o = Outcome(es, FALSE, Closed(lines))
    BY <1>2 DEF GetAll, Said, lines
  <2> QED BY <2>2, <2>3 DEF Outcome, OutcomeOK
<1>3. CASE o \in GetOne(fs, es, name, field)
  <2>1. NotFound \in Response /\ Garbage \in Response
    BY ResponseType DEF NotFound, Garbage, Message
  <2>2. \A t \in FoundRow(es, name) : Bare(t) \in Response
    <3> TAKE t \in FoundRow(es, name)
    <3>1. PICK i \in FirstIndex(Names(es), name) : t = AsString(es[i])
      BY DEF FoundRow
    <3>2. t \in Text
      BY <3>1, FoundIndex, AsStringType
    <3> QED BY <3>2, ResponseType
  <2>3. \A t \in FoundValue(fs, es, name, field) : Bare(t) \in Response
    <3> TAKE t \in FoundValue(fs, es, name, field)
    <3>1. PICK p \in FirstIndex(Names(es), name) \X FirstIndex(fs, field) :
              t = es[p[1]][p[2]] /\ HasColumn(es[p[1]], p[2])
      BY DEF FoundValue
    <3>2. /\ p[1] \in FirstIndex(Names(es), name) /\ p[2] \in FirstIndex(fs, field)
          /\ es[p[1]] \in Row /\ p[2] \in Nat \ {0}
      BY <1>1, <3>1, FoundIndex, FoundField
    <3>3. t \in Text
      BY <3>1, <3>2 DEF HasColumn, Row
    <3> QED BY <3>3, ResponseType
  <2>4. PICK l : o = Outcome(es, FALSE, l) /\ l \in {Garbage, NotFound}
              \cup {Bare(t) : t \in FoundRow(es, name)} \cup {Bare(t) : t \in FoundValue(fs, es, name, field)}
    BY <1>3 DEF GetOne
  <2>5. l \in Response
    BY <2>1, <2>2, <2>3, <2>4
  <2> QED BY <2>4, <2>5 DEF Outcome, OutcomeOK
<1> QED BY <1>2, <1>3

\* The answers of the requests that change the table.
LEMMA ChangeOutcome ==
    ASSUME NEW fs \in Row, NEW es \in Seq(Row), NEW name \in Text, NEW field \in Text,
           NEW value \in Text,
           NEW o \in SetRow(es, value) \cup SetValue(fs, es, name, field, value) \cup Delete(es, name)
    PROVE  OutcomeOK(o) /\ ~o.commit
<1>1. fs \in Seq(Text)
  BY DEF Row
<1>2. \A m \in Message : Bare(<<m>>) \in Response /\ buildError(m) \in Response
  BY ResponseType
<1>3. CASE o \in SetRow(es, value)
  <2> DEFINE at == FirstIndex(Names(es), <<value[1]>>)
             after == IF at = {} THEN Appended(es, value) ELSE Replaced(es, CHOOSE i \in at : TRUE, value)
  <2>1. o = Outcome(after, FALSE, Bare(<<"Filed to set Entry: ">>))
    BY <1>3 DEF SetRow, Said
  <2>2. after \in Seq(Row)
    <3>1. CASE at = {}
      BY <3>1, SplitType DEF Appended
    <3>2. CASE at # {}
      <4>1. (CHOOSE i \in at : TRUE) \in at
        BY <3>2
      <4>2. (CHOOSE i \in at : TRUE) \in DOMAIN es
        BY <4>1, FoundIndex
      <4> QED BY <3>2, <4>2, SplitType DEF Replaced
    <3> QED BY <3>1, <3>2
  <2>3. Bare(<<"Filed to set Entry: ">>) \in Response
    BY <1>2 DEF Message
  <2> HIDE DEF after
  <2> QED BY <2>1, <2>2, <2>3 DEF Outcome, OutcomeOK
<1>4. CASE o \in SetValue(fs, es, name, field, value)
  <2> DEFINE cells == {p \in FirstIndex(Names(es), name) \X FirstIndex(fs, field) : HasColumn(es[p[1]], p[2])}
  <2>1. CASE cells = {}
    <3>1. o = Outcome(es, FALSE, Bare(<<"Failed to set value: ">>))
      BY <1>4, <2>1 DEF SetValue, Said
    <3> QED BY <1>2, <3>1 DEF Outcome, OutcomeOK, Message
  <2>2. CASE cells # {}
    <3>1. PICK p \in cells : o = Outcome(ValueSet(es, p[1], p[2], value), FALSE, buildError("SUCCESS"))
      BY <1>4, <2>2 DEF SetValue, Said
    <3>2. /\ p[1] \in FirstIndex(Names(es), name) /\ p[2] \in FirstIndex(fs, field)
          /\ HasColumn(es[p[1]], p[2])
      BY <3>1
    <3>3. p[1] \in DOMAIN es /\ p[2] \in Nat \ {0}
      BY <1>1, <3>2, FoundIndex, FoundField
    <3>4. ValueSet(es, p[1], p[2], value) \in Seq(Row)
      BY <3>2, <3>3, ChangeType
    <3> QED BY <1>2, <3>1, <3>4 DEF Outcome, OutcomeOK, Message
  <2> QED BY <2>1, <2>2
<1>5. CASE o \in Delete(es, name)
  <2> DEFINE at == FirstIndex(Names(es), name)
  <2>1. CASE at = {}
    <3>1. o = Outcome(es, FALSE, buildError("ERROR: Failed to delete "))
      BY <1>5, <2>1 DEF Delete, Said
    <3> QED BY <1>2, <3>1 DEF Outcome, OutcomeOK, Message
  <2>2. CASE at # {}
    <3>1. PICK i \in at : o = Outcome(Erased(es, i), FALSE, buildError("SUCCESS"))
      BY <1>5, <2>2 DEF Delete, Said
    <3>2. Erased(es, i) \in Seq(Row)
      <4>1. i \in 1..Len(es)
        BY <3>1, FoundIndex
      <4> QED BY <4>1 DEF Erased, RemoveAt
    <3> QED BY <1>2, <3>1, <3>2 DEF Outcome, OutcomeOK, Message
  <2> QED BY <2>1, <2>2
<1> QED BY <1>3, <1>4, <1>5

\* Whatever is asked, the table stays a table and there is an answer.
LEMMA OutcomesType ==
    ASSUME NEW fs \in Row, NEW es \in Seq(Row), NEW params \in Seq(Text),
           NEW o \in Outcomes(fs, es, params)
    PROVE  OutcomeOK(o)
<1>1. \A m \in Message : Bare(<<m>>) \in Response /\ buildError(m) \in Response
  BY ResponseType
<1>2. ASSUME NEW lines \in Response, NEW commit \in BOOLEAN, o = Outcome(es, commit, lines)
      PROVE  OutcomeOK(o)
  <2>1. o.entries = es /\ o.commit = commit /\ o.lines = lines
    BY <1>2 DEF Outcome
  <2> QED BY <2>1 DEF OutcomeOK
<1>3. \A i \in 1..Len(params) : params[i] \in Text
  OBVIOUS
<1>4. Param(params, 3) \in Text /\ Len(params) \in Nat
  BY <1>3, EmptyAssumption DEF Param, Blank, Text
<1>5. \/ \E m \in Message : o \in Said(es, Bare(<<m>>)) \cup Said(es, buildError(m))
      \/ o \in GetAll(es)
      \/ Len(params) >= 2 /\ o \in GetOne(fs, es, params[2], Param(params, 3))
      \/ Len(params) >= 2 /\ o \in SetRow(es, params[2])
      \/ Len(params) >= 4 /\ o \in SetValue(fs, es, params[2], params[3], params[4])
      \/ Len(params) >= 2 /\ o \in Delete(es, params[2])
      \/ o \in Fields(fs, es)
      \/ o \in Commit(es)
  <2>1. CASE params = <<>>
    BY <2>1 DEF Outcomes, Message
  <2>2. CASE params # <<>> /\ params[1] = <<"get">>
    <3>1. o \in GetAll(es) \/ (~(Len(params) < 2) /\ o \in GetOne(fs, es, params[2], Param(params, 3)))
      BY <2>2 DEF Outcomes
    <3> QED BY <1>4, <3>1
  <2>3. CASE params # <<>> /\ params[1] = <<"set">>
    <3> DEFINE m == "ERROR: set requires either 2 or 4 parameters"
               short == Len(params) = 2
               long == Len(params) = 4
    <3>1. params[1] # <<"get">>
      BY <2>3
    <3>2. Outcomes(fs, es, params) =
            IF short THEN SetRow(es, params[2])
            ELSE IF long THEN SetValue(fs, es, params[2], params[3], params[4])
            ELSE Said(es, buildError(m))
      BY <2>3, <3>1, Zenon DEF Outcomes
    <3>3. m \in Message
      BY DEF Message
    <3>4. /\ short => Len(params) >= 2
          /\ long => Len(params) >= 4
      <4>1. \A n \in Nat : (n = 2 => n >= 2) /\ (n = 4 => n >= 4)
        OBVIOUS
      <4> QED BY <1>4, <4>1, Zenon
    <3> HIDE DEF m, short, long
    <3>5. \/ short /\ o \in SetRow(es, params[2])
          \/ long /\ o \in SetValue(fs, es, params[2], params[3], params[4])
          \/ o \in Said(es, buildError(m))
      BY <3>2
    <3> QED BY <3>3, <3>4, <3>5
  <2>4. CASE params # <<>> /\ params[1] = <<"delete">>
    <3>1. ~Throws(params) /\ o \in Delete(es, params[2])
      BY <2>4 DEF Outcomes
    <3>2. Len(params) >= 2
      <4>1. Len(params) # 1
        BY <2>4, <3>1 DEF Throws
      <4>2. Len(params) # 0
        BY <2>4
      <4>3. \A n \in Nat : n # 0 /\ n # 1 => n >= 2
        OBVIOUS
      <4>4. Len(params) \in Nat
        OBVIOUS
      <4> QED BY <4>1, <4>2, <4>3, <4>4
    <3> QED BY <3>1, <3>2
  <2>5. CASE params # <<>> /\ params[1] \notin {<<"get">>, <<"set">>, <<"delete">>}
    <3>1. \/ o \in Fields(fs, es) \/ o \in Commit(es)
          \/ o \in Said(es, Bare(<<"ERROR: Unrecognized command: ">>))
      BY <2>5 DEF Outcomes
    <3> QED BY <3>1 DEF Message
  <2> QED BY <2>1, <2>2, <2>3, <2>4, <2>5
<1>6. \A m \in Message : o \in Said(es, Bare(<<m>>)) \cup Said(es, buildError(m)) => OutcomeOK(o)
  BY <1>1, <1>2 DEF Said
<1>7. o \in Fields(fs, es) \cup Commit(es) => OutcomeOK(o)
  <2>1. Bare(AsString(fs)) \in Response
    BY AsStringType, ResponseType
  <2>2. Bare(<<"Failed to preserve DB: ">>) \in Response
    BY <1>1 DEF Message
  <2> QED BY <1>2, <2>1, <2>2 DEF Fields, Said, Commit
<1>8. <<Empty>> \in Text
  BY EmptyAssumption DEF Text
<1>9. CASE o \in GetAll(es)
  BY <1>8, <1>9, GetType
<1>10. CASE Len(params) >= 2 /\ o \in GetOne(fs, es, params[2], Param(params, 3))
  BY <1>3, <1>4, <1>10, GetType
<1>11. CASE Len(params) >= 2 /\ o \in SetRow(es, params[2]) \cup Delete(es, params[2])
  <2>1. params[2] \in Text
    BY <1>3, <1>4, <1>11
  <2> QED BY <1>8, <1>11, <2>1, ChangeOutcome
<1>12. CASE Len(params) >= 4 /\ o \in SetValue(fs, es, params[2], params[3], params[4])
  <2>1. params[2] \in Text /\ params[3] \in Text /\ params[4] \in Text
    BY <1>3, <1>4, <1>12
  <2> QED BY <1>12, <2>1, ChangeOutcome
<1> QED BY <1>5, <1>6, <1>7, <1>9, <1>10, <1>11, <1>12
=============================================================================
