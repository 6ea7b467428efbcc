------------------------- MODULE DBTextFile_proofs -------------------------
(***************************************************************************)
(* What holds of the text-file provider for all values, files, callers and *)
(* table sizes.                                                            *)
(***************************************************************************)
EXTENDS DBTextFile, Request_proofs, TLAPS

USE DEF cursor, memory, history

-----------------------------------------------------------------------------
(* What read() makes of a file. *)

\* read() makes rows of any file, one per line after the first.
LEMMA LoadType ==
    ASSUME NEW file \in Seq(Text)
    PROVE  /\ LoadFields(file) \in Row
           /\ LoadEntries(file) \in Seq(Row)
           /\ Len(LoadEntries(file)) = IF file = <<>> THEN 0 ELSE Len(file) - 1
<1>1. LoadFields(file) \in Row
  <2>1. CASE file = <<>>
    <3>1. LoadFields(file) = <<<<Empty>>>>
      BY <2>1 DEF LoadFields
    <3> QED BY <3>1, EmptyAssumption DEF Row, Text
  <2>2. CASE file # <<>>
    <3>1. file[1] \in Text
      BY <2>2
    <3>2. LoadFields(file) = Split(file[1])
      BY <2>2 DEF LoadFields
    <3> QED BY <3>1, <3>2, SplitType
  <2> QED BY <2>1, <2>2
<1>2. \A i \in 1..(Len(file) - 1) : Split(file[i + 1]) \in Row
  <2> TAKE i \in 1..(Len(file) - 1)
  <2>1. file[i + 1] \in Text
    OBVIOUS
  <2> QED BY <2>1, SplitType
<1>3. CASE file = <<>>
  <2>1. 1..(Len(file) - 1) = 1..0
    BY <1>3
  <2>2. LoadEntries(file) = [i \in 1..0 |-> Split(file[i + 1])]
    BY <2>1 DEF LoadEntries
  <2>3. LoadEntries(file) \in Seq(Row) /\ Len(LoadEntries(file)) = 0
    BY <2>2
  <2> QED BY <1>1, <1>3, <2>3
<1>4. CASE file # <<>>
  <2>1. Len(file) - 1 \in Nat
    BY <1>4
  <2> QED BY <1>1, <1>2, <2>1 DEF LoadEntries
<1> QED BY <1>3, <1>4

-----------------------------------------------------------------------------
(* Type correctness. *)

\* A line that save() ends is a text, one piece longer.
LEMMA LineEndType ==
    ASSUME NEW pieces \in Seq(Piece)
    PROVE  Append(pieces, Empty) \in Text /\ Len(Append(pieces, Empty)) = Len(pieces) + 1
<1> DEFINE text == Append(pieces, Empty)
<1>1. text \in Seq(Piece) /\ Len(text) = Len(pieces) + 1 /\ Len(pieces) \in Nat
  BY EmptyAssumption
<1> HIDE DEF text
<1>2. text \in Text
  BY <1>1 DEF Text
<1> QED BY <1>1, <1>2 DEF text

\* What save() leaves of a line it was writing is a text.
LEMMA CutsType ==
    ASSUME TypeOK, NEW t \in Cuts
    PROVE  t \in Text /\ Len(t) <= Len(line) + 1
<1> DEFINE text == Append(line, Empty)
<1>1. text \in Seq(Piece) /\ Len(text) = Len(line) + 1 /\ Len(line) \in Nat
  BY EmptyAssumption DEF TypeOK
<1> HIDE DEF text
<1>2. CASE \E k \in 1..Len(text) : t = SubSeq(text, 1, k)
  BY <1>1, <1>2 DEF Text
<1>3. CASE \E k \in 1..Len(line) : t = Append(SubSeq(text, 1, k - 1), Torn)
  <2>1. PICK k \in 1..Len(line) : t = Append(SubSeq(text, 1, k - 1), Torn)
    BY <1>3
  <2>2. SubSeq(text, 1, k - 1) \in Seq(Piece) /\ Len(SubSeq(text, 1, k - 1)) = k - 1
    BY <1>1, <2>1
  <2> QED BY <1>1, <2>1, <2>2, ConstantsAssumption DEF Text
<1>4. \/ \E k \in 1..Len(text) : t = SubSeq(text, 1, k)
      \/ \E k \in 1..Len(line) : t = Append(SubSeq(text, 1, k - 1), Torn)
  BY DEF Cuts, text
<1> QED BY <1>2, <1>3, <1>4

\* The only cut longer than the values written ends with their colon.
LEMMA CutLast ==
    ASSUME TypeOK, NEW t \in Cuts, Len(t) = Len(line) + 1
    PROVE  Last(t) = Empty
<1> DEFINE text == Append(line, Empty)
<1>1. text \in Seq(Piece) /\ Len(text) = Len(line) + 1 /\ Len(line) \in Nat
      /\ text[Len(line) + 1] = Empty
  BY EmptyAssumption DEF TypeOK
<1> HIDE DEF text
<1>2. CASE \E k \in 1..Len(text) : t = SubSeq(text, 1, k)
  BY <1>1, <1>2 DEF Last
<1>3. CASE \E k \in 1..Len(line) : t = Append(SubSeq(text, 1, k - 1), Torn)
  <2>1. PICK k \in 1..Len(line) : t = Append(SubSeq(text, 1, k - 1), Torn)
    BY <1>3
  <2>2. SubSeq(text, 1, k - 1) \in Seq(Piece) /\ Len(SubSeq(text, 1, k - 1)) = k - 1
    BY <1>1, <2>1
  <2>3. Len(t) = k
    BY <2>1, <2>2, ConstantsAssumption
  <2> QED BY <1>1, <2>1, <2>3
<1>4. \/ \E k \in 1..Len(text) : t = SubSeq(text, 1, k)
      \/ \E k \in 1..Len(line) : t = Append(SubSeq(text, 1, k - 1), Torn)
  BY DEF Cuts, text
<1> QED BY <1>2, <1>3, <1>4

\* Before the first value of a line there is only its colon to cut.
LEMMA CutOfNothing ==
    ASSUME TypeOK, Len(line) < 1, NEW t \in Cuts
    PROVE  t = <<Empty>>
<1>1. t \in Text /\ Len(t) <= Len(line) + 1
  BY CutsType
<1>2. t \in Seq(Piece) /\ Len(t) >= 1
  BY <1>1 DEF Text
<1>3. Len(line) \in Nat
  BY DEF TypeOK
<1>4. Len(t) = Len(line) + 1
  BY <1>1, <1>2, <1>3
<1>5. Last(t) = Empty
  BY <1>4, CutLast
<1>6. t[1] = Empty /\ Len(t) < 2
  BY <1>2, <1>3, <1>4, <1>5 DEF Last
<1>7. <<Empty>> \in Seq(Piece)
  BY EmptyAssumption
<1>8. Len(t) = Len(<<Empty>>) /\ \A i \in 1..Len(t) : t[i] = <<Empty>>[i]
  BY <1>2, <1>6
<1> QED BY <1>2, <1>7, <1>8, SeqEqual

\* A save() that stops anywhere leaves a file read() can parse.
LEMMA FilesLeftType ==
    ASSUME TypeOK
    PROVE  FilesLeft \subseteq Seq(Text)
<1>1. disk \in Seq(Text)
  BY DEF TypeOK
<1>2. \A t \in Cuts : Append(disk, t) \in Seq(Text)
  <2> TAKE t \in Cuts
  <2>1. t \in Text
    BY CutsType
  <2> QED BY <1>1, <2>1
<1> QED BY <1>1, <1>2 DEF FilesLeft

\* The type invariant with what it needs to be inductive: a running server
\* has a line of field names, and the save it remembers had one.
TypeInv ==
    /\ TypeOK
    /\ saved.fields # <<>>
    /\ pc # "down" => fields # <<>>

\* The first start finds a file and no table.
LEMMA InitType == Init => TypeInv
<1> SUFFICES ASSUME Init PROVE TypeInv
  OBVIOUS
<1>1. disk \in Seq(Text)
  BY ConstantsAssumption DEF Init
<1>2. LoadFields(disk) \in Row /\ LoadEntries(disk) \in Seq(Row)
  BY <1>1, LoadType
<1> QED BY <1>1, <1>2 DEF Init, TypeInv, TypeOK, Table, Row

\* read() keeps the types.
LEMMA ReadType == TypeInv /\ Read => TypeInv'
<1> SUFFICES ASSUME TypeInv, Read PROVE TypeInv'
  OBVIOUS
<1>1. LoadFields(disk) \in Row /\ LoadEntries(disk) \in Seq(Row)
  BY LoadType DEF TypeInv, TypeOK
<1> QED BY <1>1 DEF Read, TypeInv, TypeOK, Row

\* set(name, csv_values) keeps the types.
LEMMA SetType ==
    ASSUME TypeInv, NEW csv \in CsvArgs, Set(<<csv[1]>>, csv)
    PROVE  TypeInv'
<1>1. csv \in Text /\ entries \in Seq(Row)
  BY ConstantsAssumption DEF TypeInv, TypeOK
<1>2. entries' \in Seq(Row)
  <2>1. CASE \E i \in FirstIndex(Names(entries), <<csv[1]>>) :
                entries' = Replaced(entries, i, csv)
    <3>1. PICK i \in FirstIndex(Names(entries), <<csv[1]>>) :
                entries' = Replaced(entries, i, csv)
      BY <2>1
    <3>2. i \in DOMAIN entries
      BY <3>1 DEF FirstIndex, Names
    <3> QED BY <1>1, <3>1, <3>2, SplitType DEF Replaced
  <2>2. CASE entries' = Appended(entries, csv)
    BY <1>1, <2>2, SplitType DEF Appended
  <2> QED BY <2>1, <2>2 DEF Set
<1> QED BY <1>2 DEF Set, TypeInv, TypeOK

\* set(name, field, value) keeps the types.
LEMMA SetFieldType ==
    ASSUME TypeInv, NEW name \in NameArgs, NEW u \in UpdateArgs,
           SetField(name, u.field, u.value)
    PROVE  TypeInv'
<1>1. u.value \in Text /\ entries \in Seq(Row) /\ fields \in Seq(Text)
  BY ConstantsAssumption DEF TypeInv, TypeOK
<1>2. PICK i \in FirstIndex(Names(entries), name), k \in FirstIndex(fields, u.field) :
          HasColumn(entries[i], k) /\ entries' = ValueSet(entries, i, k, u.value)
  BY DEF SetField
<1>3. i \in DOMAIN entries /\ k \in Nat \ {0}
  BY <1>1, <1>2 DEF FirstIndex, Names
<1>4. entries' \in Seq(Row)
  BY <1>1, <1>2, <1>3, ChangeType
<1> QED BY <1>4 DEF SetField, TypeInv, TypeOK

\* erase(name) keeps the types.
LEMMA EraseType ==
    ASSUME TypeInv, NEW name \in NameArgs, Erase(name)
    PROVE  TypeInv'
<1>1. entries \in Seq(Row)
  BY DEF TypeInv, TypeOK
<1>2. PICK i \in FirstIndex(Names(entries), name) : entries' = Erased(entries, i)
  BY DEF Erase
<1>3. i \in 1..Len(entries)
  BY <1>1, <1>2 DEF FirstIndex, Names
<1>4. entries' \in Seq(Row)
  BY <1>1, <1>2, <1>3 DEF Erased, RemoveAt
<1> QED BY <1>4 DEF Erase, TypeInv, TypeOK

\* The steps of save() keep the types.
LEMMA SaveType ==
    ASSUME TypeInv, SaveOpen \/ SaveStep
    PROVE  TypeInv'
<1>1. CASE SaveOpen
  <2>1. saved' \in [fields : Seq(Text), entries : Seq(Row)] /\ saved'.fields # <<>>
    BY <1>1 DEF SaveOpen, TypeInv, TypeOK, Table
  <2>2. disk' \in Seq(Text)
    BY <1>1 DEF SaveOpen
  <2> QED BY <1>1, <2>1, <2>2 DEF SaveOpen, TypeInv, TypeOK
<1>2. CASE SaveValue
  <2>1. SourceRow \in Seq(Text)
    BY <1>2 DEF SourceRow, SaveValue, TypeInv, TypeOK, Row
  <2>2. SourceRow[col + 1] \in Seq(Piece)
    BY <1>2, <2>1 DEF SaveValue, TypeInv, TypeOK, Text
  <2>3. line' \in Seq(Piece) /\ col' \in Nat
    BY <1>2, <2>2 DEF SaveValue, TypeInv, TypeOK
  <2> QED BY <1>2, <2>3 DEF SaveValue, TypeInv, TypeOK
<1>3. CASE SaveEol
  <2>1. Append(line, Empty) \in Text
    BY LineEndType DEF TypeInv, TypeOK
  <2>2. disk' \in Seq(Text)
    BY <1>3, <2>1 DEF SaveEol, TypeInv, TypeOK
  <2> QED BY <1>3, <2>2 DEF SaveEol, TypeInv, TypeOK
<1>4. CASE SaveClose
  BY <1>4 DEF SaveClose, TypeInv, TypeOK
<1> QED BY <1>1, <1>2, <1>3, <1>4 DEF SaveStep

\* The end of the process or of a failed save() keeps the types.
LEMMA EndType ==
    ASSUME TypeInv, WriteFails \/ KillInSave \/ Stop
           \/ \E name \in NameArgs, field \in FieldArgs : GetPastEnd(name, field)
    PROVE  TypeInv'
<1>1. FilesLeft \subseteq Seq(Text)
  BY FilesLeftType DEF TypeInv
<1>2. CASE WriteFails
  BY <1>1, <1>2 DEF WriteFails, TypeInv, TypeOK
<1>3. CASE KillInSave
  BY <1>1, <1>3 DEF KillInSave, Lose, TypeInv, TypeOK
<1>4. CASE Stop
  BY <1>4 DEF Stop, Lose, TypeInv, TypeOK
<1>5. CASE \E name \in NameArgs, field \in FieldArgs : GetPastEnd(name, field)
  BY <1>5 DEF GetPastEnd, Lose, TypeInv, TypeOK
<1> QED BY <1>2, <1>3, <1>4, <1>5

\* So does every step of the provider.
LEMMA NextType == TypeInv /\ [Next]_vars => TypeInv'
<1> SUFFICES ASSUME TypeInv, [Next]_vars PROVE TypeInv'
  OBVIOUS
<1>1. CASE Next
  BY <1>1, ReadType, SetType, SetFieldType, EraseType, SaveType, EndType DEF Next
<1>2. CASE UNCHANGED vars
  BY <1>2 DEF vars, TypeInv, TypeOK
<1> QED BY <1>1, <1>2

\* The provider's state always has its type: no operation leaves a row
\* without a name, and no file is read into one.
THEOREM TypeCorrect == Spec => []TypeOK
<1>1. TypeInv => TypeOK
  BY DEF TypeInv
<1> QED BY InitType, NextType, <1>1, PTL DEF Spec

-----------------------------------------------------------------------------
(* The file is what save() has written of the table so far. *)

\* The line a colon-free row is printed to.
Printed(r) == [k \in 1..(Len(r) + 1) |-> IF k <= Len(r) THEN r[k][1] ELSE Empty]

\* The row of the saved table that line number i + 1 of the file holds.
SavedRow(i) == IF i = 0 THEN saved.fields ELSE saved.entries[i]

\* The lines before the one save() is at are printed rows, and that line is
\* the part of its row before col.
Written ==
    /\ Len(disk) = row
    /\ \A i \in 1..row : disk[i] = Printed(SavedRow(i - 1))
    /\ row <= Len(saved.entries) =>
          /\ col <= Len(SavedRow(row))
          /\ Len(line) = col
          /\ \A k \in 1..col : line[k] = SavedRow(row)[k][1]

SaveInv ==
    /\ pc # "saving" => line = <<>> /\ row = 0 /\ col = 0
    /\ pc = "saving" =>
          /\ saved = Table(fields, entries) /\ ~intact
          /\ row <= Len(entries) + 1
          /\ row > Len(entries) => line = <<>> /\ col = 0
          /\ SavedColonFree => Written

IInv == TypeInv /\ SaveInv /\ Durability /\ TornSaveIsPrefix

\* Entry::Entry reads back the row operator<< printed, when no value of it
\* has a colon; an empty last value is kept by the colon that follows it.
LEMMA PrintedReads ==
    ASSUME NEW r \in Row, ColonFree(r)
    PROVE  /\ Printed(r) \in Text /\ Len(Printed(r)) = Len(r) + 1
           /\ Split(Printed(r)) = r
<1>1. r \in Seq(Text) /\ Len(r) \in Nat /\ Len(r) >= 1
  BY DEF Row
<1>2. \A k \in 1..Len(r) : r[k] \in Seq(Piece) /\ Len(r[k]) = 1
  BY <1>1 DEF ColonFree, Text
<1>3. \A k \in 1..Len(r) : r[k][1] \in Piece /\ r[k] = <<r[k][1]>>
  BY <1>1, <1>2
<1>4. Printed(r) \in Seq(Piece) /\ Len(Printed(r)) = Len(r) + 1
  BY <1>1, <1>3, EmptyAssumption DEF Printed
<1>5. Printed(r) \in Text
  BY <1>1, <1>4 DEF Text
<1>6. \A k \in 1..Len(r) : Printed(r)[k] = r[k][1]
  BY <1>1 DEF Printed
<1>7. Last(Printed(r)) = Empty
  BY <1>1, <1>4 DEF Printed, Last
<1>8. Front(Printed(r)) \in Seq(Piece) /\ Len(Front(Printed(r))) = Len(r)
      /\ \A k \in 1..Len(r) : Front(Printed(r))[k] = r[k][1]
  BY <1>1, <1>4, <1>6 DEF Front
<1>9. Split(Printed(r)) = [i \in 1..Len(r) |-> <<Front(Printed(r))[i]>>]
  BY <1>1, <1>4, <1>7, <1>8 DEF Split
<1>10. Split(Printed(r)) = [i \in 1..Len(r) |-> r[i]]
  BY <1>3, <1>8, <1>9
<1> QED BY <1>1, <1>4, <1>5, <1>10

\* A file of printed rows is read back as those rows.
LEMMA WrittenReads ==
    ASSUME TypeInv, SavedColonFree,
           NEW file \in Seq(Text), NEW n \in Nat,
           n <= Len(file), n <= Len(saved.entries) + 1,
           \A i \in 1..n : file[i] = Printed(SavedRow(i - 1))
    PROVE  /\ n > 0 => LoadFields(file) = saved.fields
           /\ \A i \in 1..(n - 1) : LoadEntries(file)[i] = saved.entries[i]
<1>1. saved.fields \in Row /\ saved.entries \in Seq(Row)
  BY DEF TypeInv, TypeOK, Row
<1>2. \A i \in 1..n : Split(file[i]) = SavedRow(i - 1)
  <2> TAKE i \in 1..n
  <2>1. SavedRow(i - 1) \in Row /\ ColonFree(SavedRow(i - 1))
    BY <1>1 DEF SavedRow, SavedColonFree
  <2> QED BY <2>1, PrintedReads
<1>3. n > 0 => LoadFields(file) = saved.fields
  BY <1>2 DEF LoadFields, SavedRow
<1>4. \A i \in 1..(n - 1) : LoadEntries(file)[i] = saved.entries[i]
  <2> TAKE i \in 1..(n - 1)
  <2>1. LoadEntries(file)[i] = Split(file[i + 1])
    BY DEF LoadEntries
  <2>2. Split(file[i + 1]) = SavedRow(i)
    BY <1>2
  <2> QED BY <2>1, <2>2 DEF SavedRow
<1> QED BY <1>3, <1>4

\* Complete lines that save() wrote read back as a prefix.
LEMMA WrittenReadsPrefix ==
    ASSUME TypeInv, SavedColonFree, NEW file \in Seq(Text),
           Len(file) <= Len(saved.entries) + 1,
           \A i \in 1..Len(file) : file[i] = Printed(SavedRow(i - 1))
    PROVE  ReadsPrefix(file)
<1> DEFINE es == LoadEntries(file)
<1>1. es \in Seq(Row) /\ Len(es) = IF file = <<>> THEN 0 ELSE Len(file) - 1
  BY LoadType
<1>2. Len(file) > 0 => LoadFields(file) = saved.fields
  BY WrittenReads
<1>3. \A i \in 1..(Len(file) - 1) : es[i] = saved.entries[i]
  BY WrittenReads
<1>4. saved.entries \in Seq(Row)
  BY DEF TypeInv, TypeOK
<1> HIDE DEF es
<1>5. CASE file = <<>>
  <2>1. Len(es) = 0 /\ es = <<>>
    BY <1>1, <1>5
  <2> QED BY <1>4, <2>1 DEF ReadsPrefix, es
<1>6. CASE file # <<>>
  <2>1. Len(es) = Len(file) - 1 /\ Len(es) <= Len(saved.entries) /\ Len(file) > 0
    BY <1>1, <1>6
  <2>2. \A i \in 1..Len(es) : es[i] = saved.entries[i]
    BY <1>3, <2>1
  <2>3. es # <<>> => es[Len(es)] = saved.entries[Len(es)] /\ Len(es[Len(es)]) \in Nat
    BY <1>1, <2>2
  <2> QED BY <1>1, <1>2, <2>1, <2>2, <2>3 DEF ReadsPrefix, es
<1> QED BY <1>5, <1>6

\* While save() runs nothing changes what it writes.
LEMMA SourceIsSaved ==
    ASSUME SaveInv, pc = "saving"
    PROVE  /\ SourceRow = SavedRow(row)
           /\ Len(entries) = Len(saved.entries)
BY DEF SaveInv, SourceRow, SavedRow, Table

\* Wherever save() is cut, the file reads back as a prefix.
LEMMA CutReadsPrefix ==
    ASSUME IInv, pc = "saving", SavedColonFree, NEW file \in FilesLeft
    PROVE  ReadsPrefix(file)
<1>1. TypeInv /\ Written /\ row <= Len(saved.entries) + 1 /\ row \in Nat
      /\ disk \in Seq(Text) /\ line \in Seq(Piece) /\ col \in Nat
      /\ saved.fields \in Row /\ saved.entries \in Seq(Row)
  BY SourceIsSaved DEF IInv, SaveInv, TypeInv, TypeOK, Row
<1>2. Len(disk) = row /\ \A i \in 1..row : disk[i] = Printed(SavedRow(i - 1))
  BY <1>1 DEF Written
<1>3. CASE file = disk
  BY <1>1, <1>2, <1>3, WrittenReadsPrefix
<1>4. CASE \E t \in Cuts \ {<<Empty>>} : file = Append(disk, t)
  <2>1. PICK t \in Cuts \ {<<Empty>>} : file = Append(disk, t)
    BY <1>4
  <2>2. t \in Text /\ Len(t) <= Len(line) + 1
    BY <1>1, <2>1, CutsType DEF TypeInv
  <2>3. file \in Seq(Text) /\ Len(file) = row + 1 /\ file[row + 1] = t
        /\ \A i \in 1..row : file[i] = Printed(SavedRow(i - 1))
    BY <1>1, <1>2, <2>1, <2>2
  <2>4. row <= Len(saved.entries)
    <3>1. ~(Len(line) < 1)
      BY <1>1, <2>1, CutOfNothing DEF TypeInv
    <3>2. row > Len(saved.entries) => Len(line) < 1
      BY SourceIsSaved DEF IInv, SaveInv
    <3> QED BY <1>1, <3>1, <3>2
  <2>5. /\ Len(line) = col /\ col <= Len(SavedRow(row))
        /\ SavedRow(row) \in Row /\ Len(SavedRow(row)) >= 1
    BY <1>1, <2>4 DEF Written, SavedRow, Row
  <2>6. Len(Split(t)) <= Len(SavedRow(row)) /\ Split(t) \in Row
    <3>1. Split(t) \in Row /\ Len(Split(t)) <= Len(t)
      BY <2>2, SplitType
    <3>2. Len(t) \in Nat /\ Len(Split(t)) \in Nat /\ Len(SavedRow(row)) \in Nat
      BY <2>2, <2>5, <3>1 DEF Row, Text
    <3>3. CASE Len(t) <= col \/ Len(t) <= 1
      BY <1>1, <2>5, <3>1, <3>2, <3>3
    <3>4. CASE ~(Len(t) <= col \/ Len(t) <= 1)
      <4>1. Len(t) = col + 1 /\ Len(t) > 1
        BY <1>1, <2>2, <2>5, <3>2, <3>4
      <4>2. Last(t) = Empty
        BY <1>1, <2>1, <2>5, <4>1, CutLast DEF TypeInv
      <4>3. Len(Split(t)) = col
        BY <1>1, <2>2, <4>1, <4>2, SplitLen
      <4> QED BY <2>5, <3>1, <4>3
    <3> QED BY <3>3, <3>4
  <2> DEFINE es == LoadEntries(file)
  <2>7. es \in Seq(Row) /\ Len(es) = row
    BY <1>1, <2>3, LoadType
  <2>8. /\ row > 0 => LoadFields(file) = saved.fields
        /\ \A i \in 1..(row - 1) : LoadEntries(file)[i] = saved.entries[i]
    <3>1. row <= Len(file) /\ row <= Len(saved.entries) + 1
      BY <1>1, <2>3
    <3> HIDE DEF es
    <3> QED BY <1>1, <2>3, <3>1, WrittenReads
  <2>9. \A i \in 1..(row - 1) : es[i] = saved.entries[i]
    BY <2>8
  <2>10. row > 0 => es[row] = Split(t)
    BY <1>1, <2>3 DEF LoadEntries
  <2> HIDE DEF es
  <2>11. row > 0 => Len(es[row]) <= Len(saved.entries[row])
    BY <1>1, <2>6, <2>10 DEF SavedRow
  <2>12. es # <<>> => row > 0
    BY <1>1, <2>7
  <2> QED BY <1>1, <2>4, <2>7, <2>8, <2>9, <2>11, <2>12 DEF ReadsPrefix, es
<1> QED BY <1>3, <1>4 DEF FilesLeft

-----------------------------------------------------------------------------
(* The induction: one lemma per way the file and the history can change. *)

\* The file of the first start counts as saved.
LEMMA InitInv == Init => IInv
<1> SUFFICES ASSUME Init PROVE IInv
  OBVIOUS
<1>1. TypeInv
  BY InitType
<1>2. SaveInv /\ Durability /\ TornSaveIsPrefix
  BY DEF Init, SaveInv, Durability, TornSaveIsPrefix, Table
<1> QED BY <1>1, <1>2 DEF IInv

\* Nothing outside save() touches the file.
LEMMA QuietStep ==
    ASSUME IInv, pc # "saving", pc' # "saving",
           UNCHANGED <<disk, line, row, col, saved, intact>>
    PROVE  SaveInv' /\ Durability' /\ TornSaveIsPrefix'
<1>1. SaveInv'
  BY DEF IInv, SaveInv
<1>2. Durability'
  BY DEF IInv, Durability, SavedColonFree
<1>3. TornSaveIsPrefix'
  BY DEF IInv, TornSaveIsPrefix, SavedColonFree, ReadsPrefix
<1> QED BY <1>1, <1>2, <1>3

\* The truncation: an empty file is the prefix of anything.
LEMMA SaveOpenInv ==
    ASSUME IInv, TypeInv', SaveOpen
    PROVE  SaveInv' /\ Durability' /\ TornSaveIsPrefix'
<1>1. /\ pc' = "saving" /\ ~intact' /\ disk' = <<>>
      /\ line' = <<>> /\ row' = 0 /\ col' = 0
      /\ saved' = Table(fields', entries')
  BY DEF SaveOpen, IInv, SaveInv
<1>2. saved'.fields \in Row /\ entries' \in Seq(Row)
  BY DEF TypeInv, TypeOK, Row
<1>3. Written'
  <2>1. Len(disk') = row' /\ Len(line') = col' /\ Len(saved'.entries) \in Nat
    BY <1>1, <1>2 DEF Table
  <2>2. SavedRow(row)' = saved'.fields /\ col' <= Len(saved'.fields)
    BY <1>1, <1>2 DEF SavedRow, Row
  <2> QED BY <1>1, <2>1, <2>2 DEF Written
<1>4. SaveInv'
  BY <1>1, <1>2, <1>3 DEF SaveInv
<1>5. TornSaveIsPrefix'
  <2> SUFFICES ASSUME SavedColonFree' PROVE ReadsPrefix(disk)'
    BY DEF TornSaveIsPrefix
  <2>1. disk' \in Seq(Text)
    BY DEF TypeInv, TypeOK
  <2>2. LoadEntries(disk)' = <<>>
    BY <1>1, <2>1, LoadType, EmptySeq
  <2>3. saved'.entries \in Seq(Row)
    BY DEF TypeInv, TypeOK
  <2> QED BY <2>2, <2>3 DEF ReadsPrefix
<1> QED BY <1>1, <1>4, <1>5 DEF Durability

\* What a step inside save() starts from.
LEMMA SavingFacts ==
    ASSUME IInv, pc = "saving"
    PROVE  /\ saved = Table(fields, entries) /\ ~intact
           /\ row \in Nat /\ col \in Nat /\ row <= Len(saved.entries) + 1
           /\ Len(saved.entries) = Len(entries) /\ SourceRow = SavedRow(row)
           /\ saved.fields \in Row /\ saved.entries \in Seq(Row)
           /\ disk \in Seq(Text) /\ line \in Seq(Piece)
           /\ SavedColonFree => Written
BY SourceIsSaved DEF IInv, SaveInv, TypeInv, TypeOK, Row, Table

\* A step inside save() that leaves complete lines as they are.
LEMMA SaveValueInv ==
    ASSUME IInv, TypeInv', SaveValue
    PROVE  SaveInv' /\ Durability' /\ TornSaveIsPrefix'
<1>1. /\ pc = "saving" /\ pc' = "saving" /\ row <= Len(entries)
      /\ col < Len(SourceRow)
      /\ line' = line \o SourceRow[col + 1] /\ col' = col + 1
      /\ UNCHANGED <<fields, entries, disk, row, saved, intact>>
  BY DEF SaveValue
<1> DEFINE r == SavedRow(row)
<1>2. /\ r \in Row /\ SourceRow = r /\ row \in Nat /\ col \in Nat
      /\ row <= Len(saved.entries)
  BY <1>1, SavingFacts DEF SavedRow
<1>3. SavedColonFree => Written'
  <2> SUFFICES ASSUME SavedColonFree PROVE Written'
    OBVIOUS
  <2>1. Written /\ ColonFree(r)
    BY <1>1, <1>2, SavingFacts DEF SavedColonFree, SavedRow
  <2> HIDE DEF r
  <2>2. r[col + 1][1] \in Piece /\ r[col + 1] = <<r[col + 1][1]>>
    <3>1. r[col + 1] \in Seq(Piece) /\ Len(r[col + 1]) = 1
      BY <1>1, <1>2, <2>1 DEF ColonFree, Row, Text
    <3> QED BY <3>1
  <2>3. line \in Seq(Piece) /\ Len(line) = col /\ \A k \in 1..col : line[k] = r[k][1]
    BY <1>1, <1>2, <2>1, SavingFacts DEF Written, r
  <2>4. /\ Len(line') = col'
        /\ \A k \in 1..col' : line'[k] = r[k][1]
    <3> DEFINE v == r[col + 1][1]
    <3>1. line' = Append(line, v) /\ v \in Piece
      BY <1>1, <1>2, <2>2, <2>3, AppendIsConcat
    <3> HIDE DEF v
    <3>2. Len(line') = col + 1 /\ line'[col + 1] = v
          /\ \A k \in 1..col : line'[k] = line[k]
      BY <1>2, <2>3, <3>1
    <3> QED BY <1>1, <1>2, <2>3, <3>2, SMTT(20) DEF v
  <2>5. col' <= Len(r)
    BY <1>1, <1>2 DEF Row
  <2>6. SavedRow(row)' = r /\ \A i \in 1..row : SavedRow(i - 1)' = SavedRow(i - 1)
    BY <1>1 DEF SavedRow, r
  <2> QED BY <1>1, <1>2, <2>1, <2>4, <2>5, <2>6 DEF Written, r
<1>4. SavedColonFree' <=> SavedColonFree
  BY <1>1 DEF SavedColonFree
<1>5. SaveInv'
  BY <1>1, <1>3, <1>4, SavingFacts DEF SaveInv
<1>6. TornSaveIsPrefix'
  BY <1>1, <1>4 DEF IInv, TornSaveIsPrefix, ReadsPrefix
<1> QED BY <1>1, <1>5, <1>6 DEF Durability

\* A line that is ended reads back as the row it prints.
LEMMA SaveEolInv ==
    ASSUME IInv, TypeInv', SaveEol
    PROVE  SaveInv' /\ Durability' /\ TornSaveIsPrefix'
<1>1. /\ pc = "saving" /\ pc' = "saving" /\ row <= Len(entries)
      /\ col = Len(SourceRow)
      /\ disk' = Append(disk, Append(line, Empty))
      /\ line' = <<>> /\ row' = row + 1 /\ col' = 0
      /\ UNCHANGED <<fields, entries, saved, intact>>
  BY DEF SaveEol
<1> DEFINE r == SavedRow(row)
<1>2. /\ r \in Row /\ SourceRow = r /\ row \in Nat /\ col \in Nat
      /\ row <= Len(saved.entries) /\ saved.entries \in Seq(Row)
      /\ disk \in Seq(Text) /\ line \in Seq(Piece)
  BY <1>1, SavingFacts DEF SavedRow
<1>3. SavedColonFree' <=> SavedColonFree
  BY <1>1 DEF SavedColonFree
<1>4. SavedColonFree =>
         /\ Len(disk') = row'
         /\ \A i \in 1..row' : disk'[i] = Printed(SavedRow(i - 1))
  <2> SUFFICES ASSUME SavedColonFree
               PROVE  /\ Len(disk') = row'
                      /\ \A i \in 1..row' : disk'[i] = Printed(SavedRow(i - 1))
    OBVIOUS
  <2>1. /\ Len(disk) = row /\ \A i \in 1..row : disk[i] = Printed(SavedRow(i - 1))
        /\ Len(line) = col /\ \A k \in 1..col : line[k] = r[k][1]
    BY <1>1, <1>2, SavingFacts DEF Written
  <2>2. ColonFree(r)
    BY <1>1, <1>2 DEF SavedColonFree, SavedRow
  <2> HIDE DEF r
  <2>3. Append(line, Empty) = Printed(r)
    <3>1. Printed(r) \in Seq(Piece) /\ Len(Printed(r)) = Len(r) + 1
      BY <1>2, <2>2, PrintedReads DEF Text
    <3>2. Append(line, Empty) \in Seq(Piece) /\ Len(Append(line, Empty)) = Len(r) + 1
      BY <1>1, <1>2, <2>1, EmptyAssumption
    <3>3. \A k \in 1..(Len(r) + 1) : Append(line, Empty)[k] = Printed(r)[k]
      BY <1>1, <1>2, <2>1 DEF Printed, Row
    <3> QED BY <3>1, <3>2, <3>3, SeqEqual
  <2>4. Append(line, Empty) \in Text
    BY <1>2, LineEndType
  <2>5. /\ disk' \in Seq(Text) /\ Len(disk') = row + 1
        /\ disk'[row + 1] = Printed(SavedRow(row))
        /\ \A i \in 1..row : disk'[i] = Printed(SavedRow(i - 1))
    BY <1>1, <1>2, <2>1, <2>3, <2>4 DEF r
  <2>6. \A i \in 1..(row + 1) : i \in 1..row \/ i = row + 1
    BY <1>2
  <2>7. \A i \in 1..(row + 1) : disk'[i] = Printed(SavedRow(i - 1))
    <3> TAKE i \in 1..(row + 1)
    <3>1. CASE i \in 1..row
      BY <2>5, <3>1
    <3>2. CASE i = row + 1
      <4>1. i - 1 = row
        BY <1>2, <3>2
      <4> QED BY <2>5, <3>2, <4>1
    <3> QED BY <2>6, <3>1, <3>2
  <2> QED BY <1>1, <2>5, <2>7
<1>5. SavedColonFree => Written'
  <2>1. \A i \in 1..row' : SavedRow(i - 1)' = SavedRow(i - 1)
    BY <1>1 DEF SavedRow
  <2>2. row' <= Len(saved'.entries) => SavedRow(row)' \in Row
    BY <1>1, <1>2 DEF SavedRow
  <2>3. Len(line') = col' /\ row' <= Len(saved'.entries) => col' <= Len(SavedRow(row)')
    BY <1>1, <2>2 DEF Row
  <2>4. Len(line') = col'
    BY <1>1
  <2> QED BY <1>1, <1>4, <2>1, <2>3, <2>4 DEF Written
<1>6. SaveInv'
  BY <1>1, <1>2, <1>3, <1>5, SavingFacts DEF SaveInv
<1>7. TornSaveIsPrefix'
  <2> SUFFICES ASSUME SavedColonFree PROVE ReadsPrefix(disk')
    BY <1>1, <1>3 DEF TornSaveIsPrefix, ReadsPrefix
  <2>1. disk' \in Seq(Text) /\ Len(disk') <= Len(saved.entries) + 1
        /\ \A i \in 1..Len(disk') : disk'[i] = Printed(SavedRow(i - 1))
    BY <1>1, <1>2, <1>4 DEF TypeInv, TypeOK
  <2> QED BY <2>1, WrittenReadsPrefix DEF IInv
<1> QED BY <1>1, <1>6, <1>7 DEF Durability

\* The last line written, the file holds the table.
LEMMA SaveCloseInv ==
    ASSUME IInv, TypeInv', SaveClose
    PROVE  SaveInv' /\ Durability' /\ TornSaveIsPrefix'
<1>1. /\ pc = "saving" /\ pc' = "serving" /\ row > Len(entries) /\ intact'
      /\ row' = 0 /\ UNCHANGED <<disk, line, col, saved>>
  BY DEF SaveClose
<1>2. /\ row \in Nat /\ row = Len(saved.entries) + 1 /\ disk \in Seq(Text)
      /\ saved.entries \in Seq(Row) /\ (SavedColonFree => Written)
  BY <1>1, SavingFacts
<1>3. SavedColonFree =>
         LoadFields(disk) = saved.fields /\ LoadEntries(disk) = saved.entries
  <2> SUFFICES ASSUME SavedColonFree
               PROVE  LoadFields(disk) = saved.fields /\ LoadEntries(disk) = saved.entries
    OBVIOUS
  <2>1. Len(disk) = row /\ \A i \in 1..row : disk[i] = Printed(SavedRow(i - 1))
    BY <1>2 DEF Written
  <2>2. /\ LoadFields(disk) = saved.fields
        /\ \A i \in 1..(row - 1) : LoadEntries(disk)[i] = saved.entries[i]
    BY <1>2, <2>1, WrittenReads DEF IInv
  <2>3. LoadEntries(disk) \in Seq(Row) /\ Len(LoadEntries(disk)) = Len(saved.entries)
    BY <1>2, <2>1, LoadType
  <2>4. \A i \in 1..Len(saved.entries) : LoadEntries(disk)[i] = saved.entries[i]
    BY <1>2, <2>2
  <2> QED BY <1>2, <2>2, <2>3, <2>4, SeqEqual
<1>4. SavedColonFree' <=> SavedColonFree
  BY <1>1 DEF SavedColonFree
<1>5. Durability'
  BY <1>1, <1>3, <1>4 DEF Durability
<1>6. line = <<>> /\ col = 0
  BY <1>1 DEF IInv, SaveInv
<1> QED BY <1>1, <1>5, <1>6 DEF SaveInv, TornSaveIsPrefix

\* save() cut short, by a failing write or by the end of the process.
LEMMA CutInv ==
    ASSUME IInv, WriteFails \/ KillInSave
    PROVE  SaveInv' /\ Durability' /\ TornSaveIsPrefix'
<1>1. /\ pc = "saving" /\ pc' # "saving" /\ disk' \in FilesLeft
      /\ line' = <<>> /\ row' = 0 /\ col' = 0 /\ UNCHANGED <<saved, intact>>
  BY DEF WriteFails, KillInSave, Lose
<1>2. SaveInv'
  BY <1>1 DEF SaveInv
<1>3. ~intact' /\ (SavedColonFree' <=> SavedColonFree)
  BY <1>1, SavingFacts DEF SavedColonFree
<1>4. TornSaveIsPrefix'
  <2>1. SavedColonFree => ReadsPrefix(disk')
    BY <1>1, CutReadsPrefix
  <2> QED BY <1>1, <1>3, <2>1 DEF TornSaveIsPrefix, ReadsPrefix
<1> QED BY <1>2, <1>3, <1>4 DEF Durability

\* Every step of the provider keeps the invariant.
LEMMA NextInv == IInv /\ [Next]_vars => IInv'
<1> SUFFICES ASSUME IInv, [Next]_vars PROVE IInv'
  OBVIOUS
<1>1. TypeInv'
  BY NextType DEF IInv
<1>2. CASE Read \/ Stop
  <2>1. pc # "saving" /\ pc' # "saving" /\ UNCHANGED <<disk, line, row, col, saved, intact>>
    BY <1>2 DEF Read, Stop, Lose
  <2> QED BY <1>1, <2>1, QuietStep DEF IInv
<1>3. CASE \E csv \in CsvArgs : Set(<<csv[1]>>, csv)
  <2>1. pc # "saving" /\ pc' # "saving" /\ UNCHANGED <<disk, line, row, col, saved, intact>>
    BY <1>3 DEF Set
  <2> QED BY <1>1, <2>1, QuietStep DEF IInv
<1>4. CASE \E name \in NameArgs :
              \/ \E u \in UpdateArgs : SetField(name, u.field, u.value)
              \/ \E field \in FieldArgs : GetPastEnd(name, field)
              \/ Erase(name)
  <2>1. pc # "saving" /\ pc' # "saving" /\ UNCHANGED <<disk, line, row, col, saved, intact>>
    BY <1>4 DEF SetField, GetPastEnd, Lose, Erase
  <2> QED BY <1>1, <2>1, QuietStep DEF IInv
<1>5. CASE SaveOpen
  BY <1>1, <1>5, SaveOpenInv DEF IInv
<1>6. CASE SaveStep
  BY <1>1, <1>6, SaveValueInv, SaveEolInv, SaveCloseInv DEF IInv, SaveStep
<1>7. CASE WriteFails \/ KillInSave
  BY <1>1, <1>7, CutInv DEF IInv
<1>8. CASE UNCHANGED vars
  <2>1. SaveInv'
    BY <1>8 DEF IInv, SaveInv, vars, Written, SavedRow, SavedColonFree
  <2>2. Durability' /\ TornSaveIsPrefix'
    BY <1>8 DEF IInv, Durability, TornSaveIsPrefix, ReadsPrefix, SavedColonFree, vars
  <2> QED BY <1>1, <2>1, <2>2 DEF IInv
<1> QED BY <1>2, <1>3, <1>4, <1>5, <1>6, <1>7, <1>8 DEF Next

\* A finished commit of colon-free values survives every later call that is
\* not a commit, and every way the process can end: a start reads it back.
THEOREM Durable == Spec => []Durability
<1>1. IInv => Durability
  BY DEF IInv
<1> QED BY InitInv, NextInv, <1>1, PTL DEF Spec

\* What a commit cut short leaves is a prefix of what it was saving.
THEOREM TornSavePrefix == Spec => []TornSaveIsPrefix
<1>1. IInv => TornSaveIsPrefix
  BY DEF IInv
<1> QED BY InitInv, NextInv, <1>1, PTL DEF Spec

-----------------------------------------------------------------------------
(* Names *)

\* set(name, csv_values) keeps the names unique.
LEMMA SetUnique ==
    ASSUME TypeInv, NEW csv \in CsvArgs, Set(<<csv[1]>>, csv), UniqueNames(entries)
    PROVE  UniqueNames(entries')
<1>1. csv \in Text /\ entries \in Seq(Row) /\ Split(csv) \in Row /\ Split(csv)[1] = <<csv[1]>>
  BY ConstantsAssumption, SplitType, SplitName DEF TypeInv, TypeOK
<1>2. ASSUME NEW i \in FirstIndex(Names(entries), <<csv[1]>>),
             entries' = Replaced(entries, i, csv)
      PROVE  UniqueNames(entries')
  <2>1. i \in DOMAIN entries /\ entries[i][1] = <<csv[1]>>
    BY <1>2 DEF FirstIndex, Names
  <2> QED BY <1>1, <1>2, <2>1, UniqueReplaced DEF Replaced
<1>3. CASE Absent(Names(entries), <<csv[1]>>) /\ entries' = Appended(entries, csv)
  BY <1>1, <1>3, UniqueAppended DEF Appended
<1> QED BY <1>2, <1>3 DEF Set

\* set(name, field, value) of another field than the first keeps them.
LEMMA SetFieldUnique ==
    ASSUME TypeInv, NEW name \in NameArgs, NEW u \in UpdateArgs,
           SetField(name, u.field, u.value), u.field # fields[1], UniqueNames(entries)
    PROVE  UniqueNames(entries')
<1>1. u.value \in Text /\ entries \in Seq(Row) /\ fields \in Seq(Text)
  BY ConstantsAssumption DEF TypeInv, TypeOK
<1>2. PICK i \in FirstIndex(Names(entries), name), k \in FirstIndex(fields, u.field) :
          HasColumn(entries[i], k) /\ entries' = ValueSet(entries, i, k, u.value)
  BY DEF SetField
<1>3. i \in DOMAIN entries /\ k \in Nat \ {0, 1}
  BY <1>1, <1>2 DEF FirstIndex, Names
<1> DEFINE r == [entries[i] EXCEPT ![k] = u.value]
<1>4. entries' = [entries EXCEPT ![i] = r]
  BY <1>2 DEF ValueSet
<1>5. entries[i] \in Seq(Text) /\ entries[i] # <<>> /\ k <= Len(entries[i])
  BY <1>1, <1>2, <1>3 DEF HasColumn, Row
<1>6. r \in Row /\ r[1] = entries[i][1]
  BY <1>1, <1>3, <1>5 DEF Row
<1> HIDE DEF r
<1> QED BY <1>1, <1>3, <1>4, <1>6, UniqueReplaced

\* erase(name) keeps the names unique.
LEMMA EraseUnique ==
    ASSUME TypeInv, NEW name \in NameArgs, Erase(name), UniqueNames(entries)
    PROVE  UniqueNames(entries')
<1>1. entries \in Seq(Row)
  BY DEF TypeInv, TypeOK
<1>2. PICK i \in FirstIndex(Names(entries), name) : entries' = Erased(entries, i)
  BY DEF Erase
<1>3. i \in DOMAIN entries
  BY <1>2 DEF FirstIndex, Names
<1> QED BY <1>1, <1>2, <1>3, UniqueErased

\* A step that hides a row behind another of its name is a renaming, or the
\* reading of a file at a start; whoever calls what, in whatever order.
THEOREM NamesStayUnique == Spec => NoNewDuplicates
<1> DEFINE Keeps ==
      UniqueNames(entries) /\ ~UniqueNames(entries)' =>
          \/ pc = "down"
          \/ \E name \in NameArgs, u \in UpdateArgs :
                u.field = fields[1] /\ SetField(name, u.field, u.value)
<1>1. TypeInv /\ [Next]_vars => [Keeps]_vars
  <2> SUFFICES ASSUME TypeInv, Next, UniqueNames(entries), ~UniqueNames(entries)', pc # "down"
               PROVE  \E name \in NameArgs, u \in UpdateArgs :
                         u.field = fields[1] /\ SetField(name, u.field, u.value)
    OBVIOUS
  <2>1. ASSUME NEW csv \in CsvArgs, Set(<<csv[1]>>, csv) PROVE FALSE
    BY <2>1, SetUnique DEF UniqueNames
  <2>2. ASSUME NEW name \in NameArgs, Erase(name) PROVE FALSE
    BY <2>2, EraseUnique DEF UniqueNames
  <2>3. ASSUME entries' = <<>> \/ entries' = entries PROVE FALSE
    BY <2>3 DEF UniqueNames
  <2>4. ASSUME NEW name \in NameArgs, NEW u \in UpdateArgs, SetField(name, u.field, u.value)
        PROVE  u.field = fields[1]
    BY <2>4, SetFieldUnique DEF UniqueNames
  <2>5. ~Read
    BY DEF Read
  <2>6. ~(SaveOpen \/ SaveStep \/ WriteFails \/ Stop \/ KillInSave)
    BY <2>3 DEF SaveOpen, SaveStep, SaveValue, SaveEol, SaveClose, WriteFails, Stop, KillInSave, Lose
  <2>7. ASSUME NEW name \in NameArgs, NEW field \in FieldArgs PROVE ~GetPastEnd(name, field)
    BY <2>3 DEF GetPastEnd, Lose
  <2> QED BY <2>1, <2>2, <2>4, <2>5, <2>6, <2>7 DEF Next
<1> QED BY <1>1, InitType, NextType, PTL DEF Spec, NoNewDuplicates

-----------------------------------------------------------------------------
(* Widths *)

\* Whatever the values hold, the lines that save() has written parse to rows
\* at least as wide as those of the table, and the names to as many as there
\* were: a colon in a value makes its line longer, never shorter.
KeepsWidth ==
    /\ ColonFree(fields) /\ ColonFree(saved.fields)
    /\ pc = "saving" =>
          /\ Len(disk) = row
          /\ \A i \in 1..row : Len(Split(disk[i])) >= Len(SavedRow(i - 1))
          /\ row > 0 => Len(Split(disk[1])) = Len(saved.fields)
          /\ row <= Len(saved.entries) => Len(line) >= col /\ (row = 0 => Len(line) = col)
    /\ pc # "saving" /\ intact /\ Wide(saved.fields, saved.entries) =>
          Wide(LoadFields(disk), LoadEntries(disk))

\* The values that a parse finds hold no colon.
LEMMA SplitColonFree ==
    ASSUME NEW t \in Text
    PROVE  ColonFree(Split(t))
BY DEF Split, ColonFree

\* The names of the fields that read() finds hold none either.
LEMMA FieldsColonFree ==
    ASSUME NEW file \in Seq(Text)
    PROVE  ColonFree(LoadFields(file))
<1>1. CASE file = <<>>
  BY <1>1 DEF LoadFields, ColonFree
<1>2. CASE file # <<>>
  BY <1>2, SplitColonFree DEF LoadFields
<1> QED BY <1>1, <1>2

\* A call leaves the names of the fields and the file as they are, and a
\* start takes the names from the file.
LEMMA QuietWidth ==
    ASSUME TypeInv, KeepsWidth, pc # "saving", pc' # "saving",
           UNCHANGED <<disk, saved, intact>>,
           fields' \in {fields, <<>>, LoadFields(disk)}
    PROVE  KeepsWidth'
<1>1. ColonFree(fields')
  <2>1. ColonFree(LoadFields(disk))
    BY FieldsColonFree DEF TypeInv, TypeOK
  <2>2. ColonFree(<<>>)
    BY DEF ColonFree
  <2> QED BY <2>1, <2>2 DEF KeepsWidth
<1> QED BY <1>1 DEF KeepsWidth

\* The truncated file has no line yet.
LEMMA SaveOpenWidth ==
    ASSUME IInv, KeepsWidth, SaveOpen
    PROVE  KeepsWidth'
<1>1. /\ pc' = "saving" /\ disk' = <<>> /\ line' = <<>> /\ row' = 0 /\ col' = 0
      /\ fields' = fields /\ saved'.fields = fields
  BY DEF SaveOpen, IInv, SaveInv, Table
<1> QED BY <1>1 DEF KeepsWidth

\* A value adds at least one piece to its line, the name of a field just one.
LEMMA SaveValueWidth ==
    ASSUME IInv, KeepsWidth, SaveValue
    PROVE  KeepsWidth'
<1>1. /\ pc = "saving" /\ pc' = "saving" /\ row <= Len(entries) /\ col < Len(SourceRow)
      /\ line' = line \o SourceRow[col + 1] /\ col' = col + 1
      /\ UNCHANGED <<fields, disk, row, saved, intact>>
  BY DEF SaveValue
<1>2. /\ SavedRow(row) \in Row /\ SourceRow = SavedRow(row) /\ row \in Nat /\ col \in Nat
      /\ line \in Seq(Piece) /\ row <= Len(saved.entries)
  BY <1>1, SavingFacts DEF SavedRow
<1>3. SourceRow[col + 1] \in Seq(Piece) /\ Len(SourceRow[col + 1]) >= 1
      /\ Len(SourceRow[col + 1]) \in Nat
  BY <1>1, <1>2 DEF Row, Text
<1>4. row = 0 => Len(SourceRow[col + 1]) = 1
  BY <1>1, <1>2 DEF KeepsWidth, ColonFree, SavedRow, Row
<1>5. Len(line') = Len(line) + Len(SourceRow[col + 1])
  BY <1>1, <1>2, <1>3
<1>6. Len(line) >= col /\ (row = 0 => Len(line) = col) /\ Len(line) \in Nat
  BY <1>1, <1>2 DEF KeepsWidth
<1>7. Len(line') >= col' /\ (row' = 0 => Len(line') = col')
  <2>1. col' = col + 1 /\ row' = row /\ col \in Nat
    BY <1>1, <1>2
  <2> DEFINE n == Len(line)
             k == Len(SourceRow[col + 1])
  <2>2. /\ n \in Nat /\ k \in Nat /\ k >= 1 /\ n >= col /\ Len(line') = n + k
        /\ row = 0 => n = col /\ k = 1
    BY <1>3, <1>4, <1>5, <1>6
  <2> HIDE DEF n, k
  <2>3. n + k >= col + 1 /\ (row = 0 => n + k = col + 1)
    BY <2>1, <2>2
  <2> QED BY <2>1, <2>2, <2>3
<1>8. \A i \in 1..row : SavedRow(i - 1)' = SavedRow(i - 1)
  BY <1>1 DEF SavedRow
<1> QED BY <1>1, <1>7, <1>8 DEF KeepsWidth

\* The colon that ends a line keeps its last value.
LEMMA SaveEolWidth ==
    ASSUME IInv, KeepsWidth, SaveEol
    PROVE  KeepsWidth'
<1> DEFINE t == Append(line, Empty)
<1>1. /\ pc = "saving" /\ pc' = "saving" /\ row <= Len(entries) /\ col = Len(SourceRow)
      /\ disk' = Append(disk, t) /\ line' = <<>> /\ row' = row + 1 /\ col' = 0
      /\ UNCHANGED <<fields, saved, intact>>
  BY DEF SaveEol
<1>2. /\ SavedRow(row) \in Row /\ SourceRow = SavedRow(row) /\ row \in Nat /\ col \in Nat
      /\ line \in Seq(Piece) /\ disk \in Seq(Text) /\ row <= Len(saved.entries)
  BY <1>1, SavingFacts DEF SavedRow
<1>3. /\ Len(disk) = row /\ Len(line) >= col /\ (row = 0 => Len(line) = col)
      /\ \A i \in 1..row : Len(Split(disk[i])) >= Len(SavedRow(i - 1))
      /\ row > 0 => Len(Split(disk[1])) = Len(saved.fields)
  BY <1>1, <1>2 DEF KeepsWidth
<1>4. col >= 1
  BY <1>1, <1>2 DEF Row
<1>5. t \in Text /\ Len(t) = Len(line) + 1 /\ Last(t) = Empty /\ Len(line) \in Nat
  BY <1>2, LineEndType DEF Last
<1>6. Len(Split(t)) = Len(line)
  <2> HIDE DEF t
  <2>1. Len(t) > 1
    BY <1>2, <1>3, <1>4, <1>5
  <2> QED BY <1>5, <2>1, SplitLen
<1> HIDE DEF t
<1>7. /\ Len(disk') = row + 1 /\ disk'[row + 1] = t
      /\ \A i \in 1..row : disk'[i] = disk[i]
  BY <1>1, <1>2, <1>3, <1>5
<1>8. ASSUME NEW i \in 1..(row + 1)
      PROVE  Len(Split(disk'[i])) >= Len(SavedRow(i - 1))
  <2>1. CASE i \in 1..row
    BY <1>3, <1>7, <2>1
  <2>2. CASE i = row + 1
    <3>1. i - 1 = row
      BY <1>2, <2>2
    <3> QED BY <1>1, <1>2, <1>3, <1>6, <1>7, <2>2, <3>1
  <2> QED BY <1>2, <2>1, <2>2
<1>9. Len(Split(disk'[1])) = Len(saved.fields)
  <2>1. CASE row = 0
    BY <1>1, <1>2, <1>3, <1>6, <1>7, <2>1 DEF SavedRow
  <2>2. CASE row > 0
    BY <1>2, <1>3, <1>7, <2>2
  <2> QED BY <1>2, <2>1, <2>2
<1>10. \A i \in 1..row' : Len(Split(disk'[i])) >= Len(SavedRow(i - 1)')
  BY <1>1, <1>8 DEF SavedRow
<1>11. Len(line') >= col' /\ (row' = 0 => Len(line') = col')
  BY <1>1
<1>12. Len(disk') = row' /\ Len(Split(disk'[1])) = Len(saved'.fields)
  BY <1>1, <1>7, <1>9
<1>13. ColonFree(fields') /\ ColonFree(saved'.fields) /\ pc' = "saving"
  BY <1>1 DEF KeepsWidth
<1> QED BY <1>10, <1>11, <1>12, <1>13 DEF KeepsWidth

\* The file of a wide table reads back as one.
LEMMA SaveCloseWidth ==
    ASSUME IInv, KeepsWidth, SaveClose
    PROVE  KeepsWidth'
<1>1. /\ pc = "saving" /\ pc' = "serving" /\ row > Len(entries)
      /\ UNCHANGED <<fields, disk, saved>>
  BY DEF SaveClose
<1>2. /\ row \in Nat /\ row = Len(saved.entries) + 1 /\ disk \in Seq(Text)
      /\ saved.entries \in Seq(Row) /\ saved.fields \in Row
  BY <1>1, SavingFacts
<1>3. /\ Len(disk) = row /\ row > 0
      /\ \A i \in 1..row : Len(Split(disk[i])) >= Len(SavedRow(i - 1))
      /\ Len(Split(disk[1])) = Len(saved.fields)
  BY <1>1, <1>2 DEF KeepsWidth
<1>4. LoadFields(disk) = Split(disk[1]) /\ Len(LoadEntries(disk)) = Len(saved.entries)
  BY <1>2, <1>3, LoadType DEF LoadFields
<1>5. ASSUME Wide(saved.fields, saved.entries), NEW i \in DOMAIN LoadEntries(disk)
      PROVE  Len(LoadEntries(disk)[i]) >= Len(LoadFields(disk))
  <2>1. i \in 1..Len(saved.entries) /\ i + 1 \in 1..row /\ (i + 1) - 1 = i /\ i # 0
    BY <1>2, <1>3, <1>4, LoadType DEF LoadEntries
  <2>2. LoadEntries(disk)[i] = Split(disk[i + 1])
    BY <1>3, <2>1, <1>2 DEF LoadEntries
  <2>3. Len(Split(disk[i + 1])) >= Len(saved.entries[i])
    <3>1. SavedRow((i + 1) - 1) = saved.entries[i]
      BY <2>1 DEF SavedRow
    <3> QED BY <1>3, <2>1, <3>1
  <2>4. Len(saved.entries[i]) >= Len(saved.fields)
    BY <1>2, <1>5, <2>1 DEF Wide
  <2>5. /\ Len(Split(disk[i + 1])) \in Nat /\ Len(saved.entries[i]) \in Nat
        /\ Len(saved.fields) \in Nat
    <3>1. Split(disk[i + 1]) \in Row
      <4>1. disk[i + 1] \in Text
        BY <1>2, <1>3, <2>1
      <4> QED BY <4>1, SplitType
    <3> QED BY <1>2, <2>1, <3>1, SMTT(20) DEF Row
  <2> QED BY <1>3, <1>4, <2>2, <2>3, <2>4, <2>5
<1>6. Wide(saved.fields, saved.entries) => Wide(LoadFields(disk), LoadEntries(disk))
  BY <1>5 DEF Wide
<1> QED BY <1>1, <1>6 DEF KeepsWidth

\* A save that is cut is not intact.
LEMMA CutWidth ==
    ASSUME IInv, KeepsWidth, WriteFails \/ KillInSave
    PROVE  KeepsWidth'
<1>1. /\ pc = "saving" /\ pc' # "saving" /\ ~intact' /\ saved' = saved
      /\ fields' \in {fields, <<>>}
  BY SavingFacts DEF WriteFails, KillInSave, Lose
<1> QED BY <1>1 DEF KeepsWidth, ColonFree

\* Every step keeps what is known of the widths.
LEMMA NextWidth == IInv /\ KeepsWidth /\ [Next]_vars => KeepsWidth'
<1> SUFFICES ASSUME IInv, KeepsWidth, [Next]_vars PROVE KeepsWidth'
  OBVIOUS
<1>1. TypeInv
  BY DEF IInv
<1>2. CASE Read \/ Stop
  BY <1>1, <1>2, QuietWidth DEF Read, Stop, Lose
<1>3. CASE \E csv \in CsvArgs : Set(<<csv[1]>>, csv)
  BY <1>1, <1>3, QuietWidth DEF Set
<1>4. CASE \E name \in NameArgs :
              \/ \E u \in UpdateArgs : SetField(name, u.field, u.value)
              \/ \E field \in FieldArgs : GetPastEnd(name, field)
              \/ Erase(name)
  BY <1>1, <1>4, QuietWidth DEF SetField, GetPastEnd, Lose, Erase
<1>5. CASE SaveOpen \/ SaveStep
  BY <1>5, SaveOpenWidth, SaveValueWidth, SaveEolWidth, SaveCloseWidth DEF SaveStep
<1>6. CASE WriteFails \/ KillInSave
  BY <1>6, CutWidth
<1>7. CASE UNCHANGED vars
  BY <1>7 DEF vars, KeepsWidth, SavedRow
<1> QED BY <1>2, <1>3, <1>4, <1>5, <1>6, <1>7 DEF Next

\* What the first start finds counts as saved, wide or not.
LEMMA InitWidth == Init => KeepsWidth
<1> SUFFICES ASSUME Init PROVE KeepsWidth
  OBVIOUS
<1>1. disk \in Seq(Text) /\ fields = <<>> /\ pc = "down"
      /\ saved.fields = LoadFields(disk) /\ saved.entries = LoadEntries(disk)
  BY ConstantsAssumption DEF Init, Table
<1>2. ColonFree(saved.fields) /\ ColonFree(fields)
  BY <1>1, FieldsColonFree DEF ColonFree
<1> QED BY <1>1, <1>2 DEF KeepsWidth

\* set(name, csv_values) shortens a row only by values it was not given.
LEMMA SetWidth ==
    ASSUME TypeInv, NEW csv \in CsvArgs, Set(<<csv[1]>>, csv),
           Wide(fields, entries), ~(Len(Split(csv)) < Len(fields))
    PROVE  Wide(fields', entries')
<1>1. csv \in Text /\ entries \in Seq(Row) /\ fields' = fields /\ fields \in Seq(Text)
      /\ Split(csv) \in Row /\ Len(Split(csv)) >= Len(fields)
  <2>1. csv \in Text /\ entries \in Seq(Row) /\ fields' = fields /\ fields \in Seq(Text)
    BY ConstantsAssumption DEF TypeInv, TypeOK, Set
  <2>2. Split(csv) \in Row
    BY <2>1, SplitType
  <2>3. Len(Split(csv)) \in Nat /\ Len(fields) \in Nat
    BY <2>1, <2>2 DEF Row
  <2> QED BY <2>1, <2>2, <2>3
<1>2. ASSUME NEW i \in FirstIndex(Names(entries), <<csv[1]>>),
             entries' = Replaced(entries, i, csv)
      PROVE  Wide(fields', entries')
  BY <1>1, <1>2 DEF Replaced, Wide
<1>3. CASE entries' = Appended(entries, csv)
  BY <1>1, <1>3 DEF Appended, Wide
<1> QED BY <1>2, <1>3 DEF Set

\* set(name, field, value) shortens no row.
LEMMA SetFieldWidth ==
    ASSUME TypeInv, NEW name \in NameArgs, NEW u \in UpdateArgs,
           SetField(name, u.field, u.value), Wide(fields, entries)
    PROVE  Wide(fields', entries')
<1>1. entries \in Seq(Row) /\ fields' = fields
  BY DEF TypeInv, TypeOK, SetField
<1>2. PICK i \in FirstIndex(Names(entries), name), k \in FirstIndex(fields, u.field) :
          entries' = ValueSet(entries, i, k, u.value)
  BY DEF SetField
<1>3. i \in DOMAIN entries /\ entries[i] \in Row
  BY <1>1, <1>2 DEF FirstIndex, Names
<1> DEFINE r == [entries[i] EXCEPT ![k] = u.value]
<1>4. Len(r) = Len(entries[i])
  BY <1>3 DEF Row
<1>5. entries' = [entries EXCEPT ![i] = r]
  BY <1>2 DEF ValueSet
<1> HIDE DEF r
<1> QED BY <1>1, <1>3, <1>4, <1>5 DEF Wide

\* erase(name) shortens no row.
LEMMA EraseWidth ==
    ASSUME TypeInv, NEW name \in NameArgs, Erase(name), Wide(fields, entries)
    PROVE  Wide(fields', entries')
<1>1. entries \in Seq(Row) /\ fields' = fields
  BY DEF TypeInv, TypeOK, Erase
<1>2. PICK i \in FirstIndex(Names(entries), name) : entries' = Erased(entries, i)
  BY DEF Erase
<1>3. i \in DOMAIN entries
  BY <1>2 DEF FirstIndex, Names
<1>4. \A j \in DOMAIN Erased(entries, i) : \E k \in DOMAIN entries :
          Erased(entries, i)[j] = entries[k]
  <2> TAKE j \in DOMAIN Erased(entries, i)
  <2>1. j \in 1..(Len(entries) - 1)
    BY <1>1, <1>3, ErasedRows
  <2>2. Erased(entries, i)[j] = entries[IF j < i THEN j ELSE j + 1]
    BY <1>1, <1>3, <2>1, ErasedRows
  <2>3. (IF j < i THEN j ELSE j + 1) \in DOMAIN entries
    BY <1>1, <1>3, <2>1
  <2> QED BY <2>2, <2>3
<1> QED BY <1>1, <1>2, <1>4 DEF Wide

\* A row comes to lack a column only by a set() that gave it too few values,
\* or by the reading of a file that was short or was cut; a commit and a
\* restart alone shorten none, whatever the values hold.
THEOREM WidthsStay == Spec => RowsStayWide
<1> DEFINE Keeps ==
      Wide(fields, entries) /\ ~Wide(fields, entries)' =>
          \/ \E csv \in CsvArgs :
                Len(Split(csv)) < Len(fields) /\ Set(<<csv[1]>>, csv)
          \/ Read /\ (~intact \/ ~Wide(saved.fields, saved.entries))
<1>1. IInv /\ KeepsWidth /\ [Next]_vars => [Keeps]_vars
  <2> SUFFICES ASSUME IInv, KeepsWidth, Next, Wide(fields, entries), ~Wide(fields', entries')
               PROVE  Keeps
    BY DEF Wide
  <2>1. TypeInv
    BY DEF IInv
  <2>2. ASSUME NEW csv \in CsvArgs, Set(<<csv[1]>>, csv) PROVE Len(Split(csv)) < Len(fields)
    BY <2>1, <2>2, SetWidth
  <2>3. ASSUME NEW name \in NameArgs
        PROVE  ~Erase(name) /\ \A u \in UpdateArgs : ~SetField(name, u.field, u.value)
    BY <2>1, <2>3, SetFieldWidth, EraseWidth
  <2>4. ASSUME Read PROVE ~intact \/ ~Wide(saved.fields, saved.entries)
    BY <2>4 DEF Read, KeepsWidth
  <2>5. ASSUME entries' = <<>> \/ (fields' = fields /\ entries' = entries) PROVE FALSE
    BY <2>5 DEF Wide
  <2>6. ~(SaveOpen \/ SaveStep \/ WriteFails \/ Stop \/ KillInSave)
    BY <2>5 DEF SaveOpen, SaveStep, SaveValue, SaveEol, SaveClose, WriteFails, Stop, KillInSave, Lose
  <2>7. ASSUME NEW name \in NameArgs, NEW field \in FieldArgs PROVE ~GetPastEnd(name, field)
    BY <2>5 DEF GetPastEnd, Lose
  <2> QED BY <2>2, <2>3, <2>4, <2>6, <2>7 DEF Next
<1> QED BY <1>1, InitInv, NextInv, InitWidth, NextWidth, PTL DEF Spec, RowsStayWide

-----------------------------------------------------------------------------
(* A commit *)

\* The lines before the one save() is at are the rows as asString prints them,
\* and that line is the part of it the values before col are printed to.
PrintedSoFar ==
    /\ Len(disk) = row
    /\ \A i \in 1..row : disk[i] = AsString(SavedRow(i - 1))
    /\ row <= Len(saved.entries) =>
          col <= Len(SavedRow(row)) /\ line = FlattenSeq(SubSeq(SavedRow(row), 1, col))

\* Once save() has written everything, a start finds the table it printed.
FileIsReread ==
    pc # "saving" /\ intact =>
        /\ LoadFields(disk) = Split(AsString(saved.fields))
        /\ LoadEntries(disk) = Reread(saved.entries)

CommitInv == (pc = "saving" => PrintedSoFar) /\ FileIsReread

LEMMA InitCommit == Init => CommitInv
<1> SUFFICES ASSUME Init PROVE CommitInv
  OBVIOUS
<1>1. disk \in Seq(Text) /\ pc = "down"
      /\ saved.fields = LoadFields(disk) /\ saved.entries = LoadEntries(disk)
  BY ConstantsAssumption DEF Init, Table
<1>2. saved.fields \in Row /\ ColonFree(saved.fields)
  BY <1>1, LoadType, FieldsColonFree
<1>3. ASSUME NEW i \in DOMAIN saved.entries
      PROVE  Split(AsString(saved.entries[i])) = saved.entries[i]
  <2>1. saved.entries \in Seq(Row) /\ i \in 1..(Len(disk) - 1)
    BY <1>1, <1>3, LoadType DEF LoadEntries
  <2>2. disk[i + 1] \in Text /\ saved.entries[i] = Split(disk[i + 1])
    BY <1>1, <2>1 DEF LoadEntries
  <2> QED BY <2>2, SplitColonFree, SplitType, PrintedParses
<1>4. saved.entries = [i \in DOMAIN saved.entries |-> saved.entries[i]]
  BY <1>1, LoadType
<1>5. Reread(saved.entries) = saved.entries
  BY <1>3, <1>4 DEF Reread
<1> QED BY <1>1, <1>2, <1>5, PrintedParses DEF CommitInv, FileIsReread

LEMMA SaveOpenCommit ==
    ASSUME IInv, SaveOpen
    PROVE  CommitInv'
<1>1. /\ pc' = "saving" /\ disk' = <<>> /\ line' = <<>> /\ row' = 0 /\ col' = 0
      /\ saved'.fields = fields /\ pc = "serving"
  BY DEF SaveOpen, IInv, SaveInv, Table
<1>2. SavedRow(row)' = fields
  BY <1>1 DEF SavedRow
<1>3. fields \in Row
  BY <1>1 DEF IInv, TypeInv, TypeOK, Row
<1>4. Len(fields) \in Nat /\ SubSeq(fields, 1, 0) = <<>>
  BY <1>3, SubSeqEmpty DEF Row
<1>5. FlattenSeq(<<>>) = <<>>
  BY DEF FlattenSeq
<1>6. col' <= Len(SavedRow(row)') /\ line' = FlattenSeq(SubSeq(SavedRow(row)', 1, col'))
  <2>1. 0 <= Len(fields)
    BY <1>4
  <2>2. SubSeq(SavedRow(row)', 1, col') = <<>>
    BY <1>1, <1>2, <1>4
  <2> QED BY <1>1, <1>2, <1>5, <2>1, <2>2
<1>7. Len(disk') = row' /\ 1..row' = {}
  BY <1>1
<1>8. PrintedSoFar'
  BY <1>6, <1>7 DEF PrintedSoFar
<1> QED BY <1>1, <1>8 DEF CommitInv, FileIsReread

LEMMA SaveValueCommit ==
    ASSUME IInv, CommitInv, SaveValue
    PROVE  CommitInv'
<1>1. /\ pc = "saving" /\ pc' = "saving" /\ row <= Len(entries) /\ col < Len(SourceRow)
      /\ line' = line \o SourceRow[col + 1] /\ col' = col + 1
      /\ UNCHANGED <<disk, row, saved>>
  BY DEF SaveValue
<1>2. /\ SavedRow(row) \in Row /\ SourceRow = SavedRow(row) /\ row \in Nat /\ col \in Nat
      /\ row <= Len(saved.entries)
  BY <1>1, SavingFacts DEF SavedRow
<1> DEFINE r == SavedRow(row)
<1>3. r \in Seq(Seq(Piece)) /\ col + 1 \in 1..Len(r) /\ (col + 1) - 1 = col
  BY <1>1, <1>2 DEF Row, Text
<1>4. line = FlattenSeq(SubSeq(r, 1, col))
  BY <1>1, <1>2 DEF CommitInv, PrintedSoFar
<1> HIDE DEF r
<1>5. FlattenSeq(SubSeq(r, 1, col + 1)) = FlattenSeq(SubSeq(r, 1, col)) \o r[col + 1]
  BY <1>3, FlattenPrefix
<1>6. line' = FlattenSeq(SubSeq(r, 1, col'))
  BY <1>1, <1>2, <1>4, <1>5 DEF r
<1>7. \A i \in Nat : SavedRow(i)' = SavedRow(i)
  BY <1>1 DEF SavedRow
<1>8. SavedRow(row)' = r /\ col' <= Len(r)
  BY <1>1, <1>2, <1>3, <1>7 DEF r, SavedRow
<1>9. \A i \in 1..row : i - 1 \in Nat
  BY <1>2
<1>10. \A i \in 1..row' : disk'[i] = AsString(SavedRow(i - 1)')
  BY <1>1, <1>7, <1>9 DEF CommitInv, PrintedSoFar
<1> QED BY <1>1, <1>6, <1>8, <1>10 DEF CommitInv, PrintedSoFar, FileIsReread

LEMMA SaveEolCommit ==
    ASSUME IInv, CommitInv, SaveEol
    PROVE  CommitInv'
<1> DEFINE t == Append(line, Empty)
<1>1. /\ pc = "saving" /\ pc' = "saving" /\ row <= Len(entries) /\ col = Len(SourceRow)
      /\ disk' = Append(disk, t) /\ line' = <<>> /\ row' = row + 1 /\ col' = 0
      /\ UNCHANGED <<entries, saved>>
  BY DEF SaveEol
<1>2. /\ SavedRow(row) \in Row /\ SourceRow = SavedRow(row) /\ row \in Nat
      /\ line \in Seq(Piece) /\ disk \in Seq(Text) /\ row <= Len(saved.entries)
      /\ saved.entries \in Seq(Row)
  BY <1>1, SavingFacts DEF SavedRow
<1>3. t \in Text
  BY <1>2, LineEndType
<1>4. t = AsString(SavedRow(row))
  <2>1. line = FlattenSeq(SubSeq(SavedRow(row), 1, Len(SavedRow(row))))
    BY <1>1, <1>2 DEF CommitInv, PrintedSoFar
  <2>2. SubSeq(SavedRow(row), 1, Len(SavedRow(row))) = SavedRow(row)
    BY <1>2, SubSeqFull DEF Row
  <2> QED BY <2>1, <2>2 DEF AsString
<1> HIDE DEF t
<1>5. Len(disk) = row /\ \A i \in 1..row : disk[i] = AsString(SavedRow(i - 1))
  BY <1>1 DEF CommitInv, PrintedSoFar
<1>6. Len(disk') = row' /\ disk'[row + 1] = t /\ \A i \in 1..row : disk'[i] = disk[i]
  BY <1>1, <1>2, <1>3, <1>5
<1>7. ASSUME NEW i \in 1..row'
      PROVE  disk'[i] = AsString(SavedRow(i - 1)')
  <2>1. SavedRow(i - 1)' = SavedRow(i - 1)
    BY <1>1 DEF SavedRow
  <2>2. CASE i \in 1..row
    BY <1>5, <1>6, <2>1, <2>2
  <2>3. CASE i = row + 1
    <3>1. i - 1 = row
      BY <1>2, <2>3
    <3> QED BY <1>4, <1>6, <2>1, <2>3, <3>1
  <2>4. row' = row + 1 /\ row \in Nat
    BY <1>1, <1>2
  <2>5. i \in 1..row \/ i = row + 1
    BY <2>4
  <2> QED BY <2>2, <2>3, <2>5
<1>8. ASSUME row' <= Len(saved'.entries)
      PROVE  col' <= Len(SavedRow(row)') /\ line' = FlattenSeq(SubSeq(SavedRow(row)', 1, col'))
  <2>1. SavedRow(row)' = saved.entries[row + 1] /\ row + 1 \in 1..Len(saved.entries)
    BY <1>1, <1>2, <1>8 DEF SavedRow
  <2>2. SavedRow(row)' \in Row
    BY <1>2, <2>1
  <2>3. Len(SavedRow(row)') \in Nat /\ SubSeq(SavedRow(row)', 1, 0) = <<>>
    BY <2>2, SubSeqEmpty DEF Row
  <2>4. FlattenSeq(<<>>) = <<>>
    BY DEF FlattenSeq
  <2>5. line' = <<>> /\ col' = 0
    BY <1>1
  <2>6. 0 <= Len(SavedRow(row)')
    BY <2>3
  <2> QED BY <2>3, <2>4, <2>5, <2>6
<1> QED BY <1>1, <1>6, <1>7, <1>8 DEF CommitInv, PrintedSoFar, FileIsReread

LEMMA SaveCloseCommit ==
    ASSUME IInv, CommitInv, SaveClose
    PROVE  CommitInv'
<1>1. /\ pc = "saving" /\ pc' = "serving" /\ row > Len(entries)
      /\ UNCHANGED <<disk, saved>>
  BY DEF SaveClose
<1>2. /\ row \in Nat /\ row = Len(saved.entries) + 1 /\ disk \in Seq(Text)
      /\ saved.entries \in Seq(Row) /\ saved.fields \in Row
  BY <1>1, SavingFacts
<1>3. Len(disk) = row /\ row > 0 /\ \A i \in 1..row : disk[i] = AsString(SavedRow(i - 1))
  BY <1>1, <1>2 DEF CommitInv, PrintedSoFar
<1>4. disk[1] = AsString(saved.fields)
  <2>1. 1 \in 1..row /\ 1 - 1 = 0
    BY <1>2
  <2> QED BY <1>3, <2>1 DEF SavedRow
<1>5. LoadFields(disk) = Split(AsString(saved.fields))
  BY <1>2, <1>3, <1>4 DEF LoadFields
<1>6. ASSUME NEW i \in 1..Len(saved.entries)
      PROVE  disk[i + 1] = AsString(saved.entries[i])
  <2>1. i + 1 \in 1..row /\ (i + 1) - 1 = i /\ i # 0
    BY <1>2
  <2> QED BY <1>3, <2>1 DEF SavedRow
<1>7. Len(disk) - 1 = Len(saved.entries) /\ DOMAIN saved.entries = 1..Len(saved.entries)
  BY <1>2, <1>3
<1>8. LoadEntries(disk) = Reread(saved.entries)
  BY <1>6, <1>7 DEF LoadEntries, Reread
<1> QED BY <1>1, <1>5, <1>8 DEF CommitInv, FileIsReread

LEMMA NextCommit == IInv /\ CommitInv /\ [Next]_vars => CommitInv'
<1> SUFFICES ASSUME IInv, CommitInv, [Next]_vars PROVE CommitInv'
  OBVIOUS
<1>1. ASSUME pc # "saving", pc' # "saving", UNCHANGED <<disk, saved, intact>>
      PROVE  CommitInv'
  BY <1>1 DEF CommitInv, FileIsReread
<1>2. CASE Read \/ Stop
  BY <1>1, <1>2 DEF Read, Stop, Lose
<1>3. CASE \E csv \in CsvArgs : Set(<<csv[1]>>, csv)
  BY <1>1, <1>3 DEF Set
<1>4. CASE \E name \in NameArgs :
              \/ \E u \in UpdateArgs : SetField(name, u.field, u.value)
              \/ \E field \in FieldArgs : GetPastEnd(name, field)
              \/ Erase(name)
  BY <1>1, <1>4 DEF SetField, GetPastEnd, Lose, Erase
<1>5. CASE SaveOpen \/ SaveStep
  BY <1>5, SaveOpenCommit, SaveValueCommit, SaveEolCommit, SaveCloseCommit DEF SaveStep
<1>6. CASE WriteFails \/ KillInSave
  BY <1>6, SavingFacts DEF WriteFails, KillInSave, Lose, CommitInv, FileIsReread
<1>7. CASE UNCHANGED vars
  BY <1>7 DEF vars, CommitInv, PrintedSoFar, FileIsReread, SavedRow
<1> QED BY <1>2, <1>3, <1>4, <1>5, <1>6, <1>7 DEF Next

\* A commit is one step: whatever the values hold, colons or not, and however
\* many writes save() makes of them, a start after one that was not cut finds
\* what a parse makes of the table as it was when save() was called. It is the
\* step the data server's commit takes.
THEOREM CommitIsOneStep == Spec => []FileIsReread
<1>1. CommitInv => FileIsReread
  BY DEF CommitInv
<1>2. Spec => []IInv
  BY InitInv, NextInv, PTL DEF Spec
<1> QED BY InitCommit, NextCommit, <1>1, <1>2, PTL DEF Spec
=============================================================================
