----------------------------- MODULE TextTable -----------------------------
(***************************************************************************)
(* The in-memory table of DataProvider/DBTextFile/src/DBTextFile.cpp: the  *)
(* lookups every operation starts from and what an operation leaves in     *)
(* entries_.  A table is a sequence of rows; the name of a row is its      *)
(* value 0.                                                                *)
(***************************************************************************)
EXTENDS Entry

Names(es) == [i \in DOMAIN es |-> es[i][1]]

\* std::find and std::find_if: the first position of x in s, as a set of at
\* most one index (empty when the search ends at end()).
FirstIndex(s, x) ==
    {i \in DOMAIN s : s[i] = x /\ \A j \in 1..(i - 1) : s[j] # x}

Absent(s, x) == \A i \in DOMAIN s : s[i] # x

\* set(name, csv_values): replace the first row of that name, else append.
Replaced(es, i, line) == [es EXCEPT ![i] = Split(line)]
Appended(es, line) == Append(es, Split(line))

\* set(name, field, value): Entry::setValue refuses a column the row lacks.
HasColumn(row, col) == col <= Len(row)
ValueSet(es, i, col, value) == [es EXCEPT ![i][col] = value]

\* Mutant: the value removed from the row, not the row from the table.
ErasedInRow(es, i) ==
    IF Len(es[i]) > 1 THEN [es EXCEPT ![i] = Tail(es[i])] ELSE RemoveAt(es, i)

\* Mutant: the name removed from the row.
ErasedName(es, i) == [es EXCEPT ![i] = Tail(es[i])]

\* erase(name): only the first row of that name.
Erased(es, i) == RemoveAt(es, i)

\* What read() makes of the rows save() wrote.
Reread(es) == [i \in DOMAIN es |-> Split(AsString(es[i]))]

\* No two rows share a name, so that find_if reaches every row.
UniqueNames(es) == \A i, j \in DOMAIN es : es[i][1] = es[j][1] => i = j
=============================================================================
