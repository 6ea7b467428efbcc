----------------------------- MODULE DBTextFile -----------------------------
(***************************************************************************)
(* The text-file data provider: DBTextFile.cpp and filehandler.cpp, in a   *)
(* process that may be stopped or killed and started again.                *)
(*                                                                         *)
(* The file is the sequence of lines a read of it finds; a file of zero    *)
(* bytes is <<>>.  save() truncates the file and then writes it value by   *)
(* value, so it is a loop here, and the process can die, or the device     *)
(* fill up, between any two steps of it.  Nothing else runs meanwhile: the *)
(* provider is called from the one thread that runs io_service::run().     *)
(* Writing through the stream buffer at once loses no outcome: what a      *)
(* crash leaves of a buffered stream is what an earlier crash leaves of an *)
(* unbuffered one.                                                         *)
(***************************************************************************)
EXTENDS TextTable

CONSTANTS
    Torn,       \* what is left of a non-empty piece that was cut
    InitFiles,  \* files the first start may find
    CsvArgs,    \* csv_values a caller passes to set(name, csv_values)
    NameArgs,   \* names a caller passes
    FieldArgs,  \* fields a caller asks for
    UpdateArgs, \* fields and values a caller passes to set(name, field, value)
    MaxRows,    \* bound: no append beyond this many rows
    MaxWidth    \* bound on the values of a row a colon may lead to

ASSUME ConstantsAssumption ==
    /\ Torn \in Piece \ {Empty}
    /\ InitFiles \subseteq Seq(Text)
    /\ CsvArgs \subseteq Text /\ NameArgs \subseteq Text
    /\ FieldArgs \subseteq Text
    /\ UpdateArgs \subseteq [field : Text, value : Text]
    /\ MaxRows \in Nat /\ MaxWidth \in Nat

VARIABLES
    pc,         \* "down", "serving", or "saving": inside save()
    fields,     \* fields_
    entries,    \* entries_
    disk,       \* the complete lines of the file
    line,       \* the pieces written of the line save() is at
    row,        \* the row save() is at; 0 is the line of field names
    col,        \* how many values of it have been written
    saved,      \* history: what the last save() was called to write
    intact      \* history: that save() wrote everything

memory == <<fields, entries>>
cursor == <<line, row, col>>
history == <<saved, intact>>
vars == <<pc, fields, entries, disk, line, row, col, saved, intact>>

Table(fs, es) == [fields |-> fs, entries |-> es]
-----------------------------------------------------------------------------
\* read(): the first line gives the field names; std::regex splits an empty
\* file into one empty line.
LoadFields(file) == IF file = <<>> THEN <<<<Empty>>>> ELSE Split(file[1])
LoadEntries(file) == [i \in 1..(Len(file) - 1) |-> Split(file[i + 1])]

TypeOK ==
    /\ pc \in {"down", "serving", "saving"}
    /\ fields \in Seq(Text) /\ entries \in Seq(Row)
    /\ disk \in Seq(Text)
    /\ line \in Seq(Piece) /\ row \in Nat /\ col \in Nat
    /\ saved \in [fields : Seq(Text), entries : Seq(Row)]
    /\ intact \in BOOLEAN

Init ==
    /\ pc = "down"
    /\ fields = <<>> /\ entries = <<>>
    /\ disk \in InitFiles
    /\ line = <<>> /\ row = 0 /\ col = 0
    /\ saved = Table(LoadFields(disk), LoadEntries(disk))
    /\ intact = TRUE

\* Server::Server: create() makes an empty provider, read() fills it.
Read ==
    /\ pc = "down"
    /\ pc' = "serving"
    /\ fields' = LoadFields(disk)
    /\ entries' = LoadEntries(disk)
    /\ UNCHANGED <<disk, cursor, history>>
-----------------------------------------------------------------------------
\* Mutant: set() that does not look for the name.
SetAppending(name, csv) ==
    /\ pc = "serving"
    /\ Len(entries) < MaxRows
    /\ entries' = Appended(entries, csv)
    /\ UNCHANGED <<pc, fields, disk, cursor, history>>

Set(name, csv) ==
    /\ pc = "serving"
    /\ \/ \E i \in FirstIndex(Names(entries), name) :
             entries' = Replaced(entries, i, csv)
       \/ /\ Absent(Names(entries), name)
          /\ Len(entries) < MaxRows
          /\ entries' = Appended(entries, csv)
    /\ UNCHANGED <<pc, fields, disk, cursor, history>>

\* The calls that return false change nothing and are not steps.
SetField(name, field, value) ==
    /\ pc = "serving"
    /\ \E i \in FirstIndex(Names(entries), name), k \in FirstIndex(fields, field) :
          /\ HasColumn(entries[i], k)
          /\ Len(entries[i]) + Len(value) <= MaxWidth + 1
          /\ entries' = ValueSet(entries, i, k, value)
    /\ UNCHANGED <<pc, fields, disk, cursor, history>>

Erase(name) ==
    /\ pc = "serving"
    /\ \E i \in FirstIndex(Names(entries), name) : entries' = Erased(entries, i)
    /\ UNCHANGED <<pc, fields, disk, cursor, history>>
-----------------------------------------------------------------------------
\* Mutant: the file opened for appending.
SaveOpenAppending ==
    /\ pc = "serving"
    /\ pc' = "saving"
    /\ saved' = Table(fields, entries)
    /\ intact' = FALSE
    /\ UNCHANGED <<memory, disk, cursor>>

\* save(): fileHandler opens the file with std::ios_base::trunc.
SaveOpen ==
    /\ pc = "serving"
    /\ pc' = "saving"
    /\ disk' = <<>>
    /\ saved' = Table(fields, entries)
    /\ intact' = FALSE
    /\ UNCHANGED <<memory, cursor>>

SourceRow == IF row = 0 THEN fields ELSE entries[row]

SaveValue ==
    /\ pc = "saving"
    /\ row <= Len(entries) /\ col < Len(SourceRow)
    /\ line' = line \o SourceRow[col + 1]
    /\ col' = col + 1
    /\ UNCHANGED <<pc, memory, disk, row, history>>

\* Mutant: colons only between the values.
SaveEolBare ==
    /\ pc = "saving"
    /\ row <= Len(entries) /\ col = Len(SourceRow)
    /\ disk' = Append(disk, line)
    /\ line' = <<>> /\ row' = row + 1 /\ col' = 0
    /\ UNCHANGED <<pc, memory, history>>

SaveEol ==
    /\ pc = "saving"
    /\ row <= Len(entries) /\ col = Len(SourceRow)
    /\ disk' = Append(disk, Append(line, Empty))
    /\ line' = <<>> /\ row' = row + 1 /\ col' = 0
    /\ UNCHANGED <<pc, memory, history>>

\* ~fileHandler flushes and closes the file; save() returns.
SaveClose ==
    /\ pc = "saving"
    /\ row > Len(entries)
    /\ pc' = "serving"
    /\ intact' = TRUE
    /\ row' = 0
    /\ UNCHANGED <<memory, disk, line, col, saved>>

SaveStep == SaveValue \/ SaveEol \/ SaveClose

\* The file save() leaves when it writes no further: the complete lines and
\* any part of the line it is at, the last piece cut at any place.  A part
\* of no bytes is no line.
Cuts ==
    LET text == Append(line, Empty)
    IN  {SubSeq(text, 1, k) : k \in 1..Len(text)} \cup
        {Append(SubSeq(text, 1, k - 1), Torn) :
            k \in {j \in 1..Len(line) : line[j] # Empty}}

FilesLeft == {disk} \cup {Append(disk, t) : t \in Cuts \ {<<Empty>>}}

\* A write fails (the device is full): the stream drops the rest, and
\* save() returns as it always does.
WriteFails ==
    /\ pc = "saving"
    /\ pc' = "serving"
    /\ disk' \in FilesLeft
    /\ line' = <<>> /\ row' = 0 /\ col' = 0
    /\ UNCHANGED <<memory, history>>
-----------------------------------------------------------------------------
Lose == pc' = "down" /\ fields' = <<>> /\ entries' = <<>>

\* The process ends outside save(): ~Server deletes the provider, an
\* exception leaves io_service::run(), or the process is killed.
Stop ==
    /\ pc = "serving"
    /\ Lose
    /\ UNCHANGED <<disk, cursor, history>>

\* get(name, field) of a column the row lacks reads past the end of values_
\* (Entry::getValue checks nothing).  It returns any text, which is no step
\* here, or the process dies.
GetPastEnd(name, field) ==
    /\ pc = "serving"
    /\ \E i \in FirstIndex(Names(entries), name), k \in FirstIndex(fields, field) :
          ~HasColumn(entries[i], k)
    /\ Lose
    /\ UNCHANGED <<disk, cursor, history>>

\* The process is killed inside save().
KillInSave ==
    /\ pc = "saving"
    /\ Lose
    /\ disk' \in FilesLeft
    /\ line' = <<>> /\ row' = 0 /\ col' = 0
    /\ UNCHANGED history

Next ==
    \/ Read
    \* Session::parseRequest looks up the text before the first colon.
    \/ \E csv \in CsvArgs : Set(<<csv[1]>>, csv)
    \/ \E name \in NameArgs :
          \/ \E u \in UpdateArgs : SetField(name, u.field, u.value)
          \/ \E field \in FieldArgs : GetPastEnd(name, field)
          \/ Erase(name)
    \/ SaveOpen
    \/ SaveStep
    \/ WriteFails
    \/ Stop
    \/ KillInSave

Spec == Init /\ [][Next]_vars
-----------------------------------------------------------------------------
SavedColonFree ==
    /\ ColonFree(saved.fields)
    /\ \A i \in DOMAIN saved.entries : ColonFree(saved.entries[i])

\* A commit whose values carry no colon is durable: whatever is called after
\* it and however the process ends, until the next save() a start reads back
\* exactly the fields and the rows that were in memory (save() against
\* read() and Entry::Entry).
Durability ==
    pc # "saving" /\ intact /\ SavedColonFree =>
        /\ LoadFields(disk) = saved.fields
        /\ LoadEntries(disk) = saved.entries

\* The rows of a file are a prefix of the saved ones, the last one shortened.
ReadsPrefix(file) ==
    LET es == LoadEntries(file)
    IN  /\ Len(es) <= Len(saved.entries)
        /\ \A i \in 1..(Len(es) - 1) : es[i] = saved.entries[i]
        /\ es # <<>> =>
              /\ LoadFields(file) = saved.fields
              /\ Len(es[Len(es)]) <= Len(saved.entries[Len(es)])

\* A save() cut short never mixes: what a start reads back is a prefix of
\* the rows that were being saved, only the last of them damaged and then
\* never longer, and the field names are whole as soon as there is a row.
TornSaveIsPrefix == ~intact /\ SavedColonFree => ReadsPrefix(disk)

\* Only renaming a row (setting its first field) or reading a file makes two
\* rows share a name; set(name, csv_values), setting another field, erase
\* and a failed or finished save never hide a row behind another.
NoNewDuplicates ==
    [][UniqueNames(entries) /\ ~UniqueNames(entries)' =>
          \/ pc = "down"
          \/ \E name \in NameArgs, u \in UpdateArgs :
                u.field = fields[1] /\ SetField(name, u.field, u.value)]_vars

\* Every row has a value for every field, so no get reads past its end.
Wide(fs, es) == \A i \in DOMAIN es : Len(es[i]) >= Len(fs)

\* A row comes to lack a column only because a caller gave set() too few
\* values (an empty last one does not count), or because a start read a file
\* that was short already or whose last save was cut.
RowsStayWide ==
    [][Wide(fields, entries) /\ ~Wide(fields, entries)' =>
          \/ \E csv \in CsvArgs :
                Len(Split(csv)) < Len(fields) /\ Set(<<csv[1]>>, csv)
          \/ Read /\ (~intact \/ ~Wide(saved.fields, saved.entries))]_vars
=============================================================================
