------------------------------ MODULE DBSQLite ------------------------------
(***************************************************************************)
(* The SQLite data provider (DataProvider/DBSQLite/src/DBSQLite.cpp): a    *)
(* database file, its copy in memory that every call works on, and the     *)
(* thread read() starts to find out the names of the fields.               *)
(*                                                                         *)
(* Two threads share fields_ and dbRC_ without a lock: the loader, which   *)
(* runs getFields(), and the one that serves requests.  What orders them   *)
(* is SQLite's mutex of the copy, held for the whole of an sqlite3_exec,   *)
(* prepare or step, and the future that only fields() waits for.  Where a  *)
(* test reads dbRC_ twice, the loader may write it in between.             *)
(*                                                                         *)
(* SQLite is external: a backup replaces the whole file or none of it, a   *)
(* statement may fail, and an allocation may return any address that is    *)
(* not in use.  The calls put values between quotes into the text of a     *)
(* statement as they are; Literal is what SQL reads there.  Where a quote  *)
(* ends the literal early, the statement is another one: what it finds and *)
(* which rows it leaves is open (Strayed), the columns stay.               *)
(*                                                                         *)
(* Undefined behaviour may also end the process: that is Stop, which is    *)
(* always possible.                                                        *)
(***************************************************************************)
EXTENDS Integers, Sequences, SequencesExt

CONSTANTS
    Value,      \* strings without a colon
    Literal,    \* what SQL reads for a value between quotes: the value, its
                \*   doubled quotes as one, or Broken
    Broken,     \* a quote in it ends the literal
    Empty,      \* the empty string
    Null,       \* an SQL NULL
    FieldNames, \* the columns of the table, the first one is "name"
    InitRows,   \* the rows a file may hold at first
    CsvArgs,    \* csv_values a caller passes, as their colon-free pieces
    Handle,     \* addresses an open database may have
    Strange,    \* rows a statement may leave that was meant as another one
    MaxRows     \* bound: no insert beyond this many rows

ASSUME ConstantsAssumption ==
    /\ Empty \in Value /\ Null \notin Value
    /\ Broken \notin Value /\ Literal \in [Value -> Value \cup {Broken}]
    /\ FieldNames \in Seq(STRING) \ {<<>>}
    /\ InitRows \subseteq Seq([DOMAIN FieldNames -> Value \cup {Null}])
    /\ CsvArgs \subseteq Seq(Value) \ {<<>>}
    /\ Strange \subseteq [DOMAIN FieldNames -> Value \cup {Null}]
    /\ Handle # {}
    /\ MaxRows \in Nat

VARIABLES
    up,         \* the provider exists
    columns,    \* the columns of the table: FieldNames, or <<>>: no table
    file,       \* the rows in the file
    rows,       \* the rows in the copy, worker_
    loader,     \* getFields(): "started", "loading" (in sqlite3_exec, holding
                \*   the mutex), "returned", "stored" (dbRC_ is), "done"
    loaded,     \* how many names it has pushed to fields_
    pragma,     \* what its statement returned: "OK", "ERROR"
    ready,      \* the value of fieldsReady_
    dbRC,       \* dbRC_
    db,         \* the address in db_
    live,       \* the addresses of open databases of the file
    fresh,      \* _db of openDB(), elsewhere db
    pc,         \* where the call in progress is; "idle": none
    csv,        \* csv_values of the set() in progress or just done, else <<>>
    found,      \* what alreadyExists() found
    sql,        \* _setSQL: the values it stores, one per column it names
    stmt,       \* _stmt is a statement
    answer,     \* what the last call returned
    before,     \* history: of a set(), the rows when it began; of a save(), the file
    raced,      \* history: the call began before the loader was done
    early,      \* history: some call did
    mishaps     \* history: what befell the call, see Mishap

loading == <<loader, loaded, pragma, ready>>
handles == <<db, live, fresh>>
locals == <<found, sql, stmt>>
work == <<csv, found, sql, stmt>>
history == <<before, raced, early, mishaps>>
vars == <<up, columns, file, rows, loader, loaded, pragma, ready, dbRC, db, live, fresh, pc,
          csv, found, sql, stmt, answer, before, raced, early, mishaps>>

\* alreadyExists() was given no count, set() read past the end of its values,
\* the loader stored dbRC_ between sqlite3_step and the end of its test.
Mishap == {"uncounted", "overrun", "overtaken"}

SetPlaces == {"exists", "build", "prepare", "prepared", "step", "stepped", "compared"}

Answer(op, ok, names) == [op |-> op, ok |-> ok, names |-> names]

TypeOK ==
    /\ up \in BOOLEAN
    /\ columns \in {<<>>, FieldNames}
    /\ file \in Seq([DOMAIN columns -> Value \cup {Null}])
    /\ rows \in Seq([DOMAIN columns -> Value \cup {Null}])
    /\ loader \in {"started", "loading", "returned", "stored", "done"}
    /\ loaded \in 0..Len(columns)
    /\ pragma \in {"OK", "ERROR"} /\ ready \in BOOLEAN
    /\ dbRC \in {"OK", "ERROR", "BUSY", "MISUSE", "DONE"}
    /\ db \in Handle /\ live \subseteq Handle /\ fresh \in Handle
    /\ (pc # "opened" => fresh = db)
    /\ pc \in SetPlaces \cup {"idle", "fields", "opened", "backup", "saved"}
    /\ csv \in CsvArgs \cup {<<>>}
    /\ (pc \in SetPlaces \/ answer.op = "set" => csv # <<>>)
    /\ found \in BOOLEAN /\ stmt \in BOOLEAN
    /\ sql \in Seq(Value)
    /\ answer \in [op : {"none", "fields", "set", "save"}, ok : BOOLEAN, names : Seq({FieldNames[i] : i \in DOMAIN FieldNames})]
    /\ before \in Seq([DOMAIN columns -> Value \cup {Null}])
    /\ raced \in BOOLEAN /\ early \in BOOLEAN /\ mishaps \subseteq Mishap

Init ==
    /\ up = FALSE
    /\ \/ columns = FieldNames /\ file \in InitRows
       \/ columns = <<>> /\ file = <<>>
    /\ rows = <<>>
    /\ loader = "done" /\ loaded = 0 /\ pragma = "OK" /\ ready = FALSE
    /\ dbRC = "OK"
    /\ db \in Handle /\ live = {} /\ fresh = db
    /\ pc = "idle"
    /\ csv = <<>> /\ found = FALSE /\ sql = <<>> /\ stmt = FALSE
    /\ answer = Answer("none", FALSE, <<>>)
    /\ before = <<>> /\ raced = FALSE /\ early = FALSE /\ mishaps = {}

\* read(): open the file, copy it, close it, start the loader.  db_ keeps the
\* address of the database that was closed.
Read ==
    /\ ~up /\ up' = TRUE
    /\ rows' = file
    /\ loader' = "started" /\ loaded' = 0 /\ pragma' = "OK" /\ ready' = FALSE
    /\ dbRC' = "OK"
    /\ db' \in Handle /\ live' = {} /\ fresh' = db'
    /\ UNCHANGED <<columns, file, pc, work, answer, history>>

\* The process ends or is killed, between any two steps.
Stop ==
    /\ up /\ up' = FALSE
    /\ rows' = <<>>
    /\ loader' = "done" /\ loaded' = 0 /\ pragma' = "OK" /\ ready' = FALSE
    /\ live' = {} /\ fresh' = db
    /\ pc' = "idle"
    /\ answer' = Answer("none", FALSE, <<>>)
    /\ found' = FALSE /\ sql' = <<>> /\ stmt' = FALSE
    /\ dbRC' = "OK" /\ csv' = <<>>
    /\ before' = <<>> /\ raced' = FALSE /\ early' = FALSE /\ mishaps' = {}
    /\ UNCHANGED <<columns, file, db>>
-----------------------------------------------------------------------------
(* The loader *)

Free == loader # "loading"

LoaderExec ==
    /\ up /\ loader = "started"
    /\ loader' = "loading"
    /\ UNCHANGED <<up, columns, file, rows, loaded, pragma, ready, dbRC, handles, pc, work, answer,
                   history>>

LoaderPush ==
    /\ loader = "loading" /\ loaded < Len(columns)
    /\ loaded' = loaded + 1
    /\ UNCHANGED <<up, columns, file, rows, loader, pragma, ready, dbRC, handles, pc, work, answer,
                   history>>

\* All names are found, or the statement fails after any of them.
LoaderReturn ==
    /\ loader = "loading"
    /\ \/ loaded = Len(columns) /\ pragma' = "OK"
       \/ pragma' = "ERROR"
    /\ loader' = "returned"
    /\ UNCHANGED <<up, columns, file, rows, loaded, ready, dbRC, handles, pc, work, answer, history>>

LoaderStore ==
    /\ loader = "returned"
    /\ loader' = "stored"
    /\ dbRC' = pragma
    /\ mishaps' = IF pc \in {"stepped", "compared"} THEN mishaps \cup {"overtaken"} ELSE mishaps
    /\ UNCHANGED <<up, columns, file, rows, loaded, pragma, ready, handles, pc, work, answer, before,
                   raced, early>>

\* getFields() returns what dbRC_ says by now.
LoaderCheck ==
    /\ loader = "stored"
    /\ loader' = "done"
    /\ ready' = (dbRC = "OK")
    /\ UNCHANGED <<up, columns, file, rows, loaded, pragma, dbRC, handles, pc, work, answer, history>>

LoaderStep == LoaderExec \/ LoaderPush \/ LoaderReturn \/ LoaderStore \/ LoaderCheck

\* The sizes another thread may find fields_ to have.
Seen == IF loader = "loading" THEN 0..loaded ELSE {loaded}
-----------------------------------------------------------------------------
(* Calls *)

Begin(es) ==
    /\ up /\ pc = "idle"
    /\ before' = es
    /\ raced' = (loader # "done")
    /\ early' = (early \/ loader # "done")
    /\ mishaps' = {}

\* The call ends, and with it its local variables.
Return(op, ok) ==
    /\ pc' = "idle"
    /\ answer' = Answer(op, ok, <<>>)
    /\ found' = FALSE /\ sql' = <<>> /\ stmt' = FALSE

Ongoing(place) == pc' = place /\ answer' = Answer("none", FALSE, <<>>)
-----------------------------------------------------------------------------
(* Statements *)

\* The values of a statement are read as literals each.
Intact(values) == \A i \in DOMAIN values : Literal[values[i]] # Broken
Meant(values) == [i \in DOMAIN values |-> Literal[values[i]]]

\* What a statement may leave whose text a quote has made another one.
Strayed ==
    LET Row == {rows[i] : i \in DOMAIN rows} \cup Strange
    IN  IF columns = <<>> THEN {rows} ELSE UNION {[1..n -> Row] : n \in 0..MaxRows}
-----------------------------------------------------------------------------
(* fields() and get() *)

FieldsCall ==
    /\ up /\ pc = "idle"
    /\ Ongoing("fields") /\ csv' = <<>>
    /\ UNCHANGED <<up, columns, file, rows, loading, dbRC, handles, locals, history>>

\* Mutant: the future is not waited for.
FieldsReturnAtOnce ==
    /\ pc = "fields"
    /\ pc' = "idle"
    /\ answer' = Answer("fields", TRUE, SubSeq(columns, 1, loaded))
    /\ UNCHANGED <<up, columns, file, rows, loading, dbRC, handles, work, history>>

FieldsReturn ==
    /\ pc = "fields" /\ loader = "done"
    /\ pc' = "idle"
    /\ answer' = Answer("fields", TRUE, IF ready THEN SubSeq(columns, 1, loaded) ELSE <<>>)
    /\ UNCHANGED <<up, columns, file, rows, loading, dbRC, handles, work, history>>

\* Both get(): one statement, wrong when it names a field the table lacks.
\* A row with a NULL in it ends the process.
Get ==
    /\ Begin(<<>>) /\ Free
    /\ dbRC' \in IF columns = <<>> THEN {"ERROR"} ELSE {"OK", "ERROR"}
    /\ answer' = Answer("none", FALSE, <<>>) /\ csv' = <<>>
    /\ UNCHANGED <<up, columns, file, rows, loading, handles, pc, locals>>

\* The name and the field of a get() are put into its text as they are, too,
\* and sqlite3_exec runs all statements of a text.
GetOther ==
    /\ Begin(<<>>) /\ Free
    /\ rows' \in Strayed
    /\ dbRC' \in {"OK", "ERROR"}
    /\ answer' = Answer("none", FALSE, <<>>) /\ csv' = <<>>
    /\ UNCHANGED <<up, columns, file, loading, handles, pc, locals>>
-----------------------------------------------------------------------------
(* set(name, csv_values), its name the text before the first colon.  The   *)
(* other set() and erase() return false and are no steps.                  *)

FieldValues(line) ==
    IF Len(line) > 1 /\ Last(line) = Empty THEN Front(line) ELSE line

Named(name) == {i \in DOMAIN rows : rows[i][1] = name}

\* The count of the values is compared with that of the names found so far.
Set(line) ==
    /\ Begin(rows)
    /\ \/ columns = <<>> \/ Len(rows) < MaxRows
       \/ Literal[line[1]] = Broken \/ Named(Literal[line[1]]) # {}
    /\ csv' = line
    /\ \E n \in Seen :
          IF n # 0 /\ n # Len(FieldValues(line))
          THEN Return("set", FALSE)
          ELSE Ongoing("exists") /\ UNCHANGED locals
    /\ UNCHANGED <<up, columns, file, rows, loading, dbRC, handles>>

\* Mutant: a name is never found.
CountedNever ==
    /\ found' = (columns = <<>>) /\ UNCHANGED mishaps
    /\ dbRC' = "ERROR" /\ UNCHANGED rows

\* The statement counts the rows, and a quote too many after it is an error.
Counted ==
    /\ columns # <<>> /\ Literal[csv[1]] # Broken
    /\ found' = (Named(Literal[csv[1]]) # {}) /\ UNCHANGED mishaps
    /\ dbRC' = "ERROR" /\ UNCHANGED rows

\* Without a table, or when the statement fails, there is no count, which is
\* not "0".
Uncounted ==
    /\ found' = TRUE /\ mishaps' = mishaps \cup {"uncounted"}
    /\ dbRC' = "ERROR" /\ UNCHANGED rows

\* The statement is another one.
CountedOther ==
    /\ Literal[csv[1]] = Broken
    /\ found' \in BOOLEAN /\ UNCHANGED mishaps
    /\ dbRC' \in {"OK", "ERROR"} /\ rows' \in Strayed

AlreadyExists ==
    /\ pc = "exists" /\ Free
    /\ Counted \/ Uncounted \/ CountedOther
    /\ pc' = "build"
    /\ UNCHANGED <<up, columns, file, loading, handles, csv, sql, stmt, answer, before, raced, early>>

\* What the first n of _fieldValues are; beyond its end they are anything.
FirstValues(n) ==
    LET given == FieldValues(csv)
    IN  {v \in [1..n -> Value] : \A i \in 1..n : i \in DOMAIN given => v[i] = given[i]}

\* An update names the fields found by now, an insert names none.
BuildSQL ==
    /\ pc = "build"
    /\ \/ /\ found
          /\ \E n \in Seen :
                /\ sql' \in FirstValues(n)
                /\ mishaps' = IF n > Len(FieldValues(csv)) THEN mishaps \cup {"overrun"} ELSE mishaps
       \/ ~found /\ sql' = FieldValues(csv) /\ UNCHANGED mishaps
    /\ pc' = "prepare"
    /\ UNCHANGED <<up, columns, file, rows, loading, dbRC, handles, csv, found, stmt, answer, before,
                   raced, early>>

\* The values in the text of the statement.
Text == IF found THEN Append(sql, csv[1]) ELSE sql

\* Mutant: an insert may fill fewer columns.
FitsShort == columns # <<>> /\ sql # <<>>

\* An update of no column is no SQL; an insert must fill every column.
Fits == columns # <<>> /\ IF found THEN sql # <<>> ELSE Len(sql) = Len(columns)

\* A statement may also be refused, for a field SQL cannot read as a column.
Prepare ==
    /\ pc = "prepare" /\ Free
    /\ stmt' \in BOOLEAN /\ (stmt' /\ Intact(Text) => Fits)
    /\ dbRC' = IF stmt' THEN "OK" ELSE "ERROR"
    /\ pc' = "prepared"
    /\ UNCHANGED <<up, columns, file, rows, loading, handles, csv, found, sql, answer, history>>

PrepareCheck ==
    /\ pc = "prepared"
    /\ IF dbRC = "OK" THEN Ongoing("step") /\ UNCHANGED locals ELSE Return("set", FALSE)
    /\ UNCHANGED <<up, columns, file, rows, loading, dbRC, handles, csv, history>>

\* The rows es with the first values of every row of that name set.
Updated(es, name, values) ==
    [i \in DOMAIN es |->
        IF es[i][1] # name THEN es[i]
        ELSE [k \in DOMAIN es[i] |-> IF k \in DOMAIN values THEN values[k] ELSE es[i][k]]]

Executed(es, exists, name, values) ==
    IF exists THEN Updated(es, name, values) ELSE Append(es, values)

\* Mutant: nothing is noticed of a row that was refused.
StepUnnoticed ==
    /\ pc = "step" /\ Free
    /\ rows' \in IF stmt /\ Intact(Text)
                THEN {rows, Executed(rows, found, Literal[csv[1]], Meant(sql))} ELSE {rows}
    /\ dbRC' = "DONE"
    /\ pc' = "stepped"
    /\ UNCHANGED <<up, columns, file, loading, handles, work, answer, history>>

\* sqlite3_step: a constraint of the table may refuse the row, and without a
\* statement the call is refused.
Step ==
    /\ pc = "step" /\ Free
    /\ \/ /\ stmt /\ Intact(Text) /\ dbRC' = "DONE"
          /\ rows' = Executed(rows, found, Literal[csv[1]], Meant(sql))
       \/ stmt /\ dbRC' = "ERROR" /\ UNCHANGED rows
       \/ stmt /\ ~Intact(Text) /\ dbRC' \in {"DONE", "ERROR"} /\ rows' \in Strayed
       \/ ~stmt /\ dbRC' = "MISUSE" /\ UNCHANGED rows
    /\ pc' = "stepped"
    /\ UNCHANGED <<up, columns, file, loading, handles, work, answer, history>>

\* dbRC_ == SQLITE_OK, which sqlite3_step never returns.
StepCheck ==
    /\ pc = "stepped"
    /\ IF dbRC = "OK" THEN Return("set", TRUE) ELSE Ongoing("compared") /\ UNCHANGED locals
    /\ UNCHANGED <<up, columns, file, rows, loading, dbRC, handles, csv, history>>

\* Mutant: the test of the result inverted, as it is in parseRequest.
StepCheckDoneInverted ==
    /\ pc = "compared"
    /\ Return("set", dbRC # "DONE")
    /\ UNCHANGED <<up, columns, file, rows, loading, dbRC, handles, csv, history>>

\* || dbRC_ == SQLITE_DONE: dbRC_ is read again.
StepCheckDone ==
    /\ pc = "compared"
    /\ Return("set", dbRC = "DONE")
    /\ UNCHANGED <<up, columns, file, rows, loading, dbRC, handles, csv, history>>

SetStep ==
    \/ AlreadyExists \/ BuildSQL \/ Prepare \/ PrepareCheck \/ Step \/ StepCheck \/ StepCheckDone
-----------------------------------------------------------------------------
(* save() *)

\* openDB(): sqlite3_open, which opens a database or none.
SaveOpen ==
    /\ Begin(file)
    /\ fresh' \in Handle \ live
    /\ \/ live' = live \cup {fresh'} /\ dbRC' = "OK"
       \/ UNCHANGED live /\ dbRC' = "ERROR"
    /\ Ongoing("opened") /\ csv' = <<>>
    /\ UNCHANGED <<up, columns, file, rows, loading, db, locals>>

\* Mutant: release() for reset().
SaveOpenedReleasing ==
    /\ pc = "opened"
    /\ IF dbRC = "OK"
       THEN /\ db' = fresh /\ UNCHANGED <<live, fresh>>
            /\ Ongoing("backup") /\ UNCHANGED locals
       ELSE /\ fresh' = db /\ UNCHANGED <<db, live>>
            /\ Return("save", FALSE)
    /\ UNCHANGED <<up, columns, file, rows, loading, dbRC, csv, history>>

\* openDB(): db_.reset(_db) closes what db_ held.  After read() that is an
\* address of no database, or of one opened since.
SaveOpened ==
    /\ pc = "opened"
    /\ IF dbRC = "OK"
       THEN /\ db' = fresh /\ live' = live \ {db} /\ UNCHANGED fresh
            /\ Ongoing("backup") /\ UNCHANGED locals
       ELSE /\ fresh' = db /\ UNCHANGED <<db, live>>
            /\ Return("save", FALSE)
    /\ UNCHANGED <<up, columns, file, rows, loading, dbRC, csv, history>>

\* A database that was closed has no file to write to.
SaveBackup ==
    /\ pc = "backup" /\ Free
    /\ \/ db \in live /\ file' = rows /\ dbRC' = "OK"
       \/ db \in live /\ UNCHANGED file /\ dbRC' = "BUSY"
       \/ db \notin live /\ UNCHANGED file /\ dbRC' = "MISUSE"
    /\ pc' = "saved"
    /\ UNCHANGED <<up, columns, rows, loading, handles, work, answer, history>>

\* Mutant: the result code not looked at.
SaveCheckNothing ==
    /\ pc = "saved"
    /\ Return("save", TRUE)
    /\ UNCHANGED <<up, columns, file, rows, loading, dbRC, handles, csv, history>>

SaveCheck ==
    /\ pc = "saved"
    /\ Return("save", dbRC = "OK")
    /\ UNCHANGED <<up, columns, file, rows, loading, dbRC, handles, csv, history>>

Next ==
    \/ Read
    \/ Stop
    \/ LoaderStep
    \/ FieldsCall
    \/ FieldsReturn
    \/ Get
    \/ GetOther
    \/ \E line \in CsvArgs : Set(line)
    \/ SetStep
    \/ SaveOpen
    \/ SaveOpened
    \/ SaveBackup
    \/ SaveCheck

Spec == Init /\ [][Next]_vars
-----------------------------------------------------------------------------
\* fields() never answers with the names found so far, unless the loader's
\* statement failed after them and a call stored its own success in dbRC_ just
\* before getFields() tested it.  It may answer none of them: when the
\* statement failed, or when a call that fails, or only looks up a name, stored
\* dbRC_ there; the provider then answers so until it is restarted.
FieldsAnswerWhole ==
    answer.op = "fields" =>
        \/ answer.names = columns
        \/ answer.names = <<>> /\ (early \/ pragma = "ERROR")
        \/ IsPrefix(answer.names, columns) /\ early /\ pragma = "ERROR"

\* A set() whose values are literals and that returns false left every row
\* alone, unless the loader stored dbRC_ after sqlite3_step and before the
\* second of the two reads of its test: then the row was stored.
FailedSetChangesNothing ==
    /\ pc = "idle" /\ answer.op = "set" /\ ~answer.ok
    /\ Intact(csv) /\ "overrun" \notin mishaps
    => rows = before \/ "overtaken" \in mishaps

HasName(es, name) == \E i \in DOMAIN es : es[i][1] = name

\* A set() whose values are literals and that returns true stored them all, as
\* SQL reads them, and changed no other row.  If it began before the names
\* were found, it may have stored the first of them in the rows of that name,
\* or none, but nothing else, and a row it added is whole; none also if it was
\* not told the count of the rows of that name.
TrueSetStoresAll ==
    /\ pc = "idle" /\ answer.op = "set" /\ answer.ok
    /\ Intact(csv) /\ "overrun" \notin mishaps
    => LET name == Literal[csv[1]]
           values == Meant(FieldValues(csv))
           exists == HasName(before, name)
       IN  \/ /\ rows = Executed(before, exists, name, values)
              /\ Len(values) = Len(columns) \/ (exists /\ (raced \/ pragma = "ERROR"))
           \/ raced /\ rows = before
           \/ raced /\ \E n \in DOMAIN values : rows = Updated(before, name, SubSeq(values, 1, n))
           \/ "uncounted" \in mishaps /\ ~exists /\ rows = before

UniqueNames(es) == \A i, j \in DOMAIN es : es[i][1] = es[j][1] => i = j

\* No set() makes two rows share a name, whatever it raced with, as long as
\* what it puts between quotes are literals; no get() does, as long as its text
\* is one statement.
NamesStayUnique ==
    [][up /\ UniqueNames(rows) /\ Intact(csv) /\ Intact(sql) =>
           UniqueNames(rows') \/ GetOther]_vars

\* The answer of save() is what happened to the file, although db_ holds an
\* address that was closed when it is called first: true only if the file has
\* the rows, false only if it is as it was, unless save() raced with the loader
\* for dbRC_; then it is one of the two, and false for a file that was written
\* only if the loader's statement failed.
SaveAnswersTruly ==
    pc = "idle" /\ answer.op = "save" =>
        /\ answer.ok => file = rows \/ (raced /\ file = before)
        /\ ~answer.ok => file = before \/ (raced /\ pragma = "ERROR" /\ file = rows)

\* However many commits there were, no database of the file is open but the
\* one db_ holds, or is about to, and at most one that save() forgot when the
\* failure of the loader's statement was stored in dbRC_ under it.
NoHandleLeaks ==
    \/ live \subseteq {db, fresh}
    \/ early /\ pragma = "ERROR" /\ \E forgotten \in Handle : live \subseteq {db, fresh, forgotten}
=============================================================================
