--------------------------- MODULE DBSQLite_proofs ---------------------------
(***************************************************************************)
(* The SQLite provider, for any table, values, addresses and races of its  *)
(* two threads.  IInv, inductive, adds to the invariants what set() and    *)
(* save() know at each of their steps, and when dbRC_, which both threads  *)
(* write, still says what its last writer in the call found.               *)
(***************************************************************************)
EXTENDS DBSQLite, SequenceTheorems, TLAPS

\* While the provider does not exist nothing of it does.
NothingWithoutIt ==
    ~up => pc = "idle" /\ loader = "done" /\ live = {} /\ answer.op = "none"

NotAnswered == pc # "idle" => answer.op = "none"

\* The loader has found all names unless its statement failed, and fieldsReady_
\* says which, unless a call it raced with wrote dbRC_ under it; a call that
\* runs beside it is such a call.
LoaderInv ==
    /\ loader \in {"returned", "stored"} \/ (up /\ loader = "done") =>
          loaded = Len(columns) \/ pragma = "ERROR"
    /\ loader \in {"started", "loading"} => pragma = "OK"
    /\ loader = "stored" => dbRC = pragma \/ early
    /\ up /\ loader = "done" =>
          /\ ready => loaded = Len(columns) \/ early
          /\ ~ready => pragma = "ERROR" \/ early
    /\ pc \notin {"idle", "fields"} /\ loader # "done" => raced /\ early

\* What set() knows of its values and its rows at each place.
BeforeStep == {"exists", "build", "prepare", "prepared", "step"}
AfterStep == {"stepped", "compared"}

ChecksValues ==
    pc \in SetPlaces /\ ~raced => loaded = 0 \/ Len(FieldValues(csv)) = loaded

RowsUntouched == pc \in BeforeStep /\ Intact(csv) => rows = before

FoundTruly ==
    pc \in SetPlaces \ {"exists"} /\ Intact(csv) =>
        /\ found => HasName(before, Literal[csv[1]]) \/ "uncounted" \in mishaps
        /\ ~found => ~HasName(before, Literal[csv[1]])

SaysItsValues ==
    pc \in SetPlaces \ {"exists", "build"} =>
        /\ sql # <<>> => sql[1] = csv[1]
        /\ ~found => sql = FieldValues(csv)
        /\ ~raced => sql \in {<<>>, FieldValues(csv)}
        /\ "overrun" \notin mishaps =>
              Len(sql) <= Len(FieldValues(csv)) /\ sql = SubSeq(FieldValues(csv), 1, Len(sql))

StatementFits ==
    pc \in SetPlaces \ {"exists", "build", "prepare"} /\ stmt /\ Intact(Text) => Fits

NotOvertaken == pc \in BeforeStep => "overtaken" \notin mishaps

\* The row is stored or it is not, and dbRC_ says which as long as the loader
\* has not written it since.
Stored == stmt /\ rows = Executed(before, found, Literal[csv[1]], Meant(sql))

ResultSaysIt ==
    /\ pc \in AfterStep /\ Intact(csv) /\ "overrun" \notin mishaps =>
          /\ rows = before \/ Stored
          /\ "overtaken" \notin mishaps =>
                dbRC # "OK" /\ IF dbRC = "DONE" THEN Stored ELSE rows = before
    /\ pc \in AfterStep /\ "overtaken" \in mishaps => raced

SaveInv ==
    /\ pc \in {"opened", "backup"} => file = before
    /\ pc = "saved" =>
          IF dbRC = "OK" THEN file = rows \/ (raced /\ file = before)
          ELSE file = before \/ (raced /\ pragma = "ERROR" /\ file = rows)

\* save() forgets a database only when the failure of the loader's statement is
\* stored between its sqlite3_open and its test, and that happens once.
HandlesInv ==
    /\ loader \notin {"stored", "done"} => live \subseteq {db, fresh}
    /\ pc = "opened" /\ fresh \in live /\ dbRC # "OK" =>
          live \subseteq {db, fresh} /\ early /\ pragma = "ERROR" /\ loader \in {"stored", "done"}

SetInv ==
    /\ ChecksValues /\ RowsUntouched /\ FoundTruly /\ SaysItsValues /\ StatementFits
    /\ NotOvertaken /\ ResultSaysIt

Promises ==
    FieldsAnswerWhole /\ FailedSetChangesNothing /\ TrueSetStoresAll /\ SaveAnswersTruly

IInv ==
    /\ TypeOK /\ NothingWithoutIt /\ NotAnswered /\ LoaderInv /\ SetInv /\ SaveInv /\ HandlesInv
    /\ Promises /\ NoHandleLeaks

USE DEF loading, handles, locals, work, history

-----------------------------------------------------------------------------
(* Values *)

Answers ==
    [op : {"none", "fields", "set", "save"}, ok : BOOLEAN,
     names : Seq({FieldNames[i] : i \in DOMAIN FieldNames})]

LEMMA AnswerType ==
    ASSUME NEW op \in {"none", "fields", "set", "save"}, NEW ok \in BOOLEAN,
           NEW names \in Seq({FieldNames[i] : i \in DOMAIN FieldNames})
    PROVE  Answer(op, ok, names) \in Answers
BY DEF Answer, Answers

LEMMA NoNames == <<>> \in Seq({FieldNames[i] : i \in DOMAIN FieldNames})
OBVIOUS

\* The values of a line are values, and the first is its name.
LEMMA FieldValuesType ==
    ASSUME NEW line \in Seq(Value) \ {<<>>}
    PROVE  FieldValues(line) \in Seq(Value) \ {<<>>} /\ FieldValues(line)[1] = line[1]
<1>1. Len(line) \in Nat /\ Len(line) >= 1
  OBVIOUS
<1>2. CASE Len(line) > 1 /\ Last(line) = Empty
  <2>1. Len(line) - 1 \in Nat /\ Len(line) - 1 >= 1
    BY <1>1, <1>2
  <2>2. Front(line) \in Seq(Value) /\ Len(Front(line)) = Len(line) - 1 /\ Front(line)[1] = line[1]
    BY <2>1 DEF Front
  <2> QED BY <1>2, <2>1, <2>2 DEF FieldValues
<1>3. CASE ~(Len(line) > 1 /\ Last(line) = Empty)
  BY <1>3 DEF FieldValues
<1> QED BY <1>2, <1>3

\* So are the first of them, also when there are fewer.
LEMMA FirstValuesType ==
    ASSUME csv \in Seq(Value) \ {<<>>}, NEW n \in Nat, NEW v \in FirstValues(n)
    PROVE  /\ v \in Seq(Value) /\ Len(v) = n
           /\ v # <<>> => v[1] = csv[1]
           /\ n = Len(FieldValues(csv)) => v = FieldValues(csv)
<1> DEFINE given == FieldValues(csv)
<1>1. given \in Seq(Value) \ {<<>>} /\ given[1] = csv[1]
  BY FieldValuesType
<1>2. v \in [1..n -> Value] /\ \A i \in 1..n : i \in DOMAIN given => v[i] = given[i]
  BY DEF FirstValues
<1> HIDE DEF given
<1>3. v \in Seq(Value) /\ Len(v) = n
  BY <1>2
<1>4. ASSUME v # <<>> PROVE v[1] = csv[1]
  BY <1>1, <1>2, <1>3, <1>4
<1>5. ASSUME n = Len(given) PROVE v = given
  BY <1>1, <1>2, <1>3, <1>5
<1> QED BY <1>3, <1>4, <1>5 DEF given

\* The rows of a table of those columns.
Rows == Seq([DOMAIN columns -> Value \cup {Null}])

\* What a statement stores are rows of the table.
LEMMA ExecutedType ==
    ASSUME columns \in Seq(STRING), NEW es \in Rows, NEW exists \in BOOLEAN, NEW name,
           NEW values \in Seq(Value), ~exists => Len(values) = Len(columns)
    PROVE  Executed(es, exists, name, values) \in Rows
<1>1. CASE exists
  <2> DEFINE R == [DOMAIN columns -> Value \cup {Null}]
             new == Updated(es, name, values)
  <2>1. \A i \in DOMAIN es : new[i] \in R
    BY DEF Rows, Updated
  <2>2. new = [i \in DOMAIN es |-> new[i]] /\ es \in Seq(R) /\ Rows = Seq(R)
    BY DEF Updated, Rows
  <2> HIDE DEF R, new
  <2>3. new \in Rows
    BY <2>1, <2>2, SMTT(20)
  <2> QED BY <1>1, <2>3 DEF Executed, new
<1>2. CASE ~exists
  <2>1. values \in [DOMAIN columns -> Value \cup {Null}]
    BY <1>2
  <2> QED BY <1>2, <2>1 DEF Executed, Rows
<1> QED BY <1>1, <1>2

\* They do not give two rows one name, if an insert finds none of its name.
LEMMA ExecutedUnique ==
    ASSUME columns \in Seq(STRING), columns # <<>>, NEW es \in Rows, NEW exists \in BOOLEAN, NEW name,
           NEW values \in Seq(Value), values # <<>>, values[1] = name,
           ~exists => ~HasName(es, name), UniqueNames(es)
    PROVE  UniqueNames(Executed(es, exists, name, values))
<1>1. CASE exists
  <2>1. 1 \in DOMAIN columns /\ 1 \in DOMAIN values
    OBVIOUS
  <2>2. \A i \in DOMAIN es : DOMAIN es[i] = DOMAIN columns
    BY DEF Rows
  <2>3. /\ DOMAIN Updated(es, name, values) = DOMAIN es
        /\ \A i \in DOMAIN es : Updated(es, name, values)[i][1] = es[i][1]
    BY <2>1, <2>2 DEF Updated
  <2> QED BY <1>1, <2>3 DEF Executed, UniqueNames
<1>2. CASE ~exists
  <2>1. \A i \in DOMAIN es : es[i][1] # name
    BY <1>2 DEF HasName
  <2>2. /\ DOMAIN Append(es, values) = DOMAIN es \cup {Len(es) + 1}
        /\ \A i \in DOMAIN es : Append(es, values)[i] = es[i]
        /\ Append(es, values)[Len(es) + 1] = values
    BY DEF Rows
  <2> QED BY <1>2, <2>1, <2>2 DEF Executed, UniqueNames
<1> QED BY <1>1, <1>2

\* Literals are values.
LEMMA MeantType ==
    ASSUME NEW values \in Seq(Value), Intact(values)
    PROVE  /\ Meant(values) \in Seq(Value) /\ Len(Meant(values)) = Len(values)
           /\ values # <<>> => Meant(values)[1] = Literal[values[1]]
<1>1. \A i \in DOMAIN values : Literal[values[i]] \in Value
  BY ConstantsAssumption DEF Intact
<1>2. Meant(values) = [i \in 1..Len(values) |-> Literal[values[i]]] /\ DOMAIN values = 1..Len(values)
  BY DEF Meant
<1>3. Meant(values) \in Seq(Value) /\ Len(Meant(values)) = Len(values)
  BY <1>1, <1>2
<1>4. values # <<>> => Meant(values)[1] = Literal[values[1]]
  BY <1>2
<1> QED BY <1>3, <1>4

\* The first values are literals when all are, and mean the first of them.
LEMMA MeantPrefix ==
    ASSUME NEW values \in Seq(Value), Intact(values), NEW n \in 0..Len(values)
    PROVE  Intact(SubSeq(values, 1, n)) /\ Meant(SubSeq(values, 1, n)) = SubSeq(Meant(values), 1, n)
<1> DEFINE first == SubSeq(values, 1, n)
<1>1. first \in Seq(Value) /\ Len(first) = n /\ \A i \in 1..n : first[i] = values[i]
  OBVIOUS
<1> HIDE DEF first
<1>2. DOMAIN first = 1..n /\ DOMAIN values = 1..Len(values) /\ \A i \in 1..n : i \in 1..Len(values)
  BY <1>1
<1>3. Intact(first)
  BY <1>1, <1>2 DEF Intact
<1>4. Meant(first) \in Seq(Value) /\ Len(Meant(first)) = n
  BY <1>1, <1>3, MeantType
<1>5. Meant(values) \in Seq(Value) /\ Len(Meant(values)) = Len(values)
  BY MeantType
<1>6. /\ SubSeq(Meant(values), 1, n) \in Seq(Value) /\ Len(SubSeq(Meant(values), 1, n)) = n
      /\ \A i \in 1..n : SubSeq(Meant(values), 1, n)[i] = Meant(values)[i]
  BY <1>5
<1>7. \A i \in 1..n : Meant(first)[i] = Meant(values)[i]
  BY <1>1, <1>2 DEF Meant
<1>8. Meant(first) = SubSeq(Meant(values), 1, n)
  BY <1>4, <1>6, <1>7
<1> QED BY <1>3, <1>8 DEF first

\* The values of a line are literals when its pieces are.
LEMMA FieldValuesIntact ==
    ASSUME NEW line \in Seq(Value) \ {<<>>}, Intact(line)
    PROVE  Intact(FieldValues(line))
<1>1. CASE Len(line) > 1 /\ Last(line) = Empty
  <2>1. Len(line) - 1 \in 0..Len(line)
    BY <1>1
  <2>2. Intact(SubSeq(line, 1, Len(line) - 1))
    BY <2>1, MeantPrefix
  <2> QED BY <1>1, <2>2 DEF FieldValues, Front
<1>2. CASE ~(Len(line) > 1 /\ Last(line) = Empty)
  BY <1>2 DEF FieldValues
<1> QED BY <1>1, <1>2

\* What a strayed statement leaves are rows of the table.
LEMMA StrayedType ==
    ASSUME columns \in {<<>>, FieldNames}, rows \in Rows, NEW es \in Strayed
    PROVE  es \in Rows
<1> DEFINE R == [DOMAIN columns -> Value \cup {Null}]
           Row == {rows[i] : i \in DOMAIN rows} \cup Strange
<1>1. CASE columns = <<>>
  BY <1>1 DEF Strayed
<1>2. CASE columns # <<>>
  <2>1. rows \in Seq(R) /\ Strange \subseteq R
    BY <1>2, ConstantsAssumption DEF Rows
  <2>2. \A i \in DOMAIN rows : rows[i] \in R
    BY <2>1
  <2>3. Row \subseteq R
    BY <2>1, <2>2
  <2>4. PICK n \in 0..MaxRows : es \in [1..n -> Row]
    BY <1>2 DEF Strayed
  <2>5. n \in Nat
    BY ConstantsAssumption
  <2> HIDE DEF R, Row
  <2>6. es \in Seq(R)
    BY <2>3, <2>4, <2>5
  <2> QED BY <2>6 DEF Rows, R
<1> QED BY <1>1, <1>2

\* An update of a name no row has changes nothing.
LEMMA UpdatedNothing ==
    ASSUME NEW es \in Rows, NEW name, NEW values, ~HasName(es, name)
    PROVE  Updated(es, name, values) = es
<1>1. \A i \in DOMAIN es : es[i][1] # name
  BY DEF HasName
<1>2. Updated(es, name, values) = [i \in DOMAIN es |-> es[i]]
  BY <1>1 DEF Updated
<1> QED BY <1>2 DEF Rows

-----------------------------------------------------------------------------
(* Types *)

Codes == {"OK", "ERROR", "BUSY", "MISUSE", "DONE"}
Loaders == {"started", "loading", "returned", "stored", "done"}
Places == SetPlaces \cup {"idle", "fields", "opened", "backup", "saved"}

\* TypeOK, its sets named.
LEMMA Types ==
    TypeOK <=>
        /\ up \in BOOLEAN /\ columns \in {<<>>, FieldNames}
        /\ file \in Rows /\ rows \in Rows
        /\ loader \in Loaders /\ loaded \in 0..Len(columns)
        /\ pragma \in {"OK", "ERROR"} /\ ready \in BOOLEAN
        /\ dbRC \in Codes /\ db \in Handle /\ live \subseteq Handle /\ fresh \in Handle
        /\ (pc # "opened" => fresh = db)
        /\ pc \in Places /\ csv \in CsvArgs \cup {<<>>}
        /\ (pc \in SetPlaces \/ answer.op = "set" => csv # <<>>)
        /\ found \in BOOLEAN /\ stmt \in BOOLEAN /\ sql \in Seq(Value)
        /\ answer \in Answers
        /\ before \in Rows
        /\ raced \in BOOLEAN /\ early \in BOOLEAN /\ mishaps \subseteq Mishap
BY DEF TypeOK, Rows, Codes, Loaders, Places, Answers

\* And after a step, the columns staying the same.
LEMMA TypesNext ==
    ASSUME TypeOK, UNCHANGED columns,
           /\ up' \in BOOLEAN /\ file' \in Rows /\ rows' \in Rows
           /\ loader' \in Loaders /\ loaded' \in 0..Len(columns)
           /\ pragma' \in {"OK", "ERROR"} /\ ready' \in BOOLEAN
           /\ dbRC' \in Codes /\ db' \in Handle /\ live' \subseteq Handle /\ fresh' \in Handle
           /\ (pc' # "opened" => fresh' = db')
           /\ pc' \in Places /\ csv' \in CsvArgs \cup {<<>>}
           /\ (pc' \in SetPlaces \/ answer'.op = "set" => csv' # <<>>)
           /\ found' \in BOOLEAN /\ stmt' \in BOOLEAN /\ sql' \in Seq(Value)
           /\ answer' \in Answers
           /\ before' \in Rows
           /\ raced' \in BOOLEAN /\ early' \in BOOLEAN /\ mishaps' \subseteq Mishap
    PROVE  TypeOK'
<1>1. Rows' = Rows
  BY DEF Rows
<1>2. /\ up' \in BOOLEAN /\ columns' \in {<<>>, FieldNames}
      /\ file' \in Rows' /\ rows' \in Rows'
      /\ loader' \in Loaders /\ loaded' \in 0..Len(columns')
      /\ pragma' \in {"OK", "ERROR"} /\ ready' \in BOOLEAN
      /\ before' \in Rows'
  BY <1>1, Types
<1>3. /\ dbRC' \in Codes /\ db' \in Handle /\ live' \subseteq Handle /\ fresh' \in Handle
      /\ (pc' # "opened" => fresh' = db')
      /\ pc' \in Places /\ csv' \in CsvArgs \cup {<<>>}
      /\ (pc' \in SetPlaces \/ answer'.op = "set" => csv' # <<>>)
      /\ found' \in BOOLEAN /\ stmt' \in BOOLEAN /\ sql' \in Seq(Value)
      /\ answer' \in Answers
      /\ raced' \in BOOLEAN /\ early' \in BOOLEAN /\ mishaps' \subseteq Mishap
  OBVIOUS
<1> QED BY ONLY <1>2, <1>3, Zenon DEF TypeOK, Rows, Codes, Loaders, Places, Answers

\* What the types say of the columns and of the line.
LEMMA TypeFacts ==
    ASSUME TypeOK
    PROVE  /\ columns \in Seq(STRING) /\ Len(columns) \in Nat
           /\ columns # <<>> => Len(columns) # 0
           /\ csv \in Seq(Value)
           /\ pc \in SetPlaces \/ answer.op = "set" => csv \in Seq(Value) \ {<<>>}
           /\ loaded \in Nat /\ loaded <= Len(columns)
           /\ \A n \in Seen : n \in 0..Len(columns)
<1>1. columns \in Seq(STRING) /\ Len(columns) \in Nat /\ (columns # <<>> => Len(columns) # 0)
  BY ConstantsAssumption DEF TypeOK
<1>2. csv \in Seq(Value) /\ (pc \in SetPlaces \/ answer.op = "set" => csv \in Seq(Value) \ {<<>>})
  <2>1. csv \in CsvArgs \cup {<<>>} /\ (pc \in SetPlaces \/ answer.op = "set" => csv # <<>>)
    BY Types
  <2>2. <<>> \in Seq(Value)
    OBVIOUS
  <2>3. \A line \in CsvArgs : line \in Seq(Value) \ {<<>>}
    BY ConstantsAssumption
  <2> QED BY <2>1, <2>2, <2>3
<1>3. loaded \in Nat /\ loaded <= Len(columns)
  BY <1>1 DEF TypeOK
<1> QED BY <1>1, <1>2, <1>3 DEF Seen

LEMMA BeginType ==
    ASSUME TypeOK, NEW es \in Rows, Begin(es)
    PROVE  before' \in Rows /\ raced' \in BOOLEAN /\ early' \in BOOLEAN /\ mishaps' \subseteq Mishap
BY Types DEF Begin

LEMMA ReturnType ==
    ASSUME TypeOK, NEW op \in {"fields", "set", "save"}, NEW ok \in BOOLEAN, Return(op, ok)
    PROVE  /\ pc' = "idle" /\ answer' \in Answers /\ answer'.op = op
           /\ found' \in BOOLEAN /\ stmt' \in BOOLEAN /\ sql' \in Seq(Value)
<1>1. <<>> \in Seq(Value)
  OBVIOUS
<1>2. answer' \in Answers
  BY AnswerType, NoNames DEF Return
<1> QED BY <1>1, <1>2 DEF Return, Answer

LEMMA OngoingType ==
    ASSUME NEW place \in Places, Ongoing(place)
    PROVE  pc' = place /\ answer' \in Answers /\ answer'.op = "none"
BY AnswerType, NoNames DEF Ongoing, Answer

LEMMA InitType == Init => TypeOK
<1> SUFFICES ASSUME Init PROVE TypeOK
  OBVIOUS
<1>1. columns \in {<<>>, FieldNames} /\ file \in Rows /\ rows \in Rows /\ before \in Rows
  <2>1. <<>> \in Rows
    BY DEF Rows
  <2>2. CASE columns = FieldNames /\ file \in InitRows
    BY <2>1, <2>2, ConstantsAssumption DEF Init, Rows
  <2>3. CASE columns = <<>> /\ file = <<>>
    BY <2>1, <2>3 DEF Init
  <2> QED BY <2>2, <2>3 DEF Init
<1>2. loaded \in 0..Len(columns)
  BY <1>1, ConstantsAssumption DEF Init
<1>3. answer \in Answers /\ answer.op = "none"
  BY AnswerType, NoNames DEF Init, Answer
<1>4. <<>> \in Seq(Value)
  OBVIOUS
<1> QED BY <1>1, <1>2, <1>3, <1>4, Types DEF Init, Codes, Loaders, Places, SetPlaces

\* The steps that change neither rows, nor file, nor what set() works out.
LEMMA QuietType ==
    ASSUME IInv, Read \/ Stop \/ LoaderStep \/ FieldsCall \/ FieldsReturn \/ UNCHANGED vars
    PROVE  TypeOK'
<1>1. CASE UNCHANGED vars
  BY <1>1 DEF vars, IInv, TypeOK
<1>2. CASE Read
  <2>1. loaded' \in 0..Len(columns')
    BY <1>2, TypeFacts DEF Read, IInv
  <2>2. /\ up' = TRUE /\ rows' = file /\ loader' \in Loaders /\ pragma' = "OK" /\ ready' = FALSE
        /\ dbRC' \in Codes /\ db' \in Handle /\ live' = {} /\ fresh' = db'
        /\ UNCHANGED <<columns, file, pc, work, answer, history>>
    BY <1>2 DEF Read, Loaders, Codes
  <2> QED BY <2>1, <2>2, Types, TypesNext DEF IInv
<1>3. CASE Stop
  <2>1. loaded' \in 0..Len(columns')
    BY <1>3, TypeFacts DEF Stop, IInv
  <2>2. answer' \in Answers /\ answer'.op = "none"
    BY <1>3, AnswerType, NoNames DEF Stop, Answer
  <2>3. rows' \in Rows /\ before' \in Rows /\ sql' \in Seq(Value)
    BY <1>3 DEF Stop, Rows
  <2>4. pc' \in Places /\ pc' \notin SetPlaces /\ loader' \in Loaders /\ dbRC' \in Codes
    BY <1>3 DEF Stop, Places, SetPlaces, Loaders, Codes
  <2> QED BY <1>3, <2>1, <2>2, <2>3, <2>4, Types, TypesNext DEF Stop, IInv
<1>4. CASE LoaderStep
  <2>1. loaded' \in 0..Len(columns')
    BY <1>4, TypeFacts DEF LoaderStep, LoaderExec, LoaderPush, LoaderReturn, LoaderStore, LoaderCheck, IInv
  <2>2. /\ loader' \in Loaders /\ ready' \in BOOLEAN /\ dbRC' \in Codes /\ pragma' \in {"OK", "ERROR"}
        /\ mishaps' \subseteq Mishap
    BY <1>4 DEF LoaderStep, LoaderExec, LoaderPush, LoaderReturn, LoaderStore, LoaderCheck,
                IInv, TypeOK, Loaders, Codes, Mishap
  <2>3. UNCHANGED <<up, columns, file, rows, handles, pc, work, answer, before, raced, early>>
    BY <1>4 DEF LoaderStep, LoaderExec, LoaderPush, LoaderReturn, LoaderStore, LoaderCheck
  <2> QED BY <2>1, <2>2, <2>3, Types, TypesNext DEF IInv
<1>5. CASE FieldsCall
  <2>1. pc' = "fields" /\ answer' \in Answers /\ answer'.op = "none"
    BY <1>5, OngoingType DEF FieldsCall, Places
  <2>2. pc' \in Places /\ pc' \notin SetPlaces
    BY <2>1 DEF Places, SetPlaces
  <2>3. /\ csv' = <<>> /\ pc = "idle"
        /\ UNCHANGED <<up, columns, file, rows, loading, dbRC, handles, locals, history>>
    BY <1>5 DEF FieldsCall
  <2> QED BY <2>1, <2>2, <2>3, Types, TypesNext DEF IInv
<1>6. CASE FieldsReturn
  <2> DEFINE names == IF ready THEN SubSeq(columns, 1, loaded) ELSE <<>>
  <2>1. names \in Seq({FieldNames[i] : i \in DOMAIN FieldNames})
    <3>1. 1 \in Nat /\ \A i \in 1..loaded : i \in DOMAIN columns
      BY TypeFacts DEF IInv
    <3>2. \A i \in DOMAIN columns : columns[i] \in {FieldNames[j] : j \in DOMAIN FieldNames}
      BY DEF IInv, TypeOK
    <3>3. columns \in Seq({FieldNames[i] : i \in DOMAIN FieldNames})
      BY <3>2, TypeFacts DEF IInv
    <3> QED BY <3>1, <3>3, TypeFacts, SubSeqProperties DEF IInv
  <2>2. answer' \in Answers /\ answer'.op = "fields"
    BY <1>6, <2>1, AnswerType DEF FieldsReturn, Answer
  <2>3. /\ pc = "fields" /\ pc' = "idle"
        /\ UNCHANGED <<up, columns, file, rows, loading, dbRC, handles, work, history>>
    BY <1>6 DEF FieldsReturn
  <2>4. pc' \in Places /\ pc' \notin SetPlaces
    BY <2>3 DEF Places, SetPlaces
  <2> QED BY <2>2, <2>3, <2>4, Types, TypesNext DEF IInv
<1> QED BY <1>1, <1>2, <1>3, <1>4, <1>5, <1>6

LEMMA GetType ==
    ASSUME IInv, Get \/ GetOther
    PROVE  TypeOK'
<1>1. before' \in Rows /\ raced' \in BOOLEAN /\ early' \in BOOLEAN /\ mishaps' \subseteq Mishap
  <2>1. <<>> \in Rows
    BY DEF Rows
  <2> QED BY <2>1, BeginType DEF Get, GetOther, IInv
<1>2. answer' \in Answers /\ answer'.op = "none" /\ csv' = <<>>
  <2>1. answer' = Answer("none", FALSE, <<>>) /\ csv' = <<>>
    BY DEF Get, GetOther
  <2> QED BY <2>1, AnswerType, NoNames DEF Answer
<1>3. /\ dbRC' \in Codes /\ pc = "idle"
      /\ UNCHANGED <<up, columns, file, loading, handles, pc, locals>>
  BY DEF Get, GetOther, Codes, Begin
<1>4. rows' \in Rows
  <2>1. rows \in Rows /\ columns \in {<<>>, FieldNames}
    BY Types DEF IInv
  <2> QED BY <2>1, StrayedType DEF Get, GetOther
<1>5. "idle" \notin SetPlaces
  BY DEF SetPlaces
<1> QED BY <1>1, <1>2, <1>3, <1>4, <1>5, Types, TypesNext DEF IInv

LEMMA SetType ==
    ASSUME IInv, NEW line \in CsvArgs, Set(line)
    PROVE  TypeOK'
<1>1. before' \in Rows /\ raced' \in BOOLEAN /\ early' \in BOOLEAN /\ mishaps' \subseteq Mishap
  <2>1. rows \in Rows /\ Begin(rows)
    BY Types DEF Set, IInv
  <2> QED BY <2>1, BeginType DEF IInv
<1>2. /\ csv' = line /\ line # <<>> /\ pc = "idle"
      /\ UNCHANGED <<up, columns, file, rows, loading, dbRC, handles>>
  BY ConstantsAssumption DEF Set, Begin
<1>3. CASE Return("set", FALSE)
  <2>1. /\ pc' = "idle" /\ answer' \in Answers
        /\ found' \in BOOLEAN /\ stmt' \in BOOLEAN /\ sql' \in Seq(Value)
    BY <1>3, ReturnType DEF IInv
  <2>2. "idle" \in Places /\ "idle" # "opened"
    BY DEF Places
  <2> QED BY <1>1, <1>2, <2>1, <2>2, Types, TypesNext DEF IInv
<1>4. CASE Ongoing("exists") /\ UNCHANGED locals
  <2>1. "exists" \in Places /\ "exists" # "opened"
    BY DEF Places, SetPlaces
  <2>2. pc' = "exists" /\ answer' \in Answers
    BY <1>4, <2>1, OngoingType
  <2> QED BY <1>1, <1>2, <1>4, <2>1, <2>2, Types, TypesNext DEF IInv
<1> QED BY <1>3, <1>4 DEF Set

\* What sqlite3_step leaves are rows of the table.
LEMMA StepRows ==
    ASSUME IInv, Step
    PROVE  rows' \in Rows
<1>1. rows \in Rows /\ columns \in {<<>>, FieldNames} /\ found \in BOOLEAN /\ sql \in Seq(Value)
  BY Types DEF IInv
<1>2. CASE rows' = rows
  BY <1>1, <1>2
<1>3. CASE rows' \in Strayed
  BY <1>1, <1>3, StrayedType
<1>4. CASE stmt /\ Intact(Text) /\ rows' = Executed(rows, found, Literal[csv[1]], Meant(sql))
  <2>1. pc = "step" /\ csv \in Seq(Value) \ {<<>>} /\ columns \in Seq(STRING)
    BY TypeFacts DEF Step, SetPlaces, IInv
  <2>2. Fits
    BY <1>4, <2>1 DEF IInv, SetInv, StatementFits, SetPlaces
  <2>3. ~found => Len(sql) = Len(columns)
    BY <2>2 DEF Fits
  <2>4. Intact(sql)
    <3>1. CASE found
      <4>1. Text = Append(sql, csv[1]) /\ csv[1] \in Value
        BY <2>1, <3>1 DEF Text
      <4>2. \A i \in DOMAIN sql : i \in DOMAIN Text /\ Text[i] = sql[i]
        BY <1>1, <4>1
      <4> QED BY <1>4, <4>2 DEF Intact
    <3> QED BY <1>4, <3>1 DEF Text
  <2>5. Meant(sql) \in Seq(Value) /\ (~found => Len(Meant(sql)) = Len(columns))
    BY <1>1, <2>3, <2>4, MeantType
  <2> QED BY <1>1, <1>4, <2>1, <2>5, ExecutedType
<1> QED BY <1>2, <1>3, <1>4 DEF Step

LEMMA SetStepType ==
    ASSUME IInv, SetStep
    PROVE  TypeOK'
<1>0. pc \in SetPlaces /\ csv # <<>> /\ csv \in Seq(Value) \ {<<>>}
  <2>1. pc \in SetPlaces
    BY DEF SetStep, AlreadyExists, BuildSQL, Prepare, PrepareCheck, Step, StepCheck, StepCheckDone, SetPlaces
  <2> QED BY <2>1, TypeFacts DEF IInv
<1>1. CASE AlreadyExists
  <2>1. rows' \in Rows
    <3>1. rows \in Rows /\ columns \in {<<>>, FieldNames}
      BY Types DEF IInv
    <3> QED BY <1>1, <3>1, StrayedType DEF AlreadyExists, Counted, Uncounted, CountedOther
  <2>2. found' \in BOOLEAN /\ mishaps' \subseteq Mishap /\ dbRC' \in Codes
    BY <1>1 DEF AlreadyExists, Counted, Uncounted, CountedOther, Mishap, Codes, IInv, TypeOK
  <2>3. /\ pc' = "build"
        /\ UNCHANGED <<up, columns, file, loading, handles, csv, sql, stmt, answer, before, raced, early>>
    BY <1>1 DEF AlreadyExists
  <2>4. "build" \in Places /\ pc # "opened"
    BY <1>1 DEF Places, SetPlaces, AlreadyExists
  <2> QED BY <1>0, <2>1, <2>2, <2>3, <2>4, Types, TypesNext DEF IInv
<1>2. CASE BuildSQL
  <2>1. sql' \in Seq(Value)
    <3>1. CASE ~found
      BY <1>0, <1>2, <3>1, FieldValuesType DEF BuildSQL, IInv
    <3>2. CASE found
      BY <1>0, <1>2, <3>2, TypeFacts, FirstValuesType DEF BuildSQL, IInv
    <3> QED BY <3>1, <3>2
  <2>2. mishaps' \subseteq Mishap
    BY <1>2 DEF BuildSQL, Mishap, IInv, TypeOK
  <2>3. /\ pc' = "prepare"
        /\ UNCHANGED <<up, columns, file, rows, loading, dbRC, handles, csv, found, stmt, answer,
                       before, raced, early>>
    BY <1>2 DEF BuildSQL
  <2>4. "prepare" \in Places /\ pc # "opened"
    BY <1>2 DEF Places, SetPlaces, BuildSQL
  <2> QED BY <1>0, <2>1, <2>2, <2>3, <2>4, Types, TypesNext DEF IInv
<1>3. CASE Prepare
  <2>1. stmt' \in BOOLEAN /\ dbRC' \in Codes
    BY <1>3 DEF Prepare, Codes
  <2>2. /\ pc' = "prepared"
        /\ UNCHANGED <<up, columns, file, rows, loading, handles, csv, found, sql, answer, history>>
    BY <1>3 DEF Prepare
  <2>3. "prepared" \in Places /\ pc # "opened"
    BY <1>3 DEF Places, SetPlaces, Prepare
  <2> QED BY <1>0, <2>1, <2>2, <2>3, Types, TypesNext DEF IInv
<1>4. ASSUME NEW place \in SetPlaces,
             \/ \E ok \in BOOLEAN : Return("set", ok)
             \/ Ongoing(place) /\ UNCHANGED locals,
             UNCHANGED <<up, columns, file, rows, loading, dbRC, handles, csv, history>>
      PROVE  TypeOK'
  <2>1. place \in Places /\ "idle" \in Places /\ place # "opened" /\ pc # "opened"
    BY <1>0, <1>4 DEF Places, SetPlaces
  <2>2. ASSUME NEW ok \in BOOLEAN, Return("set", ok) PROVE TypeOK'
    <3>1. /\ pc' = "idle" /\ answer' \in Answers
          /\ found' \in BOOLEAN /\ stmt' \in BOOLEAN /\ sql' \in Seq(Value)
      BY <2>2, ReturnType DEF IInv
    <3> QED BY <1>0, <1>4, <2>1, <3>1, Types, TypesNext DEF IInv
  <2>3. CASE Ongoing(place) /\ UNCHANGED locals
    <3>1. pc' = place /\ answer' \in Answers
      BY <2>1, <2>3, OngoingType
    <3> QED BY <1>0, <1>4, <2>1, <2>3, <3>1, Types, TypesNext DEF IInv
  <2> QED BY <1>4, <2>2, <2>3
<1>5. CASE PrepareCheck
  <2>1. "step" \in SetPlaces
    BY DEF SetPlaces
  <2> QED BY <1>4, <1>5, <2>1 DEF PrepareCheck
<1>6. CASE Step
  <2>1. dbRC' \in Codes /\ rows' \in Rows
    BY <1>6, StepRows DEF Step, Codes
  <2>2. /\ pc' = "stepped"
        /\ UNCHANGED <<up, columns, file, loading, handles, work, answer, history>>
    BY <1>6 DEF Step
  <2>3. "stepped" \in Places /\ pc # "opened"
    BY <1>6 DEF Places, SetPlaces, Step
  <2> QED BY <1>0, <2>1, <2>2, <2>3, Types, TypesNext DEF IInv
<1>7. CASE StepCheck
  <2>1. "compared" \in SetPlaces
    BY DEF SetPlaces
  <2> QED BY <1>4, <1>7, <2>1 DEF StepCheck
<1>8. CASE StepCheckDone
  <2>1. (dbRC = "DONE") \in BOOLEAN
    OBVIOUS
  <2> QED BY <1>0, <1>4, <1>8, <2>1 DEF StepCheckDone
<1> QED BY <1>1, <1>2, <1>3, <1>5, <1>6, <1>7, <1>8 DEF SetStep

LEMMA SaveType ==
    ASSUME IInv, SaveOpen \/ SaveOpened \/ SaveBackup \/ SaveCheck
    PROVE  TypeOK'
<1>0. "idle" \notin SetPlaces /\ "opened" \notin SetPlaces /\ "backup" \notin SetPlaces /\ "saved" \notin SetPlaces
  BY DEF SetPlaces
<1>1. CASE SaveOpen
  <2>1. before' \in Rows /\ raced' \in BOOLEAN /\ early' \in BOOLEAN /\ mishaps' \subseteq Mishap
    <3>1. file \in Rows /\ Begin(file)
      BY <1>1, Types DEF SaveOpen, IInv
    <3> QED BY <3>1, BeginType DEF IInv
  <2>2. pc' = "opened" /\ answer' \in Answers /\ answer'.op = "none"
    BY <1>1, OngoingType DEF SaveOpen, Places
  <2>3. fresh' \in Handle /\ live' \subseteq Handle /\ dbRC' \in Codes
    BY <1>1 DEF SaveOpen, IInv, TypeOK, Codes
  <2>4. csv' = <<>> /\ UNCHANGED <<up, columns, file, rows, loading, db, locals>>
    BY <1>1 DEF SaveOpen
  <2>5. "opened" \in Places
    BY DEF Places
  <2> QED BY <1>0, <2>1, <2>2, <2>3, <2>4, <2>5, Types, TypesNext DEF IInv
<1>2. CASE SaveOpened
  <2>1. /\ pc = "opened" /\ db' \in Handle /\ live' \subseteq Handle /\ fresh' = db'
        /\ UNCHANGED <<up, columns, file, rows, loading, dbRC, csv, history>>
    BY <1>2 DEF SaveOpened, IInv, TypeOK
  <2>2. "backup" \in Places /\ "idle" \in Places
    BY DEF Places
  <2>3. CASE Ongoing("backup") /\ UNCHANGED locals
    <3>1. pc' = "backup" /\ answer' \in Answers /\ answer'.op = "none"
      BY <2>2, <2>3, OngoingType
    <3> QED BY <1>0, <2>1, <2>2, <2>3, <3>1, Types, TypesNext DEF IInv
  <2>4. CASE Return("save", FALSE)
    <3>1. /\ pc' = "idle" /\ answer' \in Answers /\ answer'.op = "save"
          /\ found' \in BOOLEAN /\ stmt' \in BOOLEAN /\ sql' \in Seq(Value)
      BY <2>4, ReturnType DEF IInv
    <3> QED BY <1>0, <2>1, <2>2, <3>1, Types, TypesNext DEF IInv
  <2> QED BY <1>2, <2>3, <2>4 DEF SaveOpened
<1>3. CASE SaveBackup
  <2>1. /\ pc = "backup" /\ pc' = "saved" /\ dbRC' \in Codes /\ file' \in {rows, file}
        /\ UNCHANGED <<up, columns, rows, loading, handles, work, answer, history>>
    BY <1>3 DEF SaveBackup, Codes
  <2>2. "saved" \in Places
    BY DEF Places
  <2> QED BY <1>0, <2>1, <2>2, Types, TypesNext DEF IInv
<1>4. CASE SaveCheck
  <2>1. (dbRC = "OK") \in BOOLEAN
    OBVIOUS
  <2>2. /\ pc' = "idle" /\ answer' \in Answers /\ answer'.op = "save"
        /\ found' \in BOOLEAN /\ stmt' \in BOOLEAN /\ sql' \in Seq(Value)
    BY <1>4, <2>1, ReturnType DEF SaveCheck, IInv
  <2>3. pc = "saved" /\ UNCHANGED <<up, columns, file, rows, loading, dbRC, handles, csv, history>>
    BY <1>4 DEF SaveCheck
  <2>4. "idle" \in Places
    BY DEF Places
  <2> QED BY <1>0, <2>2, <2>3, <2>4, Types, TypesNext DEF IInv
<1> QED BY <1>1, <1>2, <1>3, <1>4

LEMMA NextType == IInv /\ [Next]_vars => TypeOK'
BY QuietType, GetType, SetType, SetStepType, SaveType DEF Next

-----------------------------------------------------------------------------
(* Steps *)

USE DEF SetInv, Promises

\* What a step has to keep when no call of set() is in progress after it.
LEMMA NotInSet ==
    ASSUME pc \notin SetPlaces
    PROVE  SetInv
BY DEF ChecksValues, RowsUntouched, FoundTruly, SaysItsValues, StatementFits, NotOvertaken,
       ResultSaysIt, BeforeStep, AfterStep, SetPlaces

LEMMA NotInSetNext ==
    ASSUME pc' \notin SetPlaces
    PROVE  SetInv'
BY DEF ChecksValues, RowsUntouched, FoundTruly, SaysItsValues, StatementFits, NotOvertaken,
       ResultSaysIt, BeforeStep, AfterStep, SetPlaces

\* And when no call is and the last one was a get() or none.
LEMMA NothingAnswered ==
    ASSUME answer.op = "none"
    PROVE  Promises
BY DEF FieldsAnswerWhole, FailedSetChangesNothing, TrueSetStoresAll, SaveAnswersTruly

LEMMA NothingAnsweredNext ==
    ASSUME answer'.op = "none"
    PROVE  Promises'
BY DEF FieldsAnswerWhole, FailedSetChangesNothing, TrueSetStoresAll, SaveAnswersTruly

\* A call in progress has not answered.
LEMMA OngoingAnswer ==
    ASSUME NEW place, Ongoing(place)
    PROVE  pc' = place /\ answer'.op = "none" /\ Promises'
<1>1. pc' = place /\ answer'.op = "none"
  BY DEF Ongoing, Answer
<1> QED BY <1>1, NothingAnsweredNext

LEMMA ReturnAnswer ==
    ASSUME NEW op, NEW ok, Return(op, ok)
    PROVE  pc' = "idle" /\ answer'.op = op /\ answer'.ok = ok /\ SetInv'
<1>1. pc' = "idle" /\ answer'.op = op /\ answer'.ok = ok
  BY DEF Return, Answer
<1> QED BY <1>1, NotInSetNext DEF SetPlaces

\* A step of a call that leaves the loader and db_ alone.
LEMMA CallStep ==
    ASSUME IInv, up, UNCHANGED <<up, columns, loading, handles, raced, early>>,
           pc \notin {"idle", "fields"}, pc' # "fields"
    PROVE  NothingWithoutIt' /\ LoaderInv' /\ NoHandleLeaks'
<1>1. NothingWithoutIt'
  BY DEF NothingWithoutIt
<1>2. LoaderInv /\ NoHandleLeaks
  BY DEF IInv
<1>3. ASSUME dbRC' # dbRC, loader = "stored" PROVE early
  BY <1>2, <1>3 DEF LoaderInv
<1>4. LoaderInv'
  BY <1>2, <1>3 DEF LoaderInv
<1>5. NoHandleLeaks'
  BY <1>2 DEF NoHandleLeaks
<1> QED BY <1>1, <1>4, <1>5

\* The handles are as they were, and no database is being opened.
LEMMA HandlesKept ==
    ASSUME IInv, UNCHANGED <<loading, handles, early>>, pc' # "opened"
    PROVE  HandlesInv'
BY DEF IInv, HandlesInv

LEMMA InitInv == Init => IInv
<1> SUFFICES ASSUME Init PROVE IInv
  OBVIOUS
<1>1. answer.op = "none" /\ pc = "idle" /\ pc \notin SetPlaces
  BY DEF Answer, Init, SetPlaces
<1>2. TypeOK /\ Promises /\ SetInv
  BY InitType, <1>1, NothingAnswered, NotInSet
<1>3. NothingWithoutIt /\ NotAnswered /\ LoaderInv /\ SaveInv /\ HandlesInv /\ NoHandleLeaks
  BY <1>1 DEF Init, NothingWithoutIt, NotAnswered, LoaderInv, SaveInv, HandlesInv, NoHandleLeaks
<1> QED BY <1>2, <1>3 DEF IInv

LEMMA ReadInv == IInv /\ Read => IInv'
<1> SUFFICES ASSUME IInv, Read PROVE IInv'
  OBVIOUS
<1>1. TypeOK'
  BY QuietType
<1>2. pc = "idle" /\ answer.op = "none" /\ UNCHANGED <<pc, answer>>
  BY DEF Read, IInv, NothingWithoutIt
<1>3. pc' \notin SetPlaces /\ answer'.op = "none"
  BY <1>2 DEF SetPlaces
<1>4. SetInv' /\ Promises'
  BY <1>3, NotInSetNext, NothingAnsweredNext
<1>5. NothingWithoutIt' /\ NotAnswered' /\ LoaderInv' /\ SaveInv' /\ HandlesInv' /\ NoHandleLeaks'
  BY <1>2 DEF Read, NothingWithoutIt, NotAnswered, LoaderInv, SaveInv, HandlesInv, NoHandleLeaks
<1> QED BY <1>1, <1>4, <1>5 DEF IInv

LEMMA StopInv == IInv /\ Stop => IInv'
<1> SUFFICES ASSUME IInv, Stop PROVE IInv'
  OBVIOUS
<1>1. TypeOK'
  BY QuietType
<1>2. pc' = "idle" /\ pc' \notin SetPlaces /\ answer'.op = "none"
  BY DEF Stop, Answer, SetPlaces
<1>3. SetInv' /\ Promises'
  BY <1>2, NotInSetNext, NothingAnsweredNext
<1>4. NothingWithoutIt' /\ NotAnswered' /\ LoaderInv' /\ SaveInv' /\ HandlesInv' /\ NoHandleLeaks'
  BY <1>2 DEF Stop, NothingWithoutIt, NotAnswered, LoaderInv, SaveInv, HandlesInv, NoHandleLeaks
<1> QED BY <1>1, <1>3, <1>4 DEF IInv

\* The loader writes dbRC_ once, beside a race or no call, and set() is told
\* apart from it only until then.
LEMMA LoaderStepInv == IInv /\ LoaderStep => IInv'
<1> SUFFICES ASSUME IInv, LoaderStep PROVE IInv'
  OBVIOUS
<1>1. TypeOK' /\ Len(columns) \in Nat /\ loaded \in Nat
  BY QuietType, TypeFacts DEF IInv
<1>2. up /\ loader # "done" /\ (pc \notin {"idle", "fields"} => raced /\ early)
  BY DEF LoaderStep, LoaderExec, LoaderPush, LoaderReturn, LoaderStore, LoaderCheck, IInv, LoaderInv,
         NothingWithoutIt
<1>3. UNCHANGED <<up, columns, file, rows, handles, pc, work, answer, before, raced, early>>
  BY DEF LoaderStep, LoaderExec, LoaderPush, LoaderReturn, LoaderStore, LoaderCheck
<1>4. LoaderStore \/ UNCHANGED <<dbRC, mishaps>>
  BY DEF LoaderStep, LoaderExec, LoaderPush, LoaderReturn, LoaderStore, LoaderCheck
<1>5. /\ pragma \in {"OK", "ERROR"}
      /\ pragma = "ERROR" => pragma' = "ERROR"
  <2>1. pragma \in {"OK", "ERROR"} /\ (loader \in {"started", "loading"} => pragma = "OK")
    BY DEF IInv, TypeOK, LoaderInv
  <2> QED BY <2>1 DEF LoaderStep, LoaderExec, LoaderPush, LoaderReturn, LoaderStore, LoaderCheck
<1>6. /\ mishaps \subseteq mishaps' /\ mishaps' \subseteq mishaps \cup {"overtaken"}
      /\ pc \notin AfterStep => mishaps' = mishaps
  BY <1>4 DEF LoaderStore, AfterStep
<1>7. NothingWithoutIt' /\ LoaderInv'
  <2>1. LoaderInv /\ up' /\ raced' = raced /\ early' = early /\ pc' = pc /\ columns' = columns
    BY <1>2, <1>3 DEF IInv
  <2>2. CASE LoaderExec \/ LoaderPush
    BY <1>2, <2>1, <2>2 DEF LoaderExec, LoaderPush, LoaderInv, NothingWithoutIt
  <2>3. CASE LoaderReturn
    BY <1>2, <2>1, <2>3 DEF LoaderReturn, LoaderInv, NothingWithoutIt
  <2>4. CASE LoaderStore
    BY <1>2, <2>1, <2>4 DEF LoaderStore, LoaderInv, NothingWithoutIt
  <2>5. CASE LoaderCheck
    <3>1. /\ loader = "stored" /\ loader' = "done" /\ (ready' <=> dbRC = "OK")
          /\ UNCHANGED <<loaded, pragma, dbRC>>
      BY <2>5 DEF LoaderCheck
    <3>2. (loaded = Len(columns) \/ pragma = "ERROR") /\ (dbRC = pragma \/ early)
      BY <2>1, <3>1 DEF LoaderInv
    <3>3. /\ ready' => loaded = Len(columns) \/ early
          /\ ~ready' => pragma = "ERROR" \/ early
      BY <1>5, <3>1, <3>2
    <3> QED BY <2>1, <3>1, <3>2, <3>3 DEF LoaderInv, NothingWithoutIt
  <2> QED BY <2>2, <2>3, <2>4, <2>5 DEF LoaderStep
<1>13. NotAnswered'
  BY <1>3 DEF IInv, NotAnswered
<1>8. SetInv'
  <2>1. Intact(csv)' = Intact(csv) /\ Literal[csv[1]]' = Literal[csv[1]] /\ FieldValues(csv)' = FieldValues(csv)
    BY <1>3 DEF Intact, FieldValues
  <2>2. pc \in SetPlaces => raced
    BY <1>2 DEF SetPlaces
  <2>3. ChecksValues' /\ RowsUntouched'
    BY <1>3, <2>1, <2>2 DEF IInv, ChecksValues, RowsUntouched
  <2>4. FoundTruly'
    BY <1>3, <1>6, <2>1 DEF IInv, FoundTruly, HasName, AfterStep
  <2>5. SaysItsValues'
    BY <1>3, <1>6, <2>1, <2>2 DEF IInv, SaysItsValues, AfterStep
  <2>6. StatementFits' /\ NotOvertaken'
    <3>1. StatementFits'
      BY <1>3 DEF IInv, StatementFits, Intact, Text, Fits
    <3>2. NotOvertaken'
      BY <1>3, <1>6 DEF IInv, NotOvertaken, BeforeStep, AfterStep
    <3> QED BY <3>1, <3>2
  <2>7. ResultSaysIt'
    <3>1. Stored' = Stored
      BY <1>3 DEF Stored, Executed, Updated, Meant
    <3>2. CASE LoaderStore /\ pc \in AfterStep
      <4>1. "overtaken" \in mishaps' /\ raced'
        BY <1>3, <2>2, <3>2 DEF LoaderStore, AfterStep, SetPlaces
      <4> QED BY <1>3, <1>6, <2>1, <3>1, <4>1 DEF IInv, ResultSaysIt
    <3>3. CASE UNCHANGED <<dbRC, mishaps>>
      BY <1>3, <2>1, <3>1, <3>3 DEF IInv, ResultSaysIt
    <3>4. CASE pc \notin AfterStep
      BY <1>3, <3>4 DEF ResultSaysIt
    <3> QED BY <1>4, <3>2, <3>3, <3>4
  <2> QED BY <2>3, <2>4, <2>5, <2>6, <2>7
<1>9. SaveInv'
  <2>1. CASE UNCHANGED dbRC
    BY <1>3, <1>5, <2>1 DEF IInv, SaveInv
  <2>2. CASE LoaderStore
    <3>1. dbRC' = pragma /\ pragma' = pragma
      BY <2>2 DEF LoaderStore
    <3>2. pc = "saved" => raced
      BY <1>2
    <3> QED BY <1>3, <1>5, <3>1, <3>2 DEF IInv, SaveInv
  <2> QED BY <1>4, <2>1, <2>2
<1>10. HandlesInv'
  <2>1. CASE LoaderStore
    <3>1. loader = "returned" /\ loader' = "stored" /\ dbRC' = pragma /\ pragma' = pragma
      BY <2>1 DEF LoaderStore
    <3>2. live \subseteq {db, fresh}
      BY <3>1 DEF IInv, HandlesInv
    <3>3. pc = "opened" => early
      BY <1>2
    <3> QED BY <1>3, <1>5, <3>1, <3>2, <3>3 DEF HandlesInv
  <2>2. CASE UNCHANGED dbRC
    <3>1. loader \in {"stored", "done"} => loader' \in {"stored", "done"}
      BY <1>2 DEF LoaderStep, LoaderExec, LoaderPush, LoaderReturn, LoaderStore, LoaderCheck
    <3>2. loader' \in {"stored", "done"} => loader \in {"stored", "done"} \/ LoaderStore
      BY DEF LoaderStep, LoaderExec, LoaderPush, LoaderReturn, LoaderStore, LoaderCheck
    <3> QED BY <1>3, <1>5, <2>1, <2>2, <3>1, <3>2 DEF IInv, HandlesInv
  <2> QED BY <1>4, <2>1, <2>2
<1>11. NoHandleLeaks'
  BY <1>3, <1>5 DEF IInv, NoHandleLeaks
<1>12. Promises'
  <2>1. pc = "idle" => mishaps' = mishaps
    BY <1>6 DEF AfterStep
  <2>2. FieldsAnswerWhole' /\ SaveAnswersTruly'
    BY <1>3, <1>5 DEF IInv, FieldsAnswerWhole, SaveAnswersTruly
  <2>3. FailedSetChangesNothing'
    BY <1>3, <2>1 DEF IInv, FailedSetChangesNothing, Intact
  <2>4. TrueSetStoresAll'
    <3>1. CASE pc = "idle" /\ answer.op = "set"
      <4>1. TrueSetStoresAll /\ mishaps' = mishaps /\ (pragma = "ERROR" => pragma' = "ERROR")
        BY <1>5, <2>1, <3>1 DEF IInv
      <4> QED BY <1>3, <4>1 DEF TrueSetStoresAll
    <3>2. CASE ~(pc = "idle" /\ answer.op = "set")
      BY <1>3, <3>2 DEF TrueSetStoresAll
    <3> QED BY <3>1, <3>2
  <2> QED BY <2>2, <2>3, <2>4
<1> QED BY <1>1, <1>7, <1>8, <1>9, <1>10, <1>11, <1>12, <1>13 DEF IInv

LEMMA FieldsInv == IInv /\ (FieldsCall \/ FieldsReturn) => IInv'
<1> SUFFICES ASSUME IInv, FieldsCall \/ FieldsReturn PROVE IInv'
  OBVIOUS
<1>1. TypeOK'
  BY QuietType
<1>2. /\ pc \in {"idle", "fields"} /\ pc' \in {"idle", "fields"} /\ up
      /\ UNCHANGED <<up, columns, file, rows, loading, dbRC, handles, locals, history>>
  BY DEF FieldsCall, FieldsReturn, Ongoing, IInv, NothingWithoutIt
<1>3. NothingWithoutIt' /\ LoaderInv' /\ SaveInv' /\ HandlesInv' /\ NoHandleLeaks' /\ NotAnswered'
  <2>1. NotAnswered'
    BY DEF FieldsCall, FieldsReturn, Ongoing, Answer, NotAnswered
  <2> QED BY <1>2, <2>1 DEF IInv, NothingWithoutIt, LoaderInv, SaveInv, HandlesInv, NoHandleLeaks
<1>4. SetInv'
  BY <1>2, NotInSetNext DEF SetPlaces
<1>5. Promises'
  <2>1. CASE FieldsCall
    BY <2>1, OngoingAnswer DEF FieldsCall
  <2>2. CASE FieldsReturn
    <3>1. answer'.op = "fields" /\ answer'.names = IF ready THEN SubSeq(columns, 1, loaded) ELSE <<>>
      BY <2>2 DEF Answer, FieldsReturn
    <3>2. /\ loaded = Len(columns) \/ pragma = "ERROR"
          /\ ready => loaded = Len(columns) \/ early
          /\ ~ready => pragma = "ERROR" \/ early
      BY <1>2, <2>2 DEF FieldsReturn, IInv, LoaderInv
    <3>3. /\ SubSeq(columns, 1, Len(columns)) = columns
          /\ IsPrefix(SubSeq(columns, 1, loaded), columns)
      <4>1. columns \in Seq(STRING) /\ loaded \in 0..Len(columns)
        BY TypeFacts DEF IInv
      <4>2. SubSeq(columns, 1, Len(columns)) = columns
        BY <4>1, SubSeqFull
      <4> DEFINE first == SubSeq(columns, 1, loaded)
      <4>3. Len(first) = loaded /\ SubSeq(first, 1, loaded) = SubSeq(columns, 1, loaded)
        BY <4>1
      <4>4. IsPrefix(first, columns)
        BY <4>1, <4>3 DEF IsPrefix
      <4> QED BY <4>2, <4>4
    <3>4. FieldsAnswerWhole'
      BY <1>2, <3>1, <3>2, <3>3 DEF FieldsAnswerWhole
    <3> QED BY <3>1, <3>4 DEF FailedSetChangesNothing, TrueSetStoresAll, SaveAnswersTruly
  <2> QED BY <2>1, <2>2
<1> QED BY <1>1, <1>3, <1>4, <1>5 DEF IInv

LEMMA GetInv == IInv /\ (Get \/ GetOther) => IInv'
<1> SUFFICES ASSUME IInv, Get \/ GetOther PROVE IInv'
  OBVIOUS
<1>1. TypeOK'
  BY GetType
<1>2. /\ up /\ pc = "idle" /\ pc' = "idle" /\ early' = (early \/ loader # "done")
      /\ answer' = Answer("none", FALSE, <<>>)
      /\ UNCHANGED <<up, columns, file, loading, handles>>
  BY DEF Get, GetOther, Begin
<1>3. SetInv' /\ Promises'
  BY <1>2, NotInSetNext, NothingAnsweredNext DEF SetPlaces, Answer
<1>4. NothingWithoutIt' /\ NotAnswered' /\ LoaderInv' /\ SaveInv' /\ HandlesInv' /\ NoHandleLeaks'
  BY <1>2 DEF IInv, NothingWithoutIt, NotAnswered, LoaderInv, SaveInv, HandlesInv, NoHandleLeaks
<1> QED BY <1>1, <1>3, <1>4 DEF IInv

\* set() counts its values against all the names found, unless it races.
LEMMA SetCallInv == \A line \in CsvArgs : IInv /\ Set(line) => IInv'
<1> SUFFICES ASSUME NEW line \in CsvArgs, IInv, Set(line) PROVE IInv'
  OBVIOUS
<1>1. TypeOK'
  BY SetType
<1>2. /\ up /\ pc = "idle" /\ before' = rows
      /\ raced' = (loader # "done") /\ early' = (early \/ loader # "done") /\ mishaps' = {}
      /\ csv' = line
      /\ UNCHANGED <<up, columns, file, rows, loading, dbRC, handles>>
  BY DEF Set, Begin
<1>3. /\ pc' \in {"idle", "exists"}
      /\ NothingWithoutIt' /\ NotAnswered' /\ LoaderInv' /\ SaveInv' /\ HandlesInv' /\ NoHandleLeaks'
  <2>1. pc' \in {"idle", "exists"} /\ NotAnswered'
    BY DEF Set, Return, Ongoing, Answer, NotAnswered
  <2> QED BY <1>2, <2>1 DEF IInv, NothingWithoutIt, LoaderInv, SaveInv, HandlesInv, NoHandleLeaks
<1>4. CASE Return("set", FALSE)
  <2>1. pc' = "idle" /\ answer'.op = "set" /\ answer'.ok = FALSE /\ SetInv'
    BY <1>4, ReturnAnswer
  <2>2. Promises'
    BY <1>2, <2>1 DEF FieldsAnswerWhole, FailedSetChangesNothing, TrueSetStoresAll, SaveAnswersTruly
  <2> QED BY <1>1, <1>3, <2>1, <2>2 DEF IInv
<1>5. CASE Ongoing("exists") /\ \E n \in Seen : ~(n # 0 /\ n # Len(FieldValues(line)))
  <2>1. pc' = "exists" /\ answer'.op = "none" /\ Promises'
    BY <1>5, OngoingAnswer
  <2>2. ASSUME loader = "done" PROVE loaded = 0 \/ Len(FieldValues(line)) = loaded
    BY <1>5, <2>2 DEF Seen
  <2>3. ChecksValues'
    BY <1>2, <2>2 DEF ChecksValues
  <2>4. /\ RowsUntouched' /\ FoundTruly' /\ SaysItsValues' /\ StatementFits' /\ NotOvertaken'
        /\ ResultSaysIt'
    BY <1>2, <2>1 DEF NotOvertaken, RowsUntouched, FoundTruly, SaysItsValues, StatementFits, ResultSaysIt, AfterStep
  <2> QED BY <1>1, <1>3, <2>1, <2>3, <2>4 DEF IInv
<1> QED BY <1>4, <1>5 DEF Set

\* Where set() is, the provider is, and the call has not answered.
LEMMA InSet ==
    ASSUME IInv, pc \in SetPlaces
    PROVE  /\ up /\ pc \notin {"idle", "fields", "opened", "backup", "saved"}
           /\ csv \in Seq(Value) \ {<<>>}
BY TypeFacts DEF IInv, NothingWithoutIt, SetPlaces

\* The step of set() from one place to another keeps all but what is about it.
LEMMA SetGoesOn ==
    ASSUME IInv, pc \in SetPlaces, pc' \in SetPlaces, answer'.op = "none",
           UNCHANGED <<up, columns, file, loading, handles, raced, early>>,
           pc \in BeforeStep \/ pc' \notin BeforeStep,
           mishaps' \subseteq mishaps \cup {"uncounted", "overrun"}
    PROVE  /\ NothingWithoutIt' /\ LoaderInv' /\ NoHandleLeaks'
           /\ SaveInv' /\ HandlesInv' /\ Promises' /\ NotAnswered' /\ NotOvertaken'
<1>1. NothingWithoutIt' /\ LoaderInv' /\ NoHandleLeaks'
  BY InSet, CallStep DEF SetPlaces
<1>2. HandlesInv' /\ SaveInv' /\ NotAnswered'
  BY HandlesKept DEF SaveInv, NotAnswered, SetPlaces
<1>3. Promises'
  BY NothingAnsweredNext
<1>4. NotOvertaken'
  BY DEF IInv, NotOvertaken
<1> QED BY <1>1, <1>2, <1>3, <1>4

LEMMA AlreadyExistsInv == IInv /\ AlreadyExists => IInv'
<1> SUFFICES ASSUME IInv, AlreadyExists PROVE IInv'
  OBVIOUS
<1>1. TypeOK'
  BY SetStepType DEF SetStep
<1>2. /\ pc = "exists" /\ pc' = "build" /\ answer.op = "none"
      /\ UNCHANGED <<up, columns, file, loading, handles, csv, sql, stmt, answer, before, raced, early>>
      /\ mishaps' \subseteq mishaps \cup {"uncounted", "overrun"}
  BY DEF AlreadyExists, Counted, Uncounted, CountedOther, IInv, NotAnswered, SetPlaces
<1>3. /\ NothingWithoutIt' /\ LoaderInv' /\ NoHandleLeaks'
      /\ SaveInv' /\ HandlesInv' /\ Promises' /\ NotAnswered' /\ NotOvertaken'
  BY <1>2, SetGoesOn DEF SetPlaces, BeforeStep
<1>4. ChecksValues'
  BY <1>2 DEF IInv, ChecksValues, SetPlaces
<1>5. ASSUME Intact(csv)
      PROVE  /\ rows' = before
             /\ found' => HasName(before, Literal[csv[1]]) \/ "uncounted" \in mishaps'
             /\ ~found' => ~HasName(before, Literal[csv[1]])
  <2>1. rows = before
    BY <1>2, <1>5 DEF IInv, RowsUntouched, BeforeStep
  <2>2. Literal[csv[1]] # Broken
    <3>1. csv \in Seq(Value) \ {<<>>}
      BY <1>2, InSet DEF SetPlaces
    <3> QED BY <1>5, <3>1 DEF Intact
  <2>3. Counted \/ Uncounted
    BY <2>2 DEF AlreadyExists, CountedOther
  <2>4. CASE Counted
    BY <2>1, <2>4 DEF Counted, Named, HasName
  <2>5. CASE Uncounted
    BY <2>1, <2>5 DEF Uncounted
  <2> QED BY <2>3, <2>4, <2>5
<1>6. RowsUntouched' /\ FoundTruly'
  BY <1>2, <1>5 DEF RowsUntouched, FoundTruly, Intact, HasName
<1>7. SaysItsValues' /\ StatementFits' /\ ResultSaysIt'
  BY <1>2 DEF SaysItsValues, StatementFits, ResultSaysIt, AfterStep, SetPlaces
<1> QED BY <1>1, <1>3, <1>4, <1>6, <1>7 DEF IInv

LEMMA BuildInv == IInv /\ BuildSQL => IInv'
<1> SUFFICES ASSUME IInv, BuildSQL PROVE IInv'
  OBVIOUS
<1>1. TypeOK'
  BY SetStepType DEF SetStep
<1>2. /\ pc = "build" /\ pc' = "prepare" /\ answer.op = "none"
      /\ UNCHANGED <<up, columns, file, rows, loading, dbRC, handles, csv, found, stmt, answer,
                     before, raced, early>>
      /\ mishaps \subseteq mishaps' /\ mishaps' \subseteq mishaps \cup {"uncounted", "overrun"}
  BY DEF BuildSQL, IInv, NotAnswered, SetPlaces
<1>3. /\ NothingWithoutIt' /\ LoaderInv' /\ NoHandleLeaks'
      /\ SaveInv' /\ HandlesInv' /\ Promises' /\ NotAnswered' /\ NotOvertaken'
  BY <1>2, SetGoesOn DEF SetPlaces, BeforeStep
<1>4. ChecksValues' /\ RowsUntouched' /\ FoundTruly'
  BY <1>2 DEF IInv, ChecksValues, RowsUntouched, FoundTruly, SetPlaces, BeforeStep, Intact, HasName
<1>5. SaysItsValues'
  <2> DEFINE given == FieldValues(csv)
  <2>1. csv \in Seq(Value) \ {<<>>} /\ given \in Seq(Value) \ {<<>>} /\ given[1] = csv[1]
        /\ Len(columns) \in Nat /\ \A n \in Seen : n \in Nat
    BY <1>2, InSet, TypeFacts, FieldValuesType DEF SetPlaces, IInv
  <2>2. given' = given
    BY <1>2
  <2> HIDE DEF given
  <2>3. CASE ~found /\ sql' = given
    <3>1. sql'[1] = csv[1] /\ Len(sql') = Len(given) /\ SubSeq(given, 1, Len(given)) = given
      BY <2>1, <2>3
    <3> QED BY <1>2, <2>1, <2>2, <2>3, <3>1 DEF SaysItsValues, given
  <2>4. ASSUME found, NEW n \in Seen, sql' \in FirstValues(n),
               mishaps' = IF n > Len(given) THEN mishaps \cup {"overrun"} ELSE mishaps
        PROVE  SaysItsValues'
    <3>1. /\ sql' \in Seq(Value) /\ Len(sql') = n /\ (sql' # <<>> => sql'[1] = csv[1])
          /\ n = Len(given) => sql' = given
      BY <2>1, <2>4, FirstValuesType DEF given
    <3>2. ASSUME ~raced PROVE sql' \in {<<>>, given}
      <4>1. loader = "done"
        BY <1>2, <3>2, InSet DEF IInv, LoaderInv, SetPlaces
      <4>2. n = loaded /\ (loaded = 0 \/ Len(given) = loaded)
        BY <1>2, <2>4, <3>2, <4>1 DEF IInv, ChecksValues, SetPlaces, Seen, given
      <4> QED BY <3>1, <4>2
    <3>3. ASSUME "overrun" \notin mishaps'
          PROVE  Len(sql') <= Len(given) /\ sql' = SubSeq(given, 1, Len(sql'))
      <4>1. n \in 0..Len(given)
        BY <2>1, <2>4, <3>3
      <4>2. \A i \in 1..n : sql'[i] = given[i]
        <5>1. \A i \in 1..n : i \in DOMAIN given
          BY <2>1, <4>1
        <5> QED BY <2>4, <5>1 DEF FirstValues, given
      <4>3. /\ SubSeq(given, 1, n) \in Seq(Value) /\ Len(SubSeq(given, 1, n)) = n
            /\ \A i \in 1..n : SubSeq(given, 1, n)[i] = given[i]
        BY <2>1, <4>1
      <4>4. sql' = SubSeq(given, 1, n)
        BY <3>1, <4>2, <4>3
      <4> QED BY <3>1, <4>1, <4>4
    <3> QED BY <1>2, <2>2, <2>4, <3>1, <3>2, <3>3 DEF SaysItsValues, given
  <2> QED BY <2>3, <2>4 DEF BuildSQL, given
<1>6. StatementFits' /\ ResultSaysIt'
  BY <1>2 DEF StatementFits, ResultSaysIt, AfterStep, SetPlaces
<1> QED BY <1>1, <1>3, <1>4, <1>5, <1>6 DEF IInv

LEMMA PrepareInv == IInv /\ Prepare => IInv'
<1> SUFFICES ASSUME IInv, Prepare PROVE IInv'
  OBVIOUS
<1>1. TypeOK'
  BY SetStepType DEF SetStep
<1>2. /\ pc = "prepare" /\ pc' = "prepared" /\ answer.op = "none"
      /\ UNCHANGED <<up, columns, file, rows, loading, handles, csv, found, sql, answer, history>>
      /\ (stmt' /\ Intact(Text) => Fits)
  BY DEF Prepare, IInv, NotAnswered, SetPlaces
<1>3. /\ NothingWithoutIt' /\ LoaderInv' /\ NoHandleLeaks'
      /\ SaveInv' /\ HandlesInv' /\ Promises' /\ NotAnswered' /\ NotOvertaken'
  BY <1>2, SetGoesOn DEF SetPlaces, BeforeStep
<1>4. ChecksValues' /\ RowsUntouched' /\ FoundTruly' /\ SaysItsValues'
  BY <1>2 DEF IInv, ChecksValues, RowsUntouched, FoundTruly, SaysItsValues, SetPlaces, BeforeStep,
     Intact, HasName
<1>5. StatementFits' /\ ResultSaysIt'
  BY <1>2 DEF StatementFits, ResultSaysIt, AfterStep, SetPlaces, Text, Fits, Intact
<1> QED BY <1>1, <1>3, <1>4, <1>5 DEF IInv

\* A set() that returns early has changed nothing.
LEMMA SetGivesUp ==
    ASSUME IInv, pc \in BeforeStep, Return("set", FALSE),
           UNCHANGED <<up, columns, file, rows, loading, dbRC, handles, csv, history>>, TypeOK'
    PROVE  IInv'
<1>1. pc' = "idle" /\ answer'.op = "set" /\ answer'.ok = FALSE /\ SetInv'
  BY ReturnAnswer
<1>2. NothingWithoutIt' /\ LoaderInv' /\ NoHandleLeaks' /\ SaveInv' /\ HandlesInv'
  <2>1. up /\ pc' = "idle"
    BY <1>1, InSet DEF BeforeStep, SetPlaces
  <2>2. LoaderInv /\ NoHandleLeaks /\ HandlesInv
    BY DEF IInv
  <2>3. LoaderInv' /\ NothingWithoutIt'
    BY <2>1, <2>2 DEF LoaderInv, NothingWithoutIt
  <2>4. NoHandleLeaks' /\ SaveInv' /\ HandlesInv'
    BY <2>1, <2>2 DEF NoHandleLeaks, SaveInv, HandlesInv
  <2> QED BY <2>3, <2>4
<1>3. NotAnswered'
  BY <1>1 DEF NotAnswered
<1>4. Promises'
  <2>1. FailedSetChangesNothing'
    BY <1>1 DEF IInv, RowsUntouched, FailedSetChangesNothing, Intact
  <2> QED BY <1>1, <2>1 DEF FieldsAnswerWhole, TrueSetStoresAll, SaveAnswersTruly
<1> QED BY <1>1, <1>2, <1>3, <1>4 DEF IInv

\* What set() knows of the statement goes with it to the next place.
LEMMA SetKnows ==
    ASSUME IInv, pc \in SetPlaces \ {"exists", "build", "prepare"}, pc' \in SetPlaces,
           UNCHANGED <<columns, csv, sql, stmt, found, loaded, before, raced, mishaps>>
    PROVE  ChecksValues' /\ FoundTruly' /\ SaysItsValues' /\ StatementFits'
<1>1. ChecksValues' /\ FoundTruly'
  BY DEF IInv, ChecksValues, FoundTruly, Intact, HasName
<1>2. SaysItsValues'
  BY DEF IInv, SaysItsValues
<1>3. StatementFits'
  BY DEF IInv, StatementFits, Text, Fits, Intact
<1> QED BY <1>1, <1>2, <1>3

LEMMA PrepareCheckInv == IInv /\ PrepareCheck => IInv'
<1> SUFFICES ASSUME IInv, PrepareCheck PROVE IInv'
  OBVIOUS
<1>1. TypeOK'
  BY SetStepType DEF SetStep
<1>2. /\ pc = "prepared" /\ answer.op = "none"
      /\ UNCHANGED <<up, columns, file, rows, loading, dbRC, handles, csv, history>>
  BY DEF PrepareCheck, IInv, NotAnswered, SetPlaces
<1>3. CASE Return("set", FALSE)
  BY <1>1, <1>2, <1>3, SetGivesUp DEF BeforeStep
<1>4. CASE Ongoing("step") /\ UNCHANGED locals
  <2>1. pc' = "step" /\ answer'.op = "none"
    BY <1>4, OngoingAnswer
  <2>2. /\ NothingWithoutIt' /\ LoaderInv' /\ NoHandleLeaks'
        /\ SaveInv' /\ HandlesInv' /\ Promises' /\ NotAnswered' /\ NotOvertaken'
    BY <1>2, <2>1, SetGoesOn DEF SetPlaces, BeforeStep
  <2>3. ChecksValues' /\ FoundTruly' /\ SaysItsValues' /\ StatementFits'
    BY <1>2, <1>4, <2>1, SetKnows DEF SetPlaces
  <2>4. RowsUntouched' /\ ResultSaysIt'
    BY <1>2, <2>1 DEF IInv, RowsUntouched, ResultSaysIt, BeforeStep, AfterStep, Intact
  <2> QED BY <1>1, <2>2, <2>3, <2>4 DEF IInv
<1> QED BY <1>3, <1>4 DEF PrepareCheck

\* What a text of literals holds are literals.
LEMMA TextIntact ==
    ASSUME NEW v \in Seq(Value), sql = v, csv \in Seq(Value) \ {<<>>}
    PROVE  Intact(Text) <=> Intact(sql) /\ (found => Literal[csv[1]] # Broken)
<1>1. CASE found
  <2>1. Text = Append(v, csv[1]) /\ csv[1] \in Value
    BY <1>1 DEF Text
  <2>2. /\ DOMAIN Text = DOMAIN v \cup {Len(v) + 1} /\ Text[Len(v) + 1] = csv[1]
        /\ \A i \in DOMAIN v : Text[i] = v[i]
    BY <2>1
  <2> QED BY <1>1, <2>2 DEF Intact
<1>2. CASE ~found
  BY <1>2 DEF Text
<1> QED BY <1>1, <1>2

\* The values set() was given are literals: so are those its statement stores.
LEMMA SqlIntact ==
    ASSUME IInv, pc \in SetPlaces \ {"exists", "build"}, Intact(csv), "overrun" \notin mishaps
    PROVE  /\ Intact(Text) /\ Intact(sql) /\ Len(sql) \in 0..Len(FieldValues(csv))
           /\ sql = SubSeq(FieldValues(csv), 1, Len(sql))
           /\ Meant(sql) = SubSeq(Meant(FieldValues(csv)), 1, Len(sql))
<1> DEFINE given == FieldValues(csv)
<1>1. csv \in Seq(Value) \ {<<>>} /\ sql \in Seq(Value)
  BY InSet, Types DEF IInv
<1>2. given \in Seq(Value) /\ Intact(given)
  BY <1>1, FieldValuesType, FieldValuesIntact
<1>3. Len(sql) <= Len(given) /\ sql = SubSeq(given, 1, Len(sql))
  BY DEF IInv, SaysItsValues
<1> HIDE DEF given
<1>4. Len(sql) \in 0..Len(given)
  BY <1>1, <1>2, <1>3
<1> DEFINE n == Len(sql)
<1>5. Intact(SubSeq(given, 1, n)) /\ Meant(SubSeq(given, 1, n)) = SubSeq(Meant(given), 1, n)
  BY <1>2, <1>4, MeantPrefix
<1>6. Intact(sql) /\ Meant(sql) = SubSeq(Meant(given), 1, n)
  BY <1>3, <1>5
<1>7. Literal[csv[1]] # Broken
  BY <1>1 DEF Intact
<1> QED BY <1>1, <1>3, <1>4, <1>6, <1>7, TextIntact DEF given

LEMMA StepInv == IInv /\ Step => IInv'
<1> SUFFICES ASSUME IInv, Step PROVE IInv'
  OBVIOUS
<1>1. TypeOK'
  BY SetStepType DEF SetStep
<1>2. /\ pc = "step" /\ pc' = "stepped" /\ answer.op = "none"
      /\ UNCHANGED <<up, columns, file, loading, handles, work, answer, history>>
  BY DEF Step, IInv, NotAnswered, SetPlaces
<1>3. /\ NothingWithoutIt' /\ LoaderInv' /\ NoHandleLeaks'
      /\ SaveInv' /\ HandlesInv' /\ Promises' /\ NotAnswered' /\ NotOvertaken'
  BY <1>2, SetGoesOn DEF SetPlaces, BeforeStep
<1>4. ChecksValues' /\ FoundTruly' /\ SaysItsValues' /\ StatementFits'
  BY <1>2, SetKnows DEF SetPlaces
<1>5. RowsUntouched'
  BY <1>2 DEF RowsUntouched, BeforeStep
<1>6. ASSUME Intact(csv), "overrun" \notin mishaps
      PROVE  /\ rows' = before \/ Stored'
             /\ dbRC' # "OK" /\ IF dbRC' = "DONE" THEN Stored' ELSE rows' = before
  <2>1. rows = before /\ Intact(Text)
    BY <1>2, <1>6, SqlIntact DEF IInv, RowsUntouched, BeforeStep, SetPlaces
  <2>2. CASE /\ stmt /\ dbRC' = "DONE"
             /\ rows' = Executed(rows, found, Literal[csv[1]], Meant(sql))
    <3>1. Stored'
      BY <1>2, <2>1, <2>2 DEF Stored
    <3> QED BY <2>2, <3>1
  <2>3. CASE dbRC' \in {"ERROR", "MISUSE"} /\ rows' = rows
    BY <2>1, <2>3
  <2> QED BY <2>1, <2>2, <2>3 DEF Step
<1>7. "overtaken" \notin mishaps
  BY <1>2 DEF IInv, NotOvertaken, BeforeStep
<1>8. ResultSaysIt'
  BY <1>2, <1>6, <1>7 DEF ResultSaysIt, Intact
<1> QED BY <1>1, <1>3, <1>4, <1>5, <1>8 DEF IInv

\* The answer of a set() that stored the row or left it, and knows which.
LEMMA TrueAnswer ==
    ASSUME IInv, pc \in AfterStep, UNCHANGED <<columns, csv, rows, before, raced, pragma, mishaps>>,
           "overtaken" \in mishaps \/ dbRC = "DONE",
           pc' = "idle", answer'.op = "set"
    PROVE  TrueSetStoresAll'
<1> DEFINE name == Literal[csv[1]]
           given == FieldValues(csv)
           values == Meant(given)
           exists == HasName(before, name)
           Holds == \/ /\ rows = Executed(before, exists, name, values)
                       /\ Len(values) = Len(columns) \/ (exists /\ (raced \/ pragma = "ERROR"))
                    \/ raced /\ rows = before
                    \/ raced /\ \E n \in DOMAIN values : rows = Updated(before, name, SubSeq(values, 1, n))
                    \/ "uncounted" \in mishaps /\ ~exists /\ rows = before
<1> SUFFICES ASSUME Intact(csv), "overrun" \notin mishaps PROVE Holds
  BY DEF TrueSetStoresAll
<1>1. csv \in Seq(Value) \ {<<>>} /\ given \in Seq(Value) \ {<<>>} /\ Intact(given)
  BY InSet, FieldValuesType, FieldValuesIntact DEF AfterStep, SetPlaces
<1>2. values \in Seq(Value) /\ Len(values) = Len(given) /\ Len(given) \in Nat
  BY <1>1, MeantType
<1>3. /\ Intact(Text) /\ Len(sql) \in 0..Len(given) /\ Meant(sql) = SubSeq(values, 1, Len(sql))
  BY SqlIntact DEF AfterStep, SetPlaces
<1>4. /\ found => exists \/ "uncounted" \in mishaps
      /\ ~found => ~exists /\ sql = given
      /\ ~raced => sql \in {<<>>, given}
      /\ ~raced => loaded = 0 \/ Len(given) = loaded
      /\ stmt => Fits
  <2>1. pc \in SetPlaces /\ pc \notin {"exists", "build", "prepare"}
    BY DEF AfterStep, SetPlaces
  <2>2. FoundTruly /\ SaysItsValues /\ ChecksValues /\ StatementFits
    BY DEF IInv
  <2> QED BY <1>3, <2>1, <2>2 DEF FoundTruly, SaysItsValues, ChecksValues, StatementFits
<1>5. before \in Rows /\ sql \in Seq(Value)
  BY Types DEF IInv
<1>6. SubSeq(values, 1, Len(values)) = values
  BY <1>2, SubSeqFull
<1>7. \/ raced /\ rows = before
      \/ Stored
  BY DEF IInv, ResultSaysIt, AfterStep
<1>8. ~raced => loaded = Len(columns) \/ pragma = "ERROR"
  <2>1. up /\ (~raced => loader = "done")
    BY InSet DEF IInv, LoaderInv, AfterStep, SetPlaces
  <2> QED BY <2>1 DEF IInv, LoaderInv
<1> HIDE DEF name, given, values, exists
<1>9. CASE Stored
  <2>1. stmt /\ rows = Executed(before, found, name, Meant(sql)) /\ Fits
    BY <1>4, <1>9 DEF Stored, name
  <2>2. CASE ~found
    <3>1. sql = given /\ Len(sql) = Len(columns) /\ Meant(sql) = values /\ ~exists
      BY <1>2, <1>3, <1>4, <1>6, <2>1, <2>2 DEF Fits
    <3>2. rows = Executed(before, exists, name, values)
      BY <2>1, <2>2, <3>1 DEF Executed
    <3> QED BY <1>2, <3>1, <3>2
  <2>3. CASE found /\ ~exists
    <3>1. Updated(before, name, Meant(sql)) = before
      BY <1>5, <2>3, UpdatedNothing DEF exists
    <3> QED BY <1>4, <2>1, <2>3, <3>1 DEF Executed
  <2>4. CASE found /\ exists /\ raced
    <3>1. sql # <<>> /\ Len(sql) \in 1..Len(values)
      BY <1>2, <1>3, <1>5, <2>1, <2>4 DEF Fits
    <3>2. rows = Updated(before, name, SubSeq(values, 1, Len(sql)))
      BY <1>3, <2>1, <2>4 DEF Executed
    <3>3. Len(sql) \in DOMAIN values
      BY <1>2, <3>1
    <3> QED BY <2>4, <3>2, <3>3
  <2>5. CASE found /\ exists /\ ~raced
    <3>1. sql = given
      BY <1>4, <2>1, <2>5 DEF Fits
    <3>2. Meant(sql) = values
      BY <1>2, <1>3, <1>6, <3>1
    <3>3. rows = Executed(before, exists, name, values)
      BY <2>1, <2>5, <3>2 DEF Executed
    <3>4. loaded = 0 => pragma = "ERROR" \/ Len(columns) = 0
      BY <1>8, <2>5
    <3>5. Len(columns) # 0
      <4>1. columns # <<>> /\ (columns # <<>> => Len(columns) # 0)
        BY <2>1, TypeFacts DEF Fits, IInv
      <4> QED BY <4>1
    <3> QED BY <1>2, <1>4, <1>8, <2>5, <3>3, <3>4, <3>5
  <2> QED BY <2>2, <2>3, <2>4, <2>5
<1>10. CASE raced /\ rows = before
  BY <1>10
<1> QED BY <1>7, <1>9, <1>10

LEMMA StepCheckInv == IInv /\ (StepCheck \/ StepCheckDone) => IInv'
<1> SUFFICES ASSUME IInv, StepCheck \/ StepCheckDone PROVE IInv'
  OBVIOUS
<1>1. TypeOK'
  BY SetStepType DEF SetStep
<1>2. /\ pc \in AfterStep /\ pc \in SetPlaces /\ answer.op = "none"
      /\ UNCHANGED <<up, columns, file, rows, loading, dbRC, handles, csv, history>>
  BY DEF StepCheck, StepCheckDone, IInv, NotAnswered, SetPlaces, AfterStep
<1>3. ASSUME NEW ok \in BOOLEAN, Return("set", ok), ok => dbRC \in {"OK", "DONE"}, ~ok => dbRC # "DONE"
      PROVE  IInv'
  <2>1. pc' = "idle" /\ answer'.op = "set" /\ answer'.ok = ok /\ SetInv'
    BY <1>3, ReturnAnswer
  <2>2. NothingWithoutIt' /\ LoaderInv' /\ NoHandleLeaks' /\ SaveInv' /\ HandlesInv' /\ NotAnswered'
    BY <1>2, <2>1, InSet DEF IInv, NothingWithoutIt, LoaderInv, NoHandleLeaks, SaveInv, HandlesInv,
       NotAnswered
  <2>3. ASSUME Intact(csv), "overrun" \notin mishaps, "overtaken" \notin mishaps
        PROVE  dbRC # "OK" /\ (dbRC # "DONE" => rows = before)
    BY <1>2, <2>3 DEF IInv, ResultSaysIt
  <2>4. FailedSetChangesNothing'
    BY <1>2, <1>3, <2>1, <2>3 DEF FailedSetChangesNothing, Intact
  <2>5. TrueSetStoresAll'
    <3>1. CASE ~ok
      BY <2>1, <3>1 DEF TrueSetStoresAll
    <3>2. CASE ok /\ ("overtaken" \in mishaps \/ dbRC = "DONE")
      BY <1>2, <2>1, <3>2, TrueAnswer
    <3>3. CASE ok /\ "overtaken" \notin mishaps /\ dbRC = "OK"
      <4>1. ~(Intact(csv) /\ "overrun" \notin mishaps)
        BY <2>3, <3>3
      <4>2. ~(Intact(csv') /\ "overrun" \notin mishaps')
        BY <1>2, <4>1
      <4> QED BY <4>2 DEF TrueSetStoresAll
    <3> QED BY <1>3, <3>1, <3>2, <3>3
  <2>6. Promises'
    BY <2>1, <2>4, <2>5 DEF FieldsAnswerWhole, SaveAnswersTruly
  <2> QED BY <1>1, <2>1, <2>2, <2>6 DEF IInv
<1>4. CASE StepCheck /\ dbRC = "OK"
  <2>1. Return("set", TRUE)
    BY <1>4 DEF StepCheck
  <2> QED BY <1>3, <1>4, <2>1
<1>5. CASE StepCheck /\ dbRC # "OK"
  <2>1. Ongoing("compared") /\ UNCHANGED locals
    BY <1>5 DEF StepCheck
  <2>2. pc' = "compared" /\ answer'.op = "none"
    BY <2>1, OngoingAnswer
  <2>3. /\ NothingWithoutIt' /\ LoaderInv' /\ NoHandleLeaks'
        /\ SaveInv' /\ HandlesInv' /\ Promises' /\ NotAnswered' /\ NotOvertaken'
    BY <1>2, <2>2, SetGoesOn DEF SetPlaces, BeforeStep
  <2>4. ChecksValues' /\ FoundTruly' /\ SaysItsValues' /\ StatementFits'
    BY <1>2, <2>1, <2>2, SetKnows DEF SetPlaces, AfterStep
  <2>5. RowsUntouched'
    BY <2>2 DEF RowsUntouched, BeforeStep
  <2>6. ResultSaysIt'
    <3>1. Stored' = Stored
      BY <1>2, <2>1 DEF Stored, Executed, Updated, Meant
    <3> QED BY <1>2, <2>2, <3>1 DEF IInv, ResultSaysIt, AfterStep, Intact
  <2> QED BY <1>1, <2>3, <2>4, <2>5, <2>6 DEF IInv
<1>6. CASE StepCheckDone
  <2>1. Return("set", dbRC = "DONE") /\ (dbRC = "DONE") \in BOOLEAN
    BY <1>6 DEF StepCheckDone
  <2>2. CASE dbRC = "DONE"
    <3>1. Return("set", TRUE)
      BY <2>1, <2>2 DEF Return, Answer
    <3> QED BY <1>3, <2>2, <3>1
  <2>3. CASE dbRC # "DONE"
    <3>1. Return("set", FALSE)
      BY <2>1, <2>3 DEF Return, Answer
    <3> QED BY <1>3, <2>3, <3>1
  <2> QED BY <2>2, <2>3
<1> QED BY <1>4, <1>5, <1>6

-----------------------------------------------------------------------------
(* save() *)

\* sqlite3_open opens one database more, or none.
LEMMA SaveOpenInv == IInv /\ SaveOpen => IInv'
<1> SUFFICES ASSUME IInv, SaveOpen PROVE IInv'
  OBVIOUS
<1>1. TypeOK'
  BY SaveType
<1>2. /\ up /\ pc = "idle" /\ before' = file /\ raced' = (loader # "done")
      /\ early' = (early \/ loader # "done")
      /\ UNCHANGED <<up, columns, file, rows, loading, db, locals>>
  BY DEF SaveOpen, Begin
<1>3. pc' = "opened" /\ answer'.op = "none" /\ Promises' /\ SetInv'
  BY OngoingAnswer, NotInSetNext DEF SaveOpen, SetPlaces
<1>4. NothingWithoutIt' /\ LoaderInv' /\ SaveInv' /\ NotAnswered'
  BY <1>2, <1>3 DEF IInv, NothingWithoutIt, LoaderInv, SaveInv, NotAnswered
<1>5. fresh = db
  BY <1>2, Types DEF IInv
<1>6. CASE live' = live \cup {fresh'} /\ dbRC' = "OK"
  <2>1. HandlesInv'
    BY <1>2, <1>5, <1>6 DEF IInv, HandlesInv
  <2>2. NoHandleLeaks'
    BY <1>2, <1>5, <1>6 DEF IInv, NoHandleLeaks
  <2> QED BY <1>1, <1>3, <1>4, <2>1, <2>2 DEF IInv
<1>7. CASE live' = live /\ fresh' \notin live
  <2>1. HandlesInv'
    BY <1>2, <1>5, <1>7 DEF IInv, HandlesInv
  <2>2. NoHandleLeaks'
    BY <1>2, <1>5, <1>7 DEF IInv, NoHandleLeaks
  <2> QED BY <1>1, <1>3, <1>4, <2>1, <2>2 DEF IInv
<1> QED BY <1>6, <1>7 DEF SaveOpen

\* db_ takes the new database and closes the one it held, or forgets the new one.
LEMMA SaveOpenedInv == IInv /\ SaveOpened => IInv'
<1> SUFFICES ASSUME IInv, SaveOpened PROVE IInv'
  OBVIOUS
<1>1. TypeOK'
  BY SaveType
<1>2. /\ pc = "opened" /\ up
      /\ UNCHANGED <<up, columns, file, rows, loading, dbRC, csv, history>>
  BY DEF SaveOpened, IInv, NothingWithoutIt
<1>3. CASE dbRC = "OK"
  <2>1. db' = fresh /\ live' = live \ {db} /\ fresh' = fresh /\ Ongoing("backup")
    BY <1>3 DEF SaveOpened
  <2>2. pc' = "backup" /\ answer'.op = "none" /\ Promises' /\ SetInv'
    BY <2>1, OngoingAnswer, NotInSetNext DEF SetPlaces
  <2>3. NothingWithoutIt' /\ LoaderInv' /\ SaveInv' /\ NotAnswered'
    BY <1>2, <2>2 DEF IInv, NothingWithoutIt, LoaderInv, SaveInv, NotAnswered
  <2>4. HandlesInv' /\ NoHandleLeaks'
    BY <1>2, <2>1, <2>2 DEF IInv, HandlesInv, NoHandleLeaks
  <2> QED BY <1>1, <2>2, <2>3, <2>4 DEF IInv
<1>4. CASE dbRC # "OK"
  <2>1. fresh' = db /\ UNCHANGED <<db, live>> /\ Return("save", FALSE)
    BY <1>4 DEF SaveOpened
  <2>2. pc' = "idle" /\ answer'.op = "save" /\ answer'.ok = FALSE /\ SetInv'
    BY <2>1, ReturnAnswer
  <2>3. NothingWithoutIt' /\ LoaderInv' /\ SaveInv' /\ NotAnswered'
    BY <1>2, <2>2 DEF IInv, NothingWithoutIt, LoaderInv, SaveInv, NotAnswered
  <2>4. Promises'
    BY <1>2, <2>2 DEF IInv, SaveInv, FieldsAnswerWhole, FailedSetChangesNothing, TrueSetStoresAll,
       SaveAnswersTruly
  <2>5. HandlesInv' /\ NoHandleLeaks'
    <3>1. CASE fresh \in live
      <4>1. live \subseteq {db, fresh} /\ early /\ pragma = "ERROR" /\ loader \in {"stored", "done"}
        BY <1>2, <1>4, <3>1 DEF IInv, HandlesInv
      <4>2. fresh \in Handle
        BY DEF IInv, TypeOK
      <4> QED BY <1>2, <2>1, <2>2, <4>1, <4>2 DEF HandlesInv, NoHandleLeaks
    <3>2. CASE fresh \notin live
      BY <1>2, <2>1, <2>2, <3>2 DEF IInv, HandlesInv, NoHandleLeaks
    <3> QED BY <3>1, <3>2
  <2> QED BY <1>1, <2>2, <2>3, <2>4, <2>5 DEF IInv
<1> QED BY <1>3, <1>4

LEMMA SaveBackupInv == IInv /\ SaveBackup => IInv'
<1> SUFFICES ASSUME IInv, SaveBackup PROVE IInv'
  OBVIOUS
<1>1. TypeOK'
  BY SaveType
<1>2. /\ pc = "backup" /\ pc' = "saved" /\ up /\ answer.op = "none"
      /\ UNCHANGED <<up, columns, rows, loading, handles, work, answer, history>>
  BY DEF SaveBackup, IInv, NothingWithoutIt, NotAnswered
<1>3. SetInv' /\ Promises'
  BY <1>2, NotInSetNext, NothingAnsweredNext DEF SetPlaces
<1>4. NothingWithoutIt' /\ LoaderInv' /\ NoHandleLeaks' /\ HandlesInv' /\ NotAnswered'
  BY <1>2, CallStep, HandlesKept DEF NotAnswered
<1>5. SaveInv'
  BY <1>2 DEF SaveBackup, IInv, SaveInv
<1> QED BY <1>1, <1>3, <1>4, <1>5 DEF IInv

LEMMA SaveCheckInv == IInv /\ SaveCheck => IInv'
<1> SUFFICES ASSUME IInv, SaveCheck PROVE IInv'
  OBVIOUS
<1>1. TypeOK'
  BY SaveType
<1>2. /\ pc = "saved" /\ up
      /\ UNCHANGED <<up, columns, file, rows, loading, dbRC, handles, csv, history>>
  BY DEF SaveCheck, IInv, NothingWithoutIt
<1>3. pc' = "idle" /\ answer'.op = "save" /\ answer'.ok = (dbRC = "OK") /\ SetInv'
  BY ReturnAnswer DEF SaveCheck
<1>4. NothingWithoutIt' /\ LoaderInv' /\ NoHandleLeaks' /\ SaveInv' /\ HandlesInv' /\ NotAnswered'
  BY <1>2, <1>3 DEF IInv, NothingWithoutIt, LoaderInv, NoHandleLeaks, SaveInv, HandlesInv, NotAnswered
<1>5. Promises'
  BY <1>2, <1>3 DEF IInv, SaveInv, FieldsAnswerWhole, FailedSetChangesNothing, TrueSetStoresAll,
     SaveAnswersTruly
<1> QED BY <1>1, <1>3, <1>4, <1>5 DEF IInv

LEMMA NextInv == IInv /\ [Next]_vars => IInv'
<1> SUFFICES ASSUME IInv, [Next]_vars PROVE IInv'
  OBVIOUS
<1>1. CASE UNCHANGED vars
  <2>1. TypeOK'
    BY <1>1, QuietType
  <2>2. NothingWithoutIt' /\ LoaderInv' /\ SaveInv' /\ HandlesInv' /\ NotAnswered' /\ NoHandleLeaks'
    BY <1>1 DEF vars, IInv, NothingWithoutIt, LoaderInv, SaveInv, HandlesInv, NotAnswered, NoHandleLeaks
  <2>3. SetInv'
    BY <1>1 DEF vars, IInv, ChecksValues, RowsUntouched, FoundTruly, SaysItsValues, StatementFits,
       NotOvertaken, ResultSaysIt, Stored, Intact, Meant, Text, Fits, HasName, Executed, Updated,
       FieldValues
  <2>4. Promises'
    <3>1. FieldsAnswerWhole /\ FailedSetChangesNothing /\ TrueSetStoresAll /\ SaveAnswersTruly
      BY DEF IInv
    <3>2. FieldsAnswerWhole' /\ FailedSetChangesNothing' /\ SaveAnswersTruly'
      BY <1>1, <3>1 DEF vars, FieldsAnswerWhole, FailedSetChangesNothing, SaveAnswersTruly, Intact
    <3>3. TrueSetStoresAll'
      BY <1>1, <3>1 DEF vars, TrueSetStoresAll
    <3> QED BY <3>2, <3>3
  <2> QED BY <2>1, <2>2, <2>3, <2>4 DEF IInv
<1>2. CASE SetStep
  BY <1>2, AlreadyExistsInv, BuildInv, PrepareInv, PrepareCheckInv, StepInv, StepCheckInv DEF SetStep
<1> QED BY <1>1, <1>2, ReadInv, StopInv, LoaderStepInv, FieldsInv, GetInv, SetCallInv,
           SaveOpenInv, SaveOpenedInv, SaveBackupInv, SaveCheckInv DEF Next

LEMMA Invariant == Spec => []IInv
BY InitInv, NextInv, PTL DEF Spec

\* The state of the provider always has its type: neither a race nor a quote
\* leaves a row that lacks a column or has one too many.
THEOREM TypeCorrect == Spec => []TypeOK
<1>1. IInv => TypeOK
  BY DEF IInv
<1> QED BY Invariant, <1>1, PTL

\* fields() never answers some of the names, but for the one order of a failing
\* statement and a call of its own; none only after that failure, or a call that
\* ran while the loader did.
THEOREM FieldsWhole == Spec => []FieldsAnswerWhole
<1>1. IInv => FieldsAnswerWhole
  BY DEF IInv
<1> QED BY Invariant, <1>1, PTL

\* A set() that returned false stored nothing, unless the loader wrote dbRC_
\* between sqlite3_step and the last read of its test.
THEOREM FailedSet == Spec => []FailedSetChangesNothing
<1>1. IInv => FailedSetChangesNothing
  BY DEF IInv
<1> QED BY Invariant, <1>1, PTL

\* A set() that returned true stored all its values as SQL reads them, or, in a
\* race, the first of them or none.
THEOREM TrueSet == Spec => []TrueSetStoresAll
<1>1. IInv => TrueSetStoresAll
  BY DEF IInv
<1> QED BY Invariant, <1>1, PTL

\* save() says what became of the file, whatever address db_ held before.
THEOREM SaveTruly == Spec => []SaveAnswersTruly
<1>1. IInv => SaveAnswersTruly
  BY DEF IInv
<1> QED BY Invariant, <1>1, PTL

\* No number of commits leaves more than one database open that db_ does not
\* hold, and that one only if a failure of the loader came in between.
THEOREM NoLeaks == Spec => []NoHandleLeaks
<1>1. IInv => NoHandleLeaks
  BY DEF IInv
<1> QED BY Invariant, <1>1, PTL

-----------------------------------------------------------------------------
(* Names *)

LEMMA NamesStep ==
    IInv /\ [Next]_vars =>
        (up /\ UniqueNames(rows) /\ Intact(csv) /\ Intact(sql) => UniqueNames(rows') \/ GetOther)
<1> SUFFICES ASSUME IInv, [Next]_vars, up, UniqueNames(rows), Intact(csv), Intact(sql)
             PROVE  UniqueNames(rows') \/ GetOther
  OBVIOUS
<1>1. CASE rows' = rows
  BY <1>1
<1>2. CASE UNCHANGED vars \/ LoaderStep \/ FieldsCall \/ FieldsReturn \/ Get
  BY <1>1, <1>2 DEF vars, LoaderStep, LoaderExec, LoaderPush, LoaderReturn, LoaderStore,
                    LoaderCheck, FieldsCall, FieldsReturn, Get
<1>3. CASE Read
  BY <1>3 DEF Read
<1>4. CASE Stop
  BY <1>4 DEF Stop, UniqueNames
<1>5. ASSUME NEW line \in CsvArgs, Set(line)
      PROVE  UniqueNames(rows')
  BY <1>1, <1>5 DEF Set
<1>6. CASE BuildSQL \/ Prepare \/ PrepareCheck \/ StepCheck \/ StepCheckDone
  BY <1>1, <1>6 DEF BuildSQL, Prepare, PrepareCheck, StepCheck, StepCheckDone
<1>7. ASSUME pc \in SetPlaces
      PROVE  csv \in Seq(Value) \ {<<>>} /\ Literal[csv[1]] # Broken /\ sql \in Seq(Value)
  <2>1. csv \in Seq(Value) \ {<<>>} /\ sql \in Seq(Value)
    BY <1>7, InSet, Types DEF IInv
  <2> QED BY <2>1 DEF Intact
<1>8. CASE AlreadyExists
  <2>1. Literal[csv[1]] # Broken
    BY <1>7, <1>8 DEF AlreadyExists, SetPlaces
  <2> QED BY <1>1, <1>8, <2>1 DEF AlreadyExists, Counted, Uncounted, CountedOther
<1>9. CASE Step
  <2>0. pc = "step" /\ pc \in SetPlaces
    BY <1>9 DEF Step, SetPlaces
  <2>1. Intact(Text)
    BY <1>7, <2>0, TextIntact
  <2>2. CASE stmt /\ rows' = Executed(rows, found, Literal[csv[1]], Meant(sql))
    <3>1. Fits /\ (sql # <<>> => sql[1] = csv[1]) /\ (~found => sql = FieldValues(csv))
      BY <2>0, <2>1, <2>2 DEF IInv, StatementFits, SaysItsValues, SetPlaces
    <3>2. ~found => ~HasName(rows, Literal[csv[1]])
      BY <2>0 DEF IInv, FoundTruly, RowsUntouched, BeforeStep, SetPlaces
    <3>3. rows \in Rows /\ found \in BOOLEAN /\ columns \in Seq(STRING) /\ columns # <<>>
      BY <3>1, Types, TypeFacts DEF IInv, Fits
    <3>4. sql # <<>>
      BY <1>7, <2>0, <3>1, FieldValuesType DEF Fits
    <3>5. /\ Meant(sql) \in Seq(Value) /\ Meant(sql) # <<>> /\ Meant(sql)[1] = Literal[csv[1]]
      BY <1>7, <2>0, <3>1, <3>4, MeantType
    <3> QED BY <2>2, <3>2, <3>3, <3>5, ExecutedUnique
  <2> QED BY <1>1, <1>9, <2>1, <2>2 DEF Step
<1>10. CASE SaveOpen \/ SaveOpened \/ SaveBackup \/ SaveCheck
  BY <1>1, <1>10 DEF SaveOpen, SaveOpened, SaveBackup, SaveCheck
<1> QED BY <1>2, <1>3, <1>4, <1>5, <1>6, <1>8, <1>9, <1>10 DEF Next, SetStep

\* No set() of literals gives two rows one name: also not an update that found
\* some of the columns, nor an insert whose lookup ran beside the loader.
THEOREM NamesUnique == Spec => NamesStayUnique
BY Invariant, NamesStep, PTL DEF NamesStayUnique, Spec
=============================================================================
