----------------------------- MODULE RdbHandler -----------------------------
(***************************************************************************)
(* The bridge from the web server to the data server: rdb_handler          *)
(* (HttpWrapper/src/rdb_handler.cpp) and DataClient::executeCmd            *)
(* (ClientLib/src/library.cpp), over a data server that keeps the promises *)
(* of ReminderService and serves other clients too.                        *)
(*                                                                         *)
(* A get takes two commands, each on a connection of its own: the fields,  *)
(* then the rows, which are joined by position.  executeCmd takes what one *)
(* read_some brings for the whole answer, so any part of it may be all     *)
(* that is seen.  The web server blocks in a command, hence one at a time. *)
(*                                                                         *)
(* A path is what follows "/rdb" in the decoded path, in the form of the   *)
(* requests of module Request.                                             *)
(***************************************************************************)
EXTENDS Request

CONSTANTS
    Others,         \* the other clients of the data server
    OtherRequests,  \* what they ask
    Paths,          \* what browsers ask
    Longer,         \* for each command, words that only begin with it
    Torn,           \* what is left of a non-empty piece that was cut
    PastEnd_,       \* what is found past the end of a vector of names
    Keys,           \* of a name, the keys its dots separate
    FieldNames,     \* the fields of the table
    InitTables      \* the rows a first start finds

\* The first line of the table is parsed like a row.
ASSUME NamesAssumption == ColonFree(FieldNames)

\* boost's path of an empty name leads nowhere.
ASSUME KeysAssumption ==
    Keys \in [Piece -> Seq(Piece)] /\ Keys[Empty] = <<>> /\ PastEnd_ \notin Piece

VARIABLES
    up, entries, stored, call, reply,   \* those of ReminderService
    pc,         \* "idle", "askFields", "fields", "ask", "answer"
    path,       \* the path being handled, or handled last
    fields,     \* _fields
    page,       \* the reply to the browser
    seen,       \* history: the rows when the command was carried out
    times       \* history: how often it was

service == <<up, entries, stored, call, reply>>
vars == <<up, entries, stored, call, reply, pc, path, fields, page, seen, times>>

Web == "web"
Service == INSTANCE ReminderService WITH
    Callers <- Others \cup {Web},
    Calls <- OtherRequests \cup Paths
-----------------------------------------------------------------------------
Commands == {"get", "set", "delete", "fields", "commit"}

\* The messages with colons of their own.
WithColons == {"ERROR: Not found: ", "ERROR: Unrecognized command: "}

\* isRDBcall has seen the slash a path begins with.
ASSUME ConstantsAssumption ==
    /\ Web \notin Others
    /\ FieldNames \in Row /\ InitTables \subseteq Seq(Row)
    /\ OtherRequests \cup Paths \subseteq Seq(Text) \ {<<>>}
    /\ \A p \in Paths : Len(p) > 1 /\ p[1] = Blank
    /\ Commands \cup {Torn} \subseteq Piece \ {Empty}
    /\ Piece \cap WithColons = {}

StartsWith(p, cmd) == p[2][1] \in {cmd} \cup Longer[cmd]

\* isValidCall: std::equal over the length of the command.
IsValid(p) == \E cmd \in Commands : StartsWith(p, cmd)

FieldsPath == <<Blank, <<"fields">>>>
IsGet(p) == StartsWith(p, "get")

NoPage == [status |-> 0, rows |-> <<>>]
BadRequest == [status |-> 400, rows |-> <<>>]
Ok(rows) == [status |-> 200, rows |-> rows]

\* The types, and that a get has asked for the names before it asks for rows.
TypeOK ==
    /\ up \in BOOLEAN /\ entries \in Seq(Row)
    /\ pc \in {"idle", "askFields", "fields", "ask", "answer"}
    /\ path \in Paths
    /\ fields \in Seq(Line)
    /\ pc \in {"ask", "answer"} /\ IsGet(path) => fields # <<>>
    /\ page.status \in {0, 200, 400}
    /\ seen \in Seq(Row)
    /\ times \in Nat

Init ==
    /\ Service!Init
    /\ pc = "idle" /\ path \in Paths
    /\ fields = <<>> /\ page = NoPage
    /\ seen = <<>> /\ times = 0
-----------------------------------------------------------------------------
(* What executeCmd returns *)

\* On the wire the messages a get may answer have two colons of their own.
Wire(lines) ==
    [i \in DOMAIN lines |->
        IF lines[i][1] \in WithColons
        THEN <<lines[i][1], lines[i][1], lines[i][1]>> ELSE lines[i]]

\* The texts a text begins with, its last piece cut at any place.
Beginnings(text) ==
    ( {SubSeq(text, 1, k) : k \in DOMAIN text}
      \cup {Append(SubSeq(text, 1, k - 1), Torn) : k \in {j \in DOMAIN text : text[j] # Empty}}
      \cup {Append(SubSeq(text, 1, k), Empty) : k \in 1..(Len(text) - 1)} )
    \ {Blank}

\* The lines found in what the first read_some brings of an answer.
Received(lines) ==
    {SubSeq(lines, 1, k) : k \in DOMAIN lines}
    \cup UNION {{Append(SubSeq(lines, 1, k - 1), t) : t \in Beginnings(lines[k])} : k \in DOMAIN lines}
-----------------------------------------------------------------------------
(* rdb_handler *)

Finish(result) == pc' = "idle" /\ page' = result

\* Mutant: the names are asked for only by a get of everything.
HandleGetOnly(p) ==
    /\ pc = "idle"
    /\ path' = p
    /\ IF ~IsValid(p) THEN Finish(BadRequest)
       ELSE /\ pc' = IF p \in {FieldsPath, <<Blank, <<"get">>>>} THEN "askFields" ELSE "ask"
            /\ page' = NoPage
    /\ fields' = <<>> /\ seen' = <<>> /\ times' = 0
    /\ UNCHANGED service

\* handle_request: isValidCall, then parse.
Handle(p) ==
    /\ pc = "idle"
    /\ path' = p
    /\ IF ~IsValid(p) THEN Finish(BadRequest)
       ELSE /\ pc' = IF p = FieldsPath \/ IsGet(p) THEN "askFields" ELSE "ask"
            /\ page' = NoPage
    /\ fields' = <<>> /\ seen' = <<>> /\ times' = 0
    /\ UNCHANGED service

\* executeCmd: connected and sent.
AskFields ==
    /\ pc = "askFields" /\ up
    /\ Service!Call(Web, FieldsPath)
    /\ pc' = "fields"
    /\ UNCHANGED <<path, fields, page, seen, times>>

Ask ==
    /\ pc = "ask" /\ up
    /\ Service!Call(Web, path)
    /\ pc' = "answer"
    /\ UNCHANGED <<path, fields, page, seen, times>>

\* Mutant: a command whose answer is lost is sent again.
FailRetrying ==
    /\ \/ pc \in {"askFields", "ask"}
       \/ pc \in {"fields", "answer"} /\ call[Web] = <<>> /\ reply[Web] = <<>>
    /\ IF pc = "answer" THEN pc' = "ask" /\ UNCHANGED page ELSE Finish(BadRequest)
    /\ UNCHANGED <<service, path, fields, seen, times>>

\* Mutant: a connection that is closed instead of answered is not noticed.
FailToConnect ==
    /\ pc \in {"askFields", "ask"}
    /\ Finish(BadRequest)
    /\ UNCHANGED <<service, path, fields, seen, times>>

\* executeCmd returns false: no connection, or it was closed.
Fail ==
    /\ \/ pc \in {"askFields", "ask"}
       \/ pc \in {"fields", "answer"} /\ call[Web] = <<>> /\ reply[Web] = <<>>
    /\ Finish(BadRequest)
    /\ UNCHANGED <<service, path, fields, seen, times>>

ReceiveFields ==
    /\ pc = "fields"
    /\ \E lines \in Received(reply[Web]) :
          LET names == Split(Head(lines))
          IN  IF path = FieldsPath
              THEN Finish(Ok(<<names>>)) /\ UNCHANGED fields
              ELSE pc' = "ask" /\ fields' = names /\ UNCHANGED page
    /\ Service!Return(Web)
    /\ UNCHANGED <<path, seen, times>>

\* The path ptree::put makes of *_fNameIt at position i; past the end of the
\* names anything may be found.
Label(i) == IF i <= Len(fields) THEN Keys[fields[i][1]] ELSE <<PastEnd_>>

\* Mutant: the iterator over the names moved before it is used.
LabelledLate(line) ==
    LET values == Split(line)
        late == {i + 1 : i \in DOMAIN values}
    IN  [q \in {Label(i) : i \in late} |-> values[Max({i \in late : Label(i) = q}) - 1]]

\* _rowNode: the values by the paths they were put at, a later one over an
\* earlier one.
Labelled(line) ==
    LET values == Split(line)
        at(q) == {i \in DOMAIN values : Label(i) = q}
    IN  [q \in {Label(i) : i \in DOMAIN values} |-> values[Max(at(q))]]

\* write_json throws for a node with a value and nodes below it.
Unwritable(node) ==
    \E p, q \in DOMAIN node : node[p] # Blank /\ IsStrictPrefix(p, q)

\* Skip empty row.
Rows(lines) ==
    LET upto[k \in 0..Len(lines)] ==
            IF k = 0 THEN <<>>
            ELSE IF lines[k] = Blank THEN upto[k - 1] ELSE Append(upto[k - 1], lines[k])
    IN  upto[Len(lines)]

Join(lines) == [k \in DOMAIN Rows(lines) |-> Labelled(Rows(lines)[k])]

ReceiveAnswer ==
    /\ pc = "answer"
    /\ \E lines \in Received(Wire(reply[Web])) :
          /\ IsGet(path) => \A k \in DOMAIN Join(lines) : ~Unwritable(Join(lines)[k])
          /\ Finish(Ok(IF IsGet(path) THEN Join(lines) ELSE lines))
    /\ Service!Return(Web)
    /\ UNCHANGED <<path, fields, seen, times>>

\* Nobody catches what write_json throws, and a name past the end of the
\* vector may also end the process, and with it what it had to answer.
JoinEnds ==
    /\ pc = "answer" /\ IsGet(path)
    /\ \E lines \in Received(Wire(reply[Web])) : \E k \in DOMAIN Join(lines) :
          <<PastEnd_>> \in DOMAIN Join(lines)[k] \/ Unwritable(Join(lines)[k])
    /\ Service!Return(Web)
    /\ Finish(NoPage)
    /\ UNCHANGED <<path, fields, seen, times>>
-----------------------------------------------------------------------------
\* The data server carries out the command of the handler.
Execute ==
    /\ Service!Execute(Web)
    /\ IF pc = "answer" THEN seen' = entries /\ times' = times + 1
                        ELSE UNCHANGED <<seen, times>>
    /\ UNCHANGED <<pc, path, fields, page>>

Elsewhere ==
    /\ \/ \E c \in Others :
             \/ \E request \in OtherRequests : up /\ Service!Call(c, request)
             \/ Service!Execute(c)
             \/ Service!Return(c)
       \/ Service!Lose
       \/ Service!Start
       \/ Service!End
    /\ UNCHANGED <<pc, path, fields, page, seen, times>>

Next ==
    \/ \E p \in Paths : Handle(p)
    \/ AskFields
    \/ Ask
    \/ Fail
    \/ ReceiveFields
    \/ ReceiveAnswer
    \/ JoinEnds
    \/ Execute
    \/ Elsewhere

Spec == Init /\ [][Next]_vars

\* The web server goes on with its call; the data server carries out what it
\* was sent, or ends if that makes it throw.
Fairness ==
    /\ WF_vars(AskFields \/ Ask \/ Fail \/ ReceiveFields \/ ReceiveAnswer \/ JoinEnds)
    /\ WF_vars(Execute)
    /\ WF_vars(call[Web] # <<>> /\ Throws(Params(call[Web])) /\ Elsewhere /\ ~up')

FairSpec == Spec /\ Fairness
-----------------------------------------------------------------------------
Shown == pc = "idle" /\ page.status = 200

\* What a get asks for, as rows: all of them, the one of a name, or a value of
\* that, which is answered like a row of one value.
Wanted ==
    LET params == Params(path)
        field == Param(params, 3)
        found == IF field = Blank THEN {seen[i] : i \in FirstIndex(Names(seen), params[2])}
                 ELSE {<<v>> : v \in FoundValue(FieldNames, seen, params[2], field)}
    IN  IF Len(params) = 1 THEN seen
        ELSE IF found = {} THEN <<>> ELSE <<CHOOSE row \in found : TRUE>>

\* What was asked for is answered, not a message.
Answered ==
    /\ path[2] = <<"get">>
    /\ Len(Params(path)) = 1 \/ Wanted # <<>>

\* The values a reader of the printed row finds: its own, unless one holds a
\* colon, which is read as the end of a value and shifts those that follow.
ReadBack(row) ==
    IF ColonFree(row) THEN row
    ELSE [i \in DOMAIN FlattenSeq(row) |-> <<FlattenSeq(row)[i]>>]

\* Where value i of a row belongs.
Place(i) == IF i <= Len(FieldNames) THEN Keys[FieldNames[i][1]] ELSE <<PastEnd_>>

\* The first n values of the row, the last perhaps cut, under the names at
\* their positions: all of them if the row is whole.
ShowsRow(node, row, whole) ==
    LET values == ReadBack(row)
    IN  \E n \in 0..Len(values) :
            /\ whole => n = Len(values)
            /\ DOMAIN node = {Place(i) : i \in 1..n}
            /\ \A q \in DOMAIN node : \E i \in 1..n :
                  /\ Place(i) = q
                  /\ \/ node[q] = values[i]
                     \/ ~whole /\ i = n /\ node[q] = <<Torn>>

\* Although the names and the rows come by two calls, between which others
\* change the table and the data server may be restarted, and although an
\* answer may be cut anywhere: if the names came whole and no message came in
\* place of rows, those shown are rows of one moment, in their order, each
\* value under the name at its position; nothing is missing but at the end.
\* Past the names is read only for a row with more values than names.
JoinIsRight ==
    Shown /\ fields = FieldNames /\ Answered =>
        /\ Len(page.rows) <= Len(Wanted)
        /\ \A k \in DOMAIN page.rows :
              ShowsRow(page.rows[k], Wanted[k], k < Len(page.rows))

\* A command is never carried out twice, whatever was lost; and the browser
\* sees 200 only if it was carried out, 400 also if only the answer was lost.
CarriedOutOnce ==
    /\ times <= 1
    /\ Shown /\ path # FieldsPath => times = 1

\* The browser gets a page: a command the web server blocks in comes to an
\* end, also when the data server dies of it.
PageComes == pc # "idle" ~> pc = "idle"
=============================================================================
