------------------------------ MODULE Request ------------------------------
(***************************************************************************)
(* Session::parseRequest (Server/src/session.cpp): what one request does   *)
(* to the table of the text-file provider and what is answered.            *)
(*                                                                         *)
(* A request is the sequence of the texts its slashes separate, line ends  *)
(* stripped: "/get/a" is <<"", "get", "a">>.  A response is the sequence   *)
(* of its lines, each ended by the line end the session wrote; a message,  *)
(* with whatever it echoes of the request, is one piece.                   *)
(***************************************************************************)
EXTENDS TextTable

\* The wordings, and what a get past the end of a row shows.
Message == {
    "SUCCESS", "ERROR: Not valid query: ", "ERROR: Not found: ",
    "Filed to set Entry: ", "Failed to set value: ",
    "ERROR: set requires either 2 or 4 parameters", "ERROR: Failed to delete ",
    "Failed to preserve DB: ", "ERROR: Unrecognized command: ", "past the end" }
Line == Seq(Piece \cup Message) \ {<<>>}

Blank == <<Empty>>

\* response_ when it is empty or ends in '\n', and when it does not: do_write
\* pushes one '\n' in both cases.
Closed(lines) == Append(lines, Blank)
Bare(text) == <<text>>
buildError(message) == Closed(<<<<message>>>>)

\* The regex iterator gives no empty last component, and the one before a
\* leading slash is erased.
Params(cmd) ==
    LET parts == IF Len(cmd) > 1 /\ Last(cmd) = Blank THEN Front(cmd) ELSE cmd
    IN  IF Head(parts) = Blank THEN Tail(parts) ELSE parts

Outcome(es, commit, lines) == [entries |-> es, commit |-> commit, lines |-> lines]
Said(es, lines) == {Outcome(es, FALSE, lines)}
-----------------------------------------------------------------------------
NotFound == Bare(<<"ERROR: Not found: ">>)

\* The text DBTextFile::get finds, as a set of at most one; an empty value is
\* not told from no value.
FoundRow(es, name) == {AsString(es[i]) : i \in FirstIndex(Names(es), name)}
FoundValue(fs, es, name, field) ==
    {es[p[1]][p[2]] : p \in {q \in FirstIndex(Names(es), name) \X FirstIndex(fs, field) :
                                HasColumn(es[q[1]], q[2])}} \ {Blank}

\* get(name, field) of a row without that column returns what lies past the
\* end of values_, or ends the process.
PastEnd(fs, es, name, field) ==
    \E i \in FirstIndex(Names(es), name), k \in FirstIndex(fs, field) :
        ~HasColumn(es[i], k)
Garbage == Bare(<<"past the end">>)

GetAll(es) == Said(es, Closed([i \in DOMAIN es |-> AsString(es[i])]))
GetOne(fs, es, name, field) ==
    LET found == IF field = Blank THEN FoundRow(es, name)
                 ELSE FoundValue(fs, es, name, field)
        lines == IF field # Blank /\ PastEnd(fs, es, name, field) THEN {Garbage, NotFound}
                 ELSE IF found = {} THEN {NotFound} ELSE {Bare(t) : t \in found}
    IN  {Outcome(es, FALSE, l) : l \in lines}

\* set(name, csv_values) returns true whether it replaces or appends, and
\* parseRequest says "Filed" when it does.
SetRow(es, line) ==
    LET at == FirstIndex(Names(es), <<line[1]>>)
        after == IF at = {} THEN Appended(es, line)
                 ELSE Replaced(es, CHOOSE i \in at : TRUE, line)
    IN  Said(after, Bare(<<"Filed to set Entry: ">>))

SetValue(fs, es, name, field, value) ==
    LET cells == {p \in FirstIndex(Names(es), name) \X FirstIndex(fs, field) :
                     HasColumn(es[p[1]], p[2])}
    IN  IF cells = {} THEN Said(es, Bare(<<"Failed to set value: ">>))
        ELSE UNION {Said(ValueSet(es, p[1], p[2], value), buildError("SUCCESS")) : p \in cells}

Delete(es, name) ==
    LET at == FirstIndex(Names(es), name)
    IN  IF at = {} THEN Said(es, buildError("ERROR: Failed to delete "))
        ELSE UNION {Said(Erased(es, i), buildError("SUCCESS")) : i \in at}

Fields(fs, es) == Said(es, Bare(AsString(fs)))

\* DBTextFile::save returns false when the file does not open and when it has
\* written it.
Commit(es) == {Outcome(es, written, Bare(<<"Failed to preserve DB: ">>)) : written \in BOOLEAN}
-----------------------------------------------------------------------------
\* "delete" without a name: vector::at throws out of the handler.
Throws(params) == params = <<<<"delete">>>>

Param(params, i) == IF i <= Len(params) THEN params[i] ELSE Blank

\* The outcomes of a request that returns.
Outcomes(fs, es, params) ==
    IF params = <<>> THEN Said(es, Bare(<<"ERROR: Not valid query: ">>))
    ELSE IF params[1] = <<"get">> THEN
        IF Len(params) < 2 THEN GetAll(es) ELSE GetOne(fs, es, params[2], Param(params, 3))
    ELSE IF params[1] = <<"set">> THEN
        IF Len(params) = 2 THEN SetRow(es, params[2])
        ELSE IF Len(params) = 4 THEN SetValue(fs, es, params[2], params[3], params[4])
        ELSE Said(es, buildError("ERROR: set requires either 2 or 4 parameters"))
    ELSE IF params[1] = <<"delete">> THEN
        IF Throws(params) THEN {} ELSE Delete(es, params[2])
    ELSE IF params[1] = <<"fields">> THEN Fields(fs, es)
    ELSE IF params[1] = <<"commit">> THEN Commit(es)
    ELSE Said(es, Bare(<<"ERROR: Unrecognized command: ">>))
=============================================================================
