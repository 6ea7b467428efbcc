---------------------------- MODULE MCRdbHandler ----------------------------
(***************************************************************************)
(* Three fields, the last of them below the second by its dot.  One other  *)
(* client appends a row that is wider than the names, sets a value with a  *)
(* colon and deletes rows.  A path for each way through parse, one that    *)
(* only begins like a command, one the data server throws at and one that  *)
(* is no command.                                                          *)
(***************************************************************************)
EXTENDS RdbHandler

MCPiece == {"", "name", "type", "type.x", "a", "b", "x", "~",
            "get", "getx", "set", "delete", "fields", "commit"}
MCKeys == [p \in MCPiece |->
              IF p = "" THEN <<>> ELSE IF p = "type.x" THEN <<"type", "x">> ELSE <<p>>]
MCFields == <<<<"name">>, <<"type">>, <<"type.x">>>>
MCInitTables == {<< <<<<"a">>, <<"x">>>> >>}
MCLonger == [get |-> {"getx"}, set |-> {}, delete |-> {}, fields |-> {}, commit |-> {}]

Query(words) == <<Blank>> \o words
MCOtherRequests == {
    Query(<< <<"set">>, <<"b", "", "x", "x">> >>),
    Query(<< <<"set">>, <<"a">>, <<"type">>, <<"", "b">> >>),
    Query(<< <<"delete">>, <<"a">> >>) }
MCPaths == {
    Query(<< <<"fields">> >>), Query(<< <<"get">> >>), Query(<< <<"get">>, <<"b">> >>),
    Query(<< <<"get">>, <<"a">>, <<"type">> >>), Query(<< <<"getx">> >>),
    Query(<< <<"set">>, <<"a", "x">> >>), Query(<< <<"delete">> >>), Query(<< <<"x">> >>) }
=============================================================================
