---------------------------- MODULE MCDataServer ----------------------------
(***************************************************************************)
(* Two fields; requests for each command of parseRequest, one that throws, *)
(* one cut off and one nobody knows.                                       *)
(***************************************************************************)
EXTENDS DataServer

MCPiece == {"", "name", "type", "a", "b", "x", "y",
            "get", "set", "delete", "fields", "commit", "put"}
MCFields == <<<<"name">>, <<"type">>>>

\* A whole row, and one that lacks its last value.
MCInitTables == {<<<<<<"a">>, <<"x">>>>>>, <<<<<<"b">>>>>>}

Query(words) == <<Blank>> \o [i \in DOMAIN words |-> <<words[i]>>]

MCRequests == {
    Query(<<"get">>), Query(<<"get", "b">>), Query(<<"get", "b", "type">>),
    <<Blank, <<"set">>, <<"b", "y">>>>,
    Query(<<"set", "a", "type", "y">>), Query(<<"set", "a", "name", "b">>),
    Query(<<"set", "a", "type">>),
    Query(<<"delete", "b">>), Query(<<"delete">>),
    Query(<<"fields">>), Query(<<"commit">>), Query(<<>>), Query(<<"put">>) }

MCOneTable == {<<<<<<"a">>, <<"x">>>>>>}

\* One that changes the table, one that shows it, one that stores it and one
\* that ends the server.
MCFewRequests == {
    Query(<<"get">>), <<Blank, <<"set">>, <<"b", "y">>>>,
    Query(<<"commit">>), Query(<<"delete">>) }
=============================================================================
