---------------------------- MODULE MCDBTextFile ----------------------------
(***************************************************************************)
(* Two fields, two rows, and the values that matter: an empty one, one     *)
(* with a colon, one that renames a row to the other row's name.           *)
(***************************************************************************)
EXTENDS DBTextFile

MCPiece == {"", "name", "type", "a", "b", "x", "~"}

\* Written by hand: an empty file, one whose first line ends in a colon and
\* whose only row has a value too many, and one with a blank line.
MCInitFiles == {
    <<>>,
    <<<<"name", "type", "">>, <<"b", "x", "x">>>>,
    <<<<"name", "type">>, <<"">>>> }

\* A whole row, one that lacks its last value, one whose last value is empty.
MCCsvArgs == {<<"a", "x">>, <<"b", "">>, <<"b", "", "">>}
MCNameArgs == {<<"a">>, <<"b">>}
MCFieldArgs == {<<"name">>, <<"type">>}
MCUpdateArgs == {[field |-> <<"name">>, value |-> <<"b">>],
                 [field |-> <<"type">>, value |-> <<"x", "a">>]}
=============================================================================
