---------------------------- MODULE MCDBSQLite ----------------------------
(***************************************************************************)
(* Two columns, two rows, three addresses.  The values are the empty       *)
(* string, a quote that is doubled and one that ends its literal: a name   *)
(* with a doubled quote and an empty last value, an empty name with both   *)
(* values, and a name that ends its literal.                               *)
(***************************************************************************)
EXTENDS DBSQLite, TLC

CONSTANTS h1, h2, h3

MCFields == <<"name", "type">>
MCValue == {"", "it''s", "it's"}
MCLiteral == [v \in MCValue |-> IF v = "it''s" THEN "it's" ELSE IF v = "it's" THEN Broken ELSE v]
MCInitRows == {<<>>, << <<"it's", "it's">> >>}
MCCsvArgs == {<<"it''s", "">>, <<"", "it''s">>, <<"it's", "it''s">>}
MCStrange == {<<"", "it's">>}
MCHandle == {h1, h2, h3}
MCSymmetry == Permutations(MCHandle)
=============================================================================
