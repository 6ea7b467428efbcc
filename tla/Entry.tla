------------------------------- MODULE Entry -------------------------------
(***************************************************************************)
(* One reminder of the text-file provider (DataProvider/DBTextFile/src/    *)
(* entry.cpp) and the text it is printed to and parsed from.               *)
(*                                                                         *)
(* A text without line ends is the sequence of the colon-free pieces its   *)
(* colons separate: "a:b" is <<a, b>>, "a:" is <<a, Empty>> and "" is      *)
(* <<Empty>>, so that joining two texts by a colon is \o and no text is    *)
(* <<>>.  A value stored in an entry is a text too: the request that sets  *)
(* one field may carry colons.                                             *)
(***************************************************************************)
EXTENDS Integers, Sequences, SequencesExt

CONSTANTS
    Piece,      \* strings without a colon, a slash or a line end
    Empty       \* the empty string

ASSUME EmptyAssumption == Empty \in Piece

Text == Seq(Piece) \ {<<>>}
Row == Seq(Text) \ {<<>>}

\* Mutant: no piece for an empty line.
SplitDroppingEmpty(line) ==
    LET pieces == IF Last(line) = Empty THEN Front(line) ELSE line
    IN  [i \in 1..Len(pieces) |-> <<pieces[i]>>]

\* Entry::Entry: std::sregex_token_iterator(line, ":", -1) yields the pieces
\* of the line but never an empty last one, unless the whole line is empty.
Split(line) ==
    LET pieces == IF Len(line) > 1 /\ Last(line) = Empty THEN Front(line) ELSE line
    IN  [i \in 1..Len(pieces) |-> <<pieces[i]>>]

\* Entry::asString and operator<<: every value is followed by a colon.
AsString(row) == Append(FlattenSeq(row), Empty)

\* The values a parse of the printed row finds as they were stored.
ColonFree(row) == \A i \in DOMAIN row : Len(row[i]) = 1
=============================================================================
