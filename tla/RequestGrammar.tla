--------------------------- MODULE RequestGrammar ---------------------------
(***************************************************************************)
(* What a request of the web server is, and what it says, without an       *)
(* automaton: a reference for request_parser.  The grammar is the one the  *)
(* parser's states amount to: a header has a space after its colon, a line *)
(* that starts with white space continues the value of the header before   *)
(* it, and a control character has no place in a line.                     *)
(*                                                                         *)
(* A character is a member of a small alphabet: the ones the parser names, *)
(* and one for each remaining class: "a" a token character, "?" a special  *)
(* one, "^" a control character, "~" a byte beyond 127.                    *)
(*                                                                         *)
(* A part of a text is given by two positions: it begins after the first   *)
(* and ends at the second.                                                 *)
(***************************************************************************)
EXTENDS Integers, Sequences, FiniteSets, SequencesExt

Char == {"CR", "LF", "SP", "HT", ":", "/", ".", "0", "H", "T", "P", "a", "?", "^", "~"}
Token == {".", "0", "H", "T", "P", "a"}
White == {"SP", "HT"}
Printable == Char \ {"CR", "LF", "HT", "^"}

Part(t, b, e) == SubSeq(t, b + 1, e)
All(t, b, e, S) == \A k \in (b + 1)..e : t[k] \in S

Http == <<"H", "T", "T", "P", "/">>
IsVersion(t, b, e) ==
    \E dot \in (b + 7)..(e - 1) :
       /\ \A k \in 1..5 : t[b + k] = Http[k]
       /\ All(t, b + 5, dot - 1, {"0"}) /\ t[dot] = "." /\ All(t, dot, e, {"0"})

\* The method and the uri, each with the space behind it, the last at e.
IsCall(t, e) ==
    \E i \in 2..(e - 1) :
       /\ t[i] = "SP" /\ t[e] = "SP"
       /\ All(t, 0, i - 1, Token)
       /\ All(t, i, e - 1, Printable \ {"SP"})

IsRequestLine(t, e) == \E i \in 3..e : IsCall(t, i) /\ IsVersion(t, i, e)

IsHeader(t, b, e) ==
    \E colon \in (b + 2)..(e - 1) :
       /\ t[colon] = ":" /\ t[colon + 1] = "SP"
       /\ All(t, b, colon - 1, Token)
       /\ All(t, colon + 1, e, Printable)

IsFolded(t, b, e) ==
    \E i \in (b + 1)..e : All(t, b, i, White) /\ All(t, i, e, Printable)

\* Where the line begins that the line feed at e ends.
Start(t, e) ==
    CHOOSE b \in 0..(e - 1) :
       /\ b = 0 \/ t[b] = "LF"
       /\ \A k \in (b + 1)..(e - 1) : t[k] # "LF"

\* A line that may come before the empty one: the first is the request line,
\* and only a line after the second continues a header.
Fits(t, b, e) ==
    /\ b + 1 < e /\ t[e - 1] = "CR"
    /\ IF b = 0 THEN IsRequestLine(t, e - 2)
       ELSE \/ IsHeader(t, b, e - 2)
            \/ IsFolded(t, b, e - 2) /\ \E f \in 1..(b - 1) : t[f] = "LF"

Feeds(t) == {k \in DOMAIN t : t[k] = "LF"}

IsRequest(t) ==
    LET n == Len(t)
    IN  /\ {n - 2, n} \subseteq Feeds(t) /\ t[n - 1] = "CR"
        /\ \A e \in Feeds(t) \ {n} : Fits(t, Start(t, e), e)
-----------------------------------------------------------------------------
(* What a request says *)

\* The first c behind a position.
First(t, b, c) == CHOOSE i \in (b + 1)..Len(t) : t[i] = c /\ All(t, b, i - 1, Char \ {c})

Method(t) == Part(t, 0, First(t, 0, "SP") - 1)
Uri(t) ==
    LET space == First(t, 0, "SP")
    IN  Part(t, space, First(t, space, "SP") - 1)

HeaderOf(t, b, e) ==
    LET colon == First(t, b, ":")
    IN  [name |-> Part(t, b, colon - 1), value |-> Part(t, colon + 1, e)]

\* A folded line without the white space it starts with.
Unfolded(t, b, e) ==
    Part(t, CHOOSE i \in b..e : All(t, b, i, White) /\ (i = e \/ t[i + 1] \notin White), e)

Continued(hs, value) == [hs EXCEPT ![Len(hs)].value = @ \o value]

\* The headers after one more line.
WithLine(hs, t, b, e) ==
    IF t[b + 1] \in White THEN Continued(hs, Unfolded(t, b, e))
    ELSE Append(hs, HeaderOf(t, b, e))

Headers(t) ==
    LET upTo[n \in 0..Len(t)] ==
            IF n = 0 THEN <<>>
            ELSE IF t[n] # "LF" \/ Start(t, n) \in {0, n - 2} THEN upTo[n - 1]
            ELSE WithLine(upTo[n - 1], t, Start(t, n), n - 2)
    IN  upTo[Len(t)]
-----------------------------------------------------------------------------
\* The shortest request that has everything a request may have; from every
\* place in a request one of its ends leads to the end of a request.
Sample ==
    <<"a", "SP", "SP", "H", "T", "T", "P", "/", "0", ".", "0", "CR", "LF",
      "a", ":", "SP", "CR", "LF", "SP", "CR", "LF", "CR", "LF">>
Rests == Suffixes(Sample)
=============================================================================
