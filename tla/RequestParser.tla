--------------------------- MODULE RequestParser ---------------------------
(***************************************************************************)
(* The parser of the web server (HttpWrapper/src/request_parser.cpp): an   *)
(* automaton that is given one character after the other, over as many     *)
(* reads as they come in, and says after each whether the request is       *)
(* complete, broken, or wants more.  After the first two a connection      *)
(* gives it nothing more.                                                  *)
(*                                                                         *)
(* Of the version numbers, which nobody reads, the digits are counted.     *)
(***************************************************************************)
EXTENDS RequestGrammar

CONSTANTS
    Input,      \* the characters that arrive
    MaxText,    \* bound on the characters of a request
    MaxDecided, \* bound on the texts RejectsAtOnce tries every rest for
    MaxExtra    \* bound on what the request keeps beyond the least it needs:
                \*   one character of a method or name, one digit of a version

VARIABLES
    state,      \* state_
    request,    \* request_ of the connection
    result,     \* what consume returned last
    text        \* history: the characters consumed

vars == <<state, request, result, text>>

ASSUME InputAssumption == Input \subseteq Char

is_char(c) == c # "~"
is_ctl(c) == c \in {"CR", "LF", "HT", "^"}
is_tspecial(c) == c \in {"SP", "HT", ":", "/", "?"}
is_digit(c) == c = "0"

\* The test three states share.
IsToken(c) == is_char(c) /\ ~is_ctl(c) /\ ~is_tspecial(c)

State == {
    "method_start", "method", "uri",
    "http_version_h", "http_version_t_1", "http_version_t_2", "http_version_p",
    "http_version_slash", "http_version_major_start", "http_version_major",
    "http_version_minor_start", "http_version_minor", "expecting_newline_1",
    "header_line_start", "header_lws", "header_name", "space_before_header_value",
    "header_value", "expecting_newline_2", "expecting_newline_3" }

Header == [name : Seq(Char), value : Seq(Char)]

\* With the types: wherever the automaton writes to headers.back(), there is
\* a header.
TypeOK ==
    /\ state \in State
    /\ request \in [method : Seq(Char), uri : Seq(Char), major : Nat, minor : Nat,
                    headers : Seq(Header)]
    /\ result \in {"good", "bad", "indeterminate"}
    /\ text \in Seq(Char)
    /\ state \in {"header_lws", "header_name", "header_value"} => request.headers # <<>>

Init ==
    /\ state = "method_start"
    /\ request = [method |-> <<>>, uri |-> <<>>, major |-> 0, minor |-> 0, headers |-> <<>>]
    /\ result = "indeterminate"
    /\ text = <<>>
-----------------------------------------------------------------------------
Reject == result' = "bad" /\ UNCHANGED <<state, request>>
Goto(s) == state' = s /\ UNCHANGED result
Skip(s) == Goto(s) /\ UNCHANGED request
Store(s, r) == Goto(s) /\ request' = r

OpenHeader(c) == [request EXCEPT !.headers = Append(@, [name |-> <<c>>, value |-> <<>>])]
AddToName(c) == [request EXCEPT !.headers[Len(request.headers)].name = Append(@, c)]
AddToValue(c) == [request EXCEPT !.headers[Len(request.headers)].value = Append(@, c)]

\* The states that wait for one character, and the ones that follow.
Awaited == [
    http_version_h |-> "H", http_version_t_1 |-> "T", http_version_t_2 |-> "T",
    http_version_p |-> "P", http_version_slash |-> "/", expecting_newline_1 |-> "LF",
    space_before_header_value |-> "SP", expecting_newline_2 |-> "LF" ]
Following == [
    http_version_h |-> "http_version_t_1", http_version_t_1 |-> "http_version_t_2",
    http_version_t_2 |-> "http_version_p", http_version_p |-> "http_version_slash",
    http_version_slash |-> "http_version_major_start",
    expecting_newline_1 |-> "header_line_start",
    space_before_header_value |-> "header_value",
    expecting_newline_2 |-> "header_line_start" ]

ConsumeAwaited(c) ==
    /\ state \in DOMAIN Awaited
    /\ IF c = Awaited[state] THEN Skip(Following[state]) ELSE Reject

ConsumeMethod(c) ==
    /\ state \in {"method_start", "method"}
    /\ IF c = "SP" /\ state = "method" THEN Skip("uri")
       ELSE IF IsToken(c) THEN Store("method", [request EXCEPT !.method = Append(@, c)])
       ELSE Reject

ConsumeUri(c) ==
    /\ state = "uri"
    /\ IF c = "SP" THEN Skip("http_version_h")
       ELSE IF is_ctl(c) THEN Reject
       ELSE Store("uri", [request EXCEPT !.uri = Append(@, c)])

\* Mutant: one state for the first digit and for the others.
ConsumeMajorLoose(c) ==
    /\ state \in {"http_version_major_start", "http_version_major"}
    /\ IF c = "." THEN Skip("http_version_minor_start")
       ELSE IF is_digit(c) THEN Store("http_version_major", [request EXCEPT !.major = @ + 1])
       ELSE Reject

ConsumeMajor(c) ==
    /\ state \in {"http_version_major_start", "http_version_major"}
    /\ IF c = "." /\ state = "http_version_major" THEN Skip("http_version_minor_start")
       ELSE IF is_digit(c) THEN Store("http_version_major", [request EXCEPT !.major = @ + 1])
       ELSE Reject

ConsumeMinor(c) ==
    /\ state \in {"http_version_minor_start", "http_version_minor"}
    /\ IF c = "CR" /\ state = "http_version_minor" THEN Skip("expecting_newline_1")
       ELSE IF is_digit(c) THEN Store("http_version_minor", [request EXCEPT !.minor = @ + 1])
       ELSE Reject

\* Mutant: a folded line with no header before it.
ConsumeHeaderLineFolding(c) ==
    /\ state = "header_line_start"
    /\ IF c = "CR" THEN Skip("expecting_newline_3")
       ELSE IF c \in {"SP", "HT"} THEN Skip("header_lws")
       ELSE IF IsToken(c) THEN Store("header_name", OpenHeader(c))
       ELSE Reject

ConsumeHeaderLine(c) ==
    /\ state = "header_line_start"
    /\ IF c = "CR" THEN Skip("expecting_newline_3")
       ELSE IF request.headers # <<>> /\ c \in {"SP", "HT"} THEN Skip("header_lws")
       ELSE IF IsToken(c) THEN Store("header_name", OpenHeader(c))
       ELSE Reject

ConsumeHeaderName(c) ==
    /\ state = "header_name"
    /\ IF c = ":" THEN Skip("space_before_header_value")
       ELSE IF IsToken(c) THEN Store("header_name", AddToName(c))
       ELSE Reject

\* Mutant: the first character after the white space is dropped.
ConsumeLwsDropping(c) ==
    /\ state = "header_lws"
    /\ IF c = "CR" THEN Skip("expecting_newline_2")
       ELSE IF c \in {"SP", "HT"} THEN Skip("header_lws")
       ELSE IF is_ctl(c) THEN Reject
       ELSE Skip("header_value")

ConsumeLws(c) ==
    /\ state = "header_lws"
    /\ IF c = "CR" THEN Skip("expecting_newline_2")
       ELSE IF c \in {"SP", "HT"} THEN Skip("header_lws")
       ELSE IF is_ctl(c) THEN Reject
       ELSE Store("header_value", AddToValue(c))

\* Mutant: characters beyond 127 refused.
ConsumeHeaderValueStrict(c) ==
    /\ state = "header_value"
    /\ IF c = "CR" THEN Skip("expecting_newline_2")
       ELSE IF is_ctl(c) \/ ~is_char(c) THEN Reject
       ELSE Store("header_value", AddToValue(c))

ConsumeHeaderValue(c) ==
    /\ state = "header_value"
    /\ IF c = "CR" THEN Skip("expecting_newline_2")
       ELSE IF is_ctl(c) THEN Reject
       ELSE Store("header_value", AddToValue(c))

ConsumeLast(c) ==
    /\ state = "expecting_newline_3"
    /\ result' = IF c = "LF" THEN "good" ELSE "bad"
    /\ UNCHANGED <<state, request>>

Consume(c) ==
    \/ ConsumeAwaited(c)
    \/ ConsumeMethod(c)
    \/ ConsumeUri(c)
    \/ ConsumeMajor(c)
    \/ ConsumeMinor(c)
    \/ ConsumeHeaderLine(c)
    \/ ConsumeHeaderName(c)
    \/ ConsumeLws(c)
    \/ ConsumeHeaderValue(c)
    \/ ConsumeLast(c)

Beyond(n) == IF n = 0 THEN 0 ELSE n - 1
Extra(r) == FoldLeft(LAMBDA n, h : n + Beyond(Len(h.name)) + Len(h.value),
                     Beyond(Len(r.method)) + Len(r.uri) + Beyond(r.major) + Beyond(r.minor),
                     r.headers)

\* request_parser::parse and connection::do_read: on with the next character
\* until a result is reached, whatever reads the characters come in.
Next ==
    /\ result = "indeterminate"
    /\ Len(text) < MaxText
    /\ \E c \in Input :
          /\ Consume(c)
          /\ text' = Append(text, c)
    /\ Extra(request') <= MaxExtra

Spec == Init /\ [][Next]_vars
-----------------------------------------------------------------------------
\* request_parser says good exactly when what it has consumed is a request:
\* not a character earlier or later.
AcceptsRequests == result = "good" <=> IsRequest(text)

\* It makes up its mind as soon as it can: it wants more only of a text that
\* can still become a request, and rejects at the first character after which
\* none can, so that a client is never left waiting for a lost cause.
RejectsAtOnce ==
    Len(text) <= MaxDecided =>
        /\ result = "indeterminate" => \E rest \in Rests : IsRequest(text \o rest)
        /\ result = "bad" => \A rest \in Rests : ~IsRequest(text \o rest)

\* The handler gets what the request says: method, uri, and the headers with
\* their folded lines joined.
SaysWhatWasSent ==
    result = "good" =>
        /\ request.method = Method(text)
        /\ request.uri = Uri(text)
        /\ request.headers = Headers(text)
=============================================================================
