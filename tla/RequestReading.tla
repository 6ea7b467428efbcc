--------------------------- MODULE RequestReading ---------------------------
(***************************************************************************)
(* What the parser's state means: the inductive invariant of its proofs.   *)
(*                                                                         *)
(* Each state of the automaton stands for what may have been read of a     *)
(* line when the parser is in it (Reads); the parser decides as soon as    *)
(* what it has read fits no line (Decides); and of what it has read it     *)
(* keeps what the grammar says of it (Keeps).                              *)
(***************************************************************************)
EXTENDS RequestParser

-----------------------------------------------------------------------------
(* Types *)

Request == [method : Seq(Char), uri : Seq(Char), major : Nat, minor : Nat, headers : Seq(Header)]

\* Between the first character of a header and the end of its line.
InHeader == {"header_lws", "header_name", "space_before_header_value", "header_value"}

IInv == TypeOK /\ (state \in InHeader => request.headers # <<>>)
-----------------------------------------------------------------------------
(* What the parser has read *)

\* The text u has t before its last characters.
Extends(t, u) == Len(t) <= Len(u) /\ \A k \in 1..Len(t) : u[k] = t[k]

\* The line that is being read begins behind b, and every line before it may
\* come before the empty one.
Begins(t, b) ==
    /\ b = 0 \/ t[b] = "LF"
    /\ \A k \in (b + 1)..Len(t) : t[k] # "LF"

Complete(t) == \A e \in Feeds(t) : Fits(t, Start(t, e), e)

\* There is a line before the one that ends at b: a header, when b is the
\* beginning of another.
Later(t, b) == \E f \in 1..(b - 1) : t[f] = "LF"

\* The method, the uri and m characters of the version.
InVersion(t, e, m) ==
    /\ e - m >= 3 /\ IsCall(t, e - m)
    /\ \A k \in 1..m : t[e - m + k] = Http[k]

\* The uri, and the digits before the dot.
InUri(t, e) ==
    \E i \in 2..e :
       t[i] = "SP" /\ All(t, 0, i - 1, Token) /\ All(t, i, e, Printable \ {"SP"})

InMajor(t, e) == \E j \in 8..(e - 1) : InVersion(t, j, 5) /\ All(t, j, e, {"0"})

\* A folded line of which more than the white space has been read.
Resumed(t, b, e) ==
    \E i \in (b + 1)..(e - 1) :
       All(t, b, i, White) /\ t[i + 1] \notin White /\ All(t, i, e, Printable)

\* What the first line is, up to the place n where it is being read,
InRequestLine(s, t, n) ==
    /\ s = "method_start" => n = 0
    /\ s = "method" => n > 0 /\ All(t, 0, n, Token)
    /\ s = "uri" => InUri(t, n)
    /\ s = "http_version_h" => InVersion(t, n, 0)
    /\ s = "http_version_t_1" => InVersion(t, n, 1)
    /\ s = "http_version_t_2" => InVersion(t, n, 2)
    /\ s = "http_version_p" => InVersion(t, n, 3)
    /\ s = "http_version_slash" => InVersion(t, n, 4)
    /\ s = "http_version_major_start" => InVersion(t, n, 5)
    /\ s = "http_version_major" => InMajor(t, n)
    /\ s = "http_version_minor_start" => n > 0 /\ t[n] = "." /\ InMajor(t, n - 1)
    /\ s = "http_version_minor" => IsRequestLine(t, n)
    /\ s = "expecting_newline_1" => n > 0 /\ t[n] = "CR" /\ IsRequestLine(t, n - 1)

\* and what a later line is that begins behind b.
InHeaderLine(s, t, b, n) ==
    /\ s = "header_line_start" => n = b
    /\ s = "header_name" => n > b /\ All(t, b, n, Token)
    /\ s = "space_before_header_value" => n > b + 1 /\ t[n] = ":" /\ All(t, b, n - 1, Token)
    /\ s = "header_value" => IsHeader(t, b, n) \/ (Later(t, b) /\ Resumed(t, b, n))
    /\ s = "header_lws" => n > b /\ Later(t, b) /\ All(t, b, n, White)
    /\ s = "expecting_newline_2" =>
          /\ n > b /\ t[n] = "CR"
          /\ IsHeader(t, b, n - 1) \/ (Later(t, b) /\ IsFolded(t, b, n - 1))
    /\ s = "expecting_newline_3" => n = b + 1 /\ t[n] = "CR"

HeaderStates == {
    "header_line_start", "header_lws", "header_name", "space_before_header_value",
    "header_value", "expecting_newline_2", "expecting_newline_3" }

Reads(s, t) ==
    /\ Complete(t)
    /\ \E b \in 0..Len(t) :
          /\ Begins(t, b)
          /\ IF s \in HeaderStates THEN b > 0 /\ InHeaderLine(s, t, b, Len(t))
             ELSE b = 0 /\ InRequestLine(s, t, Len(t))

\* No rest makes a request of it.
Hopeless(t) == \A rest \in Seq(Char) : ~IsRequest(t \o rest)

\* While it wants more, the parser has read what its state stands for; what
\* it accepts is a request, and of what it rejects nothing can become one.
Decides ==
    /\ result = "indeterminate" =>
          /\ Reads(state, text)
          /\ state \notin HeaderStates => request.headers = <<>>
          /\ state = "header_line_start" => (request.headers # <<>> <=> Later(text, Len(text)))
          /\ state = "expecting_newline_2" => request.headers # <<>>
    /\ result = "good" => IsRequest(text)
    /\ result = "bad" => Hopeless(text)
-----------------------------------------------------------------------------
(* What the parser has kept of it *)

InCall == {"method_start", "method", "uri"}

\* The request line has two spaces, and between them the uri.
CallKept(t, r) ==
    \E i \in 2..Len(t) : \E j \in (i + 1)..Len(t) :
       /\ t[i] = "SP" /\ t[j] = "SP"
       /\ All(t, 0, i - 1, Char \ {"SP"}) /\ All(t, i, j - 1, Char \ {"SP"})
       /\ r.method = Part(t, 0, i - 1) /\ r.uri = Part(t, i, j - 1)

KeepsCall(s, t, r) ==
    /\ s = "method_start" => r.method = <<>> /\ r.uri = <<>>
    /\ s = "method" => r.method = Part(t, 0, Len(t)) /\ r.uri = <<>>
    /\ s = "uri" =>
          \E i \in 2..Len(t) :
             /\ t[i] = "SP"
             /\ All(t, 0, i - 1, Char \ {"SP"}) /\ All(t, i, Len(t), Char \ {"SP"})
             /\ r.method = Part(t, 0, i - 1) /\ r.uri = Part(t, i, Len(t))
    /\ s \notin InCall => CallKept(t, r)

\* The headers of the lines that are complete, and what has been read of the
\* line that begins at b.
KeptOf(s, t, b) ==
    IF s = "header_name"
    THEN Append(Headers(t), [name |-> Part(t, b, Len(t)), value |-> <<>>])
    ELSE IF s = "space_before_header_value"
    THEN Append(Headers(t), [name |-> Part(t, b, Len(t) - 1), value |-> <<>>])
    ELSE IF s \in {"header_value", "header_lws"} THEN WithLine(Headers(t), t, b, Len(t))
    ELSE IF s = "expecting_newline_2" THEN WithLine(Headers(t), t, b, Len(t) - 1)
    ELSE Headers(t)

KeepsHeaders(s, t, hs) ==
    /\ Headers(t) \in Seq(Header)
    /\ \A b \in 0..Len(t) : Begins(t, b) => hs = KeptOf(s, t, b)

Keeps ==
    /\ result = "indeterminate" =>
          KeepsCall(state, text, request) /\ KeepsHeaders(state, text, request.headers)
    /\ SaysWhatWasSent
=============================================================================
