--------------------------- MODULE RequestHandler ---------------------------
(***************************************************************************)
(* request_handler (HttpWrapper/src/request_handler.cpp): what the target  *)
(* of a request is decoded to and who answers it, with the type of a file  *)
(* (mime_types.cpp) and the stock replies (reply.cpp).                     *)
(*                                                                         *)
(* The browser has a path in mind and sends it piece by piece, each piece  *)
(* plain or escaped; it may also send an escape that is none.  A text is a *)
(* sequence of characters.  Bytes are told apart as far as they are one of *)
(* Code.  NUL, at which the name of a file would end, is not sent.         *)
(***************************************************************************)
EXTENDS Integers, Sequences, SequencesExt

CONSTANTS
    Character,      \* the characters of a text
    Plain,          \* pieces of a path that are sent as they are
    Escaped,        \* characters that are sent as an escape
    Broken,         \* pieces that are no encoding
    MaxPieces       \* bound: pieces of a path

VARIABLES
    meant,          \* the path the browser has in mind
    uri,            \* req.uri
    pieces,         \* how many pieces it is made of
    broken,         \* one of them is no encoding
    reply           \* the reply, NoReply before

handlerVars == <<meant, uri, pieces, broken, reply>>
-----------------------------------------------------------------------------
(* Hexadecimal numbers and bytes *)

\* The digits in either case, in their order.
LowerDigits == <<"0", "1", "2", "3", "4", "5", "6", "7", "8", "9", "a", "b", "c", "d", "e", "f">>
UpperDigits == <<"0", "1", "2", "3", "4", "5", "6", "7", "8", "9", "A", "B", "C", "D", "E", "F">>
HexDigit == [c \in ToSet(LowerDigits) \cup ToSet(UpperDigits) |->
    CHOOSE n \in 0..15 : c \in {LowerDigits[n + 1], UpperDigits[n + 1]}]

\* The characters the properties tell apart, SP the space; Other stands for
\* the rest.
Code == [c \in {"SP", "%", "+", ".", "/"} |->
    CASE c = "SP" -> 32 [] c = "%" -> 37 [] c = "+" -> 43 [] c = "." -> 46 [] c = "/" -> 47]
Other == "other"

\* A browser sends plain only what stands for itself.
ConstantsSuit ==
    /\ Plain \subseteq Seq(Character \ {"%", "+"})
    /\ Broken \subseteq Seq(Character)
    /\ Escaped \subseteq DOMAIN Code

ASSUME ConstantsAssumption == ConstantsSuit

Byte(value) ==
    LET named == {c \in DOMAIN Code : Code[c] = value}
    IN  IF named = {} THEN Other ELSE CHOOSE c \in named : TRUE

\* What was read, when something was.
Only(values) == CHOOSE v \in values : TRUE

\* The escapes of a character: its digits may be of either case.
Escapes(c) ==
    {e \in {<<"%", p[1], p[2]>> : p \in (DOMAIN HexDigit) \X (DOMAIN HexDigit)} :
        16 * HexDigit[e[2]] + HexDigit[e[3]] = Code[c]}

\* Mutant: without std::hex.
ReadDecimal(a, b) ==
    LET digits == {c \in DOMAIN HexDigit : HexDigit[c] < 10}
    IN  IF a \notin digits THEN {}
        ELSE {IF b \in digits THEN 10 * HexDigit[a] + HexDigit[b] ELSE HexDigit[a]}

\* is >> std::hex >> value on two characters: a sign before is skipped, the
\* number ends at the first character that is no digit, and a prefix 0x is
\* none.  The values read, at most one.
ReadHex(a, b) ==
    IF a \in DOMAIN HexDigit
    THEN IF b \in DOMAIN HexDigit THEN {16 * HexDigit[a] + HexDigit[b]}
         ELSE IF a = "0" /\ b \in {"x", "X"} THEN {} ELSE {HexDigit[a]}
    ELSE IF a \in {"+", "-"} /\ b \in DOMAIN HexDigit
    THEN {IF a = "-" THEN -HexDigit[b] ELSE HexDigit[b]} ELSE {}
-----------------------------------------------------------------------------
(* url_decode *)

Decoding(out, skip) == [out |-> out, bad |-> FALSE, skip |-> skip]
Undecodable(out) == [out |-> out, bad |-> TRUE, skip |-> 0]

\* Mutant: an escape at the very end is taken for one cut short.
EscapeAtShort(in, i) == IF i + 3 <= Len(in) THEN ReadHex(in[i + 1], in[i + 2]) ELSE {}

\* The value of the escape at i.
EscapeAt(in, i) == IF i + 2 <= Len(in) THEN ReadHex(in[i + 1], in[i + 2]) ELSE {}

DecodeAt(in, i, d) ==
    IF d.bad THEN d
    ELSE IF d.skip > 0 THEN Decoding(d.out, d.skip - 1)
    ELSE IF in[i] # "%" THEN Decoding(Append(d.out, IF in[i] = "+" THEN "SP" ELSE in[i]), 0)
    ELSE LET value == EscapeAt(in, i)
         IN  IF value = {} THEN Undecodable(d.out)
             ELSE Decoding(Append(d.out, Byte(Only(value))), 2)

url_decode(in) ==
    LET upto[i \in 0..Len(in)] ==
            IF i = 0 THEN Decoding(<<>>, 0) ELSE DecodeAt(in, i, upto[i - 1])
    IN  upto[Len(in)]
-----------------------------------------------------------------------------
(* handle_request *)

NoReply == [status |-> 0, from |-> "nobody", path |-> <<>>, type |-> ""]
Stock(status) == [status |-> status, from |-> "stock", path |-> <<>>, type |-> "text/html"]

Has(path, part) == \E i \in DOMAIN path : IsPrefix(part, SubSeq(path, i, Len(path)))

\* Mutant: the check before the decoding.
AcceptableUndecoded(in, path) ==
    path # <<>> /\ Head(path) = "/" /\ ~Has(in, <<".", ".">>)

\* Request path must be absolute and not contain "..".
Acceptable(in, path) ==
    path # <<>> /\ Head(path) = "/" /\ ~Has(path, <<".", ".">>)

rdb == <<"/", "r", "d", "b", "/">>
Commands == {
    <<"g", "e", "t">>, <<"s", "e", "t">>, <<"d", "e", "l", "e", "t", "e">>,
    <<"f", "i", "e", "l", "d", "s">>, <<"c", "o", "m", "m", "i", "t">> }

isRDBcall(path) == IsPrefix(rdb, path)
isValidCall(path) == \E cmd \in Commands : IsPrefix(rdb \o cmd, path)

Named(path) ==
    IF Last(path) = "/"
    THEN path \o <<"i", "n", "d", "e", "x", ".", "h", "t", "m", "l">> ELSE path

\* Mutant: the first dot.
extensionFirst(path) ==
    LET dots == {i \in DOMAIN path : path[i] = "."}
    IN  {SubSeq(path, i + 1, Len(path)) : i \in {j \in dots : \A k \in dots : j <= k}}

\* What follows the last dot after the last slash, as a set of at most one.
extension(path) ==
    LET dots == {i \in DOMAIN path : path[i] = "."}
    IN  {SubSeq(path, i + 1, Len(path)) :
            i \in {j \in dots : \A k \in DOMAIN path : k > j => path[k] \notin {".", "/"}}}

extension_to_type(ext) ==
    IF ext = <<"g", "i", "f">> THEN "image/gif"
    ELSE IF ext \in {<<"h", "t", "m">>, <<"h", "t", "m", "l">>} THEN "text/html"
    ELSE IF ext = <<"j", "p", "g">> THEN "image/jpeg"
    ELSE IF ext = <<"p", "n", "g">> THEN "image/png"
    ELSE IF ext = <<"c", "s", "s">> THEN "text/css"
    ELSE "text/plain"

DataReply(path) == [status |-> 200, from |-> "data", path |-> path, type |-> "application/json"]
FileReply(path) ==
    LET type == IF extension(path) = {} THEN "text/plain"
                ELSE extension_to_type(Only(extension(path)))
    IN  [status |-> 200, from |-> "file", path |-> path, type |-> type]

\* A command may fail and a file may be missing.
Replies(in) ==
    LET d == url_decode(in)
    IN  IF d.bad \/ ~Acceptable(in, d.out) THEN {Stock(400)}
        ELSE IF isRDBcall(d.out)
        THEN {Stock(400)} \cup (IF isValidCall(d.out) THEN {DataReply(d.out)} ELSE {})
        ELSE {Stock(404), FileReply(Named(d.out))}
-----------------------------------------------------------------------------
HandlerInit == meant = <<>> /\ uri = <<>> /\ pieces = 0 /\ broken = FALSE /\ reply = NoReply

Send(piece, encoded) ==
    /\ reply = NoReply /\ pieces < MaxPieces
    /\ pieces' = pieces + 1
    /\ meant' = meant \o piece /\ uri' = uri \o encoded
    /\ UNCHANGED <<broken, reply>>

SendPlain == \E p \in Plain : Send(p, p)
SendEscaped == \E c \in Escaped : \E e \in Escapes(c) : Send(<<c>>, e)
SendPlus == Send(<<"SP">>, <<"+">>)

SendBroken ==
    /\ reply = NoReply /\ pieces < MaxPieces
    /\ pieces' = pieces + 1 /\ broken' = TRUE
    /\ \E b \in Broken : uri' = uri \o b
    /\ UNCHANGED <<meant, reply>>

handle_request ==
    /\ reply = NoReply /\ uri # <<>>
    /\ reply' \in Replies(uri)
    /\ UNCHANGED <<meant, uri, pieces, broken>>

HandlerNext ==
    \/ SendPlain
    \/ SendEscaped
    \/ SendPlus
    \/ SendBroken
    \/ handle_request

HandlerSpec == HandlerInit /\ [][HandlerNext]_handlerVars
-----------------------------------------------------------------------------
Served == reply.from \in {"file", "data"}

\* The components of a path, between its slashes.
Components(path) ==
    LET ends == {i \in DOMAIN path : path[i] = "/"} \cup {0, Len(path) + 1}
    IN  {SubSeq(path, p[1] + 1, p[2] - 1) : p \in
            {q \in ends \X ends : q[1] < q[2] /\ \A k \in ends : ~(q[1] < k /\ k < q[2])}}

\* The path a browser had in mind is the one that is served, whatever it
\* sent plain and whatever escaped; only index.html is added.
ServesWhatWasMeant ==
    Served /\ ~broken =>
        IF reply.from = "data" \/ Last(meant) # "/" THEN reply.path = meant
        ELSE IsPrefix(meant, reply.path)

\* A request is refused only for its path, not for the way it was encoded.
RefusedForItsPath ==
    reply.status = 400 /\ ~broken =>
        \/ Head(meant) # "/"
        \/ IsPrefix(rdb, meant)
        \/ \E i \in 1..(Len(meant) - 1) : meant[i] = "." /\ meant[i + 1] = "."

\* No path goes up from the document root, also when the dots were escaped
\* and also when the encoding was no proper one.
StaysBelowRoot ==
    reply.from = "file" => Head(reply.path) = "/" /\ <<".", ".">> \notin Components(reply.path)

\* The type of a file is that of the end of its own name, not of a dot in an
\* earlier place or in the name of a directory.
TypeGoesWithName ==
    reply.from = "file" =>
        LET gif == <<".", "g", "i", "f">>
        IN  (reply.type = "image/gif") <=> \E name \in Components(reply.path) :
                IsSuffix(name, reply.path) /\ IsSuffix(gif, name)
=============================================================================
