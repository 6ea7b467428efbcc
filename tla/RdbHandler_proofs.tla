-------------------------- MODULE RdbHandler_proofs --------------------------
(***************************************************************************)
(* The bridge between the servers, for any table, requests and clients:    *)
(* its state keeps its type, a command is carried out once or not at all,  *)
(* and what is shown of a get is right.                                    *)
(***************************************************************************)
EXTENDS RdbHandler, Request_proofs, TLAPS

\* A command is on its way, carried out and not answered, or over; it is over
\* when the handler is not waiting for it.
OneCommand ==
    /\ call[Web] = <<>> \/ reply[Web] = <<>>
    /\ pc \notin {"fields", "answer"} => call[Web] = <<>> /\ reply[Web] = <<>>

\* The history counts the executions of the command that is not for the names.
CountsIt ==
    /\ pc \in {"askFields", "fields", "ask"} => times = 0
    /\ pc = "answer" /\ call[Web] # <<>> => times = 0
    /\ pc = "answer" /\ reply[Web] # <<>> => times = 1

ServiceTypeOK ==
    /\ stored \in Seq(Row)
    /\ call \in [Others \cup {Web} -> OtherRequests \cup Paths \cup {FieldsPath, <<>>}]
    /\ reply \in [Others \cup {Web} -> Seq(Line)]

IInv == TypeOK /\ ServiceTypeOK /\ OneCommand /\ CountsIt /\ CarriedOutOnce

-----------------------------------------------------------------------------
(* What a read brings *)

LEMMA PiecesInLine == Text \subseteq Line /\ Seq(Piece \cup Message) \ {<<>>} = Line
BY DEF Text, Line

LEMMA BeginningsType ==
    ASSUME NEW text \in Line, NEW t \in Beginnings(text)
    PROVE  t \in Line
<1> DEFINE P == Piece \cup Message
<1>1. text \in Seq(P) /\ Len(text) \in Nat /\ Torn \in P /\ Empty \in P
  BY ConstantsAssumption, EmptyAssumption DEF Line
<1>2. Line = Seq(P) \ {<<>>}
  BY DEF Line
<1> HIDE DEF P
<1>3. \A k \in 0..Len(text) : SubSeq(text, 1, k) \in Seq(P) /\ Len(SubSeq(text, 1, k)) = k
  <2> TAKE k \in 0..Len(text)
  <2>1. \A i \in 1..k : text[i] \in P
    BY <1>1
  <2> QED BY <1>1, <2>1, SubSeqProperties
<1>4. ASSUME NEW k \in 0..Len(text), NEW e \in P
      PROVE  Append(SubSeq(text, 1, k), e) \in Line
  <2> DEFINE s == SubSeq(text, 1, k)
  <2>1. s \in Seq(P)
    BY <1>3
  <2> HIDE DEF s
  <2>2. Append(s, e) \in Seq(P)
    BY <2>1
  <2>3. Append(s, e) # <<>>
    BY <2>1
  <2> QED BY <1>2, <2>2, <2>3 DEF s
<1>5. CASE \E k \in DOMAIN text : t = SubSeq(text, 1, k)
  BY <1>1, <1>2, <1>3, <1>5
<1>6. CASE \E k \in DOMAIN text : t = Append(SubSeq(text, 1, k - 1), Torn)
  <2>1. PICK k \in DOMAIN text : t = Append(SubSeq(text, 1, k - 1), Torn)
    BY <1>6
  <2>2. k - 1 \in 0..Len(text)
    BY <1>1, <2>1
  <2> QED BY <1>1, <1>4, <2>1, <2>2
<1>7. CASE \E k \in 1..(Len(text) - 1) : t = Append(SubSeq(text, 1, k), Empty)
  <2>1. PICK k \in 1..(Len(text) - 1) : t = Append(SubSeq(text, 1, k), Empty)
    BY <1>7
  <2>2. k \in 0..Len(text)
    BY <1>1, <2>1
  <2> QED BY <1>1, <1>4, <2>1, <2>2
<1> QED BY <1>5, <1>6, <1>7 DEF Beginnings

LEMMA ReceivedType ==
    ASSUME NEW lines \in Seq(Line), NEW l \in Received(lines)
    PROVE  l \in Seq(Line) /\ l # <<>>
<1>1. \A k \in 0..Len(lines) : SubSeq(lines, 1, k) \in Seq(Line) /\ Len(SubSeq(lines, 1, k)) = k
  <2> TAKE k \in 0..Len(lines)
  <2>1. \A i \in 1..k : lines[i] \in Line
    OBVIOUS
  <2> QED BY <2>1, SubSeqProperties
<1>2. \A s \in Seq(Line), e \in Line : Append(s, e) \in Seq(Line) \ {<<>>}
  OBVIOUS
<1>3. CASE \E k \in DOMAIN lines : l = SubSeq(lines, 1, k)
  BY <1>1, <1>3
<1>4. CASE \E k \in DOMAIN lines : \E t \in Beginnings(lines[k]) : l = Append(SubSeq(lines, 1, k - 1), t)
  <2>0. PICK k \in DOMAIN lines : \E t \in Beginnings(lines[k]) : l = Append(SubSeq(lines, 1, k - 1), t)
    BY <1>4
  <2>1. PICK t \in Beginnings(lines[k]) : l = Append(SubSeq(lines, 1, k - 1), t)
    BY <2>0
  <2>2. t \in Line
    BY BeginningsType
  <2>3. k - 1 \in 0..Len(lines)
    OBVIOUS
  <2> QED BY <1>1, <1>2, <2>1, <2>2, <2>3
<1> QED BY <1>3, <1>4 DEF Received

\* The pieces of a line are lines.
LEMMA SplitLine ==
    ASSUME NEW t \in Line
    PROVE  Split(t) \in Seq(Line) /\ Split(t) # <<>>
<1> DEFINE P == Piece \cup Message
           pieces == IF Len(t) > 1 /\ Last(t) = Empty THEN Front(t) ELSE t
<1>1. t \in Seq(P) /\ Len(t) \in Nat
  BY DEF Line
<1>2. \A p \in P : <<p>> \in Line
  BY DEF Line
<1>3. pieces \in Seq(P) /\ Len(pieces) >= 1
  <2>1. CASE Len(t) > 1 /\ Last(t) = Empty
    <3>1. Front(t) \in Seq(P) /\ Len(Front(t)) = Len(t) - 1
      BY <1>1, <2>1 DEF Front
    <3> QED BY <1>1, <2>1, <3>1
  <2>2. CASE ~(Len(t) > 1 /\ Last(t) = Empty)
    <3>1. Len(t) >= 1
      BY DEF Line
    <3> QED BY <1>1, <2>2, <3>1
  <2> QED BY <2>1, <2>2
<1>4. Split(t) = [i \in 1..Len(pieces) |-> <<pieces[i]>>]
  BY DEF Split
<1> HIDE DEF P, pieces
<1>5. \A i \in 1..Len(pieces) : <<pieces[i]>> \in Line
  BY <1>2, <1>3
<1>6. Split(t) \in Seq(Line) /\ Len(Split(t)) >= 1
  BY <1>3, <1>4, <1>5
<1> QED BY <1>6

-----------------------------------------------------------------------------
(* What the data server does *)

LEMMA SameOutcomes ==
    \A fs, es, params : Service!Outcomes(fs, es, params) = Outcomes(fs, es, params)
BY DEF Outcomes, Service!Outcomes, Said, Service!Said, Outcome, Service!Outcome,
        Bare, Service!Bare, Closed, Service!Closed, Blank, Service!Blank,
        buildError, Service!buildError, NotFound, Service!NotFound,
        FoundRow, Service!FoundRow, FoundValue, Service!FoundValue,
        PastEnd, Service!PastEnd, Garbage, Service!Garbage, GetAll, Service!GetAll,
        GetOne, Service!GetOne, SetRow, Service!SetRow, SetValue, Service!SetValue,
        Delete, Service!Delete, Fields, Service!Fields, Commit, Service!Commit,
        Throws, Service!Throws, Param, Service!Param, Names, Service!Names,
        FirstIndex, Service!FirstIndex, Replaced, Service!Replaced,
        Appended, Service!Appended, HasColumn, Service!HasColumn,
        ValueSet, Service!ValueSet, Erased, Service!Erased, Split, Service!Split,
        AsString, Service!AsString, FlattenSeq, Service!FlattenSeq,
        RemoveAt, Service!RemoveAt, Last, Service!Last, Front, Service!Front

LEMMA SameParams == \A cmd : Service!Params(cmd) = Params(cmd)
BY DEF Params, Service!Params, Blank, Service!Blank, Last, Service!Last, Front, Service!Front

LEMMA SameReread == \A es : Service!Reread(es) = Reread(es)
BY DEF Reread, Service!Reread, AsString, Service!AsString, FlattenSeq, Service!FlattenSeq,
       Split, Service!Split, Last, Service!Last, Front, Service!Front

\* The state of the data server, its rows and what it says.
ServerOK == up \in BOOLEAN /\ entries \in Seq(Row) /\ ServiceTypeOK

LEMMA RequestType ==
    OtherRequests \cup Paths \cup {FieldsPath} \subseteq Seq(Text) \ {<<>>}
<1>1. Blank \in Text /\ <<"fields">> \in Text
  BY ConstantsAssumption, EmptyAssumption DEF Blank, Text, Commands
<1>2. FieldsPath \in Seq(Text) /\ FieldsPath # <<>>
  BY <1>1 DEF FieldsPath
<1>3. OtherRequests \cup Paths \subseteq Seq(Text) \ {<<>>}
  BY ConstantsAssumption
<1> QED BY <1>2, <1>3

LEMMA ExecuteType ==
    ASSUME ServerOK, NEW c \in Others \cup {Web}, Service!Execute(c)
    PROVE  ServerOK'
<1>1. call[c] \in Seq(Text) \ {<<>>}
  BY RequestType DEF Service!Execute, ServerOK, ServiceTypeOK
<1>2. PICK o \in Outcomes(FieldNames, entries, Params(call[c])) :
         /\ entries' = o.entries
         /\ stored' = IF o.commit THEN Reread(entries) ELSE stored
         /\ reply' = [reply EXCEPT ![c] = o.lines]
  BY SameOutcomes, SameParams, SameReread DEF Service!Execute
<1>3. entries \in Seq(Row) /\ FieldNames \in Row /\ Params(call[c]) \in Seq(Text)
  BY <1>1, ConstantsAssumption, ParamsType DEF ServerOK
<1>4. OutcomeOK(o)
  BY <1>2, <1>3, OutcomesType
<1>5. entries' \in Seq(Row) /\ stored' \in Seq(Row)
  BY <1>2, <1>3, <1>4, RereadType DEF OutcomeOK, ServerOK, ServiceTypeOK
<1>6. reply' \in [Others \cup {Web} -> Seq(Line)]
  BY <1>2, <1>4 DEF OutcomeOK, Response, ServerOK, ServiceTypeOK
<1>7. call' \in [Others \cup {Web} -> OtherRequests \cup Paths \cup {FieldsPath, <<>>}] /\ up' = up
  BY DEF Service!Execute, ServerOK, ServiceTypeOK
<1> QED BY <1>5, <1>6, <1>7 DEF ServerOK, ServiceTypeOK

LEMMA CallType ==
    ASSUME ServerOK, NEW c \in Others \cup {Web},
           NEW request \in OtherRequests \cup Paths \cup {FieldsPath}, Service!Call(c, request)
    PROVE  ServerOK'
BY DEF Service!Call, ServerOK, ServiceTypeOK

LEMMA ReturnType ==
    ASSUME ServerOK, NEW c \in Others \cup {Web}, Service!Return(c)
    PROVE  ServerOK'
<1>1. <<>> \in Seq(Line)
  OBVIOUS
<1> QED BY <1>1 DEF Service!Return, ServerOK, ServiceTypeOK

LEMMA ElsewhereType ==
    ASSUME ServerOK, Elsewhere
    PROVE  ServerOK'
<1>1. <<>> \in Seq(Line) /\ <<>> \in Seq(Row)
  OBVIOUS
<1>2. CASE Service!Lose
  BY <1>2 DEF Service!Lose, ServerOK, ServiceTypeOK
<1>3. CASE Service!Start
  BY <1>3 DEF Service!Start, ServerOK, ServiceTypeOK
<1>4. CASE Service!End
  BY <1>1, <1>4 DEF Service!End, ServerOK, ServiceTypeOK
<1>5. CASE \E c \in Others : Service!Execute(c) \/ Service!Return(c)
  BY <1>5, ExecuteType, ReturnType
<1>6. CASE \E c \in Others : \E request \in OtherRequests : Service!Call(c, request)
  BY <1>6, CallType
<1> QED BY <1>2, <1>3, <1>4, <1>5, <1>6 DEF Elsewhere

\* What others do leaves the handler's command where it is, or loses it.
LEMMA ElsewhereLeaves ==
    ASSUME ServerOK, Elsewhere
    PROVE  /\ call'[Web] \in {call[Web], <<>>}
           /\ reply'[Web] \in {reply[Web], <<>>}
<1>1. Web \notin Others
  BY ConstantsAssumption
<1>2. CASE Service!Lose \/ Service!Start \/ Service!End
  BY <1>2 DEF Service!Lose, Service!Start, Service!End
<1>3. ASSUME NEW c \in Others, Service!Execute(c)
      PROVE  call'[Web] = call[Web] /\ reply'[Web] = reply[Web]
  BY <1>1, <1>3 DEF Service!Execute, ServerOK, ServiceTypeOK
<1>4. ASSUME NEW c \in Others, Service!Return(c)
      PROVE  call'[Web] = call[Web] /\ reply'[Web] = reply[Web]
  BY <1>1, <1>4 DEF Service!Return, ServerOK, ServiceTypeOK
<1>5. ASSUME NEW c \in Others, NEW request \in OtherRequests, Service!Call(c, request)
      PROVE  call'[Web] = call[Web] /\ reply'[Web] = reply[Web]
  BY <1>1, <1>5 DEF Service!Call, ServerOK, ServiceTypeOK
<1> QED BY <1>2, <1>3, <1>4, <1>5 DEF Elsewhere

-----------------------------------------------------------------------------
(* What the handler does *)

USE DEF service

\* The handler's own part of TypeOK.
HandlerOK ==
    /\ pc \in {"idle", "askFields", "fields", "ask", "answer"}
    /\ path \in Paths
    /\ fields \in Seq(Line)
    /\ pc \in {"ask", "answer"} /\ IsGet(path) => fields # <<>>
    /\ page.status \in {0, 200, 400}
    /\ seen \in Seq(Row)
    /\ times \in Nat

LEMMA TypeParts == TypeOK /\ ServiceTypeOK <=> ServerOK /\ HandlerOK
BY DEF TypeOK, ServerOK, HandlerOK

LEMMA PageStatus ==
    /\ NoPage.status = 0 /\ BadRequest.status = 400
    /\ \A rows : Ok(rows).status = 200
BY DEF NoPage, BadRequest, Ok

LEMMA InitInv == Init => IInv
<1> SUFFICES ASSUME Init PROVE IInv
  OBVIOUS
<1>1. ServerOK
  <2>1. <<>> \in Seq(Line) /\ <<>> \in Seq(Row)
    OBVIOUS
  <2>2. up \in BOOLEAN /\ entries \in Seq(Row) /\ stored \in Seq(Row)
    BY <2>1, ConstantsAssumption DEF Init, Service!Init
  <2>3. /\ call \in [Others \cup {Web} -> OtherRequests \cup Paths \cup {FieldsPath, <<>>}]
        /\ reply \in [Others \cup {Web} -> Seq(Line)]
    BY <2>1 DEF Init, Service!Init
  <2> QED BY <2>2, <2>3 DEF ServerOK, ServiceTypeOK
<1>2. HandlerOK
  BY PageStatus DEF Init, HandlerOK
<1>3. CarriedOutOnce
  BY PageStatus DEF Init, CarriedOutOnce, Shown
<1>4. OneCommand /\ CountsIt
  BY DEF Init, Service!Init, OneCommand, CountsIt
<1> QED BY <1>1, <1>2, <1>3, <1>4, TypeParts DEF IInv

LEMMA HandleInv ==
    ASSUME IInv, NEW p \in Paths, Handle(p)
    PROVE  IInv'
<1>1. ServerOK'
  BY TypeParts DEF Handle, IInv, ServerOK, ServiceTypeOK
<1>2. <<>> \in Seq(Line) /\ <<>> \in Seq(Row)
  OBVIOUS
<1>3. /\ pc' \in {"idle", "askFields", "ask"} /\ page'.status \in {0, 400}
      /\ path' = p /\ fields' = <<>> /\ seen' = <<>> /\ times' = 0
      /\ UNCHANGED <<call, reply>> /\ pc = "idle"
      /\ pc' = "ask" => ~IsGet(path')
  BY PageStatus DEF Handle, Finish
<1>4. HandlerOK'
  BY <1>2, <1>3 DEF HandlerOK
<1>5. OneCommand' /\ CountsIt' /\ CarriedOutOnce'
  BY <1>3 DEF IInv, OneCommand, CountsIt, CarriedOutOnce, Shown
<1> QED BY <1>1, <1>4, <1>5, TypeParts DEF IInv, TypeOK, ServerOK, HandlerOK

LEMMA AskInv ==
    ASSUME IInv, AskFields \/ Ask
    PROVE  IInv'
<1>1. ServerOK'
  BY TypeParts, CallType DEF AskFields, Ask, IInv, HandlerOK
<1>2. HandlerOK'
  BY TypeParts DEF AskFields, Ask, IInv, HandlerOK
<1>3. reply'[Web] = <<>>
  BY DEF AskFields, Ask, Service!Call
<1>4. OneCommand' /\ CountsIt' /\ CarriedOutOnce'
  BY <1>3 DEF AskFields, Ask, IInv, OneCommand, CountsIt, CarriedOutOnce, Shown
<1> QED BY <1>1, <1>2, <1>4 DEF IInv, TypeOK, ServerOK, HandlerOK

LEMMA FailInv ==
    ASSUME IInv, Fail
    PROVE  IInv'
<1>1. ServerOK'
  BY TypeParts DEF Fail, IInv, ServerOK, ServiceTypeOK
<1>2. pc' = "idle" /\ page'.status = 400 /\ UNCHANGED <<service, path, fields, seen, times>>
  BY PageStatus DEF Fail, Finish
<1>3. HandlerOK'
  BY <1>2, TypeParts DEF IInv, HandlerOK
<1>4. OneCommand' /\ CountsIt' /\ CarriedOutOnce'
  BY <1>2 DEF Fail, IInv, OneCommand, CountsIt, CarriedOutOnce, Shown
<1> QED BY <1>1, <1>3, <1>4 DEF IInv, TypeOK, ServerOK, HandlerOK

LEMMA ReceiveInv ==
    ASSUME IInv, ReceiveFields \/ ReceiveAnswer \/ JoinEnds
    PROVE  IInv'
<1>1. ServerOK /\ HandlerOK
  BY TypeParts DEF IInv
<1>2. Service!Return(Web)
  BY DEF ReceiveFields, ReceiveAnswer, JoinEnds
<1>3. ServerOK'
  BY <1>1, <1>2, ReturnType
<1>4. call'[Web] = <<>> /\ reply'[Web] = <<>> /\ reply[Web] # <<>> /\ reply[Web] \in Seq(Line)
  BY <1>1, <1>2 DEF Service!Return, IInv, OneCommand, ServerOK, ServiceTypeOK
<1>5. CASE ReceiveFields
  <2>1. PICK lines \in Received(reply[Web]) :
           IF path = FieldsPath
           THEN Finish(Ok(<<Split(Head(lines))>>)) /\ UNCHANGED fields
           ELSE pc' = "ask" /\ fields' = Split(Head(lines)) /\ UNCHANGED page
    BY <1>5 DEF ReceiveFields
  <2>2. lines \in Seq(Line) /\ lines # <<>>
    BY <1>4, ReceivedType
  <2>3. Head(lines) \in Line
    BY <2>2
  <2>4. Split(Head(lines)) \in Seq(Line) /\ Split(Head(lines)) # <<>>
    BY <2>3, SplitLine
  <2>5. /\ pc = "fields" /\ UNCHANGED <<path, seen, times>>
        /\ fields' \in Seq(Line) /\ page'.status \in {0, 200, 400}
        /\ (pc' = "ask" /\ fields' # <<>>) \/ (pc' = "idle" /\ path = FieldsPath)
    BY <1>1, <1>5, <2>1, <2>4, PageStatus DEF ReceiveFields, Finish, HandlerOK
  <2>6. HandlerOK'
    BY <1>1, <2>5 DEF HandlerOK
  <2>7. OneCommand' /\ CountsIt' /\ CarriedOutOnce'
    BY <1>4, <2>5 DEF IInv, OneCommand, CountsIt, CarriedOutOnce, Shown
  <2> QED BY <1>3, <2>6, <2>7 DEF IInv, TypeOK, ServerOK, HandlerOK
<1>6. CASE ReceiveAnswer \/ JoinEnds
  <2>1. /\ pc = "answer" /\ pc' = "idle" /\ page'.status \in {0, 200}
        /\ UNCHANGED <<path, fields, seen, times>>
    BY <1>6, PageStatus DEF ReceiveAnswer, JoinEnds, Finish
  <2>2. HandlerOK'
    BY <1>1, <2>1 DEF HandlerOK
  <2>3. times = 1
    BY <1>4, <2>1 DEF IInv, CountsIt
  <2>4. OneCommand' /\ CountsIt' /\ CarriedOutOnce'
    BY <1>4, <2>1, <2>3 DEF OneCommand, CountsIt, CarriedOutOnce, Shown
  <2> QED BY <1>3, <2>2, <2>4 DEF IInv, TypeOK, ServerOK, HandlerOK
<1> QED BY <1>5, <1>6

LEMMA ExecuteInv ==
    ASSUME IInv, Execute
    PROVE  IInv'
<1>1. ServerOK /\ HandlerOK
  BY TypeParts DEF IInv
<1>2. ServerOK'
  BY <1>1, ExecuteType DEF Execute
<1>3. call[Web] # <<>> /\ call'[Web] = <<>> /\ UNCHANGED <<pc, path, fields, page>>
  BY <1>1 DEF Execute, Service!Execute, ServerOK, ServiceTypeOK
<1>4. pc \in {"fields", "answer"}
  BY <1>1, <1>3 DEF IInv, OneCommand, HandlerOK
<1>5. CASE pc = "fields"
  <2>1. UNCHANGED <<seen, times>>
    BY <1>5 DEF Execute
  <2>2. OneCommand' /\ CountsIt' /\ CarriedOutOnce' /\ HandlerOK'
    BY <1>1, <1>3, <1>5, <2>1 DEF IInv, OneCommand, CountsIt, CarriedOutOnce, Shown, HandlerOK
  <2> QED BY <1>2, <2>2 DEF IInv, TypeOK, ServerOK, HandlerOK
<1>6. CASE pc = "answer"
  <2>1. seen' = entries /\ times' = 1
    BY <1>3, <1>6 DEF Execute, IInv, CountsIt
  <2>2. OneCommand' /\ CountsIt' /\ CarriedOutOnce' /\ HandlerOK'
    BY <1>1, <1>3, <1>6, <2>1 DEF ServerOK, OneCommand, CountsIt, CarriedOutOnce, Shown, HandlerOK
  <2> QED BY <1>2, <2>2 DEF IInv, TypeOK, ServerOK, HandlerOK
<1> QED BY <1>4, <1>5, <1>6

LEMMA ElsewhereInv ==
    ASSUME IInv, Elsewhere
    PROVE  IInv'
<1>1. ServerOK /\ HandlerOK
  BY TypeParts DEF IInv
<1>2. ServerOK' /\ call'[Web] \in {call[Web], <<>>} /\ reply'[Web] \in {reply[Web], <<>>}
  BY <1>1, ElsewhereType, ElsewhereLeaves
<1>3. UNCHANGED <<pc, path, fields, page, seen, times>>
  BY DEF Elsewhere
<1>4. HandlerOK'
  BY <1>1, <1>3 DEF HandlerOK
<1>5. OneCommand' /\ CountsIt' /\ CarriedOutOnce'
  BY <1>2, <1>3 DEF IInv, OneCommand, CountsIt, CarriedOutOnce, Shown
<1> QED BY <1>2, <1>4, <1>5 DEF IInv, TypeOK, ServerOK, HandlerOK

LEMMA NextInv == IInv /\ [Next]_vars => IInv'
<1> SUFFICES ASSUME IInv, [Next]_vars PROVE IInv'
  OBVIOUS
<1>1. CASE UNCHANGED vars
  BY <1>1 DEF vars, IInv, TypeOK, ServiceTypeOK, OneCommand, CountsIt, CarriedOutOnce, Shown
<1> QED BY <1>1, HandleInv, AskInv, FailInv, ReceiveInv, ExecuteInv, ElsewhereInv DEF Next

LEMMA Invariant == Spec => []IInv
BY InitInv, NextInv, PTL DEF Spec

\* The handler's state always has its type: whatever part of whatever answer a
\* read brings, what it makes of it are names.
THEOREM TypeCorrect == Spec => []TypeOK
<1>1. IInv => TypeOK
  BY DEF IInv
<1> QED BY Invariant, <1>1, PTL

\* A command is carried out at most once, whatever is lost, and a page that
\* shows its answer is shown only if it was.
THEOREM OnceOnly == Spec => []CarriedOutOnce
<1>1. IInv => CarriedOutOnce
  BY DEF IInv
<1> QED BY Invariant, <1>1, PTL

-----------------------------------------------------------------------------
(* The lines a join reads *)

\* The recursion by which Rows is defined has a solution, and Rows is the last
\* value of one.
LEMMA RowsDefined ==
    ASSUME NEW S, NEW lines \in Seq(S), lines # <<>>
    PROVE  \E f : /\ f = [k \in 0..Len(lines) |->
                            IF k = 0 THEN <<>>
                            ELSE IF lines[k] = Blank THEN f[k - 1] ELSE Append(f[k - 1], lines[k])]
                  /\ Rows(lines) = f[Len(lines)]
<1> DEFINE Value(f, k) == IF lines[k] = Blank THEN f[k - 1] ELSE Append(f[k - 1], lines[k])
           Is(f, n) == f = [k \in 0..n |-> IF k = 0 THEN <<>> ELSE Value(f, k)]
           Has(n) == \E f : Is(f, n)
           T == {n \in 1..Len(lines) : Has(n)}
<1>1. Len(lines) \in Nat /\ Len(lines) >= 1
  OBVIOUS
<1>2. ASSUME NEW n \in Nat, Has(n)
      PROVE  Has(n + 1)
  <2>1. PICK g : Is(g, n)
    BY <1>2
  <2>2. g[0] = <<>> /\ \A k \in 1..n : g[k] = Value(g, k)
    <3>1. 0 \in 0..n /\ \A k \in 1..n : k \in 0..n /\ k # 0
      BY <1>2
    <3> QED BY <2>1, <3>1
  <2> DEFINE last == IF lines[n + 1] = Blank THEN g[n] ELSE Append(g[n], lines[n + 1])
             f == [k \in 0..(n + 1) |-> IF k = n + 1 THEN last ELSE g[k]]
  <2> HIDE DEF last
  <2>3. f[n + 1] = last /\ \A k \in 0..n : f[k] = g[k]
    <3>1. n + 1 \in 0..(n + 1) /\ \A k \in 0..n : k \in 0..(n + 1) /\ k # n + 1
      BY <1>2
    <3> QED BY <3>1
  <2>4. f = [k \in 0..(n + 1) |-> f[k]]
    OBVIOUS
  <2> HIDE DEF f
  <2>5. ASSUME NEW k \in 0..(n + 1)
        PROVE  f[k] = IF k = 0 THEN <<>> ELSE Value(f, k)
    <3>1. CASE k = 0
      <4>1. 0 \in 0..n
        BY <1>2
      <4> QED BY <2>2, <2>3, <3>1, <4>1
    <3>2. CASE k \in 1..n
      <4>1. k \in 0..n /\ k - 1 \in 0..n /\ k # 0
        BY <1>2, <3>2
      <4> QED BY <2>2, <2>3, <3>2, <4>1
    <3>3. CASE k = n + 1
      <4>1. k - 1 = n /\ n \in 0..n /\ k # 0
        BY <1>2, <3>3
      <4> QED BY <2>3, <3>3, <4>1 DEF last
    <3>4. k = 0 \/ k \in 1..n \/ k = n + 1
      BY <1>2
    <3> QED BY <3>1, <3>2, <3>3, <3>4
  <2>6. Is(f, n + 1)
    BY <2>4, <2>5
  <2> QED BY <2>6
<1>3. Has(0)
  <2> DEFINE f == [k \in 0..0 |-> <<>>]
  <2>1. \A k \in 0..0 : k = 0
    OBVIOUS
  <2>2. Is(f, 0)
    BY <2>1
  <2> QED BY <2>2
<1> HIDE DEF Has
<1>4. Len(lines) \in T
  <2>1. 1 \in T
    <3>1. Has(0 + 1)
      BY <1>2, <1>3
    <3>2. 1 \in 1..Len(lines) /\ 0 + 1 = 1
      BY <1>1
    <3> QED BY <3>1, <3>2
  <2>2. \A k \in 1..Len(lines) : k \in T /\ k < Len(lines) => k + 1 \in T
    BY <1>1, <1>2
  <2>3. Len(lines) \in 1..Len(lines)
    BY <1>1
  <2> HIDE DEF T
  <2> QED BY <1>1, <2>1, <2>2, <2>3, PositionInduction
<1> USE DEF Has
<1> DEFINE F == CHOOSE f : Is(f, Len(lines))
<1>5. Is(F, Len(lines))
  BY <1>4
<1>6. Rows(lines) = F[Len(lines)]
  BY DEF Rows
<1> QED BY <1>5, <1>6

\* Of lines of which none is empty, or only the last, the others are the rows.
LEMMA RowsAre ==
    ASSUME NEW S, NEW lines \in Seq(S), lines # <<>>,
           NEW m \in 0..Len(lines), \A k \in 1..m : lines[k] # Blank,
           Len(lines) = m \/ (Len(lines) = m + 1 /\ lines[m + 1] = Blank)
    PROVE  Rows(lines) = SubSeq(lines, 1, m)
<1> DEFINE n == Len(lines)
<1>1. n \in Nat /\ n >= 1 /\ m \in Nat /\ m <= n
  OBVIOUS
<1>2. PICK f : /\ f = [k \in 0..n |->
                         IF k = 0 THEN <<>>
                         ELSE IF lines[k] = Blank THEN f[k - 1] ELSE Append(f[k - 1], lines[k])]
               /\ Rows(lines) = f[n]
  BY RowsDefined
<1>3. f[0] = <<>>
  <2>1. 0 \in 0..n
    BY <1>1
  <2> QED BY <1>2, <2>1
<1>4. \A k \in 1..n : f[k] = IF lines[k] = Blank THEN f[k - 1] ELSE Append(f[k - 1], lines[k])
  <2>1. \A k \in 1..n : k \in 0..n /\ k # 0
    BY <1>1
  <2> QED BY <1>2, <2>1
<1>5. SubSeq(lines, 1, 0) = <<>>
  BY SubSeqEmpty
<1>6. \A k \in 1..n : SubSeq(lines, 1, k) = Append(SubSeq(lines, 1, k - 1), lines[k])
  <2> TAKE k \in 1..n
  <2>1. SubSeq(lines, 1, k) = SubSeq(lines, 1, k - 1) \o <<lines[k]>>
    <3>1. 1 \in 1..Len(lines) /\ k \in 1..Len(lines)
      BY <1>1
    <3> QED BY <3>1, SubSeqRecursiveSecond
  <2>2. SubSeq(lines, 1, k - 1) \in Seq(S)
    <3>1. \A i \in 1..(k - 1) : lines[i] \in S
      BY <1>1
    <3> QED BY <1>1, <3>1, SubSeqProperties
  <2>3. \A s \in Seq(S), e \in S : s \o <<e>> = Append(s, e)
    OBVIOUS
  <2>4. lines[k] \in S
    OBVIOUS
  <2> QED BY <2>1, <2>2, <2>3, <2>4
<1> DEFINE T == {k \in 1..m : f[k] = SubSeq(lines, 1, k)}
<1>7. \A k \in 0..m : f[k] = SubSeq(lines, 1, k)
  <2>1. \A k \in 1..m : k \in 1..n /\ f[k] = Append(f[k - 1], lines[k])
    <3>1. \A k \in 1..m : k \in 1..n
      BY <1>1
    <3> QED BY <1>4, <3>1
  <2>2. m >= 1 => 1 \in T
    <3> SUFFICES ASSUME m >= 1 PROVE 1 \in T
      OBVIOUS
    <3>1. 1 \in 1..m /\ 1 \in 1..n /\ 1 - 1 = 0
      BY <1>1
    <3>2. f[1] = Append(<<>>, lines[1]) /\ SubSeq(lines, 1, 1) = Append(<<>>, lines[1])
      BY <1>3, <1>5, <1>6, <2>1, <3>1
    <3> QED BY <3>1, <3>2
  <2>3. \A k \in 1..m : k \in T /\ k < m => k + 1 \in T
    <3> SUFFICES ASSUME NEW k \in 1..m, k \in T, k < m PROVE k + 1 \in T
      OBVIOUS
    <3>1. k + 1 \in 1..m /\ k + 1 \in 1..n /\ (k + 1) - 1 = k
      BY <1>1
    <3> QED BY <1>6, <2>1, <3>1
  <2> HIDE DEF T
  <2>4. m >= 1 => 1..m \subseteq T
    BY <1>1, <2>2, <2>3, PositionInduction
  <2>5. \A k \in 0..m : k = 0 \/ (m >= 1 /\ k \in 1..m)
    BY <1>1
  <2> QED BY <1>3, <1>5, <2>4, <2>5 DEF T
<1>8. f[m] = SubSeq(lines, 1, m)
  <2>1. m \in 0..m
    BY <1>1
  <2> QED BY <1>7, <2>1
<1>9. CASE n = m
  BY <1>2, <1>8, <1>9
<1>10. CASE n = m + 1 /\ lines[m + 1] = Blank
  <2>1. n \in 1..n /\ n - 1 = m /\ lines[n] = Blank
    BY <1>1, <1>10
  <2> QED BY <1>2, <1>4, <1>8, <2>1
<1> QED BY <1>9, <1>10

-----------------------------------------------------------------------------
(* What a read brings of a row *)

\* A parse makes a value of every piece, but not of an empty last one.
LEMMA SplitPieces ==
    ASSUME NEW t \in Line
    PROVE  /\ Len(Split(t)) = IF Len(t) > 1 /\ t[Len(t)] = Empty THEN Len(t) - 1 ELSE Len(t)
           /\ \A i \in 1..Len(Split(t)) : Split(t)[i] = <<t[i]>>
<1> DEFINE P == Piece \cup Message
           pieces == IF Len(t) > 1 /\ Last(t) = Empty THEN Front(t) ELSE t
<1>1. t \in Seq(P) /\ Len(t) \in Nat /\ Len(t) >= 1
  BY DEF Line
<1> HIDE DEF P
<1>2. /\ Len(pieces) = IF Len(t) > 1 /\ t[Len(t)] = Empty THEN Len(t) - 1 ELSE Len(t)
      /\ \A i \in 1..Len(pieces) : pieces[i] = t[i]
  <2>1. CASE Len(t) > 1 /\ Last(t) = Empty
    BY <1>1, <2>1 DEF Front, Last
  <2>2. CASE ~(Len(t) > 1 /\ Last(t) = Empty)
    BY <1>1, <2>2 DEF Last
  <2> QED BY <2>1, <2>2
<1>3. Len(pieces) \in Nat
  BY <1>1, <1>2
<1>4. Split(t) = [i \in 1..Len(pieces) |-> <<pieces[i]>>]
  BY DEF Split
<1> HIDE DEF pieces
<1>5. Len(Split(t)) = Len(pieces) /\ \A i \in 1..Len(pieces) : Split(t)[i] = <<pieces[i]>>
  BY <1>3, <1>4
<1>6. \A i \in 1..Len(pieces) : Split(t)[i] = <<t[i]>>
  BY <1>2, <1>5
<1> QED BY <1>2, <1>5, <1>6

\* However much of a printed row is read: the values parsed are values that
\* were printed, except that the last may be torn.
LEMMA CutValues ==
    ASSUME NEW row \in Row, NEW t \in {AsString(row)} \cup Beginnings(AsString(row))
    PROVE  /\ Len(Split(t)) <= Len(FlattenSeq(row))
           /\ \A i \in 1..Len(Split(t)) :
                 \/ Split(t)[i] = <<AsString(row)[i]>>
                 \/ i = Len(Split(t)) /\ t # AsString(row) /\ Split(t)[i] = <<Torn>>
<1> DEFINE text == AsString(row)
           n == Len(FlattenSeq(row))
<1>1. n \in Nat /\ n >= 1 /\ text \in Seq(Piece) /\ Len(text) = n + 1 /\ text[n + 1] = Empty
  <2>1. FlattenSeq(row) \in Text /\ Len(FlattenSeq(row)) >= 1
    BY FlattenType DEF Text
  <2> QED BY <2>1, AsStringType DEF Text, Last
<1>2. text \in Line /\ t \in Line
  <2>1. text \in Line
    BY AsStringType, PiecesInLine
  <2> QED BY <2>1, BeginningsType
<1>3. Torn # Empty
  BY ConstantsAssumption
<1> HIDE DEF text, n
<1>4. \A k \in 0..(n + 1) : /\ SubSeq(text, 1, k) \in Seq(Piece) /\ Len(SubSeq(text, 1, k)) = k
                            /\ \A i \in 1..k : SubSeq(text, 1, k)[i] = text[i]
  <2> TAKE k \in 0..(n + 1)
  <2>1. \A i \in 1..k : text[i] \in Piece
    BY <1>1
  <2>2. k \in Int /\ \A i \in 1..k : i \in 1..(k - 1 + 1) /\ 1 + i - 1 = i
    OBVIOUS
  <2> QED BY <1>1, <2>1, <2>2, SubSeqProperties
<1>5. CASE t = text
  <2>1. Len(Split(t)) = n
    BY <1>1, <1>2, <1>5, SplitPieces
  <2> QED BY <1>1, <1>2, <1>5, <2>1, SplitPieces DEF text, n
<1>6. CASE \E k \in DOMAIN text : t = SubSeq(text, 1, k)
  <2>1. PICK k \in 1..(n + 1) : t = SubSeq(text, 1, k)
    BY <1>1, <1>6
  <2>2. k \in 0..(n + 1)
    BY <1>1
  <2>3. Len(t) = k /\ \A i \in 1..k : t[i] = text[i]
    BY <1>4, <2>1, <2>2
  <2>4. Len(Split(t)) <= n /\ Len(Split(t)) \in 0..k
    <3>1. k \in Nat /\ k >= 1 /\ (k <= n \/ k = n + 1)
      BY <1>1
    <3>2. k \in 1..k
      BY <3>1
    <3>3. k = n + 1 => t[k] = Empty
      BY <1>1, <2>3, <3>2
    <3> QED BY <1>1, <1>2, <2>3, <3>1, <3>3, SplitPieces
  <2>5. \A i \in 1..Len(Split(t)) : i \in 1..k
    BY <2>4
  <2>6. \A i \in 1..Len(Split(t)) : Split(t)[i] = <<text[i]>>
    BY <1>2, <2>3, <2>5, SplitPieces
  <2> QED BY <2>4, <2>6 DEF text, n
<1>7. CASE \E k \in {j \in DOMAIN text : text[j] # Empty} : t = Append(SubSeq(text, 1, k - 1), Torn)
  <2>1. PICK k \in 1..(n + 1) : text[k] # Empty /\ t = Append(SubSeq(text, 1, k - 1), Torn)
    BY <1>1, <1>7
  <2>2. k \in 1..n /\ k - 1 \in 0..(n + 1)
    BY <1>1, <2>1
  <2> DEFINE s == SubSeq(text, 1, k - 1)
  <2>3. s \in Seq(Piece) /\ Len(s) = k - 1 /\ \A i \in 1..(k - 1) : s[i] = text[i]
    BY <1>4, <2>2
  <2>4. t = Append(s, Torn)
    BY <2>1
  <2> HIDE DEF s
  <2>5. Len(t) = k /\ t[k] = Torn /\ \A i \in 1..(k - 1) : t[i] = text[i]
    BY <2>2, <2>3, <2>4
  <2>6. Len(Split(t)) = k
    BY <1>2, <1>3, <2>5, SplitPieces
  <2>7. t # text
    BY <1>1, <2>2, <2>5
  <2>8. \A i \in 1..k : Split(t)[i] = <<t[i]>>
    BY <1>2, <2>6, SplitPieces
  <2>9. \A i \in 1..k : i \in 1..(k - 1) \/ i = k
    BY <2>2
  <2>10. k <= n
    BY <2>2
  <2> QED BY <2>5, <2>6, <2>7, <2>8, <2>9, <2>10 DEF text, n
<1>8. CASE \E k \in 1..(Len(text) - 1) : t = Append(SubSeq(text, 1, k), Empty)
  <2>1. PICK k \in 1..n : t = Append(SubSeq(text, 1, k), Empty)
    BY <1>1, <1>8
  <2>2. k \in 0..(n + 1)
    BY <1>1
  <2> DEFINE s == SubSeq(text, 1, k)
  <2>3. s \in Seq(Piece) /\ Len(s) = k /\ \A i \in 1..k : s[i] = text[i]
    BY <1>4, <2>2
  <2>4. t = Append(s, Empty)
    BY <2>1
  <2> HIDE DEF s
  <2>5. Len(t) = k + 1 /\ t[k + 1] = Empty /\ \A i \in 1..k : t[i] = text[i]
    BY <2>2, <2>3, <2>4
  <2>6. Len(Split(t)) = k
    BY <1>2, <2>5, SplitPieces
  <2>7. \A i \in 1..k : Split(t)[i] = <<t[i]>>
    BY <1>2, <2>6, SplitPieces
  <2>8. k <= n
    BY <2>1
  <2> QED BY <2>5, <2>6, <2>7, <2>8 DEF text, n
<1>9. t = text \/ t \in Beginnings(text)
  BY DEF text
<1> QED BY <1>5, <1>6, <1>7, <1>8, <1>9 DEF Beginnings

\* Nothing of an empty line is seen.
LEMMA NothingOfBlank == Beginnings(Blank) = {}
<1>1. /\ Len(Blank) = 1 /\ DOMAIN Blank = {1} /\ Blank[1] = Empty
      /\ SubSeq(Blank, 1, 1) = Blank /\ Blank \in Seq(Piece)
  <2>1. Blank \in Seq(Piece) /\ Len(Blank) = 1 /\ Blank[1] = Empty
    BY EmptyAssumption DEF Blank
  <2>2. SubSeq(Blank, 1, Len(Blank)) = Blank
    BY <2>1, SubSeqFull
  <2> QED BY <2>1, <2>2
<1>2. {SubSeq(Blank, 1, k) : k \in DOMAIN Blank} = {Blank}
  BY <1>1
<1>3. {j \in DOMAIN Blank : Blank[j] # Empty} = {}
  BY <1>1
<1>4. 1..(Len(Blank) - 1) = {}
  BY <1>1
<1> QED BY <1>2, <1>3, <1>4 DEF Beginnings

\* Whatever part of an answer is read, its rows are the rows of the answer
\* from the first, and only the last of them is not whole.
LEMMA ReceivedRows ==
    ASSUME NEW R \in Seq(Text), \A i \in DOMAIN R : R[i] # Blank,
           NEW lines \in {R, Append(R, Blank)}, NEW l \in Received(lines)
    PROVE  /\ Rows(l) \in Seq(Line) /\ Len(Rows(l)) \in 0..Len(R)
           /\ \A i \in 1..Len(Rows(l)) :
                 Rows(l)[i] = R[i] \/ (i = Len(Rows(l)) /\ Rows(l)[i] \in Beginnings(R[i]))
<1> DEFINE n == Len(R)
<1>1. n \in Nat /\ Blank \in Text /\ R \in Seq(Line)
  BY EmptyAssumption, PiecesInLine DEF Blank, Text
<1>2. /\ lines \in Seq(Line) /\ Len(lines) \in {n, n + 1}
      /\ \A i \in 1..n : lines[i] = R[i]
      /\ Len(lines) = n + 1 => lines[n + 1] = Blank
  <2>1. Blank \in Line
    BY <1>1, PiecesInLine
  <2> QED BY <1>1, <2>1
<1>3. l \in Seq(Line) /\ l # <<>>
  BY <1>2, ReceivedType
<1>4. \A k \in 0..Len(lines) : /\ SubSeq(lines, 1, k) \in Seq(Line) /\ Len(SubSeq(lines, 1, k)) = k
                               /\ \A i \in 1..k : SubSeq(lines, 1, k)[i] = lines[i]
  <2> TAKE k \in 0..Len(lines)
  <2>1. \A i \in 1..k : lines[i] \in Line
    BY <1>2
  <2>2. k \in Int /\ \A i \in 1..k : i \in 1..(k - 1 + 1) /\ 1 + i - 1 = i
    OBVIOUS
  <2> QED BY <1>2, <2>1, <2>2, SubSeqProperties
<1> HIDE DEF n
<1>5. ASSUME NEW m \in 0..n, m <= Len(l), \A i \in 1..m : l[i] # Blank,
             Len(l) = m \/ (Len(l) = m + 1 /\ l[m + 1] = Blank)
      PROVE  Rows(l) \in Seq(Line) /\ Len(Rows(l)) = m /\ \A i \in 1..m : Rows(l)[i] = l[i]
  <2>1. m \in 0..Len(l) /\ m \in Nat
    BY <1>1, <1>3, <1>5
  <2>2. Rows(l) = SubSeq(l, 1, m)
    BY <1>3, <1>5, <2>1, RowsAre
  <2>3. \A i \in 1..m : l[i] \in Line
    BY <1>3, <2>1
  <2>4. \A i \in 1..m : i \in 1..(m - 1 + 1) /\ 1 + i - 1 = i
    BY <2>1
  <2> QED BY <2>1, <2>2, <2>3, <2>4, SubSeqProperties
<1>6. CASE \E k \in DOMAIN lines : l = SubSeq(lines, 1, k)
  <2>1. PICK k \in 1..Len(lines) : l = SubSeq(lines, 1, k)
    BY <1>2, <1>6
  <2>2. Len(l) = k /\ \A i \in 1..k : l[i] = lines[i]
    <3>1. k \in 0..Len(lines)
      BY <1>2
    <3> QED BY <1>4, <2>1, <3>1
  <2> DEFINE m == IF k <= n THEN k ELSE n
  <2>3. m \in 0..n /\ m <= k /\ (k = m \/ (k = m + 1 /\ k = n + 1 /\ Len(lines) = n + 1 /\ m = n))
    BY <1>1, <1>2
  <2> HIDE DEF m
  <2>4. \A i \in 1..m : i \in 1..k /\ i \in 1..n
    BY <1>1, <2>3
  <2>5. \A i \in 1..m : l[i] = R[i] /\ l[i] # Blank
    BY <1>2, <2>2, <2>4 DEF n
  <2>6. k = m + 1 => l[m + 1] = Blank
    <3>1. k \in 1..k
      OBVIOUS
    <3> QED BY <1>1, <1>2, <2>2, <2>3, <3>1
  <2>7. Rows(l) \in Seq(Line) /\ Len(Rows(l)) = m /\ \A i \in 1..m : Rows(l)[i] = l[i]
    BY <1>5, <2>2, <2>3, <2>5, <2>6
  <2> QED BY <2>3, <2>5, <2>7 DEF n
<1>7. CASE \E k \in DOMAIN lines : \E t \in Beginnings(lines[k]) :
              l = Append(SubSeq(lines, 1, k - 1), t)
  <2>0. DOMAIN lines = 1..Len(lines)
    BY <1>2
  <2>1. PICK k \in 1..Len(lines) : \E t \in Beginnings(lines[k]) :
              l = Append(SubSeq(lines, 1, k - 1), t)
    BY <1>7, <2>0, Zenon
  <2>2. PICK t \in Beginnings(lines[k]) : l = Append(SubSeq(lines, 1, k - 1), t)
    BY <2>1
  <2>3. k \in 1..n /\ lines[k] = R[k]
    <3>1. k # n + 1
      BY <1>1, <1>2, <2>2, NothingOfBlank
    <3>2. k \in 1..n
      BY <1>1, <1>2, <3>1
    <3> QED BY <1>2, <3>2
  <2> DEFINE s == SubSeq(lines, 1, k - 1)
  <2>4. s \in Seq(Line) /\ Len(s) = k - 1 /\ \A i \in 1..(k - 1) : s[i] = lines[i]
    <3>1. k - 1 \in 0..Len(lines)
      BY <1>2
    <3> QED BY <1>4, <3>1
  <2>5. t \in Line /\ t # Blank
    <3>1. lines[k] \in Line
      BY <1>2
    <3> QED BY <3>1, BeginningsType DEF Beginnings
  <2>6. l = Append(s, t)
    BY <2>2
  <2> HIDE DEF s
  <2>7. Len(l) = k /\ l[k] = t /\ \A i \in 1..(k - 1) : l[i] = lines[i]
    BY <2>3, <2>4, <2>5, <2>6
  <2>8. \A i \in 1..k : (i \in 1..(k - 1) /\ i \in 1..n) \/ i = k
    BY <1>1, <2>3
  <2>9. \A i \in 1..k : (l[i] = R[i] /\ l[i] # Blank) \/ (i = k /\ l[i] = t)
    BY <1>2, <2>7, <2>8 DEF n
  <2>10. k \in 0..n /\ k <= Len(l)
    BY <1>1, <2>3, <2>7
  <2>11. Rows(l) \in Seq(Line) /\ Len(Rows(l)) = k /\ \A i \in 1..k : Rows(l)[i] = l[i]
    BY <1>5, <2>5, <2>7, <2>9, <2>10
  <2> QED BY <2>2, <2>3, <2>9, <2>10, <2>11 DEF n
<1> QED BY <1>6, <1>7 DEF Received

-----------------------------------------------------------------------------
(* What the browser is shown of it *)

Printed(rows) == [i \in DOMAIN rows |-> AsString(rows[i])]

\* Rows are printed to texts, none of them empty and none a message.
LEMMA PrintedTexts ==
    ASSUME NEW W \in Seq(Row)
    PROVE  /\ Printed(W) \in Seq(Text) /\ Len(Printed(W)) = Len(W)
           /\ \A i \in 1..Len(W) : Printed(W)[i] = AsString(W[i]) /\ Printed(W)[i] # Blank
<1>1. DOMAIN W = 1..Len(W) /\ Len(W) \in Nat
  OBVIOUS
<1>2. Printed(W) = [i \in 1..Len(W) |-> AsString(W[i])]
  BY <1>1 DEF Printed
<1>3. \A i \in 1..Len(W) : AsString(W[i]) \in Text
  BY AsStringType
<1>4. ASSUME NEW i \in 1..Len(W)
      PROVE  AsString(W[i]) # Blank
  <2>1. Len(AsString(W[i])) = Len(FlattenSeq(W[i])) + 1 /\ FlattenSeq(W[i]) \in Text
    BY AsStringType, FlattenType
  <2>2. Len(FlattenSeq(W[i])) >= 1 /\ Len(FlattenSeq(W[i])) \in Nat
    BY <2>1 DEF Text
  <2>3. Len(Blank) = 1
    BY DEF Blank
  <2>4. Len(AsString(W[i])) # 1
    BY <2>1, <2>2
  <2> QED BY <2>3, <2>4
<1> QED BY <1>1, <1>2, <1>3, <1>4

\* On the wire a text of the table is what it was.
LEMMA WireTexts ==
    ASSUME NEW lines \in Seq(Text)
    PROVE  Wire(lines) = lines
<1>1. \A i \in DOMAIN lines : lines[i][1] \notin WithColons
  <2> TAKE i \in DOMAIN lines
  <2>1. lines[i] \in Seq(Piece) /\ lines[i] # <<>>
    BY DEF Text
  <2>2. lines[i][1] \in Piece
    BY <2>1
  <2> QED BY <2>2, ConstantsAssumption
<1>2. Wire(lines) = [i \in DOMAIN lines |-> lines[i]]
  BY <1>1 DEF Wire
<1>3. lines = [i \in DOMAIN lines |-> lines[i]]
  OBVIOUS
<1> QED BY <1>2, <1>3

-----------------------------------------------------------------------------
(* What is made of a row *)

\* A set of positions has a last one.
LEMMA LastOfAll ==
    ASSUME NEW n \in Nat, NEW T, T \subseteq 1..n, T # {}
    PROVE  Max(T) \in T
<1> DEFINE U == {n - i : i \in T}
<1>1. U \subseteq Nat /\ U # {}
  <2>1. \A i \in T : i \in 1..n
    OBVIOUS
  <2>2. \A i \in 1..n : n - i \in Nat
    OBVIOUS
  <2> QED BY <2>1, <2>2
<1> HIDE DEF U
<1>2. PICK u \in U : \A m \in U : m >= u
  BY <1>1, LeastNatural
<1>3. PICK i \in T : u = n - i
  BY <1>2 DEF U
<1>4. \A j \in T : i >= j
  <2> TAKE j \in T
  <2>1. n - j \in U
    BY DEF U
  <2>2. n - j >= n - i
    BY <1>2, <1>3, <2>1
  <2>3. i \in Nat /\ j \in Nat
    OBVIOUS
  <2> QED BY <2>2, <2>3
<1> QED BY <1>4 DEF Max

\* The node of a row: its values at the paths of the names at their positions.
LEMMA LabelledValues ==
    ASSUME NEW line \in Line
    PROVE  /\ Len(Split(line)) \in Nat
           /\ DOMAIN Labelled(line) = {Label(i) : i \in 1..Len(Split(line))}
           /\ \A q \in DOMAIN Labelled(line) : \E i \in 1..Len(Split(line)) :
                 Label(i) = q /\ Labelled(line)[q] = Split(line)[i]
<1> DEFINE v == Split(line)
           n == Len(v)
           at(q) == {i \in 1..n : Label(i) = q}
           all == {Label(i) : i \in 1..n}
<1>1. n \in Nat /\ DOMAIN v = 1..n
  BY SplitLine
<1>2. Labelled(line) = [q \in all |-> v[Max(at(q))]]
  BY <1>1 DEF Labelled
<1> HIDE DEF v, n
<1>3. ASSUME NEW q \in all
      PROVE  Max(at(q)) \in at(q)
  <2>1. at(q) \subseteq 1..n /\ at(q) # {}
    OBVIOUS
  <2> HIDE DEF at
  <2> QED BY <1>1, <2>1, LastOfAll
<1>4. \A q \in all : \E i \in 1..n : Label(i) = q /\ Labelled(line)[q] = v[i]
  <2> TAKE q \in all
  <2>1. Max(at(q)) \in 1..n /\ Label(Max(at(q))) = q
    BY <1>3
  <2>2. Labelled(line)[q] = v[Max(at(q))]
    BY <1>2
  <2> QED BY <2>1, <2>2
<1>5. DOMAIN Labelled(line) = all
  BY <1>2
<1> QED BY <1>1, <1>4, <1>5 DEF v, n

\* A printed row is read back piece by piece, which are its own values when
\* none of them holds a colon.
LEMMA ReadBackPieces ==
    ASSUME NEW row \in Row
    PROVE  /\ Len(FlattenSeq(row)) \in Nat /\ Len(ReadBack(row)) = Len(FlattenSeq(row))
           /\ \A i \in 1..Len(FlattenSeq(row)) : ReadBack(row)[i] = <<AsString(row)[i]>>
<1> DEFINE flat == FlattenSeq(row)
<1>1. flat \in Seq(Piece) /\ Len(flat) \in Nat /\ DOMAIN flat = 1..Len(flat)
  BY FlattenType DEF Text
<1>2. AsString(row) = Append(flat, Empty)
  BY DEF AsString
<1>3. ColonFree(row) => Len(flat) = Len(row) /\ \A i \in DOMAIN row : <<flat[i]>> = row[i]
  BY FlattenColonFree
<1>4. ~ColonFree(row) => ReadBack(row) = [i \in DOMAIN flat |-> <<flat[i]>>]
  BY DEF ReadBack
<1>5. row \in Seq(Text) /\ DOMAIN row = 1..Len(row)
  BY DEF Row
<1> HIDE DEF flat
<1>6. \A i \in 1..Len(flat) : Append(flat, Empty)[i] = flat[i]
  BY <1>1, EmptyAssumption
<1>7. CASE ColonFree(row)
  <2>1. ReadBack(row) = row
    BY <1>7 DEF ReadBack
  <2> QED BY <1>1, <1>2, <1>3, <1>5, <1>6, <1>7, <2>1 DEF flat
<1>8. CASE ~ColonFree(row)
  BY <1>1, <1>2, <1>4, <1>6, <1>8 DEF flat
<1> QED BY <1>7, <1>8

\* A row that came whole is read whole.
LEMMA WholeRow ==
    ASSUME NEW row \in Row
    PROVE  AsString(row) \in Line /\ Len(Split(AsString(row))) = Len(FlattenSeq(row))
<1> DEFINE n == Len(FlattenSeq(row))
           t == AsString(row)
<1>1. n \in Nat /\ n >= 1
  BY FlattenType DEF Text
<1>2. t \in Line /\ Len(t) = n + 1 /\ t[Len(t)] = Empty
  BY AsStringType, PiecesInLine DEF Last
<1>3. Len(Split(t)) = IF Len(t) > 1 /\ t[Len(t)] = Empty THEN Len(t) - 1 ELSE Len(t)
  BY <1>2, SplitPieces
<1> HIDE DEF n, t
<1>4. Len(Split(t)) = n
  BY <1>1, <1>2, <1>3
<1> QED BY <1>2, <1>4 DEF n, t

\* However much of a printed row is read: its first values are shown at their
\* places.
LEMMA ShowsCut ==
    ASSUME NEW row \in Row, fields = FieldNames, NEW whole \in BOOLEAN,
           NEW t \in {AsString(row)} \cup Beginnings(AsString(row)),
           whole => t = AsString(row)
    PROVE  ShowsRow(Labelled(t), row, whole)
<1> DEFINE v == Split(t)
           n == Len(v)
           N == Len(FlattenSeq(row))
           values == ReadBack(row)
<1>1. N \in Nat /\ Len(values) = N /\ \A i \in 1..N : values[i] = <<AsString(row)[i]>>
  BY ReadBackPieces
<1>2. /\ n <= N
      /\ \A i \in 1..n :
            v[i] = <<AsString(row)[i]>> \/ (i = n /\ t # AsString(row) /\ v[i] = <<Torn>>)
  BY CutValues
<1>3. t \in Line
  <2>1. AsString(row) \in Line
    BY WholeRow
  <2> QED BY <2>1, BeginningsType
<1>4. /\ n \in Nat
      /\ DOMAIN Labelled(t) = {Label(i) : i \in 1..n}
      /\ \A q \in DOMAIN Labelled(t) : \E i \in 1..n : Label(i) = q /\ Labelled(t)[q] = v[i]
  BY <1>3, LabelledValues
<1>5. whole => n = N
  BY WholeRow
<1>6. \A i : Label(i) = Place(i)
  BY DEF Label, Place
<1> HIDE DEF v, n, N, values
<1>7. n \in 0..Len(values)
  BY <1>1, <1>2, <1>4
<1>8. DOMAIN Labelled(t) = {Place(i) : i \in 1..n}
  BY <1>4, <1>6
<1>9. ASSUME NEW q \in DOMAIN Labelled(t)
      PROVE  \E i \in 1..n : /\ Place(i) = q
                             /\ \/ Labelled(t)[q] = values[i]
                                \/ ~whole /\ i = n /\ Labelled(t)[q] = <<Torn>>
  <2>1. PICK i \in 1..n : Label(i) = q /\ Labelled(t)[q] = v[i]
    BY <1>4
  <2>2. i \in 1..N
    BY <1>1, <1>2, <1>4
  <2>3. v[i] = values[i] \/ (i = n /\ t # AsString(row) /\ v[i] = <<Torn>>)
    BY <1>1, <1>2, <2>2
  <2> QED BY <1>6, <2>1, <2>3
<1>10. whole => n = Len(values)
  BY <1>1, <1>5
<1> QED BY <1>7, <1>8, <1>9, <1>10 DEF ShowsRow, values

\* A value that is answered by itself is the beginning of a printed row of that
\* value only, and so is what a read brings of it.
LEMMA ValueBegins ==
    ASSUME NEW v \in Text, v # Blank, NEW t \in {v} \cup Beginnings(v)
    PROVE  <<v>> \in Row /\ t \in Beginnings(AsString(<<v>>))
<1> DEFINE n == Len(v)
           text == Append(v, Empty)
<1>1. v \in Seq(Piece) /\ n \in Nat /\ n >= 1 /\ DOMAIN v = 1..n
  BY DEF Text
<1>2. <<v>> \in Row /\ <<v>> \in Seq(Seq(Piece)) /\ <<v>> # <<>> /\ Len(<<v>>) = 1
  BY DEF Row, Text
<1>3. FlattenSeq(<<v>>) = v
  <2>1. PICK f : /\ f = [i \in 1..1 |-> IF i = 1 THEN <<v>>[i] ELSE f[i - 1] \o <<v>>[i]]
                 /\ FlattenSeq(<<v>>) = f[1]
    BY <1>2, FlattenDefined
  <2>2. f[1] = <<v>>[1]
    BY <2>1
  <2> QED BY <2>1, <2>2
<1>4. AsString(<<v>>) = text
  BY <1>3 DEF AsString
<1>5. text \in Seq(Piece) /\ Len(text) = n + 1 /\ DOMAIN text = 1..(n + 1)
      /\ \A i \in 1..n : text[i] = v[i]
  BY <1>1, EmptyAssumption
<1> HIDE DEF n, text
<1>6. ASSUME NEW k \in 0..n
      PROVE  SubSeq(text, 1, k) = SubSeq(v, 1, k)
  <2>1. \A i \in 1..k : i \in 1..n /\ i \in 1..(n + 1)
    BY <1>1
  <2>2. k \in Nat /\ SubSeq(text, 1, k) = [i \in 1..k |-> text[i]] /\ SubSeq(v, 1, k) = [i \in 1..k |-> v[i]]
    BY <1>1, <1>5
  <2> QED BY <1>5, <2>1, <2>2
<1>7. t # Blank
  BY DEF Beginnings
<1>8. \/ \E k \in 1..(n + 1) : t = SubSeq(text, 1, k)
      \/ \E k \in 1..(n + 1) : text[k] # Empty /\ t = Append(SubSeq(text, 1, k - 1), Torn)
      \/ \E k \in 1..n : t = Append(SubSeq(text, 1, k), Empty)
  <2>1. CASE t = v \/ \E k \in 1..n : t = SubSeq(v, 1, k)
    <3>1. v = SubSeq(v, 1, n) /\ n \in 1..n
      BY <1>1, SubSeqFull DEF n
    <3>2. PICK k \in 1..n : t = SubSeq(v, 1, k)
      BY <2>1, <3>1
    <3>3. k \in 0..n /\ k \in 1..(n + 1)
      BY <1>1
    <3> QED BY <1>6, <3>2, <3>3
  <2>2. CASE \E k \in {j \in 1..n : v[j] # Empty} : t = Append(SubSeq(v, 1, k - 1), Torn)
    <3>1. PICK k \in 1..n : v[k] # Empty /\ t = Append(SubSeq(v, 1, k - 1), Torn)
      BY <2>2
    <3>2. k - 1 \in 0..n /\ k \in 1..(n + 1)
      BY <1>1
    <3>3. SubSeq(text, 1, k - 1) = SubSeq(v, 1, k - 1) /\ text[k] = v[k]
      BY <1>5, <1>6, <3>2
    <3> QED BY <3>1, <3>2, <3>3
  <2>3. CASE \E k \in 1..(n - 1) : t = Append(SubSeq(v, 1, k), Empty)
    <3>1. PICK k \in 1..(n - 1) : t = Append(SubSeq(v, 1, k), Empty)
      BY <2>3
    <3>2. k \in 0..n /\ k \in 1..n
      BY <1>1
    <3> QED BY <1>6, <3>1, <3>2
  <2>4. t = v \/ t \in Beginnings(v)
    OBVIOUS
  <2> QED BY <1>1, <2>1, <2>2, <2>3, <2>4 DEF Beginnings, n
<1>9. Len(text) - 1 = n
  BY <1>1, <1>5
<1> QED BY <1>2, <1>4, <1>5, <1>7, <1>8, <1>9 DEF Beginnings

-----------------------------------------------------------------------------
(* What is made of an answer *)

\* An answer that holds the rows W: printed, or a value by itself for a row of
\* one value.
Holds(lines, W) ==
    \/ lines \in {Printed(W), Append(Printed(W), Blank)}
    \/ \E v \in Text \ {Blank} : W = <<<<v>>>> /\ lines = <<v>>

\* The texts of such an answer: each row printed, but for a value by itself.
LEMMA HeldTexts ==
    ASSUME NEW W \in Seq(Row), NEW lines, Holds(lines, W)
    PROVE  \E R \in Seq(Text) :
              /\ lines \in {R, Append(R, Blank)} /\ Len(R) = Len(W)
              /\ \A k \in 1..Len(W) :
                    /\ R[k] # Blank
                    /\ \/ R[k] = AsString(W[k])
                       \/ k = Len(W) /\ W[k] = <<R[k]>>
<1>1. CASE lines \in {Printed(W), Append(Printed(W), Blank)}
  <2>1. /\ Printed(W) \in Seq(Text) /\ Len(Printed(W)) = Len(W)
        /\ \A k \in 1..Len(W) : Printed(W)[k] = AsString(W[k]) /\ Printed(W)[k] # Blank
    BY PrintedTexts
  <2> QED BY <1>1, <2>1, Zenon
<1>2. CASE \E v \in Text \ {Blank} : W = <<<<v>>>> /\ lines = <<v>>
  <2>1. PICK v \in Text \ {Blank} : W = <<<<v>>>> /\ lines = <<v>>
    BY <1>2
  <2>2. <<v>> \in Seq(Text) /\ Len(<<v>>) = 1 /\ Len(W) = 1 /\ W[1] = <<v>> /\ <<v>>[1] = v
    BY <2>1
  <2>3. \A k \in 1..1 : k = 1
    OBVIOUS
  <2> WITNESS <<v>> \in Seq(Text)
  <2> QED BY <2>1, <2>2, <2>3
<1> QED BY <1>1, <1>2 DEF Holds

\* Whatever part is read of an answer that holds the rows W: they are shown, in
\* their order, from the first.
LEMMA ReadRight ==
    ASSUME NEW W \in Seq(Row), NEW lines, Holds(lines, W),
           NEW l \in Received(Wire(lines)), fields = FieldNames
    PROVE  /\ Len(Join(l)) <= Len(W)
           /\ \A k \in DOMAIN Join(l) : ShowsRow(Join(l)[k], W[k], k < Len(Join(l)))
<1> DEFINE s == Rows(l)
           n == Len(s)
<1>1. PICK R \in Seq(Text) :
         /\ lines \in {R, Append(R, Blank)} /\ Len(R) = Len(W)
         /\ \A k \in 1..Len(W) :
               /\ R[k] # Blank
               /\ \/ R[k] = AsString(W[k])
                  \/ k = Len(W) /\ W[k] = <<R[k]>>
  BY HeldTexts
<1>2. Blank \in Text
  BY EmptyAssumption DEF Blank, Text
<1>3. lines \in Seq(Text) /\ DOMAIN R = 1..Len(W) /\ Len(W) \in Nat
  BY <1>1, <1>2
<1>4. l \in Received(lines)
  BY <1>3, WireTexts
<1>5. /\ s \in Seq(Line) /\ n \in 0..Len(W)
      /\ \A i \in 1..n : s[i] = R[i] \/ (i = n /\ s[i] \in Beginnings(R[i]))
  <2>1. \A i \in DOMAIN R : R[i] # Blank
    BY <1>1, <1>3
  <2> QED BY <1>1, <1>4, <2>1, ReceivedRows
<1>6. DOMAIN s = 1..n /\ Len(Join(l)) = n /\ DOMAIN Join(l) = 1..n
      /\ \A k \in 1..n : Join(l)[k] = Labelled(s[k])
  <2>1. DOMAIN s = 1..n
    BY <1>5
  <2>2. Join(l) = [k \in 1..n |-> Labelled(s[k])]
    BY <2>1 DEF Join
  <2> HIDE DEF s, n
  <2>3. n \in Nat
    BY <1>3, <1>5
  <2> QED BY <2>1, <2>2, <2>3
<1> HIDE DEF s, n
<1>7. ASSUME NEW k \in 1..n
      PROVE  ShowsRow(Labelled(s[k]), W[k], k < n)
  <2>1. k \in 1..Len(W) /\ W[k] \in Row /\ R[k] \in Text
    <3>1. k \in 1..Len(W)
      BY <1>3, <1>5
    <3>2. \A i \in 1..Len(W) : W[i] \in Row
      OBVIOUS
    <3>3. \A i \in DOMAIN R : R[i] \in Text
      OBVIOUS
    <3> QED BY <1>3, <3>1, <3>2, <3>3
  <2>2. s[k] = R[k] \/ (k = n /\ s[k] \in Beginnings(R[k]))
    BY <1>5
  <2>3. CASE R[k] = AsString(W[k])
    <3>1. s[k] \in {AsString(W[k])} \cup Beginnings(AsString(W[k]))
      BY <2>2, <2>3
    <3>2. k < n => s[k] = AsString(W[k])
      BY <1>3, <1>5, <2>2, <2>3
    <3>3. (k < n) \in BOOLEAN
      BY <1>3, <1>5
    <3> QED BY <2>1, <3>1, <3>2, <3>3, ShowsCut
  <2>4. CASE k = Len(W) /\ W[k] = <<R[k]>>
    <3>1. s[k] \in {R[k]} \cup Beginnings(R[k]) /\ R[k] # Blank
      BY <1>1, <2>1, <2>2
    <3>2. s[k] \in Beginnings(AsString(<<R[k]>>))
      BY <2>1, <3>1, ValueBegins
    <3>3. (k < n) = FALSE
      BY <1>3, <1>5, <2>4
    <3>4. s[k] \in {AsString(W[k])} \cup Beginnings(AsString(W[k]))
      BY <2>4, <3>2
    <3>5. ShowsRow(Labelled(s[k]), W[k], FALSE)
      BY <2>1, <3>4, ShowsCut
    <3> QED BY <3>3, <3>5
  <2> QED BY <1>1, <2>1, <2>3, <2>4
<1>8. n <= Len(W)
  BY <1>3, <1>5
<1> QED BY <1>6, <1>7, <1>8

-----------------------------------------------------------------------------
(* What a get of rows is answered *)

\* The first place of a thing is one.
LEMMA FirstIsOne ==
    ASSUME NEW S, NEW list \in Seq(S), NEW x,
           NEW i \in FirstIndex(list, x), NEW j \in FirstIndex(list, x)
    PROVE  i = j
<1>1. DOMAIN list = 1..Len(list) /\ Len(list) \in Nat
  OBVIOUS
<1>2. /\ i \in 1..Len(list) /\ list[i] = x /\ \A m \in 1..(i - 1) : list[m] # x
      /\ j \in 1..Len(list) /\ list[j] = x /\ \A m \in 1..(j - 1) : list[m] # x
  BY <1>1 DEF FirstIndex
<1>3. CASE i < j
  <2>1. i \in 1..(j - 1)
    BY <1>1, <1>2, <1>3
  <2> QED BY <1>2, <2>1
<1>4. CASE j < i
  <2>1. j \in 1..(i - 1)
    BY <1>1, <1>2, <1>4
  <2> QED BY <1>2, <2>1
<1> QED BY <1>1, <1>2, <1>3, <1>4

LEMMA FirstRowIsOne ==
    ASSUME NEW es \in Seq(Row), NEW name, NEW i \in FirstIndex(Names(es), name),
           NEW j \in FirstIndex(Names(es), name)
    PROVE  i = j
<1>1. \A m \in DOMAIN es : es[m][1] \in Text
  BY DEF Row
<1>2. Names(es) \in Seq(Text)
  BY <1>1 DEF Names
<1> QED BY <1>2, FirstIsOne

\* The value that is found is one, a value of a row that has its column.
LEMMA FoundIsOne ==
    ASSUME NEW es \in Seq(Row), NEW name, NEW field,
           NEW v \in FoundValue(FieldNames, es, name, field)
    PROVE  /\ v \in Text \ {Blank}
           /\ \A w \in FoundValue(FieldNames, es, name, field) : w = v
           /\ ~PastEnd(FieldNames, es, name, field)
<1> DEFINE rows == FirstIndex(Names(es), name)
           columns == FirstIndex(FieldNames, field)
<1>1. FieldNames \in Seq(Text)
  BY ConstantsAssumption DEF Row
<1>2. /\ \A i, j \in rows : i = j
      /\ \A i, j \in columns : i = j
  BY <1>1, FirstRowIsOne, FirstIsOne
<1>3. PICK i \in rows, k \in columns : HasColumn(es[i], k) /\ v = es[i][k] /\ v # Blank
  BY DEF FoundValue
<1>4. es[i] \in Row /\ k \in Nat \ {0}
  BY <1>1, <1>3, FoundIndex, FoundField
<1>5. v \in Text
  <2>1. es[i] \in Seq(Text) /\ k \in 1..Len(es[i])
    BY <1>3, <1>4 DEF Row, HasColumn
  <2> QED BY <1>3, <2>1
<1> HIDE DEF rows, columns
<1>6. ASSUME NEW w \in FoundValue(FieldNames, es, name, field)
      PROVE  w = v
  <2>1. PICK a \in rows, b \in columns : w = es[a][b]
    BY DEF FoundValue, rows, columns
  <2>2. a = i /\ b = k
    BY <1>2, <1>3, <2>1
  <2> QED BY <1>3, <2>1, <2>2
<1>7. ASSUME PastEnd(FieldNames, es, name, field)
      PROVE  FALSE
  <2>1. PICK a \in rows, b \in columns : ~HasColumn(es[a], b)
    BY <1>7 DEF PastEnd, rows, columns
  <2>2. a = i /\ b = k
    BY <1>2, <1>3, <2>1
  <2> QED BY <1>3, <2>1, <2>2
<1> QED BY <1>3, <1>5, <1>6, <1>7

\* The rows a get with these parameters asks for.
FoundOf(es, params) ==
    IF Param(params, 3) = Blank THEN {es[i] : i \in FirstIndex(Names(es), params[2])}
    ELSE {<<v>> : v \in FoundValue(FieldNames, es, params[2], Param(params, 3))}

WantedOf(es, params) ==
    IF Len(params) = 1 THEN es
    ELSE IF FoundOf(es, params) = {} THEN <<>>
    ELSE <<CHOOSE row \in FoundOf(es, params) : TRUE>>

LEMMA WantedRows ==
    ASSUME NEW es \in Seq(Row), NEW params
    PROVE  WantedOf(es, params) \in Seq(Row)
<1>1. FoundOf(es, params) \subseteq Row
  <2>1. CASE Param(params, 3) = Blank
    BY <2>1, FoundIndex DEF FoundOf
  <2>2. CASE Param(params, 3) # Blank
    <3>1. FoundOf(es, params) = {<<v>> : v \in FoundValue(FieldNames, es, params[2], Param(params, 3))}
      BY <2>2 DEF FoundOf
    <3>2. \A v \in FoundValue(FieldNames, es, params[2], Param(params, 3)) : v \in Text
      BY FoundIsOne
    <3>3. \A v \in Text : <<v>> \in Row
      BY DEF Row
    <3> QED BY <3>1, <3>2, <3>3
  <2> QED BY <2>1, <2>2
<1>2. FoundOf(es, params) # {} => (CHOOSE row \in FoundOf(es, params) : TRUE) \in Row
  BY <1>1
<1> QED BY <1>2 DEF WantedOf

\* A path that gets has its command first.
LEMMA GetParams ==
    ASSUME NEW p \in Paths, p[2] = <<"get">>
    PROVE  Params(p) \in Seq(Text) /\ Len(Params(p)) >= 1 /\ Params(p)[1] = <<"get">>
<1> DEFINE parts == IF Len(p) > 1 /\ Last(p) = Blank THEN Front(p) ELSE p
<1>1. p \in Seq(Text) /\ p # <<>> /\ Len(p) \in Nat /\ Len(p) > 1 /\ p[1] = Blank
  BY ConstantsAssumption
<1>2. p[2] # Blank
  BY ConstantsAssumption DEF Blank, Commands
<1>3. parts \in Seq(Text) /\ Len(parts) >= 2 /\ Len(parts) \in Nat /\ parts[1] = Blank /\ parts[2] = <<"get">>
  <2>1. CASE Last(p) = Blank
    <3>1. Len(p) # 2
      BY <1>2, <2>1 DEF Last
    <3>2. \A i \in 1..(Len(p) - 1) : p[i] \in Text
      BY <1>1
    <3>3. /\ Front(p) \in Seq(Text) /\ Len(Front(p)) = Len(p) - 1
          /\ \A i \in 1..(Len(p) - 1) : Front(p)[i] = p[i]
      BY <1>1, <3>2, SubSeqProperties DEF Front
    <3>4. 1 \in 1..(Len(p) - 1) /\ 2 \in 1..(Len(p) - 1)
      <4>1. \A n \in Nat : n > 1 /\ n # 2 => 1 \in 1..(n - 1) /\ 2 \in 1..(n - 1)
        OBVIOUS
      <4> QED BY <1>1, <3>1, <4>1
    <3>5. parts = Front(p)
      BY <1>1, <2>1
    <3> HIDE DEF parts
    <3> QED BY <1>1, <3>1, <3>3, <3>4, <3>5
  <2>2. CASE Last(p) # Blank
    BY <1>1, <2>2
  <2> QED BY <2>1, <2>2
<1>4. Params(p) = IF Head(parts) = Blank THEN Tail(parts) ELSE parts
  BY DEF Params
<1> HIDE DEF parts
<1>5. Params(p) = Tail(parts)
  BY <1>3, <1>4
<1>6. Tail(parts) \in Seq(Text) /\ Len(Tail(parts)) = Len(parts) - 1 /\ Tail(parts)[1] = parts[2]
  BY <1>3
<1> QED BY <1>3, <1>5, <1>6

\* It is answered with what it asks for.
LEMMA GetOutcome ==
    ASSUME NEW es \in Seq(Row), NEW params \in Seq(Text),
           params[1] = <<"get">>, Len(params) >= 1,
           Len(params) = 1 \/ WantedOf(es, params) # <<>>,
           NEW o \in Outcomes(FieldNames, es, params)
    PROVE  Holds(o.lines, WantedOf(es, params))
<1> DEFINE field == Param(params, 3)
           W == WantedOf(es, params)
<1>1. params # <<>> /\ Len(params) \in Nat
  OBVIOUS
<1>2. CASE Len(params) = 1
  <2>1. o \in GetAll(es)
    BY <1>1, <1>2 DEF Outcomes
  <2>2. o.lines = Append(Printed(es), Blank)
    BY <2>1 DEF GetAll, Said, Outcome, Closed, Printed
  <2> QED BY <1>2, <2>2 DEF WantedOf, Holds
<1>3. CASE Len(params) # 1
  <2>1. o \in GetOne(FieldNames, es, params[2], field)
    <3>1. ~(Len(params) < 2)
      <4>1. \A n \in Nat : n >= 1 /\ n # 1 => ~(n < 2)
        OBVIOUS
      <4> QED BY <1>1, <1>3, <4>1
    <3> QED BY <1>1, <3>1 DEF Outcomes
  <2>2. PICK row \in FoundOf(es, params) : W = <<row>>
    BY <1>3 DEF WantedOf
  <2>3. CASE field = Blank
    <3> DEFINE at == FirstIndex(Names(es), params[2])
    <3>1. FoundRow(es, params[2]) = {AsString(es[i]) : i \in at}
      BY DEF FoundRow
    <3>2. PICK w \in at : row = es[w]
      BY <2>2, <2>3 DEF FoundOf
    <3>3. FoundRow(es, params[2]) # {}
      BY <3>1, <3>2
    <3>4. \E t \in FoundRow(es, params[2]) : o.lines = Bare(t)
      BY <2>1, <2>3, <3>3 DEF GetOne, Outcome
    <3>5. PICK i \in at : o.lines = Bare(AsString(es[i]))
      BY <3>1, <3>4
    <3>6. i = w
      BY <3>2, <3>5, FirstRowIsOne
    <3> HIDE DEF at, W
    <3>7. Printed(W) = <<AsString(row)>>
      BY <2>2 DEF Printed
    <3>8. o.lines = Printed(W)
      BY <3>2, <3>5, <3>6, <3>7 DEF Bare
    <3> QED BY <3>8 DEF Holds, W
  <2>4. CASE field # Blank
    <3> DEFINE found == FoundValue(FieldNames, es, params[2], field)
    <3>1. PICK v \in found : row = <<v>>
      BY <2>2, <2>4 DEF FoundOf
    <3>2. /\ v \in Text \ {Blank} /\ (\A w \in found : w = v)
          /\ ~PastEnd(FieldNames, es, params[2], field)
      BY <3>1, FoundIsOne
    <3>3. found # {}
      BY <3>1
    <3>4. \E t \in found : o.lines = Bare(t)
      BY <2>1, <2>4, <3>2, <3>3 DEF GetOne, Outcome
    <3>5. o.lines = <<v>>
      BY <3>2, <3>4 DEF Bare
    <3> QED BY <2>2, <3>1, <3>2, <3>5 DEF Holds
  <2> QED BY <2>3, <2>4
<1> QED BY <1>2, <1>3

-----------------------------------------------------------------------------
(* The answer until it is shown *)

\* The command on its way is the path; its answer, not yet read, holds the rows
\* it asked for, as they were when it was carried out.
AnswerInv ==
    pc = "answer" =>
        /\ call[Web] \in {path, <<>>}
        /\ reply[Web] # <<>> /\ Answered => Holds(reply[Web], Wanted)

LEMMA WantedIs == Wanted = WantedOf(seen, Params(path))
BY DEF Wanted, WantedOf, FoundOf

\* What is shown of the answer is right.
LEMMA AnswerShown ==
    ASSUME IInv, AnswerInv, ReceiveAnswer
    PROVE  JoinIsRight'
<1>1. /\ pc = "answer" /\ pc' = "idle" /\ UNCHANGED <<path, fields, seen>>
      /\ reply[Web] # <<>> /\ path \in Paths /\ seen \in Seq(Row)
  BY TypeParts DEF ReceiveAnswer, Finish, Service!Return, IInv, HandlerOK
<1>2. Wanted' = Wanted
  BY <1>1 DEF Wanted
<1>3. Answered' = Answered
  BY <1>1, <1>2 DEF Answered
<1>4. CASE ~(Answered /\ fields = FieldNames)
  BY <1>1, <1>3, <1>4 DEF JoinIsRight
<1>5. CASE Answered /\ fields = FieldNames
  <2>1. IsGet(path)
    BY <1>5 DEF Answered, IsGet, StartsWith
  <2>2. PICK l \in Received(Wire(reply[Web])) : page' = Ok(Join(l))
    BY <2>1 DEF ReceiveAnswer, Finish
  <2>3. page'.rows = Join(l)
    BY <2>2 DEF Ok
  <2>4. Wanted \in Seq(Row)
    BY <1>1, WantedIs, WantedRows
  <2>5. Holds(reply[Web], Wanted)
    BY <1>1, <1>5 DEF AnswerInv
  <2>6. /\ Len(Join(l)) <= Len(Wanted)
        /\ \A k \in DOMAIN Join(l) : ShowsRow(Join(l)[k], Wanted[k], k < Len(Join(l)))
    BY <1>5, <2>2, <2>4, <2>5, ReadRight
  <2> DEFINE rows == page'.rows
             wanted == Wanted'
  <2>7. /\ Len(rows) <= Len(wanted)
        /\ \A k \in DOMAIN rows : ShowsRow(rows[k], wanted[k], k < Len(rows))
    BY <1>2, <2>3, <2>6, Zenon
  <2>8. \A node, row, whole : ShowsRow(node, row, whole)' = ShowsRow(node, row, whole)
    BY DEF ShowsRow
  <2> QED BY <2>7, <2>8 DEF JoinIsRight
<1> QED BY <1>4, <1>5

JoinInv == AnswerInv /\ JoinIsRight

LEMMA InitJoin == Init => JoinInv
BY PageStatus DEF Init, JoinInv, AnswerInv, JoinIsRight, Shown

\* Nothing of a get is shown by a step that ends with no page of it.
LEMMA NotShown ==
    ASSUME pc' # "idle" \/ page'.status # 200
    PROVE  JoinIsRight'
BY DEF JoinIsRight, Shown

\* A step that leaves the page, what it was asked for and what was seen.
LEMMA PageStays ==
    ASSUME JoinInv, UNCHANGED <<pc, path, fields, page, seen>>
    PROVE  JoinIsRight' /\ (Answered' = Answered) /\ Wanted' = Wanted
<1>1. Wanted' = Wanted
  BY DEF Wanted
<1>2. Answered' = Answered
  BY <1>1 DEF Answered
<1>3. Shown' = Shown
  BY DEF Shown
<1>4. JoinIsRight'
  BY <1>1, <1>2, <1>3 DEF JoinInv, JoinIsRight
<1> QED BY <1>1, <1>2, <1>4

LEMMA AskJoin ==
    ASSUME IInv, JoinInv, (\E p \in Paths : Handle(p)) \/ AskFields \/ Ask \/ Fail
    PROVE  JoinInv'
<1>1. CASE \E p \in Paths : Handle(p)
  <2>1. pc' # "answer" /\ (pc' # "idle" \/ page'.status = 400)
    BY <1>1, PageStatus DEF Handle, Finish
  <2> QED BY <2>1, NotShown DEF JoinInv, AnswerInv
<1>2. CASE AskFields
  <2>1. pc' = "fields"
    BY <1>2 DEF AskFields
  <2> QED BY <2>1, NotShown DEF JoinInv, AnswerInv
<1>3. CASE Ask
  <2>1. pc' = "answer" /\ path' = path /\ call'[Web] = path /\ reply'[Web] = <<>>
    BY <1>3 DEF Ask, Service!Call, IInv, ServiceTypeOK
  <2> QED BY <2>1, NotShown DEF JoinInv, AnswerInv
<1>4. CASE Fail
  <2>1. pc' = "idle" /\ page'.status = 400
    BY <1>4, PageStatus DEF Fail, Finish
  <2> QED BY <2>1, NotShown DEF JoinInv, AnswerInv
<1> QED BY <1>1, <1>2, <1>3, <1>4

LEMMA ReceiveJoin ==
    ASSUME IInv, JoinInv, ReceiveFields \/ ReceiveAnswer \/ JoinEnds
    PROVE  JoinInv'
<1>1. CASE ReceiveFields
  <2>1. CASE path = FieldsPath
    <3>1. pc' = "idle" /\ path' = FieldsPath
      BY <1>1, <2>1 DEF ReceiveFields, Finish
    <3>2. FieldsPath[2] # <<"get">>
      <4>1. FieldsPath[2] = <<"fields">> /\ <<"fields">>[1] = "fields" /\ <<"get">>[1] = "get"
        BY DEF FieldsPath
      <4>2. "fields" # "get"
        OBVIOUS
      <4> QED BY <4>1, <4>2
    <3>3. ~Answered'
      BY <3>1, <3>2 DEF Answered
    <3> QED BY <3>1, <3>3 DEF JoinInv, AnswerInv, JoinIsRight
  <2>2. CASE path # FieldsPath
    <3>1. pc' = "ask"
      BY <1>1, <2>2 DEF ReceiveFields
    <3> QED BY <3>1, NotShown DEF JoinInv, AnswerInv
  <2> QED BY <2>1, <2>2
<1>2. CASE ReceiveAnswer
  <2>1. JoinIsRight'
    BY <1>2, AnswerShown DEF JoinInv
  <2>2. pc' = "idle"
    BY <1>2 DEF ReceiveAnswer, Finish
  <2> QED BY <2>1, <2>2 DEF JoinInv, AnswerInv
<1>3. CASE JoinEnds
  <2>1. pc' = "idle" /\ page'.status = 0
    BY <1>3, PageStatus DEF JoinEnds, Finish
  <2> QED BY <2>1, NotShown DEF JoinInv, AnswerInv
<1> QED BY <1>1, <1>2, <1>3

\* The command is carried out against the rows that are seen.
LEMMA ExecuteJoin ==
    ASSUME IInv, JoinInv, Execute
    PROVE  JoinInv'
<1>1. ServerOK /\ HandlerOK
  BY TypeParts DEF IInv
<1>2. call[Web] # <<>> /\ call'[Web] = <<>> /\ UNCHANGED <<pc, path, fields, page>>
  BY <1>1 DEF Execute, Service!Execute, ServerOK, ServiceTypeOK
<1>3. pc \in {"fields", "answer"}
  BY <1>1, <1>2 DEF IInv, OneCommand, HandlerOK
<1>4. JoinIsRight'
  BY <1>2, <1>3, NotShown
<1>5. CASE pc = "answer"
  <2>1. call[Web] = path /\ seen' = entries
    BY <1>2, <1>5 DEF JoinInv, AnswerInv, Execute
  <2>2. PICK o \in Outcomes(FieldNames, entries, Params(path)) : reply' = [reply EXCEPT ![Web] = o.lines]
    BY <2>1, SameOutcomes, SameParams DEF Execute, Service!Execute
  <2>3. reply'[Web] = o.lines
    BY <1>1, <2>2 DEF ServerOK, ServiceTypeOK
  <2>4. Wanted' = WantedOf(entries, Params(path))
    BY <1>2, <2>1 DEF Wanted, WantedOf, FoundOf
  <2>5. ASSUME Answered'
        PROVE  Holds(o.lines, WantedOf(entries, Params(path)))
    <3>1. path \in Paths /\ path[2] = <<"get">> /\ entries \in Seq(Row)
          /\ (Len(Params(path)) = 1 \/ WantedOf(entries, Params(path)) # <<>>)
      BY <1>1, <1>2, <2>4, <2>5 DEF Answered, HandlerOK, ServerOK
    <3>2. Params(path) \in Seq(Text) /\ Len(Params(path)) >= 1 /\ Params(path)[1] = <<"get">>
      BY <3>1, GetParams
    <3> QED BY <2>2, <3>1, <3>2, GetOutcome
  <2>6. Answered' => Holds(reply[Web], Wanted)'
    BY <2>3, <2>4, <2>5 DEF Holds, Printed
  <2> QED BY <1>2, <1>4, <2>6 DEF JoinInv, AnswerInv
<1>6. CASE pc = "fields"
  BY <1>2, <1>4, <1>6 DEF JoinInv, AnswerInv
<1> QED BY <1>3, <1>5, <1>6

LEMMA ElsewhereJoin ==
    ASSUME IInv, JoinInv, Elsewhere
    PROVE  JoinInv'
<1>1. call'[Web] \in {call[Web], <<>>} /\ reply'[Web] \in {reply[Web], <<>>}
  BY TypeParts, ElsewhereLeaves DEF IInv
<1>2. UNCHANGED <<pc, path, fields, page, seen>>
  BY DEF Elsewhere
<1>3. JoinIsRight' /\ (Answered' = Answered) /\ Wanted' = Wanted
  BY <1>2, PageStays
<1>4. reply'[Web] = reply[Web] => Holds(reply[Web], Wanted)' = Holds(reply[Web], Wanted)
  BY <1>3 DEF Holds, Printed
<1> QED BY <1>1, <1>2, <1>3, <1>4 DEF JoinInv, AnswerInv

LEMMA NextJoin == IInv /\ JoinInv /\ [Next]_vars => JoinInv'
<1> SUFFICES ASSUME IInv, JoinInv, [Next]_vars PROVE JoinInv'
  OBVIOUS
<1>1. CASE UNCHANGED vars
  <2>1. UNCHANGED <<call, reply, pc, path, fields, page, seen>>
    BY <1>1 DEF vars
  <2>2. JoinIsRight' /\ (Answered' = Answered) /\ Wanted' = Wanted
    BY <2>1, PageStays
  <2>3. Holds(reply[Web], Wanted)' = Holds(reply[Web], Wanted)
    BY <2>1, <2>2 DEF Holds, Printed
  <2> QED BY <2>1, <2>2, <2>3 DEF JoinInv, AnswerInv
<1> QED BY <1>1, AskJoin, ReceiveJoin, ExecuteJoin, ElsewhereJoin DEF Next

\* Whatever the table holds, whoever changes it between the two calls and
\* however the answers are cut: if the names came whole and no message came in
\* place of rows, what the browser is shown of a get are rows of one moment,
\* the values a reader of the printed row finds under the names at their
\* positions, and past the names is read only for a row with more of them.
THEOREM JoinedRight == Spec => []JoinIsRight
<1>1. JoinInv => JoinIsRight
  BY DEF JoinInv
<1> QED BY Invariant, InitJoin, NextJoin, <1>1, PTL DEF Spec
=============================================================================
