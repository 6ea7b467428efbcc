-------------------------- MODULE DataServer_proofs --------------------------
(***************************************************************************)
(* The data server, for any connections, requests and tables: its state    *)
(* keeps its type, a stop lets no session start, and what its clients see  *)
(* is what ReminderService promises.                                       *)
(***************************************************************************)
EXTENDS DataServer, Request_proofs, TLAPS

-----------------------------------------------------------------------------
(* Types *)

LEMMA NothingType == <<>> \in Seq(Row) /\ <<>> \in Seq(Line)
OBVIOUS

LEMMA InitType == Init => TypeOK
<1> SUFFICES ASSUME Init PROVE TypeOK
  OBVIOUS
<1>1. entries \in Seq(Row) /\ stored \in Seq(Row)
  BY ConstantsAssumption, NothingType DEF Init
<1>2. sent \in [Conns -> 0..MaxRequests]
  BY ConstantsAssumption DEF Init
<1>3. response \in [Conns -> Seq(Line)] /\ outbox \in [Conns -> Seq(Line)]
  BY NothingType DEF Init
<1> QED BY <1>1, <1>2, <1>3 DEF Init, TypeOK

\* Connections the server closes keep their types.
LEMMA ClosedType ==
    ASSUME TypeOK, NEW S, CloseAll(S)
    PROVE  /\ server' \in [Conns -> {"closed", "backlog", "socket", "reading", "writing"}]
           /\ response' \in [Conns -> Seq(Line)]
           /\ inbox' \in [Conns -> Requests \cup {<<>>}]
BY DEF TypeOK, CloseAll

\* A request the server takes up leaves a table and an answer.
LEMMA ReadHandlerType ==
    ASSUME TypeOK, NEW c \in Conns, ReadHandler(c)
    PROVE  TypeOK' /\ response'[c] # <<>>
<1>1. inbox[c] \in Seq(Text) \ {<<>>}
  BY ConstantsAssumption DEF ReadHandler, TypeOK
<1>2. Params(inbox[c]) \in Seq(Text)
  BY <1>1, ParamsType
<1>3. PICK o \in Outcomes(FieldNames, entries, Params(inbox[c])) :
         /\ entries' = o.entries
         /\ stored' = IF o.commit THEN Reread(entries) ELSE stored
         /\ response' = [response EXCEPT ![c] = o.lines]
  BY DEF ReadHandler
<1>4. entries \in Seq(Row) /\ FieldNames \in Row
  BY ConstantsAssumption DEF TypeOK
<1>5. OutcomeOK(o)
  BY <1>2, <1>3, <1>4, OutcomesType
<1>6. entries' \in Seq(Row) /\ stored' \in Seq(Row)
  BY <1>3, <1>4, <1>5, RereadType DEF OutcomeOK, TypeOK
<1>7. response' \in [Conns -> Seq(Line)] /\ response'[c] # <<>>
  BY <1>3, <1>5 DEF OutcomeOK, Response, TypeOK
<1>8. /\ server' \in [Conns -> {"closed", "backlog", "socket", "reading", "writing"}]
      /\ inbox' \in [Conns -> Requests \cup {<<>>}]
  BY DEF ReadHandler, TypeOK
<1> QED BY <1>6, <1>7, <1>8 DEF ReadHandler, acceptor, TypeOK

\* So does an answer on its way.
LEMMA WriteHandlerType ==
    ASSUME TypeOK, NEW c \in Conns, WriteHandler(c)
    PROVE  TypeOK'
<1>1. outbox[c] \o response[c] \in Seq(Line)
  BY DEF TypeOK
<1>2. outbox' \in [Conns -> Seq(Line)]
  BY <1>1 DEF WriteHandler, TypeOK
<1> QED BY <1>2 DEF WriteHandler, acceptor, table, TypeOK

LEMMA SendType ==
    ASSUME TypeOK, NEW c \in Conns, NEW request \in Requests, Send(c, request)
    PROVE  TypeOK'
<1>1. sent[c] + 1 \in 0..MaxRequests
  BY ConstantsAssumption DEF Send, TypeOK
<1>2. sent' \in [Conns -> 0..MaxRequests]
  BY <1>1 DEF Send, TypeOK
<1> QED BY <1>2 DEF Send, acceptor, table, TypeOK

LEMMA NextType == TypeOK /\ [Next]_vars => TypeOK'
<1> SUFFICES ASSUME TypeOK, [Next]_vars PROVE TypeOK'
  OBVIOUS
<1>1. CASE Start
  BY <1>1 DEF Start, TypeOK
<1>2. CASE EndProcess
  <2>1. entries' \in Seq(Row)
    BY <1>2, NothingType DEF EndProcess
  <2>2. /\ server' \in [Conns -> {"closed", "backlog", "socket", "reading", "writing"}]
        /\ response' \in [Conns -> Seq(Line)]
        /\ inbox' \in [Conns -> Requests \cup {<<>>}]
    BY <1>2, ClosedType DEF EndProcess
  <2> QED BY <1>2, <2>1, <2>2 DEF EndProcess, TypeOK
<1>3. CASE AcceptFails
  BY <1>3 DEF AcceptFails, table, TypeOK
<1>4. CASE AcceptHandler
  BY <1>4 DEF AcceptHandler, table, TypeOK
<1>5. CASE Sigterm
  BY <1>5 DEF Sigterm, table, TypeOK
<1>6. CASE StopHandler
  BY <1>6, ClosedType DEF StopHandler, table, TypeOK
<1>7. CASE RunReturns
  BY <1>2, <1>7 DEF RunReturns
<1>8. ASSUME NEW c \in Conns, AcceptReady(c)
      PROVE  TypeOK'
  BY <1>8 DEF AcceptReady, table, TypeOK
<1>9. ASSUME NEW c \in Conns, SessionStep(c)
      PROVE  TypeOK'
  <2>1. CASE ReadHandler(c)
    BY <2>1, ReadHandlerType
  <2>2. CASE ReadHandlerEnds(c)
    BY <1>2, <2>2 DEF ReadHandlerEnds
  <2>3. CASE ReadFails(c)
    BY <2>3, ClosedType DEF ReadFails, acceptor, table, TypeOK
  <2>4. CASE WriteHandler(c)
    BY <2>4, WriteHandlerType
  <2>5. CASE WriteFails(c)
    BY <2>5, ClosedType DEF WriteFails, acceptor, table, TypeOK
  <2> QED BY <1>9, <2>1, <2>2, <2>3, <2>4, <2>5 DEF SessionStep
<1>10. ASSUME NEW c \in Conns, Connect(c)
       PROVE  TypeOK'
  BY <1>10, ConstantsAssumption DEF Connect, acceptor, table, TypeOK
<1>11. ASSUME NEW c \in Conns, NEW request \in Requests, Send(c, request)
       PROVE  TypeOK'
  BY <1>11, SendType
<1>12. ASSUME NEW c \in Conns, Receive(c)
       PROVE  TypeOK'
  BY <1>12 DEF Receive, acceptor, table, TypeOK
<1>13. ASSUME NEW c \in Conns, Hangup(c)
       PROVE  TypeOK'
  <2>1. outbox' \in [Conns -> Seq(Line)]
    BY <1>13, NothingType DEF Hangup, TypeOK
  <2>2. inbox' \in [Conns -> Requests \cup {<<>>}]
    BY <1>13 DEF Hangup, TypeOK
  <2> QED BY <1>13, <2>1, <2>2 DEF Hangup, acceptor, table, TypeOK
<1>14. CASE UNCHANGED vars
  BY <1>14 DEF vars, TypeOK
<1> QED BY <1>1, <1>2, <1>3, <1>4, <1>5, <1>6, <1>7, <1>8, <1>9, <1>10, <1>11, <1>12,
           <1>13, <1>14 DEF Next

\* The data server's state always has its type: no request leaves a table
\* with a row that has no name, or a session without an answer to send.
THEOREM TypeCorrect == Spec => []TypeOK
BY InitType, NextType, PTL DEF Spec

-----------------------------------------------------------------------------
(* The stop *)

\* Only the accept handler starts a session, and it asks whether the acceptor
\* is open.
LEMMA StopStep == TypeOK /\ [Next]_vars => (~accepting => Sessions' \subseteq Sessions)
<1> SUFFICES ASSUME TypeOK, [Next]_vars, ~accepting, NEW d \in Sessions'
             PROVE  d \in Sessions
  OBVIOUS
<1>1. d \in Conns /\ server'[d] \in {"reading", "writing"}
  BY DEF Sessions, In
<1>2. server[d] \in {"reading", "writing"}
  <2>1. CASE UNCHANGED server
    BY <1>1, <2>1
  <2>2. ASSUME NEW S, CloseAll(S)
        PROVE  server[d] \in {"reading", "writing"}
    BY <1>1, <2>2 DEF CloseAll
  <2>3. CASE EndProcess \/ RunReturns \/ StopHandler
    BY <2>2, <2>3 DEF EndProcess, RunReturns, StopHandler
  <2>4. CASE Start \/ AcceptFails \/ Sigterm \/ AcceptHandler
    BY <2>1, <2>4 DEF Start, AcceptFails, Sigterm, AcceptHandler
  <2>5. ASSUME NEW c \in Conns, SessionStep(c)
        PROVE  server[d] \in {"reading", "writing"}
    <3>1. CASE ReadHandler(c) \/ WriteHandler(c)
      BY <1>1, <3>1 DEF ReadHandler, WriteHandler, TypeOK
    <3>2. CASE ReadHandlerEnds(c) \/ ReadFails(c) \/ WriteFails(c)
      BY <2>2, <3>2 DEF ReadHandlerEnds, EndProcess, ReadFails, WriteFails
    <3> QED BY <2>5, <3>1, <3>2 DEF SessionStep
  <2>6. ASSUME NEW c \in Conns, AcceptReady(c) \/ Connect(c)
        PROVE  server[d] \in {"reading", "writing"}
    BY <1>1, <2>6 DEF AcceptReady, Connect, TypeOK
  <2>7. ASSUME NEW c \in Conns, Receive(c) \/ Hangup(c) \/ \E request \in Requests : Send(c, request)
        PROVE  server[d] \in {"reading", "writing"}
    BY <2>1, <2>7 DEF Receive, Hangup, Send
  <2>8. CASE UNCHANGED vars
    BY <2>1, <2>8 DEF vars
  <2> QED BY <2>3, <2>4, <2>5, <2>6, <2>7, <2>8 DEF Next
<1> QED BY <1>1, <1>2 DEF Sessions, In

\* After acceptor_.close() no session starts: neither a connection accepted
\* before it and handled after, nor one in the listen queue.
THEOREM StopHolds == Spec => NoSessionAfterStop
BY InitType, NextType, StopStep, PTL DEF Spec, NoSessionAfterStop

-----------------------------------------------------------------------------
(* What the clients see *)

\* A client's connection carries one thing at a time: its request, the answer
\* being written, or the answer it has not read.
OneAtATime ==
    \A c \in Conns :
       /\ client[c] = "open" => inbox[c] = <<>> /\ outbox[c] = <<>> /\ server[c] # "writing"
       /\ client[c] = "closed" => outbox[c] = <<>>
       /\ server[c] = "writing" => inbox[c] = <<>> /\ outbox[c] = <<>> /\ response[c] # <<>>
       /\ server[c] = "closed" => inbox[c] = <<>>
       /\ inbox[c] # <<>> => outbox[c] = <<>>

IInv == TypeOK /\ OneAtATime

LEMMA InitInv == Init => IInv
BY InitType DEF Init, IInv, OneAtATime

\* A connection the server closes carries at most an answer it has sent.
LEMMA ClosedOne ==
    ASSUME IInv, NEW S, CloseAll(S), UNCHANGED <<client, outbox>>
    PROVE  OneAtATime'
BY DEF IInv, OneAtATime, CloseAll

LEMMA NextInv == IInv /\ [Next]_vars => IInv'
<1> SUFFICES ASSUME IInv, [Next]_vars PROVE OneAtATime'
  BY NextType DEF IInv
<1>1. CASE UNCHANGED <<server, response, client, inbox, outbox>>
  BY <1>1 DEF IInv, OneAtATime
<1>2. CASE EndProcess
  BY <1>2, ClosedOne DEF EndProcess
<1>3. CASE Start \/ AcceptFails \/ Sigterm \/ UNCHANGED vars
  BY <1>1, <1>3 DEF Start, AcceptFails, Sigterm, vars
<1>4. CASE AcceptHandler
  BY <1>4 DEF AcceptHandler, IInv, OneAtATime
<1>5. CASE StopHandler
  BY <1>5, ClosedOne DEF StopHandler
<1>6. CASE RunReturns
  BY <1>2, <1>6 DEF RunReturns
<1>7. ASSUME NEW c \in Conns, AcceptReady(c)
      PROVE  OneAtATime'
  BY <1>7 DEF AcceptReady, IInv, TypeOK, OneAtATime
<1>8. ASSUME NEW c \in Conns, SessionStep(c)
      PROVE  OneAtATime'
  <2>1. CASE ReadHandler(c)
    <3>1. response'[c] # <<>>
      BY <2>1, ReadHandlerType DEF IInv
    <3>2. \A d \in Conns \ {c} : response'[d] = response[d]
      BY <2>1 DEF ReadHandler, IInv, TypeOK
    <3>3. /\ server' = [server EXCEPT ![c] = "writing"] /\ inbox' = [inbox EXCEPT ![c] = <<>>]
          /\ client' = client /\ outbox' = outbox
          /\ inbox[c] # <<>>
      BY <2>1 DEF ReadHandler
    <3> QED BY <3>1, <3>2, <3>3 DEF IInv, TypeOK, OneAtATime
  <2>2. CASE ReadHandlerEnds(c)
    BY <1>2, <2>2 DEF ReadHandlerEnds
  <2>3. CASE ReadFails(c)
    BY <2>3, ClosedOne DEF ReadFails
  <2>4. CASE WriteHandler(c)
    <3>1. /\ server' = [server EXCEPT ![c] = "reading"]
          /\ client' = client /\ inbox' = inbox /\ response' = response
          /\ server[c] = "writing" /\ client[c] # "open"
          /\ \A d \in Conns \ {c} : outbox'[d] = outbox[d]
          /\ client[c] = "closed" => outbox'[c] = <<>>
      BY <2>4 DEF WriteHandler, IInv, TypeOK, OneAtATime
    <3> QED BY <3>1 DEF IInv, TypeOK, OneAtATime
  <2>5. CASE WriteFails(c)
    BY <2>5, ClosedOne DEF WriteFails
  <2> QED BY <1>8, <2>1, <2>2, <2>3, <2>4, <2>5 DEF SessionStep
<1>9. ASSUME NEW c \in Conns, Connect(c)
      PROVE  OneAtATime'
  BY <1>9 DEF Connect, IInv, TypeOK, OneAtATime
<1>10. ASSUME NEW c \in Conns, NEW request \in Requests, Send(c, request)
       PROVE  OneAtATime'
  BY <1>10 DEF Send, IInv, TypeOK, OneAtATime
<1>11. ASSUME NEW c \in Conns, Receive(c)
       PROVE  OneAtATime'
  BY <1>11 DEF Receive, IInv, TypeOK, OneAtATime
<1>12. ASSUME NEW c \in Conns, Hangup(c)
       PROVE  OneAtATime'
  BY <1>12 DEF Hangup, IInv, TypeOK, OneAtATime
<1> QED BY <1>2, <1>3, <1>4, <1>5, <1>6, <1>7, <1>8, <1>9, <1>10, <1>11, <1>12 DEF Next

\* The promise is about the same requests and tables.
LEMMA SameOutcomes ==
    \A fs, es, params : Service!Outcomes(fs, es, params) = Outcomes(fs, es, params)
BY DEF Outcomes, Service!Outcomes, Said, Service!Said, Outcome, Service!Outcome,
        Bare, Service!Bare, Closed, Service!Closed, Blank, Service!Blank,
        buildError, Service!buildError, NotFound, Service!NotFound,
        FoundRow, Service!FoundRow, FoundValue, Service!FoundValue,
        PastEnd, Service!PastEnd, Garbage, Service!Garbage, GetAll, Service!GetAll,
        GetOne, Service!GetOne, SetRow, Service!SetRow, SetValue, Service!SetValue,
        Delete, Service!Delete, Fields, Service!Fields, Commit, Service!Commit,
        Throws, Service!Throws, Param, Service!Param, Names, Service!Names,
        FirstIndex, Service!FirstIndex, Replaced, Service!Replaced,
        Appended, Service!Appended, HasColumn, Service!HasColumn,
        ValueSet, Service!ValueSet, Erased, Service!Erased, Split, Service!Split,
        AsString, Service!AsString, FlattenSeq, Service!FlattenSeq,
        RemoveAt, Service!RemoveAt, Last, Service!Last, Front, Service!Front

LEMMA SameParams == \A cmd : Service!Params(cmd) = Params(cmd)
BY DEF Params, Service!Params, Blank, Service!Blank, Last, Service!Last, Front, Service!Front

LEMMA SameReread == \A es : Service!Reread(es) = Reread(es)
BY DEF Reread, Service!Reread, AsString, Service!AsString, FlattenSeq, Service!FlattenSeq,
       Split, Service!Split, Last, Service!Last, Front, Service!Front

\* The answers no client has received, sent or not.
Replies ==
    [c \in Conns |-> IF server[c] = "writing" THEN outbox[c] \o response[c] ELSE outbox[c]]

\* Only one of the two is there.
OneReply ==
    Replies = [c \in Conns |-> IF server[c] = "writing" THEN response[c] ELSE outbox[c]]

LEMMA RepliesAre == IInv => OneReply
<1> SUFFICES ASSUME IInv PROVE OneReply
  OBVIOUS
<1>1. \A c \in Conns : server[c] = "writing" => outbox[c] = <<>> /\ response[c] \in Seq(Line)
  BY DEF IInv, OneAtATime, TypeOK
<1>2. \A s \in Seq(Line) : <<>> \o s = s
  OBVIOUS
<1> QED BY <1>1, <1>2 DEF Replies, OneReply

\* A step that leaves table, requests and answers as they are.
LEMMA StutterStep ==
    ASSUME UNCHANGED <<up, entries, stored, inbox, Replies>>
    PROVE  UNCHANGED Service!vars
BY DEF Service!vars, Replies

LEMMA ReturnStep ==
    ASSUME NEW c \in Conns, Replies[c] # <<>>, Replies' = [Replies EXCEPT ![c] = <<>>],
           UNCHANGED <<up, entries, stored, inbox>>
    PROVE  Service!Next
<1>1. Service!Return(c)
  BY DEF Service!Return, Replies
<1> QED BY <1>1 DEF Service!Next

LEMMA LoseStep ==
    ASSUME NEW S \in SUBSET Conns, inbox' = [c \in Conns |-> IF c \in S THEN <<>> ELSE inbox[c]],
           UNCHANGED <<up, entries, stored, Replies>>
    PROVE  Service!Next
<1>1. Service!Lose
  BY DEF Service!Lose, Replies
<1> QED BY <1>1 DEF Service!Next

LEMMA EndStep ==
    ASSUME IInv, IInv', EndProcess
    PROVE  Service!Next
<1> DEFINE cut == {c \in Conns : server[c] = "writing"}
<1>1. Replies' = [c \in Conns |-> IF c \in cut THEN <<>> ELSE Replies[c]]
  <2>1. Replies' = [c \in Conns |-> outbox[c]]
    BY DEF Replies, EndProcess, CloseAll
  <2>2. \A c \in Conns : server[c] = "writing" => outbox[c] = <<>>
    BY DEF IInv, OneAtATime
  <2> QED BY <2>1, <2>2 DEF Replies
<1>2. inbox' = [c \in Conns |-> <<>>]
  BY DEF EndProcess, CloseAll
<1>3. cut \in SUBSET Conns
  OBVIOUS
<1> HIDE DEF cut
<1>4. Service!End
  BY <1>1, <1>2, <1>3 DEF Service!End, EndProcess, Replies
<1> QED BY <1>4 DEF Service!Next

\* The handler of a read carries the request out.
LEMMA ExecuteStep ==
    ASSUME IInv, IInv', NEW c \in Conns, ReadHandler(c)
    PROVE  Service!Next
<1>1. PICK o \in Outcomes(FieldNames, entries, Params(inbox[c])) :
         /\ entries' = o.entries
         /\ stored' = IF o.commit THEN Reread(entries) ELSE stored
         /\ response' = [response EXCEPT ![c] = o.lines]
  BY DEF ReadHandler
<1>2. Replies' = [Replies EXCEPT ![c] = o.lines]
  <2>1. OneReply /\ OneReply'
    BY RepliesAre, PTL
  <2>2. /\ server' = [server EXCEPT ![c] = "writing"] /\ outbox' = outbox
        /\ server \in [Conns -> {"closed", "backlog", "socket", "reading", "writing"}]
        /\ response \in [Conns -> Seq(Line)]
    BY DEF ReadHandler, IInv, TypeOK
  <2> QED BY <1>1, <2>1, <2>2 DEF OneReply
<1>3. o \in Service!Outcomes(FieldNames, entries, Service!Params(inbox[c]))
  BY <1>1, SameOutcomes, SameParams
<1>4. stored' = IF o.commit THEN Service!Reread(entries) ELSE stored
  BY <1>1, SameReread
<1>5. Service!Execute(c)
  BY <1>1, <1>2, <1>3, <1>4 DEF Service!Execute, ReadHandler, Replies, acceptor
<1> QED BY <1>5 DEF Service!Next

\* The handler of a write sends the answer, or finds nobody to send it to.
LEMMA WriteStep ==
    ASSUME IInv, IInv', NEW c \in Conns, WriteHandler(c) \/ WriteFails(c)
    PROVE  Service!Next \/ UNCHANGED Service!vars
<1>1. OneReply /\ OneReply'
  BY RepliesAre, PTL
<1>2. server[c] = "writing" /\ inbox[c] = <<>> /\ outbox[c] = <<>> /\ response[c] # <<>>
  BY DEF WriteHandler, WriteFails, IInv, OneAtATime
<1>3. \A s \in Seq(Line) : <<>> \o s = s
  OBVIOUS
<1>4. CASE WriteHandler(c) /\ client[c] # "closed"
  <2>1. outbox' = [outbox EXCEPT ![c] = response[c]]
    BY <1>2, <1>3, <1>4 DEF WriteHandler, IInv, TypeOK, OneReply
  <2>2. Replies' = Replies
    BY <1>1, <1>2, <1>4, <2>1 DEF WriteHandler, IInv, TypeOK, OneReply
  <2> QED BY <1>4, <2>2, StutterStep DEF WriteHandler, table
<1>5. CASE WriteHandler(c) /\ client[c] = "closed"
  <2>1. Replies' = [Replies EXCEPT ![c] = <<>>]
    BY <1>1, <1>2, <1>5 DEF WriteHandler, IInv, TypeOK, OneReply
  <2> QED BY <1>1, <1>2, <1>5, <2>1, ReturnStep DEF WriteHandler, table, OneReply
<1>6. CASE WriteFails(c)
  <2>1. Replies' = [Replies EXCEPT ![c] = <<>>]
    BY <1>1, <1>2, <1>6 DEF WriteFails, CloseAll, IInv, TypeOK, OneReply
  <2>2. inbox' = inbox
    BY <1>2, <1>6 DEF WriteFails, CloseAll, IInv, TypeOK, OneReply
  <2> QED BY <1>1, <1>2, <1>6, <2>1, <2>2, ReturnStep DEF WriteFails, table, OneReply
<1> QED BY <1>4, <1>5, <1>6

\* What the clients do.
LEMMA CallStep ==
    ASSUME IInv, NEW c \in Conns, NEW request \in Requests, Send(c, request)
    PROVE  Service!Next
<1>1. inbox[c] = <<>> /\ Replies[c] = <<>>
  BY DEF Send, IInv, OneAtATime, Replies
<1>2. Replies' = Replies
  BY DEF Send, Replies
<1>3. Service!Call(c, request)
  BY <1>1, <1>2 DEF Service!Call, Send, Replies, table
<1> QED BY <1>3 DEF Service!Next

LEMMA ReceiveStep ==
    ASSUME IInv, IInv', NEW c \in Conns, Receive(c)
    PROVE  Service!Next
<1>1. server[c] # "writing" /\ outbox[c] # <<>>
  BY DEF Receive, IInv, OneAtATime
<1>2. Replies[c] # <<>> /\ Replies' = [Replies EXCEPT ![c] = <<>>]
  BY <1>1 DEF Receive, Replies, IInv, TypeOK
<1> QED BY <1>2, ReturnStep DEF Receive, table

\* An answer on its way to a client that hangs up is received by nobody; a
\* request on its way may be lost.
LEMMA HangupStep ==
    ASSUME IInv, IInv', NEW c \in Conns, Hangup(c)
    PROVE  Service!Next
<1>1. CASE outbox[c] = <<>>
  <2>1. outbox' = outbox
    BY <1>1 DEF Hangup, IInv, TypeOK
  <2>2. Replies' = Replies
    BY <2>1 DEF Hangup, Replies
  <2>3. CASE inbox' = inbox
    <3>1. inbox' = [d \in Conns |-> IF d \in {} THEN <<>> ELSE inbox[d]]
      BY <2>3 DEF IInv, TypeOK
    <3> QED BY <2>2, <3>1, LoseStep DEF Hangup, table
  <2>4. CASE inbox' = [inbox EXCEPT ![c] = <<>>]
    <3>1. inbox' = [d \in Conns |-> IF d \in {c} THEN <<>> ELSE inbox[d]]
      BY <2>4 DEF IInv, TypeOK
    <3> QED BY <2>2, <3>1, LoseStep DEF Hangup, table
  <2> QED BY <2>3, <2>4 DEF Hangup
<1>2. CASE outbox[c] # <<>>
  <2>1. server[c] # "writing" /\ inbox[c] = <<>>
    BY <1>2 DEF IInv, OneAtATime
  <2>2. Replies[c] # <<>> /\ Replies' = [Replies EXCEPT ![c] = <<>>]
    BY <1>2, <2>1 DEF Hangup, Replies, IInv, TypeOK
  <2>3. inbox' = inbox
    BY <2>1 DEF Hangup, IInv, TypeOK
  <2> QED BY <2>2, <2>3, ReturnStep DEF Hangup, table
<1> QED BY <1>1, <1>2

\* The connections in the listen queue are reset, their requests unread.
LEMMA StopServiceStep ==
    ASSUME IInv, IInv', StopHandler
    PROVE  Service!Next
<1>1. Replies' = Replies
  BY DEF StopHandler, CloseAll, In, Replies
<1>2. In("backlog") \in SUBSET Conns
  BY DEF In
<1>3. inbox' = [c \in Conns |-> IF c \in In("backlog") THEN <<>> ELSE inbox[c]]
  BY DEF StopHandler, CloseAll
<1> QED BY <1>1, <1>2, <1>3, LoseStep DEF StopHandler, table

LEMMA InitService == Init => Service!Init
<1> SUFFICES ASSUME Init PROVE Service!Init
  OBVIOUS
<1>1. Replies = [c \in Conns |-> <<>>]
  BY DEF Init, Replies
<1> QED BY <1>1 DEF Init, Service!Init, Replies

LEMMA NextService == IInv /\ IInv' /\ [Next]_vars => [Service!Next]_Service!vars
<1> SUFFICES ASSUME IInv, IInv', [Next]_vars
             PROVE  Service!Next \/ UNCHANGED Service!vars
  OBVIOUS
<1>1. CASE Start
  <2>1. Replies' = Replies
    BY <1>1 DEF Start, Replies
  <2>2. Service!Start
    BY <1>1, <2>1 DEF Start, Service!Start, Replies
  <2> QED BY <2>2 DEF Service!Next
<1>2. CASE EndProcess
  BY <1>2, EndStep
<1>3. CASE AcceptFails \/ Sigterm \/ UNCHANGED vars
  <2>1. Replies' = Replies
    BY <1>3 DEF AcceptFails, Sigterm, vars, Replies
  <2> QED BY <1>3, <2>1, StutterStep DEF AcceptFails, Sigterm, vars, table
<1>4. CASE AcceptHandler
  <2>1. \A c \in Conns : server'[c] = "writing" <=> server[c] = "writing"
    BY <1>4 DEF AcceptHandler
  <2>2. Replies' = Replies
    BY <1>4, <2>1 DEF AcceptHandler, Replies
  <2> QED BY <1>4, <2>2, StutterStep DEF AcceptHandler, table
<1>5. CASE StopHandler
  BY <1>5, StopServiceStep
<1>6. CASE RunReturns
  BY <1>2, <1>6 DEF RunReturns
<1>7. ASSUME NEW c \in Conns, AcceptReady(c) \/ Connect(c)
      PROVE  UNCHANGED Service!vars
  <2>1. \A d \in Conns : server'[d] = "writing" <=> server[d] = "writing"
    BY <1>7 DEF AcceptReady, Connect, IInv, TypeOK
  <2>2. Replies' = Replies
    BY <1>7, <2>1 DEF AcceptReady, Connect, Replies
  <2> QED BY <1>7, <2>2, StutterStep DEF AcceptReady, Connect, table
<1>8. ASSUME NEW c \in Conns, SessionStep(c)
      PROVE  Service!Next \/ UNCHANGED Service!vars
  <2>1. CASE ReadHandler(c)
    BY <2>1, ExecuteStep
  <2>2. CASE ReadHandlerEnds(c)
    BY <1>2, <2>2 DEF ReadHandlerEnds
  <2>3. CASE ReadFails(c)
    <3>1. Replies' = Replies /\ inbox' = inbox
      BY <2>3 DEF ReadFails, CloseAll, Replies, IInv, TypeOK
    <3> QED BY <2>3, <3>1, StutterStep DEF ReadFails, table
  <2>4. CASE WriteHandler(c) \/ WriteFails(c)
    BY <2>4, WriteStep
  <2> QED BY <1>8, <2>1, <2>2, <2>3, <2>4 DEF SessionStep
<1>9. ASSUME NEW c \in Conns, Receive(c) \/ Hangup(c) \/ \E request \in Requests : Send(c, request)
      PROVE  Service!Next
  BY <1>9, CallStep, ReceiveStep, HangupStep
<1> QED BY <1>1, <1>2, <1>3, <1>4, <1>5, <1>6, <1>7, <1>8, <1>9 DEF Next

\* Handlers of several sessions interleave on one table, and servers stop or
\* die between any two of them; yet every request takes effect at one moment
\* and its caller gets the answer worked out then.
THEOREM ServiceKept == Spec => ServiceSpec
BY InitInv, NextInv, InitService, NextService, PTL
   DEF Spec, ServiceSpec, Service!Spec
=============================================================================
