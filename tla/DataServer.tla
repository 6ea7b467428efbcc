----------------------------- MODULE DataServer -----------------------------
(***************************************************************************)
(* The data server: Server and Session (Server/src/server.cpp and          *)
(* session.cpp) on one io_service run by one thread, serving clients of    *)
(* the kind of ClientLib, which send a request and wait for its answer.    *)
(*                                                                         *)
(* The kernel's part is external: a listen queue, one SIGTERM, and per     *)
(* connection the bytes each side has not read yet.  A request and an      *)
(* answer fit the buffers of both sides (8192 bytes) and arrive in one     *)
(* piece.  An asynchronous operation that completed waits in the queue of  *)
(* the io_service, and other handlers may run before its own.              *)
(***************************************************************************)
EXTENDS Request

CONSTANTS
    Conns,          \* connections
    Requests,       \* what clients send
    FieldNames,     \* the first line of the file
    InitTables,     \* the rows a first start finds
    MaxRequests     \* bound on the requests of one connection

ASSUME ConstantsAssumption ==
    /\ Requests \subseteq Seq(Text) \ {<<>>}
    /\ FieldNames \in Row
    /\ InitTables \subseteq Seq(Row)
    /\ MaxRequests \in Nat

VARIABLES
    up,             \* the process is inside run()
    accepting,      \* acceptor_.is_open()
    acceptOp,       \* async_accept: "pending", or its handler is queued with
                    \*   "done", "failed" or "aborted"; "none": not re-armed
    signal,         \* signals_: "waiting", "raised" (handler queued), "handled"
    entries,        \* the provider's table
    stored,         \* the rows a read of the file finds
    server,         \* the server's end of a connection: "closed", "backlog",
                    \*   "socket" (accepted into socket_), and owned by a
                    \*   session: "reading", "writing"
    response,       \* response_ of the session
    client,         \* the client's end: "closed", "open", "waiting"
    sent,           \* how many requests it sent
    inbox,          \* the request the server has not read
    outbox          \* the answer the client has not read

acceptor == <<accepting, acceptOp, signal>>
table == <<entries, stored>>
vars == <<up, accepting, acceptOp, signal, entries, stored, server, response,
          client, sent, inbox, outbox>>

TypeOK ==
    /\ up \in BOOLEAN /\ accepting \in BOOLEAN
    /\ acceptOp \in {"none", "pending", "done", "failed", "aborted"}
    /\ signal \in {"waiting", "raised", "handled"}
    /\ entries \in Seq(Row) /\ stored \in Seq(Row)
    /\ server \in [Conns -> {"closed", "backlog", "socket", "reading", "writing"}]
    /\ response \in [Conns -> Seq(Line)]
    /\ client \in [Conns -> {"closed", "open", "waiting"}]
    /\ sent \in [Conns -> 0..MaxRequests]
    /\ inbox \in [Conns -> Requests \cup {<<>>}]
    /\ outbox \in [Conns -> Seq(Line)]

Init ==
    /\ up = FALSE /\ accepting = FALSE
    /\ acceptOp = "none" /\ signal = "handled"
    /\ entries = <<>> /\ stored \in InitTables
    /\ server = [c \in Conns |-> "closed"]
    /\ response = [c \in Conns |-> <<>>]
    /\ client = [c \in Conns |-> "closed"]
    /\ sent = [c \in Conns |-> 0]
    /\ inbox = [c \in Conns |-> <<>>]
    /\ outbox = [c \in Conns |-> <<>>]

\* The state of every connection after those in S were closed by the server:
\* what it had not read of them is gone.
CloseAll(S) ==
    /\ server' = [c \in Conns |-> IF c \in S THEN "closed" ELSE server[c]]
    /\ response' = [c \in Conns |-> IF c \in S THEN <<>> ELSE response[c]]
    /\ inbox' = [c \in Conns |-> IF c \in S THEN <<>> ELSE inbox[c]]

In(phase) == {c \in Conns : server[c] = phase}
Sessions == In("reading") \cup In("writing")
-----------------------------------------------------------------------------
\* Mutant: the provider created and not read.
StartUnread ==
    /\ ~up /\ up' = TRUE
    /\ entries' = <<>>
    /\ accepting' = TRUE /\ acceptOp' = "pending" /\ signal' = "waiting"
    /\ UNCHANGED <<stored, server, response, client, sent, inbox, outbox>>

\* Server::Server: read() the file, wait for SIGTERM, accept.
Start ==
    /\ ~up /\ up' = TRUE
    /\ entries' = stored
    /\ accepting' = TRUE /\ acceptOp' = "pending" /\ signal' = "waiting"
    /\ UNCHANGED <<stored, server, response, client, sent, inbox, outbox>>

\* The process ends: ~Server does not save.
EndProcess ==
    /\ up /\ up' = FALSE
    /\ accepting' = FALSE /\ acceptOp' = "none" /\ signal' = "handled"
    /\ entries' = <<>>
    /\ CloseAll(Conns)
    /\ UNCHANGED <<stored, client, sent, outbox>>

\* async_accept takes a connection into socket_, or fails for want of a
\* descriptor.
AcceptReady(c) ==
    /\ up /\ acceptOp = "pending" /\ server[c] = "backlog"
    /\ server' = [server EXCEPT ![c] = "socket"]
    /\ acceptOp' = "done"
    /\ UNCHANGED <<up, accepting, signal, table, response, client, sent, inbox, outbox>>

AcceptFails ==
    /\ up /\ acceptOp = "pending" /\ In("backlog") # {}
    /\ acceptOp' = "failed"
    /\ UNCHANGED <<up, accepting, signal, table, server, response, client, sent, inbox, outbox>>

\* Mutant: the handler does not ask whether the acceptor is open.
AcceptHandlerUnchecked ==
    /\ up /\ acceptOp \in {"done", "failed", "aborted"}
    /\ acceptOp' = IF accepting THEN "pending" ELSE "none"
    /\ server' = [c \in Conns |-> IF acceptOp = "done" /\ server[c] = "socket"
                                  THEN "reading" ELSE server[c]]
    /\ UNCHANGED <<up, accepting, signal, table, response, client, sent, inbox, outbox>>

\* Mutant: no new accept after one that failed.
AcceptHandlerGivesUp ==
    /\ up /\ acceptOp \in {"done", "failed", "aborted"}
    /\ IF ~accepting \/ acceptOp = "failed"
       THEN acceptOp' = "none" /\ UNCHANGED server
       ELSE /\ acceptOp' = "pending"
            /\ server' = [c \in Conns |-> IF server[c] = "socket" THEN "reading" ELSE server[c]]
    /\ UNCHANGED <<up, accepting, signal, table, response, client, sent, inbox, outbox>>

\* Server::do_accept: the handler.
AcceptHandler ==
    /\ up /\ acceptOp \in {"done", "failed", "aborted"}
    /\ IF ~accepting
       THEN acceptOp' = "none" /\ UNCHANGED server
       ELSE /\ acceptOp' = "pending"
            /\ server' = [c \in Conns |-> IF acceptOp = "done" /\ server[c] = "socket"
                                          THEN "reading" ELSE server[c]]
    /\ UNCHANGED <<up, accepting, signal, table, response, client, sent, inbox, outbox>>

Sigterm ==
    /\ up /\ signal = "waiting"
    /\ signal' = "raised"
    /\ UNCHANGED <<up, accepting, acceptOp, table, server, response, client, sent, inbox, outbox>>

\* Mutant: the pending accept is not aborted.
StopHandlerWaiting ==
    /\ up /\ signal = "raised"
    /\ signal' = "handled"
    /\ accepting' = FALSE
    /\ CloseAll(In("backlog"))
    /\ UNCHANGED <<up, acceptOp, table, client, sent, outbox>>

\* Server::do_await_stop: the handler.  close() aborts a pending accept, and
\* the kernel resets the connections nobody accepted.
StopHandler ==
    /\ up /\ signal = "raised"
    /\ signal' = "handled"
    /\ accepting' = FALSE
    /\ acceptOp' = IF acceptOp = "pending" THEN "aborted" ELSE acceptOp
    /\ CloseAll(In("backlog"))
    /\ UNCHANGED <<up, table, client, sent, outbox>>

\* io_service::run() returns when no operation is left.
RunReturns ==
    /\ signal = "handled" /\ acceptOp = "none" /\ Sessions = {}
    /\ EndProcess
-----------------------------------------------------------------------------
\* Mutant: response_ is not cleared.
ReadHandlerKeeping(c) ==
    /\ up /\ server[c] = "reading" /\ inbox[c] # <<>>
    /\ \E o \in Outcomes(FieldNames, entries, Params(inbox[c])) :
          /\ entries' = o.entries
          /\ stored' = IF o.commit THEN Reread(entries) ELSE stored
          /\ response' = [response EXCEPT ![c] = @ \o o.lines]
    /\ server' = [server EXCEPT ![c] = "writing"]
    /\ inbox' = [inbox EXCEPT ![c] = <<>>]
    /\ UNCHANGED <<up, acceptor, client, sent, outbox>>

\* Session::do_read, the handler: parseRequest and do_write.
ReadHandler(c) ==
    /\ up /\ server[c] = "reading" /\ inbox[c] # <<>>
    /\ \E o \in Outcomes(FieldNames, entries, Params(inbox[c])) :
          /\ entries' = o.entries
          /\ stored' = IF o.commit THEN Reread(entries) ELSE stored
          /\ response' = [response EXCEPT ![c] = o.lines]
    /\ server' = [server EXCEPT ![c] = "writing"]
    /\ inbox' = [inbox EXCEPT ![c] = <<>>]
    /\ UNCHANGED <<up, acceptor, client, sent, outbox>>

\* parseRequest throws: the exception leaves run(); or a get past the end of
\* a row kills the process.
ReadHandlerEnds(c) ==
    /\ server[c] = "reading" /\ inbox[c] # <<>>
    /\ LET params == Params(inbox[c])
       IN  \/ Throws(params)
           \/ /\ Len(params) > 2 /\ params[1] = <<"get">>
              /\ PastEnd(FieldNames, entries, params[2], params[3])
    /\ EndProcess

\* The read fails (end of file): nothing keeps the session.
ReadFails(c) ==
    /\ up /\ server[c] = "reading" /\ inbox[c] = <<>> /\ client[c] = "closed"
    /\ CloseAll({c})
    /\ UNCHANGED <<up, acceptor, table, client, sent, outbox>>

\* Session::do_write, the handler, and what the client gets.
WriteHandler(c) ==
    /\ up /\ server[c] = "writing"
    /\ server' = [server EXCEPT ![c] = "reading"]
    /\ outbox' = [outbox EXCEPT ![c] = IF client[c] = "closed" THEN <<>> ELSE @ \o response[c]]
    /\ UNCHANGED <<up, acceptor, table, response, client, sent, inbox>>

WriteFails(c) ==
    /\ up /\ server[c] = "writing" /\ client[c] = "closed"
    /\ CloseAll({c})
    /\ UNCHANGED <<up, acceptor, table, client, sent, outbox>>
-----------------------------------------------------------------------------
\* The clients: DataClient::executeCmd, once or more per connection.
Connect(c) ==
    /\ accepting /\ client[c] = "closed" /\ server[c] = "closed"
    /\ client' = [client EXCEPT ![c] = "open"]
    /\ server' = [server EXCEPT ![c] = "backlog"]
    /\ sent' = [sent EXCEPT ![c] = 0]
    /\ UNCHANGED <<up, acceptor, table, response, inbox, outbox>>

Send(c, request) ==
    /\ client[c] = "open" /\ server[c] # "closed" /\ sent[c] < MaxRequests
    /\ client' = [client EXCEPT ![c] = "waiting"]
    /\ inbox' = [inbox EXCEPT ![c] = request]
    /\ sent' = [sent EXCEPT ![c] = @ + 1]
    /\ UNCHANGED <<up, acceptor, table, server, response, outbox>>

Receive(c) ==
    /\ client[c] = "waiting" /\ outbox[c] # <<>>
    /\ client' = [client EXCEPT ![c] = "open"]
    /\ outbox' = [outbox EXCEPT ![c] = <<>>]
    /\ UNCHANGED <<up, acceptor, table, server, response, sent, inbox>>

\* close(), or the end of the client's process; a request the server has not
\* read yet may still reach it.
Hangup(c) ==
    /\ client[c] # "closed"
    /\ client' = [client EXCEPT ![c] = "closed"]
    /\ outbox' = [outbox EXCEPT ![c] = <<>>]
    /\ inbox' \in {inbox, [inbox EXCEPT ![c] = <<>>]}
    /\ UNCHANGED <<up, acceptor, table, server, response, sent>>

\* executeCmd closes when it has its answer and when the server has closed.
Finished(c) ==
    /\ outbox[c] = <<>>
    /\ \/ server[c] = "closed"
       \/ client[c] = "open" /\ sent[c] > 0

ClientStep(c) ==
    \/ Receive(c)
    \/ \E request \in Requests : Send(c, request)
    \/ Finished(c) /\ Hangup(c)

SessionStep(c) ==
    \/ ReadHandler(c)
    \/ ReadHandlerEnds(c)
    \/ ReadFails(c)
    \/ WriteHandler(c)
    \/ WriteFails(c)

Next ==
    \/ Start
    \/ EndProcess
    \/ AcceptFails
    \/ AcceptHandler
    \/ Sigterm
    \/ StopHandler
    \/ RunReturns
    \/ \E c \in Conns :
          \/ AcceptReady(c)
          \/ SessionStep(c)
          \/ Connect(c)
          \/ \E request \in Requests : Send(c, request)
          \/ Receive(c)
          \/ Hangup(c)

Spec == Init /\ [][Next]_vars

\* The io_service runs every queued handler, a write to a client completes,
\* the kernel hands over the connections in its queue (descriptors do not
\* stay exhausted), and a client goes on with the call it is in.
Fairness ==
    /\ WF_vars(AcceptHandler) /\ WF_vars(StopHandler) /\ WF_vars(RunReturns)
    /\ \A c \in Conns :
          /\ WF_vars(SessionStep(c))
          /\ SF_vars(AcceptReady(c))
          /\ WF_vars(ClientStep(c))

FairSpec == Spec /\ Fairness
-----------------------------------------------------------------------------
\* Answer for request: clients are served one after the other by handlers
\* that interleave, sessions share one table, and a server stops or is killed
\* between any two of them; yet each request takes effect at one moment, and
\* its caller gets the answer worked out then (Session, Server against
\* ReminderService).
Service == INSTANCE ReminderService WITH
    Callers <- Conns,
    Calls <- Requests,
    call <- inbox,
    reply <- [c \in Conns |-> IF server[c] = "writing" THEN outbox[c] \o response[c] ELSE outbox[c]]
ServiceSpec == Service!Spec

\* After acceptor_.close() no session starts, not even for a connection whose
\* accept completed before the stop and whose handler runs after it.
NoSessionAfterStop ==
    [][~accepting => Sessions' \subseteq Sessions]_vars

\* Every client gets an answer or sees its connection closed: also one that
\* was accepted but not served when SIGTERM came, and one whose request is
\* unread then.
NobodyWaitsForever == \A c \in Conns : client[c] = "waiting" ~> client[c] # "waiting"

\* SIGTERM stops the server: sessions are served out, and run() returns.
StopEnds == signal = "raised" ~> ~up
-----------------------------------------------------------------------------
\* A response that says a set failed comes with an unchanged table.
FailedSetChangesNothing ==
    [][\A c \in Conns :
          response'[c] = Bare(<<"Filed to set Entry: ">>) /\ server'[c] = "writing"
             /\ server[c] = "reading" => entries' = entries]_vars

\* A response that says the commit failed comes with an unchanged file.
FailedCommitStoresNothing ==
    [][\A c \in Conns :
          response'[c] = Bare(<<"Failed to preserve DB: ">>) /\ server'[c] = "writing"
             /\ server[c] = "reading" => stored' = stored]_vars
=============================================================================
