----------------------------- MODULE HttpServer -----------------------------
(***************************************************************************)
(* The web server (HttpWrapper/src/server.cpp, connection.cpp and          *)
(* connection_manager.cpp): one thread runs every handler, an operation    *)
(* that completed waits in the queue of the io_service with its result,    *)
(* and a socket may be closed meanwhile.  A handler that passes a command  *)
(* to the data server blocks in DataClient::executeCmd, and with it the    *)
(* thread.                                                                 *)
(*                                                                         *)
(* The kernel and the browsers are external.  What a browser sends is cut  *)
(* into chunks of three kinds: "part" leaves the request incomplete,       *)
(* "page" breaks it or completes one for a file, "call" one for /rdb/.     *)
(***************************************************************************)
EXTENDS Naturals, Sequences, FiniteSets

CONSTANTS
    Conns,      \* connections
    MaxParts    \* bound on the parts of a request before its last chunk

ASSUME PartsAssumption == MaxParts \in Nat

VARIABLES
    up,         \* the process is inside run()
    accepting,  \* acceptor_.is_open()
    acceptOp,   \* async_accept: "pending", or its handler is queued with
                \*   "done", "failed" or "aborted"; "none": not re-armed
    signal,     \* signals_: "waiting", "raised" (handler queued), "handled"
    place,      \* the server's end: "none", "backlog", "socket" (accepted
                \*   into socket_), "object" (a connection)
    managed,    \* connections_ of the connection_manager
    open,       \* the connections whose socket_ is open
    op,         \* the one operation a connection waits for, or, when it has
                \*   completed, its result; "calling": inside executeCmd
    inbox,      \* chunks not read yet
    parts,      \* how many parts the client has sent
    client      \* "closed", "open", "waiting" for the reply

acceptor == <<accepting, acceptOp, signal>>
objects == <<place, managed, open, op>>
clients == <<inbox, parts, client>>
vars == <<up, accepting, acceptOp, signal, place, managed, open, op, inbox, parts, client>>

Chunk == {"part", "page", "call"}
Queued == {"read", "readError", "readAborted", "written", "writeError", "writeAborted"}

\* socket_ is one member: it holds at most one connection that was accepted
\* and not taken yet.
TypeOK ==
    /\ up \in BOOLEAN /\ accepting \in BOOLEAN
    /\ acceptOp \in {"none", "pending", "done", "failed", "aborted"}
    /\ signal \in {"waiting", "raised", "handled"}
    /\ place \in [Conns -> {"none", "backlog", "socket", "object"}]
    /\ \A c, d \in Conns : place[c] = "socket" /\ place[d] = "socket" => c = d
    /\ managed \subseteq Conns /\ open \subseteq Conns
    /\ op \in [Conns -> {"none", "reading", "writing", "calling"} \cup Queued]
    /\ inbox \in [Conns -> Seq(Chunk)]
    /\ parts \in [Conns -> 0..MaxParts]
    /\ client \in [Conns -> {"closed", "open", "waiting"}]

\* server::server
Init ==
    /\ up = TRUE /\ accepting = TRUE
    /\ acceptOp = "pending" /\ signal = "waiting"
    /\ place = [c \in Conns |-> "none"]
    /\ managed = {} /\ open = {}
    /\ op = [c \in Conns |-> "none"]
    /\ inbox = [c \in Conns |-> <<>>]
    /\ parts = [c \in Conns |-> 0]
    /\ client = [c \in Conns |-> "closed"]

\* The thread is free to run a handler or to wait for the kernel.
Idle == up /\ \A c \in Conns : op[c] # "calling"

\* Connections whose server's end is gone: what was not read of them is lost.
Discard(S) ==
    /\ place' = [c \in Conns |-> IF c \in S THEN "none" ELSE place[c]]
    /\ inbox' = [c \in Conns |-> IF c \in S THEN <<>> ELSE inbox[c]]
    /\ UNCHANGED <<parts, client>>
-----------------------------------------------------------------------------
(* Accepting and stopping *)

AcceptReady(c) ==
    /\ Idle /\ acceptOp = "pending" /\ place[c] = "backlog"
    /\ acceptOp' = "done"
    /\ place' = [place EXCEPT ![c] = "socket"]
    /\ UNCHANGED <<up, accepting, signal, managed, open, op, clients>>

AcceptFails ==
    /\ Idle /\ acceptOp = "pending" /\ \E c \in Conns : place[c] = "backlog"
    /\ acceptOp' = "failed"
    /\ UNCHANGED <<up, accepting, signal, objects, clients>>

\* Mutant: the handler does not ask whether the acceptor is open.
AcceptHandlerUnchecked ==
    /\ Idle /\ acceptOp \in {"done", "failed", "aborted"}
    /\ acceptOp' = IF accepting THEN "pending" ELSE "none"
    /\ LET new == {c \in Conns : place[c] = "socket" /\ acceptOp = "done"}
       IN  /\ place' = [c \in Conns |-> IF c \in new THEN "object" ELSE place[c]]
           /\ op' = [c \in Conns |-> IF c \in new THEN "reading" ELSE op[c]]
           /\ managed' = managed \cup new
           /\ open' = open \cup new
    /\ UNCHANGED <<up, accepting, signal, clients>>

\* Mutant: no new accept after one that failed.
AcceptHandlerGivesUp ==
    /\ Idle /\ acceptOp \in {"done", "failed", "aborted"}
    /\ \/ /\ ~accepting \/ acceptOp = "failed"
          /\ acceptOp' = "none"
          /\ UNCHANGED objects
       \/ /\ accepting /\ acceptOp = "done"
          /\ acceptOp' = "pending"
          /\ LET new == {c \in Conns : place[c] = "socket"}
             IN  /\ place' = [c \in Conns |-> IF c \in new THEN "object" ELSE place[c]]
                 /\ op' = [c \in Conns |-> IF c \in new THEN "reading" ELSE op[c]]
                 /\ managed' = managed \cup new
                 /\ open' = open \cup new
    /\ UNCHANGED <<up, accepting, signal, clients>>

\* Mutant: the test of ec is the wrong way round.
AcceptHandlerInverted ==
    /\ Idle /\ acceptOp \in {"done", "failed", "aborted"}
    /\ \/ /\ ~accepting
          /\ acceptOp' = "none"
          /\ UNCHANGED objects
       \/ /\ accepting
          /\ acceptOp' = "pending"
          /\ LET new == {c \in Conns : place[c] = "socket" /\ acceptOp # "done"}
             IN  /\ place' = [c \in Conns |-> IF c \in new THEN "object" ELSE place[c]]
                 /\ op' = [c \in Conns |-> IF c \in new THEN "reading" ELSE op[c]]
                 /\ managed' = managed \cup new
                 /\ open' = open \cup new
    /\ UNCHANGED <<up, accepting, signal, clients>>

\* server::do_accept: the handler; connection_manager::start inserts the
\* connection and connection::start reads.
AcceptHandler ==
    /\ Idle /\ acceptOp \in {"done", "failed", "aborted"}
    /\ \/ /\ ~accepting
          /\ acceptOp' = "none"
          /\ UNCHANGED objects
       \/ /\ accepting
          /\ acceptOp' = "pending"
          /\ LET new == {c \in Conns : place[c] = "socket" /\ acceptOp = "done"}
             IN  /\ place' = [c \in Conns |-> IF c \in new THEN "object" ELSE place[c]]
                 /\ op' = [c \in Conns |-> IF c \in new THEN "reading" ELSE op[c]]
                 /\ managed' = managed \cup new
                 /\ open' = open \cup new
    /\ UNCHANGED <<up, accepting, signal, clients>>

\* SIGINT, SIGTERM or SIGQUIT.
Signal ==
    /\ up /\ signal = "waiting"
    /\ signal' = "raised"
    /\ UNCHANGED <<up, accepting, acceptOp, objects, clients>>

\* Closing a socket completes the operation in progress with
\* operation_aborted; one that has completed keeps its result.
Aborted(o) ==
    CASE o = "reading" -> "readAborted"
      [] o = "writing" -> "writeAborted"
      [] OTHER -> o

\* Mutant: no stop_all.
StopHandlerAcceptor ==
    /\ Idle /\ signal = "raised"
    /\ signal' = "handled"
    /\ accepting' = FALSE
    /\ acceptOp' = IF acceptOp = "pending" THEN "aborted" ELSE acceptOp
    /\ Discard({c \in Conns : place[c] = "backlog"})
    /\ UNCHANGED <<up, managed, open, op>>

\* server::do_await_stop: acceptor_.close() and connection_manager::stop_all.
StopHandler ==
    /\ Idle /\ signal = "raised"
    /\ signal' = "handled"
    /\ accepting' = FALSE
    /\ acceptOp' = IF acceptOp = "pending" THEN "aborted" ELSE acceptOp
    /\ open' = open \ managed
    /\ op' = [c \in Conns |-> IF c \in managed THEN Aborted(op[c]) ELSE op[c]]
    /\ managed' = {}
    /\ Discard({c \in Conns : place[c] = "backlog"})
    /\ UNCHANGED up

EndProcess ==
    /\ up' = FALSE /\ accepting' = FALSE
    /\ managed' = {} /\ open' = {}
    /\ op' = [c \in Conns |-> "none"]
    /\ Discard(Conns)
    /\ UNCHANGED <<acceptOp, signal>>

\* io_service::run() returns when no operation is left.
RunReturns ==
    /\ up /\ signal = "handled" /\ acceptOp = "none"
    /\ \A c \in Conns : op[c] = "none"
    /\ EndProcess
-----------------------------------------------------------------------------
(* A connection *)

\* do_read and do_write on a closed socket complete at once with an error
\* that is not operation_aborted.
DoRead(c) == op' = [op EXCEPT ![c] = IF c \in open THEN "reading" ELSE "readError"]
DoWrite(c) == op' = [op EXCEPT ![c] = IF c \in open THEN "writing" ELSE "writeError"]

ReadReady(c) ==
    /\ Idle /\ op[c] = "reading"
    /\ \/ inbox[c] # <<>> /\ op' = [op EXCEPT ![c] = "read"]
       \/ /\ inbox[c] = <<>> /\ client[c] = "closed"
          /\ op' = [op EXCEPT ![c] = "readError"]
    /\ UNCHANGED <<up, acceptor, place, managed, open, clients>>

\* Mutant: no second read for a request that is not complete.
ReadHandlerOnce(c) ==
    /\ Idle /\ op[c] = "read"
    /\ CASE Head(inbox[c]) = "part" -> op' = [op EXCEPT ![c] = "none"]
         [] Head(inbox[c]) = "call" -> op' = [op EXCEPT ![c] = "calling"]
         [] OTHER -> DoWrite(c)
    /\ inbox' = [inbox EXCEPT ![c] = Tail(@)]
    /\ UNCHANGED <<up, acceptor, place, managed, open, parts, client>>

\* connection::do_read: the handler of a read that brought a chunk.
ReadHandler(c) ==
    /\ Idle /\ op[c] = "read"
    /\ CASE Head(inbox[c]) = "part" -> DoRead(c)
         [] Head(inbox[c]) = "call" -> op' = [op EXCEPT ![c] = "calling"]
         [] OTHER -> DoWrite(c)
    /\ inbox' = [inbox EXCEPT ![c] = Tail(@)]
    /\ UNCHANGED <<up, acceptor, place, managed, open, parts, client>>

\* executeCmd returns, with an answer or without: there is a reply to write.
CallReturns(c) ==
    /\ op[c] = "calling"
    /\ DoWrite(c)
    /\ UNCHANGED <<up, acceptor, place, managed, open, clients>>

\* The name of the data server's host does not resolve: createClient throws
\* out of the handler and of run().
CallThrows(c) == op[c] = "calling" /\ EndProcess

WriteReady(c) ==
    /\ Idle /\ op[c] = "writing"
    /\ \/ /\ client[c] # "closed"
          /\ op' = [op EXCEPT ![c] = "written"]
          /\ client' = [client EXCEPT ![c] = "open"]
       \/ /\ client[c] = "closed"
          /\ op' = [op EXCEPT ![c] = "writeError"]
          /\ UNCHANGED client
    /\ UNCHANGED <<up, acceptor, place, managed, open, inbox, parts>>

\* Mutant: the connection is closed and not erased.
LastHandlerKeeping(c) ==
    /\ Idle /\ op[c] \in Queued \ {"read"}
    /\ open' = open \ {c}
    /\ op' = [op EXCEPT ![c] = "none"]
    /\ Discard({c})
    /\ UNCHANGED <<up, acceptor, managed>>

\* The last handler of a connection: connection_manager::stop erases and
\* closes it, except after operation_aborted; then nothing refers to it.
LastHandler(c) ==
    /\ Idle /\ op[c] \in Queued \ {"read"}
    /\ IF op[c] \in {"readAborted", "writeAborted"}
       THEN UNCHANGED <<managed, open>>
       ELSE managed' = managed \ {c} /\ open' = open \ {c}
    /\ op' = [op EXCEPT ![c] = "none"]
    /\ Discard({c})
    /\ UNCHANGED <<up, acceptor>>
-----------------------------------------------------------------------------
(* The browsers *)

Connect(c) ==
    /\ accepting /\ client[c] = "closed" /\ place[c] = "none"
    /\ client' = [client EXCEPT ![c] = "open"]
    /\ place' = [place EXCEPT ![c] = "backlog"]
    /\ parts' = [parts EXCEPT ![c] = 0]
    /\ UNCHANGED <<up, acceptor, managed, open, op, inbox>>

SendPart(c) ==
    /\ client[c] = "open" /\ place[c] # "none" /\ parts[c] < MaxParts
    /\ inbox' = [inbox EXCEPT ![c] = Append(@, "part")]
    /\ parts' = [parts EXCEPT ![c] = @ + 1]
    /\ UNCHANGED <<up, acceptor, objects, client>>

SendLast(c, chunk) ==
    /\ client[c] = "open" /\ place[c] # "none"
    /\ client' = [client EXCEPT ![c] = "waiting"]
    /\ inbox' = [inbox EXCEPT ![c] = Append(@, chunk)]
    /\ UNCHANGED <<up, acceptor, objects, parts>>

\* A browser leaves, or sees that the server has closed.
Hangup(c) ==
    /\ client[c] # "closed"
    /\ client' = [client EXCEPT ![c] = "closed"]
    /\ UNCHANGED <<up, acceptor, objects, inbox, parts>>

\* What the server does with a connection unless the browser holds it up.
ConnectionStep(c) ==
    \/ ReadReady(c)
    \/ ReadHandler(c)
    \/ CallReturns(c)
    \/ CallThrows(c)
    \/ LastHandler(c)

Next ==
    \/ AcceptFails
    \/ AcceptHandler
    \/ Signal
    \/ StopHandler
    \/ RunReturns
    \/ \E c \in Conns :
          \/ AcceptReady(c)
          \/ ConnectionStep(c)
          \/ WriteReady(c)
          \/ Connect(c)
          \/ SendPart(c)
          \/ \E chunk \in Chunk \ {"part"} : SendLast(c, chunk)
          \/ Hangup(c)

Spec == Init /\ [][Next]_vars

\* The io_service runs what is queued in its order and asks the kernel in
\* between, whatever other connections do; executeCmd returns, because the
\* data server answers or closes.  Browsers owe nothing: they may stop in
\* the middle of a request or never read the reply.
ServerFairness ==
    /\ SF_vars(AcceptHandler) /\ SF_vars(StopHandler) /\ WF_vars(RunReturns)
    /\ \A c \in Conns : SF_vars(AcceptReady(c)) /\ SF_vars(ConnectionStep(c))

\* A browser reads its reply and notices a closed connection.
BrowserFairness ==
    \A c \in Conns : SF_vars(WriteReady(c)) /\ WF_vars(place[c] = "none" /\ Hangup(c))

ServerSpec == Spec /\ ServerFairness
-----------------------------------------------------------------------------
\* connection_manager owns all live connections: one that is not in
\* connections_ has been closed, so stop_all misses none, and one that is
\* in it still has a handler to come that will erase it, so none leaks.
LiveIsManaged ==
    /\ open = managed
    /\ \A c \in managed : op[c] # "none"

\* Nothing outlives the stop: when its handler has run no connection is
\* open and none is opened later, although accepts and reads that completed
\* before it have handlers that run after it.
StoppedIsClosed == signal = "handled" => open = {} /\ managed = {}

\* After the stop nothing is left that a browser could hold up: no read and no
\* write is outstanding, although handlers that were queued before the stop
\* start new ones on sockets it has closed.
StoppedIsQuiet ==
    signal = "handled" => \A c \in Conns : op[c] \notin {"reading", "writing"}

\* The stop is complete once its handler has run.
StopIsComplete == StoppedIsClosed /\ StoppedIsQuiet

\* server.cpp:52: until the stop there is always an accept outstanding, so
\* run() does not return early.
AcceptIsOutstanding == up /\ signal # "handled" => acceptOp # "none"

\* A signal ends run(), whatever the browsers do: one that has sent half a
\* request or does not read its reply cannot hold the server up.
StopEnds == signal = "raised" ~> ~up

\* As long as browsers read what they are sent, whoever sends a whole request
\* gets a reply or sees the connection closed.
NobodyWaitsForever ==
    BrowserFairness => \A c \in Conns : client[c] = "waiting" ~> client[c] # "waiting"
=============================================================================
