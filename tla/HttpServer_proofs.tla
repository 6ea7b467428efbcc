-------------------------- MODULE HttpServer_proofs --------------------------
(***************************************************************************)
(* The invariants of the web server, proved for any set of connections and *)
(* any number of parts.  IInv, inductive, adds to them what relates the    *)
(* acceptor to the signal and a connection's operation to its object.      *)
(***************************************************************************)
EXTENDS HttpServer, TLAPS

\* The acceptor is closed by the signal's handler and by nothing else.
AcceptorFollowsSignal == up => (accepting <=> signal # "handled")

\* An accept is started, and so ends without a connection, only when the one
\* accepted before has been taken out of socket_.
SocketIsFree ==
    acceptOp \in {"pending", "failed", "aborted"} => \A c \in Conns : place[c] # "socket"

\* A connection object is kept alive by the one operation that refers to it.
ObjectHasOp == \A c \in Conns : place[c] = "object" <=> op[c] # "none"

\* Only what stop_all has closed, and erased, completes as aborted.
AbortedIsErased ==
    \A c \in Conns : op[c] \in {"readAborted", "writeAborted"} => c \notin managed

\* A read that succeeded has brought something.
ReadHasChunk == \A c \in Conns : op[c] = "read" => inbox[c] # <<>>

\* An operation is in progress on an open socket only.
WaitsOnOpen == \A c \in Conns : op[c] \in {"reading", "writing"} => c \in open

IInv ==
    /\ TypeOK
    /\ LiveIsManaged
    /\ StoppedIsClosed
    /\ AcceptIsOutstanding
    /\ AcceptorFollowsSignal
    /\ SocketIsFree
    /\ ObjectHasOp
    /\ AbortedIsErased
    /\ ReadHasChunk
    /\ WaitsOnOpen
-----------------------------------------------------------------------------
\* The constructor leaves the server in the invariant.
LEMMA InitIInv == Init => IInv
<1> SUFFICES ASSUME Init PROVE IInv
  OBVIOUS
<1>1. <<>> \in Seq(Chunk) /\ 0 \in 0..MaxParts
  BY PartsAssumption
<1>2. TypeOK
  BY <1>1 DEF Init, TypeOK
<1>3. /\ LiveIsManaged /\ StoppedIsClosed /\ AcceptIsOutstanding
      /\ AcceptorFollowsSignal /\ SocketIsFree /\ ObjectHasOp /\ AbortedIsErased /\ ReadHasChunk
      /\ WaitsOnOpen
  BY DEF Init, LiveIsManaged, StoppedIsClosed, AcceptIsOutstanding,
     AcceptorFollowsSignal, SocketIsFree, ObjectHasOp, AbortedIsErased, ReadHasChunk, WaitsOnOpen
<1> QED
  BY <1>2, <1>3 DEF IInv

\* What is lost of discarded connections leaves the types as they are.
LEMMA DiscardKeepsTypes ==
  ASSUME TypeOK, NEW S, Discard(S)
  PROVE  /\ place' \in [Conns -> {"none", "backlog", "socket", "object"}]
         /\ inbox' \in [Conns -> Seq(Chunk)]
         /\ parts' \in [Conns -> 0..MaxParts]
         /\ client' \in [Conns -> {"closed", "open", "waiting"}]
<1>1. <<>> \in Seq(Chunk)
  OBVIOUS
<1> QED
  BY <1>1 DEF Discard, TypeOK

\* The end of the process, by the return of run() or by an exception.
LEMMA EndIInv == IInv /\ EndProcess => IInv'
<1> SUFFICES ASSUME IInv, EndProcess PROVE IInv'
  OBVIOUS
<1>1. TypeOK'
  <2>1. \A c \in Conns : place'[c] # "socket"
    BY DEF EndProcess, Discard
  <2> QED
    BY <2>1, DiscardKeepsTypes DEF EndProcess, IInv, TypeOK
<1>2. /\ LiveIsManaged' /\ StoppedIsClosed' /\ AcceptIsOutstanding'
      /\ AcceptorFollowsSignal' /\ AbortedIsErased' /\ ReadHasChunk'
      /\ WaitsOnOpen'
  BY DEF EndProcess, LiveIsManaged, StoppedIsClosed, AcceptIsOutstanding,
     AcceptorFollowsSignal, AbortedIsErased, ReadHasChunk, WaitsOnOpen
<1>3. ObjectHasOp' /\ SocketIsFree'
  BY DEF EndProcess, Discard, ObjectHasOp, SocketIsFree
<1> QED
  BY <1>1, <1>2, <1>3 DEF IInv

\* What closing does to an operation: it stays one of the known states, and
\* only one that was in progress becomes aborted.
LEMMA AbortedKeeps ==
  ASSUME NEW o \in {"none", "reading", "writing", "calling"} \cup Queued
  PROVE  /\ Aborted(o) \in {"none", "calling"} \cup Queued
         /\ Aborted(o) = "none" <=> o = "none"
         /\ Aborted(o) = "read" <=> o = "read"
         /\ Aborted(o) \notin {"reading", "writing"}
  BY DEF Aborted, Queued

\* The stop: acceptor_.close() and stop_all together keep the invariant.
LEMMA StopIInv == IInv /\ StopHandler => IInv'
<1> SUFFICES ASSUME IInv, StopHandler PROVE IInv'
  OBVIOUS
<1>1. \A c \in Conns : /\ Aborted(op[c]) \in {"none", "calling"} \cup Queued
                       /\ Aborted(op[c]) = "none" <=> op[c] = "none"
                       /\ Aborted(op[c]) = "read" <=> op[c] = "read"
                       /\ Aborted(op[c]) \notin {"reading", "writing"}
  BY AbortedKeeps DEF IInv, TypeOK
<1>2. TypeOK'
  <2>1. \A c \in Conns : place'[c] = "socket" => place[c] = "socket"
    BY DEF StopHandler, Discard
  <2> QED
    BY <1>1, <2>1, DiscardKeepsTypes DEF StopHandler, IInv, TypeOK
<1>3. LiveIsManaged' /\ StoppedIsClosed' /\ AcceptIsOutstanding' /\ AbortedIsErased'
  BY DEF StopHandler, Discard, IInv, TypeOK, LiveIsManaged, StoppedIsClosed,
         AcceptIsOutstanding, AbortedIsErased
<1>4. AcceptorFollowsSignal' /\ SocketIsFree'
  BY DEF StopHandler, Discard, IInv, AcceptorFollowsSignal, SocketIsFree
<1>5. ObjectHasOp' /\ ReadHasChunk'
  BY <1>1 DEF StopHandler, Discard, IInv, TypeOK, ObjectHasOp, ReadHasChunk
<1>6. WaitsOnOpen'
  BY <1>1 DEF StopHandler, IInv, TypeOK, LiveIsManaged, WaitsOnOpen
<1> QED
  BY <1>2, <1>3, <1>4, <1>5, <1>6 DEF IInv

\* The handler of an accept starts a connection only while the acceptor is
\* open, so only before the stop.
LEMMA AcceptIInv == IInv /\ AcceptHandler => IInv'
<1> SUFFICES ASSUME IInv, AcceptHandler PROVE IInv'
  OBVIOUS
<1>1. CASE ~accepting
  BY <1>1 DEF AcceptHandler, Idle, objects, clients, IInv, TypeOK, LiveIsManaged, StoppedIsClosed,
         AcceptIsOutstanding, AcceptorFollowsSignal, SocketIsFree, ObjectHasOp, AbortedIsErased,
         ReadHasChunk, WaitsOnOpen
<1>2. CASE accepting
  <2> DEFINE new == {c \in Conns : place[c] = "socket" /\ acceptOp = "done"}
  <2>1. /\ up /\ signal # "handled" /\ acceptOp' = "pending"
        /\ place' = [c \in Conns |-> IF c \in new THEN "object" ELSE place[c]]
        /\ op' = [c \in Conns |-> IF c \in new THEN "reading" ELSE op[c]]
        /\ managed' = managed \cup new
        /\ open' = open \cup new
        /\ UNCHANGED <<up, accepting, signal, inbox, parts, client>>
    BY <1>2 DEF AcceptHandler, Idle, IInv, AcceptorFollowsSignal, clients
  <2>2. \A c \in new : c \in Conns /\ op[c] = "none"
    BY DEF IInv, ObjectHasOp
  <2> HIDE DEF new
  <2>3. TypeOK'
    BY <2>1, <2>2 DEF IInv, TypeOK
  <2>4. LiveIsManaged' /\ StoppedIsClosed' /\ AcceptIsOutstanding' /\ AcceptorFollowsSignal'
    BY <2>1, <2>2 DEF IInv, TypeOK, LiveIsManaged, StoppedIsClosed, AcceptIsOutstanding,
       AcceptorFollowsSignal
  <2>5. ObjectHasOp' /\ AbortedIsErased' /\ ReadHasChunk' /\ WaitsOnOpen'
    BY <2>1, <2>2 DEF IInv, TypeOK, ObjectHasOp, AbortedIsErased, ReadHasChunk, WaitsOnOpen
  <2>6. SocketIsFree'
    <3>1. acceptOp # "done" => \A c \in Conns : place[c] # "socket"
      BY <1>2 DEF AcceptHandler, IInv, SocketIsFree
    <3> QED
      BY <2>1, <3>1 DEF new, SocketIsFree
  <2> QED
    BY <2>3, <2>4, <2>5, <2>6 DEF IInv
<1> QED
  BY <1>1, <1>2

\* What only touches the acceptor or a browser.
LEMMA OutsideIInv ==
  ASSUME NEW c \in Conns, IInv,
         \/ AcceptFails \/ AcceptReady(c) \/ Connect(c) \/ Hangup(c)
  PROVE  IInv'
<1>1. CASE AcceptFails
  BY <1>1 DEF AcceptFails, Idle, objects, clients, IInv, TypeOK, LiveIsManaged, StoppedIsClosed,
         AcceptIsOutstanding, AcceptorFollowsSignal, SocketIsFree, ObjectHasOp, AbortedIsErased,
         ReadHasChunk, WaitsOnOpen
<1>2. CASE AcceptReady(c)
  BY <1>2 DEF AcceptReady, Idle, clients, IInv, TypeOK, LiveIsManaged, StoppedIsClosed,
         AcceptIsOutstanding, AcceptorFollowsSignal, SocketIsFree, ObjectHasOp, AbortedIsErased,
         ReadHasChunk, WaitsOnOpen
<1>3. CASE Connect(c)
  BY <1>3, PartsAssumption DEF Connect, acceptor, IInv, TypeOK, LiveIsManaged, StoppedIsClosed,
         AcceptIsOutstanding, AcceptorFollowsSignal, SocketIsFree, ObjectHasOp, AbortedIsErased,
         ReadHasChunk, WaitsOnOpen
<1>4. CASE Hangup(c)
  BY <1>4 DEF Hangup, acceptor, objects, IInv, TypeOK, LiveIsManaged, StoppedIsClosed,
         AcceptIsOutstanding, AcceptorFollowsSignal, SocketIsFree, ObjectHasOp, AbortedIsErased,
         ReadHasChunk, WaitsOnOpen
<1> QED
  BY <1>1, <1>2, <1>3, <1>4

\* A browser adds to what there is to read.
LEMMA SendIInv ==
  ASSUME NEW c \in Conns, IInv, SendPart(c) \/ \E chunk \in Chunk : SendLast(c, chunk)
  PROVE  IInv'
<1>1. PICK chunk \in Chunk : inbox' = [inbox EXCEPT ![c] = Append(@, chunk)]
  BY DEF SendPart, SendLast, Chunk
<1>2. /\ parts' \in [Conns -> 0..MaxParts]
      /\ client' \in [Conns -> {"closed", "open", "waiting"}]
      /\ UNCHANGED <<up, accepting, acceptOp, signal, place, managed, open, op>>
  <2>1. CASE SendPart(c)
    <3>1. parts[c] + 1 \in 0..MaxParts
      BY <2>1, PartsAssumption DEF SendPart, IInv, TypeOK
    <3> QED
      BY <2>1, <3>1 DEF SendPart, IInv, TypeOK, acceptor, objects
  <2>2. CASE \E m \in Chunk : SendLast(c, m)
    BY <2>2 DEF SendLast, IInv, TypeOK, acceptor, objects
  <2> QED
    BY <2>1, <2>2
<1>3. /\ inbox' \in [Conns -> Seq(Chunk)]
      /\ \A d \in Conns : inbox[d] # <<>> => inbox'[d] # <<>>
  <2>1. Append(inbox[c], chunk) \in Seq(Chunk) /\ Append(inbox[c], chunk) # <<>>
    <3>1. inbox[c] \in Seq(Chunk)
      BY DEF IInv, TypeOK
    <3>2. Len(Append(inbox[c], chunk)) > 0
      BY <3>1
    <3> QED
      BY <3>1, <3>2
  <2> QED
    BY <1>1, <2>1 DEF IInv, TypeOK
<1>4. TypeOK'
  BY <1>2, <1>3 DEF IInv, TypeOK
<1>5. ReadHasChunk'
  BY <1>2, <1>3 DEF IInv, ReadHasChunk
<1> QED
  BY <1>2, <1>4, <1>5 DEF IInv, LiveIsManaged, StoppedIsClosed, AcceptIsOutstanding,
     AcceptorFollowsSignal, SocketIsFree, ObjectHasOp, AbortedIsErased, WaitsOnOpen

\* The steps of a connection that goes on: its operation is replaced by
\* another one, and is not aborted by that.
LEMMA GoesOnIInv ==
  ASSUME NEW c \in Conns, IInv,
         NEW new \in {"reading", "writing", "calling", "read", "readError", "written", "writeError"},
         op' = [op EXCEPT ![c] = new], op[c] # "none",
         new = "read" => inbox'[c] # <<>>,
         new \in {"reading", "writing"} => c \in open,
         inbox' \in [Conns -> Seq(Chunk)],
         \A d \in Conns \ {c} : inbox'[d] = inbox[d],
         client' \in [Conns -> {"closed", "open", "waiting"}],
         UNCHANGED <<up, accepting, acceptOp, signal, place, managed, open, parts>>
  PROVE  IInv'
<1>1. TypeOK'
  BY DEF IInv, TypeOK, Queued
<1>2. LiveIsManaged' /\ StoppedIsClosed' /\ AcceptIsOutstanding' /\ AcceptorFollowsSignal' /\ SocketIsFree'
  BY DEF IInv, TypeOK, LiveIsManaged, StoppedIsClosed, AcceptIsOutstanding,
     AcceptorFollowsSignal, SocketIsFree
<1>3. ObjectHasOp' /\ AbortedIsErased' /\ ReadHasChunk' /\ WaitsOnOpen'
  BY DEF IInv, TypeOK, ObjectHasOp, AbortedIsErased, ReadHasChunk, WaitsOnOpen
<1> QED
  BY <1>1, <1>2, <1>3 DEF IInv

\* What a connection does keeps the invariant: the first four go on, an
\* exception ends the process, the last handler lets go of the object.
LEMMA ConnectionIInv ==
  ASSUME NEW c \in Conns, IInv, ConnectionStep(c) \/ WriteReady(c)
  PROVE  IInv'
<1>1. CASE ReadReady(c)
  <2>1. PICK new \in {"read", "readError"} :
           op' = [op EXCEPT ![c] = new] /\ (new = "read" => inbox[c] # <<>>)
    BY <1>1 DEF ReadReady
  <2> QED
    BY <1>1, <2>1, GoesOnIInv DEF ReadReady, acceptor, clients, IInv, TypeOK
<1>2. CASE ReadHandler(c)
  <2>1. inbox[c] \in Seq(Chunk) /\ inbox[c] # <<>>
    BY <1>2 DEF ReadHandler, IInv, TypeOK, ReadHasChunk
  <2>2. Tail(inbox[c]) \in Seq(Chunk)
    BY <2>1
  <2>3. inbox' \in [Conns -> Seq(Chunk)] /\ \A d \in Conns \ {c} : inbox'[d] = inbox[d]
    BY <1>2, <2>2 DEF ReadHandler, IInv, TypeOK
  <2>4. PICK new \in {"reading", "writing", "calling", "readError", "writeError"} :
           op' = [op EXCEPT ![c] = new] /\ (new \in {"reading", "writing"} => c \in open)
    BY <1>2 DEF ReadHandler, DoRead, DoWrite
  <2> QED
    BY <1>2, <2>3, <2>4, GoesOnIInv DEF ReadHandler, acceptor, IInv, TypeOK
<1>3. CASE CallReturns(c)
  <2>1. PICK new \in {"writing", "writeError"} :
           op' = [op EXCEPT ![c] = new] /\ (new = "writing" => c \in open)
    BY <1>3 DEF CallReturns, DoWrite
  <2> QED
    BY <1>3, <2>1, GoesOnIInv DEF CallReturns, acceptor, clients, IInv, TypeOK
<1>4. CASE WriteReady(c)
  <2>1. PICK new \in {"written", "writeError"} : op' = [op EXCEPT ![c] = new]
    BY <1>4 DEF WriteReady
  <2>2. client' \in [Conns -> {"closed", "open", "waiting"}]
    BY <1>4 DEF WriteReady, IInv, TypeOK
  <2> QED
    BY <1>4, <2>1, <2>2, GoesOnIInv DEF WriteReady, acceptor, IInv, TypeOK
<1>5. CASE CallThrows(c)
  BY <1>5, EndIInv DEF CallThrows
<1>6. CASE LastHandler(c)
  <2>1. /\ managed' \subseteq managed /\ open' = managed'
        /\ c \notin managed'
        /\ op' = [op EXCEPT ![c] = "none"]
        /\ place' = [d \in Conns |-> IF d \in {c} THEN "none" ELSE place[d]]
        /\ inbox' = [d \in Conns |-> IF d \in {c} THEN <<>> ELSE inbox[d]]
        /\ UNCHANGED <<up, accepting, acceptOp, signal, parts, client>>
    BY <1>6 DEF LastHandler, Discard, acceptor, IInv, LiveIsManaged, AbortedIsErased
  <2>2. TypeOK'
    BY <2>1 DEF IInv, TypeOK
  <2>3. LiveIsManaged' /\ StoppedIsClosed' /\ AcceptIsOutstanding' /\ AcceptorFollowsSignal' /\ SocketIsFree'
    BY <2>1 DEF IInv, TypeOK, LiveIsManaged, StoppedIsClosed, AcceptIsOutstanding,
       AcceptorFollowsSignal, SocketIsFree
  <2>4. ObjectHasOp' /\ AbortedIsErased' /\ ReadHasChunk' /\ WaitsOnOpen'
    <3>1. \A d \in Conns \ {c} : d \in open => d \in open'
      BY <1>6 DEF LastHandler
    <3> QED
      BY <2>1, <3>1 DEF IInv, TypeOK, ObjectHasOp, AbortedIsErased, ReadHasChunk, WaitsOnOpen
  <2> QED
    BY <2>2, <2>3, <2>4 DEF IInv
<1> QED
  BY <1>1, <1>2, <1>3, <1>4, <1>5, <1>6 DEF ConnectionStep

\* Every step of the server, the kernel and the browsers keeps the invariant.
LEMMA NextIInv == IInv /\ [Next]_vars => IInv'
<1> SUFFICES ASSUME IInv, [Next]_vars PROVE IInv'
  OBVIOUS
<1>1. CASE UNCHANGED vars
  BY <1>1 DEF vars, IInv, TypeOK, LiveIsManaged, StoppedIsClosed, AcceptIsOutstanding,
     AcceptorFollowsSignal, SocketIsFree, ObjectHasOp, AbortedIsErased, ReadHasChunk, WaitsOnOpen
<1>2. CASE AcceptHandler
  BY <1>2, AcceptIInv
<1>3. CASE StopHandler
  BY <1>3, StopIInv
<1>4. CASE RunReturns
  BY <1>4, EndIInv DEF RunReturns
<1>5. CASE AcceptFails
  <2>1. PICK c \in Conns : TRUE
    BY <1>5 DEF AcceptFails
  <2> QED
    BY <1>5, <2>1, OutsideIInv
<1>6. CASE Signal
  BY <1>6 DEF Signal, objects, clients, IInv, TypeOK, LiveIsManaged, StoppedIsClosed,
     AcceptIsOutstanding, AcceptorFollowsSignal, SocketIsFree, ObjectHasOp, AbortedIsErased, ReadHasChunk,
     WaitsOnOpen
<1>7. ASSUME NEW c \in Conns, AcceptReady(c) \/ Connect(c) \/ Hangup(c) PROVE IInv'
  BY <1>7, OutsideIInv
<1>8. ASSUME NEW c \in Conns, ConnectionStep(c) \/ WriteReady(c) PROVE IInv'
  BY <1>8, ConnectionIInv
<1>9. ASSUME NEW c \in Conns, SendPart(c) \/ \E chunk \in Chunk \ {"part"} : SendLast(c, chunk)
      PROVE IInv'
  BY <1>9, SendIInv
<1> QED
  BY <1>1, <1>2, <1>3, <1>4, <1>5, <1>6, <1>7, <1>8, <1>9 DEF Next
-----------------------------------------------------------------------------
\* Every reachable state satisfies the inductive invariant.
LEMMA Invariance == Spec => []IInv
  BY InitIInv, NextIInv, PTL DEF Spec

\* The server's variables keep their types for any set of connections.
THEOREM TypeCorrect == Spec => []TypeOK
  BY Invariance, PTL DEF IInv

\* connection_manager owns all live connections, however accepts, closes
\* and aborted operations interleave.
THEOREM LiveManaged == Spec => []LiveIsManaged
  BY Invariance, PTL DEF IInv

\* After the handler of the signal no connection is open or is opened, and no
\* read or write that a browser could hold up is in progress: nothing but
\* handlers stands between it and the end of run().
THEOREM StopCompletes == Spec => []StopIsComplete
<1>1. IInv => StopIsComplete
  BY DEF IInv, StoppedIsClosed, WaitsOnOpen, StoppedIsQuiet, StopIsComplete
<1> QED
  BY <1>1, Invariance, PTL

\* Until the stop an accept is outstanding: run() does not return early.
THEOREM AcceptOutstanding == Spec => []AcceptIsOutstanding
  BY Invariance, PTL DEF IInv
=============================================================================
